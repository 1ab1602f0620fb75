---------------------------- MODULE TroveManager ----------------------------
(***************************************************************************)
(* TroveManager.sol with the ledgers it writes to (ActivePool,             *)
(* DefaultPool, CollSurplusPool, the gas pool and the ARTH token):         *)
(* stakes and redistribution, liquidation in normal and recovery mode, and *)
(* redemption.                                                             *)
(*                                                                         *)
(* A transaction runs alone, but its loop over troves is modelled one      *)
(* trove at a time: `tx`, `totals` and `redemption` are the memory         *)
(* variables of the transaction under way, and `committed` is what the EVM *)
(* restores if it reverts, which it may do at any point (a failed require, *)
(* an exceeded fee limit, no gas left).                                    *)
(***************************************************************************)
EXTENDS LiquityMath, FiniteSets, SequencesExt

CONSTANTS Borrowers,        \* addresses that may own a trove
          NONE,             \* address(0)
          MaxTransactions   \* bound on the transactions that change a trove

ASSUME BorrowersAssumption == IsFiniteSet(Borrowers) /\ NONE \notin Borrowers
ASSUME BoundAssumption == MaxTransactions \in Nat

VARIABLES
    Troves, rewardSnapshots,    \* mappings by owner
    TroveOwners,                \* array of owners, in no particular order
    sortedTroves,               \* SortedTroves: owners from head to tail
    totalStakes, totalStakesSnapshot, totalCollateralSnapshot,
    L,                          \* [ETH |-> L_ETH, LUSDDebt |-> L_LUSDDebt]
    lastError,                  \* last{ETH,LUSDDebt}Error_Redistribution
    activePool, defaultPool,    \* [ETH, LUSDDebt] of the two pools
    surplusPool,                \* CollSurplusPool: [ETH, balances]
    arth,                       \* ARTH held by all users, the gas pool, the Stability Pool
    price,                      \* what PriceFeed.fetchPrice returns
    tx, totals, redemption,     \* the transaction under way
    committed,                  \* the ledger before it
    transactions                \* history: number of transactions so far

Ledger == [Troves |-> Troves, rewardSnapshots |-> rewardSnapshots,
    TroveOwners |-> TroveOwners, sortedTroves |-> sortedTroves,
    totalStakes |-> totalStakes, totalStakesSnapshot |-> totalStakesSnapshot,
    totalCollateralSnapshot |-> totalCollateralSnapshot, L |-> L,
    lastError |-> lastError, activePool |-> activePool, defaultPool |-> defaultPool,
    surplusPool |-> surplusPool, arth |-> arth]

snapshots == <<totalStakesSnapshot, totalCollateralSnapshot>>
rewards == <<L, lastError>>
book == <<Troves, rewardSnapshots, TroveOwners, sortedTroves, totalStakes, snapshots, rewards>>
pools == <<activePool, defaultPool, surplusPool, arth>>
local == <<tx, totals, redemption>>
vars == <<book, pools, price, local, committed, transactions>>

-----------------------------------------------------------------------------
(* The memory of a transaction *)

IdleTx == [op |-> "idle", user |-> NONE, first |-> NONE, recovery |-> FALSE,
           back |-> FALSE, sp |-> 0, sysDebt |-> 0, sysColl |-> 0]
NoTotals == [CollInSequence |-> 0, DebtInSequence |-> 0, CollGasCompensation |-> 0,
             LUSDGasCompensation |-> 0, DebtToOffset |-> 0, CollToSendToSP |-> 0,
             DebtToRedistribute |-> 0, CollToRedistribute |-> 0, CollSurplus |-> 0]
NoRedemption == [remainingLUSD |-> 0, totalLUSDToRedeem |-> 0, totalETHDrawn |-> 0]

Idle == tx.op = "idle"
Sequence == tx.op = "sequence"
Liquidating == tx.op \in {"sequence", "batch"}
Redeeming == tx.op = "redemption"

\* A new transaction, and one that ends within the step that starts it.
Begin ==
    /\ Idle
    /\ transactions < MaxTransactions
    /\ transactions' = transactions + 1

Commit == committed' = Ledger'
Return ==
    /\ tx' = IdleTx /\ totals' = NoTotals /\ redemption' = NoRedemption
    /\ UNCHANGED <<price, transactions>>
    /\ Commit

-----------------------------------------------------------------------------
(* Amounts and pools.  SafeMath reverts on underflow: Covers guards Minus. *)

Amount(eth, debt) == [ETH |-> eth, LUSDDebt |-> debt]
Plus(p, q) == Amount(p.ETH + q.ETH, p.LUSDDebt + q.LUSDDebt)
Minus(p, q) == Amount(p.ETH - q.ETH, p.LUSDDebt - q.LUSDDebt)
Covers(p, q) == p.ETH >= q.ETH /\ p.LUSDDebt >= q.LUSDDebt

EntireSystemColl == activePool.ETH + defaultPool.ETH
EntireSystemDebt == activePool.LUSDDebt + defaultPool.LUSDDebt
TCR == ComputeCR(EntireSystemColl, EntireSystemDebt, price)
RecoveryMode == TCR < CCR

-----------------------------------------------------------------------------
(* Pending rewards and stakes *)

Active(b) == Troves[b].status = "active"

\* getPendingETHReward, getPendingLUSDDebtReward
Pending(b) ==
    IF Active(b)
    THEN Amount(
           (Troves[b].stake * (L.ETH - rewardSnapshots[b].ETH)) \div DECIMAL_PRECISION,
           (Troves[b].stake * (L.LUSDDebt - rewardSnapshots[b].LUSDDebt)) \div DECIMAL_PRECISION)
    ELSE Amount(0, 0)

Entire(b) == Plus(Amount(Troves[b].coll, Troves[b].debt), Pending(b))
CurrentICR(b) == ComputeCR(Entire(b).ETH, Entire(b).LUSDDebt, price)
NominalICR(b) == ComputeNominalCR(Entire(b).ETH, Entire(b).LUSDDebt)

\* Only the collateral sum is looked at.
HasPendingRewards(b) == Active(b) /\ rewardSnapshots[b].ETH < L.ETH

\* What _applyPendingRewards moves from the default to the active pool, and
\* the trove and snapshot it leaves.
MutApplied(b) == Amount(0, 0)   \* broken: the snapshot is taken before the rewards are read
Applied(b) == IF HasPendingRewards(b) THEN Pending(b) ELSE Amount(0, 0)
AppliedTrove(b) == [Troves[b] EXCEPT !.coll = @ + Applied(b).ETH,
                                     !.debt = @ + Applied(b).LUSDDebt]
MutAppliedSnapshot(b) == rewardSnapshots[b]     \* broken: rewards stay pending
AppliedSnapshot(b) == IF HasPendingRewards(b) THEN L ELSE rewardSnapshots[b]

\* _computeNewStake, after its assertion.
StakeDefined == totalCollateralSnapshot = 0 \/ totalStakesSnapshot > 0
ComputeNewStake(coll) ==
    IF totalCollateralSnapshot = 0 THEN coll
    ELSE (coll * totalStakesSnapshot) \div totalCollateralSnapshot

-----------------------------------------------------------------------------
(* The owners array and the sorted list *)

Position(b) == CHOOSE i \in DOMAIN sortedTroves : sortedTroves[i] = b
\* getPrev: the neighbour towards the head.
GetPrev(b) == IF Position(b) = 1 THEN NONE ELSE sortedTroves[Position(b) - 1]

Unlisted(b) == RemoveAt(sortedTroves, Position(b))

\* SortedTroves.insert: any place between neighbours whose ratios enclose n,
\* whichever of them the hints lead to (module SortedTroves).
Insertions(s, b, n) ==
    { InsertAt(s, i, b) : i \in { k \in 1..(Len(s) + 1) :
        /\ n > 0
        /\ k > 1 => NominalICR(s[k - 1]) >= n
        /\ k <= Len(s) => n >= NominalICR(s[k]) } }

AddTroveOwner(b) == Append(TroveOwners, b)

\* _removeTroveOwner: the last owner takes the free place.
LastOwner == Last(TroveOwners)
RemoveTroveOwner(b) ==
    [k \in 1..(Len(TroveOwners) - 1) |->
        IF k = Troves[b].arrayIndex + 1 THEN LastOwner ELSE TroveOwners[k]]

MutClosed(b, status) ==     \* broken: the owner that moved keeps its old index
    [Troves EXCEPT ![b].status = status, ![b].coll = 0, ![b].debt = 0, ![b].stake = 0]
Closed(b, status) ==
    [x \in Borrowers |->
       IF x = b THEN [Troves[b] EXCEPT !.status = status, !.coll = 0, !.debt = 0, !.stake = 0]
       ELSE IF x = LastOwner THEN [Troves[x] EXCEPT !.arrayIndex = Troves[b].arrayIndex]
       ELSE Troves[x]]

MutTotalStakesWithout(b) == totalStakes     \* broken: the stake is not removed
TotalStakesWithout(b) == totalStakes - Troves[b].stake

\* _removeStake, then _closeTrove.
CloseTrove(b, status) ==
    /\ Len(TroveOwners) > 1 /\ Len(sortedTroves) > 1
    /\ totalStakes >= Troves[b].stake
    /\ totalStakes' = TotalStakesWithout(b)
    /\ Troves' = Closed(b, status)
    /\ rewardSnapshots' = [rewardSnapshots EXCEPT ![b] = Amount(0, 0)]
    /\ TroveOwners' = RemoveTroveOwner(b)
    /\ sortedTroves' = Unlisted(b)

-----------------------------------------------------------------------------
(* Liquidation: the values of one trove *)

MutOffset(debt, coll, sp) ==    \* broken: _min is missing
    IF sp > 0 THEN Amount((coll * sp) \div debt, sp) ELSE Amount(0, 0)
Offset(debt, coll, sp) ==
    LET off == Min2(debt, sp)
        toSP == (coll * off) \div debt
    IN  IF sp > 0 THEN Amount(toSP, off) ELSE Amount(0, 0)

\* As much as the Stability Pool covers is offset, the rest redistributed.
FullValues(b, sp) ==
    LET all == Entire(b)
        gas == CollGasCompensation(all.ETH)
        off == Offset(all.LUSDDebt, all.ETH - gas, sp)
    IN  [NoTotals EXCEPT !.CollInSequence = all.ETH, !.DebtInSequence = all.LUSDDebt,
           !.CollGasCompensation = gas, !.LUSDGasCompensation = LUSD_GAS_COMPENSATION,
           !.DebtToOffset = off.LUSDDebt, !.CollToSendToSP = off.ETH,
           !.DebtToRedistribute = all.LUSDDebt - off.LUSDDebt,
           !.CollToRedistribute = all.ETH - gas - off.ETH]

\* All the debt is offset at MCR; the owner keeps a claim to the rest.
CappedValues(b) ==
    LET all == Entire(b)
        toOffset == (all.LUSDDebt * MCR) \div price
        gas == CollGasCompensation(toOffset)
    IN  [NoTotals EXCEPT !.CollInSequence = all.ETH, !.DebtInSequence = all.LUSDDebt,
           !.CollGasCompensation = gas, !.LUSDGasCompensation = LUSD_GAS_COMPENSATION,
           !.DebtToOffset = all.LUSDDebt, !.CollToSendToSP = toOffset - gas,
           !.CollSurplus = all.ETH - toOffset]

MutAddLiquidationValues(v) == v     \* broken: the last trove's values only
AddLiquidationValues(v) == [f \in DOMAIN totals |-> totals[f] + v[f]]

\* CollSurplusPool.accountSurplus
MutAccountSurplus(b, amount) ==     \* broken: an unclaimed surplus is lost
    [surplusPool.balances EXCEPT ![b] = amount]
AccountSurplus(b, amount) == [surplusPool.balances EXCEPT ![b] = @ + amount]

\* The part that every closed trove has in common.
LiquidateTrove(b, v) ==
    /\ Covers(defaultPool, Pending(b))
    /\ CloseTrove(b, "closedByLiquidation")
    /\ defaultPool' = Minus(defaultPool, Pending(b))
    /\ activePool' = Plus(activePool, Pending(b))
    /\ surplusPool' = [surplusPool EXCEPT !.balances = AccountSurplus(b, v.CollSurplus)]
    /\ totals' = AddLiquidationValues(v)
    /\ UNCHANGED <<snapshots, rewards, arth, price, redemption, committed, transactions>>

-----------------------------------------------------------------------------
(* Liquidation: the loops *)

\* liquidateTroves, batchLiquidateTroves and liquidate up to their loop.
BeginLiquidation(op) ==
    /\ Begin
    /\ TroveOwners # << >>
    /\ tx' = [op |-> op, user |-> Last(sortedTroves), first |-> Head(sortedTroves), recovery |-> RecoveryMode,
              back |-> FALSE, sp |-> arth.stabilityPool,
              sysDebt |-> EntireSystemDebt, sysColl |-> EntireSystemColl]
    /\ UNCHANGED <<book, pools, price, totals, redemption, committed>>

\* The trove the loop looks at: any element of the caller's array; from the
\* tail towards the trove that was first; or the tail, again and again.
Candidate(b) ==
    CASE tx.op = "batch" -> tx.recovery => Active(b)
      [] Sequence /\ tx.recovery -> b = tx.user /\ b # tx.first
      [] OTHER -> b = Last(sortedTroves)

NextUser(b) == IF Sequence /\ tx.recovery THEN GetPrev(b) ELSE tx.user

InRecovery == Liquidating /\ tx.recovery /\ ~tx.back
BackToNormal(debt, coll) == ~(ComputeCR(coll, debt, price) < CCR)

MutTakenOff(v) == v.CollToSendToSP      \* broken: as in a batch
\* What the loop takes off the tracked collateral: a batch leaves the surplus.
TakenOff(v) ==
    IF Sequence THEN v.CollToSendToSP + v.CollSurplus ELSE v.CollToSendToSP

TrackedTCR == ComputeCR(tx.sysColl, tx.sysDebt, price)

\* _liquidateRecoveryMode closes the trove.
Capped(b) == /\ CurrentICR(b) >= MCR
             /\ CurrentICR(b) < TrackedTCR
             /\ Entire(b).LUSDDebt <= tx.sp
RecoveryValues(b) ==
    IF CurrentICR(b) <= DECIMAL_PRECISION THEN FullValues(b, 0)
    ELSE IF CurrentICR(b) < MCR THEN FullValues(b, tx.sp)
    ELSE CappedValues(b)

LiquidateInRecoveryMode(b) ==
    /\ InRecovery
    /\ Candidate(b)
    /\ ~(CurrentICR(b) >= MCR /\ tx.sp = 0)
    /\ Len(TroveOwners) > 1
    /\ CurrentICR(b) < MCR \/ Capped(b)
    /\ LET v == RecoveryValues(b) IN
         /\ LiquidateTrove(b, v)
         /\ tx.sysColl >= TakenOff(v) /\ tx.sysDebt >= v.DebtToOffset
         /\ tx' = [tx EXCEPT !.user = NextUser(b), !.sp = @ - v.DebtToOffset,
                     !.sysDebt = @ - v.DebtToOffset, !.sysColl = @ - TakenOff(v),
                     !.back = BackToNormal(tx.sysDebt - v.DebtToOffset,
                                           tx.sysColl - TakenOff(v))]

\* _liquidateRecoveryMode returns zero values and the sequence goes on; in a
\* batch nothing changes.
PassOver(b) ==
    /\ InRecovery /\ Sequence
    /\ Candidate(b)
    /\ ~(CurrentICR(b) >= MCR /\ tx.sp = 0)
    /\ Len(TroveOwners) <= 1 \/ (CurrentICR(b) >= MCR /\ ~Capped(b))
    /\ tx' = [tx EXCEPT !.user = NextUser(b), !.back = BackToNormal(tx.sysDebt, tx.sysColl)]
    /\ UNCHANGED <<book, pools, price, totals, redemption, committed, transactions>>

LiquidateInNormalMode(b) ==
    /\ Liquidating /\ ~InRecovery
    /\ Candidate(b)
    /\ CurrentICR(b) < MCR
    /\ LET v == FullValues(b, tx.sp) IN
         /\ LiquidateTrove(b, v)
         /\ tx' = [tx EXCEPT !.user = NextUser(b), !.sp = @ - v.DebtToOffset]

-----------------------------------------------------------------------------
(* Liquidation: after the loop *)

\* _redistributeDebtAndColl returns at once without a debt.
Redistributed ==
    IF totals.DebtToRedistribute = 0 THEN Amount(0, 0)
    ELSE Amount(totals.CollToRedistribute, totals.DebtToRedistribute)

\* StabilityPool.offset returns at once without deposits or debt.
OffsetBySP ==
    IF totals.DebtToOffset = 0 \/ arth.stabilityPool = 0 THEN Amount(0, 0)
    ELSE Amount(totals.CollToSendToSP, totals.DebtToOffset)

\* Broken: the quotients are rounded up.
MutNumerators(q) == Amount(q.ETH * DECIMAL_PRECISION + totalStakes - 1,
                           q.LUSDDebt * DECIMAL_PRECISION + totalStakes - 1)
\* The error of the last division is part of the next numerator.
Numerators(q) == Plus(Amount(q.ETH * DECIMAL_PRECISION, q.LUSDDebt * DECIMAL_PRECISION),
                      lastError)

Redistribute ==
    IF totals.DebtToRedistribute = 0 THEN UNCHANGED rewards
    ELSE LET n == Numerators(Redistributed)
             perUnit == Amount(n.ETH \div totalStakes, n.LUSDDebt \div totalStakes)
         IN  /\ totalStakes > 0
             /\ L' = Plus(L, perUnit)
             /\ lastError' = Amount(n.ETH - perUnit.ETH * totalStakes,
                                    n.LUSDDebt - perUnit.LUSDDebt * totalStakes)

\* Broken: the gas compensation leaves without sendETH.
MutLeavesActivePool == Plus(Plus(OffsetBySP, Redistributed), Amount(totals.CollSurplus, 0))

\* What leaves the active pool: to the Stability Pool, to the default pool,
\* to the surplus pool and to the liquidator.
LeavesActivePool ==
    Plus(Plus(OffsetBySP, Redistributed),
         Amount(totals.CollSurplus + totals.CollGasCompensation, 0))

\* The snapshots exclude the liquidator's share, which has not left yet.
FinishLiquidation ==
    /\ Liquidating
    /\ totals.DebtInSequence > 0
    /\ Covers(activePool, LeavesActivePool)
    /\ OffsetBySP.LUSDDebt <= arth.stabilityPool
    /\ totals.LUSDGasCompensation <= arth.gasPool
    /\ Redistribute
    /\ activePool' = Minus(activePool, LeavesActivePool)
    /\ defaultPool' = Plus(defaultPool, Redistributed)
    /\ surplusPool' = [surplusPool EXCEPT !.ETH = @ + totals.CollSurplus]
    /\ totalStakesSnapshot' = totalStakes
    /\ totalCollateralSnapshot' = activePool'.ETH + defaultPool'.ETH
    /\ arth' = [arth EXCEPT !.stabilityPool = @ - OffsetBySP.LUSDDebt,
                            !.gasPool = @ - totals.LUSDGasCompensation,
                            !.wallets = @ + totals.LUSDGasCompensation]
    /\ UNCHANGED <<Troves, rewardSnapshots, TroveOwners, sortedTroves, totalStakes>>
    /\ Return

-----------------------------------------------------------------------------
(* Redemption *)

ValidFirstRedemptionHint(b) ==
    /\ b \in ToSet(sortedTroves)
    /\ CurrentICR(b) >= MCR
    /\ \A i \in DOMAIN sortedTroves :
         i = Position(b) + 1 => CurrentICR(sortedTroves[i]) < MCR

MutFirstAboveMCR(b) == b = Last(sortedTroves)   \* broken: the walk is missing

\* Where the walk from the tail stops if the hint is of no use.
FirstAboveMCR(b) ==
    /\ b \in ToSet(sortedTroves)
    /\ CurrentICR(b) >= MCR
    /\ \A i \in DOMAIN sortedTroves : i > Position(b) => CurrentICR(sortedTroves[i]) < MCR

\* Users pass ARTH among themselves freely: some user may hold any amount up
\* to what all of them hold.
BeginRedemption(amount, b) ==
    /\ Begin
    /\ TCR >= MCR
    /\ amount > 0 /\ amount <= arth.wallets
    /\ arth.wallets <= EntireSystemDebt
    /\ ValidFirstRedemptionHint(b) \/ FirstAboveMCR(b)
    /\ tx' = [IdleTx EXCEPT !.op = "redemption", !.user = b]
    /\ redemption' = [NoRedemption EXCEPT !.remainingLUSD = amount]
    /\ UNCHANGED <<book, pools, price, totals, committed>>

Looking(b) == Redeeming /\ b = tx.user /\ redemption.remainingLUSD > 0

Lot(b) == Min2(redemption.remainingLUSD, AppliedTrove(b).debt - LUSD_GAS_COMPENSATION)
ETHLot(b) == (Lot(b) * DECIMAL_PRECISION) \div price
NewDebt(b) == AppliedTrove(b).debt - Lot(b)
NewColl(b) == AppliedTrove(b).coll - ETHLot(b)

\* _redeemCollateralFromTrove: the sub of the lot does not underflow.
Redeemable(b) ==
    /\ AppliedTrove(b).debt >= LUSD_GAS_COMPENSATION
    /\ AppliedTrove(b).coll >= ETHLot(b)
    /\ Covers(defaultPool, Applied(b))

Tally(b) == [remainingLUSD |-> redemption.remainingLUSD - Lot(b),
             totalLUSDToRedeem |-> redemption.totalLUSDToRedeem + Lot(b),
             totalETHDrawn |-> redemption.totalETHDrawn + ETHLot(b)]

\* Nothing but the reserve is left: the trove is closed and the reserve burnt.
RedeemWholeTrove(b) ==
    LET leaves == Amount(NewColl(b), LUSD_GAS_COMPENSATION) IN
    /\ Looking(b) /\ Redeemable(b)
    /\ NewDebt(b) = LUSD_GAS_COMPENSATION
    /\ Covers(Plus(activePool, Applied(b)), leaves)
    /\ arth.gasPool >= LUSD_GAS_COMPENSATION
    /\ CloseTrove(b, "closedByRedemption")
    /\ defaultPool' = Minus(defaultPool, Applied(b))
    /\ activePool' = Minus(Plus(activePool, Applied(b)), leaves)
    /\ surplusPool' = [ETH |-> surplusPool.ETH + NewColl(b),
                       balances |-> AccountSurplus(b, NewColl(b))]
    /\ arth' = [arth EXCEPT !.gasPool = @ - LUSD_GAS_COMPENSATION]
    /\ redemption' = Tally(b)
    /\ tx' = [tx EXCEPT !.user = GetPrev(b)]
    /\ UNCHANGED <<snapshots, rewards, price, totals, committed, transactions>>

MutPartialAllowed(b) == TRUE    \* broken: no minimum
PartialAllowed(b) == NewDebt(b) - LUSD_GAS_COMPENSATION >= MIN_NET_DEBT

\* The caller's hint matches the ratio the trove will have.
RedeemPart(b) ==
    LET stake == ComputeNewStake(NewColl(b)) IN
    /\ Looking(b) /\ Redeemable(b) /\ StakeDefined
    /\ NewDebt(b) # LUSD_GAS_COMPENSATION
    /\ PartialAllowed(b)
    /\ totalStakes >= Troves[b].stake
    /\ sortedTroves' \in Insertions(Unlisted(b), b, ComputeNominalCR(NewColl(b), NewDebt(b)))
    /\ Troves' = [Troves EXCEPT ![b].debt = NewDebt(b), ![b].coll = NewColl(b),
                                ![b].stake = stake]
    /\ totalStakes' = totalStakes - Troves[b].stake + stake
    /\ rewardSnapshots' = [rewardSnapshots EXCEPT ![b] = AppliedSnapshot(b)]
    /\ defaultPool' = Minus(defaultPool, Applied(b))
    /\ activePool' = Plus(activePool, Applied(b))
    /\ redemption' = Tally(b)
    /\ tx' = [tx EXCEPT !.user = GetPrev(b)]
    /\ UNCHANGED <<TroveOwners, snapshots, rewards, surplusPool, arth, price, totals,
                   committed, transactions>>

\* cancelledPartial: the hint is out of date, or too little debt would stay.
\* The loop ends; the rewards applied before stay applied.
CancelPartial(b) ==
    /\ Looking(b) /\ Redeemable(b)
    /\ NewDebt(b) # LUSD_GAS_COMPENSATION
    /\ Troves' = [Troves EXCEPT ![b] = AppliedTrove(b)]
    /\ rewardSnapshots' = [rewardSnapshots EXCEPT ![b] = AppliedSnapshot(b)]
    /\ defaultPool' = Minus(defaultPool, Applied(b))
    /\ activePool' = Plus(activePool, Applied(b))
    /\ tx' = [tx EXCEPT !.user = NONE]
    /\ UNCHANGED <<TroveOwners, sortedTroves, totalStakes, snapshots, rewards, surplusPool,
                   arth, price, totals, redemption, committed, transactions>>

\* After the loop: the drawn ETH is split between the fee and the redeemer,
\* and the redeemed ARTH is burnt.
FinishRedemption ==
    LET leaves == Amount(redemption.totalETHDrawn, redemption.totalLUSDToRedeem) IN
    /\ Redeeming
    /\ redemption.totalETHDrawn > 0
    /\ Covers(activePool, leaves)
    /\ arth.wallets >= redemption.totalLUSDToRedeem
    /\ activePool' = Minus(activePool, leaves)
    /\ arth' = [arth EXCEPT !.wallets = @ - redemption.totalLUSDToRedeem]
    /\ UNCHANGED <<book, defaultPool, surplusPool>>
    /\ Return

-----------------------------------------------------------------------------

\* A transaction under way fails: the EVM undoes everything it did.
Revert ==
    /\ ~Idle
    /\ Troves' = committed.Troves
    /\ rewardSnapshots' = committed.rewardSnapshots
    /\ TroveOwners' = committed.TroveOwners
    /\ sortedTroves' = committed.sortedTroves
    /\ totalStakes' = committed.totalStakes
    /\ totalStakesSnapshot' = committed.totalStakesSnapshot
    /\ totalCollateralSnapshot' = committed.totalCollateralSnapshot
    /\ L' = committed.L
    /\ lastError' = committed.lastError
    /\ activePool' = committed.activePool
    /\ defaultPool' = committed.defaultPool
    /\ surplusPool' = committed.surplusPool
    /\ arth' = committed.arth
    /\ tx' = IdleTx /\ totals' = NoTotals /\ redemption' = NoRedemption
    /\ UNCHANGED <<price, committed, transactions>>
=============================================================================
