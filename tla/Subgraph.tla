------------------------------- MODULE Subgraph -------------------------------
(*****************************************************************************)
(* The subgraph that indexes the ledger, and the front end's view of a trove *)
(* through it.  Every transaction of the ledger emits events; a reverted one *)
(* emits none.  They are indexed a block at a time, in order, and a handler  *)
(* that calls a contract sees its state at the end of the block.             *)
(*                                                                           *)
(* The Stability Pool has a single depositor here, whose compounded deposit  *)
(* is all the pool holds.  The history entities (Change, Transaction,        *)
(* Liquidation, Redemption) are left out.                                    *)
(*****************************************************************************)
EXTENDS BorrowerOperations

CONSTANT MaxBlockEvents     \* bound on the transactions' events in a block

VARIABLES
    emitted,        \* events of the transaction under way
    block,          \* events of the block so far
    index,          \* the subgraph's entities
    initialDeposit, \* StabilityPool: the depositor's deposit when it last changed
    misled,         \* history: something made the totals unreliable for good
    missed          \* history: troves with a snapshot that the index may have missed

SDK == INSTANCE Trove WITH DIGITS <- DECIMAL_PRECISION, INFINITY <- MAX_UINT,
                           LUSD_LIQUIDATION_RESERVE <- LUSD_GAS_COMPENSATION

subgraphVars == <<vars, emitted, block, index, initialDeposit, misled, missed>>

-----------------------------------------------------------------------------
(* Events of the contracts *)

TroveUpdated(op, b, t) ==
    <<[event |-> "TroveUpdated", op |-> op, user |-> b,
       coll |-> t.coll, debt |-> t.debt, stake |-> t.stake]>>
TroveClosed(op, b) == TroveUpdated(op, b, NoTrove)
TroveLiquidated(op, b, coll) ==
    <<[event |-> "TroveLiquidated", op |-> op, user |-> b,
       coll |-> coll, debt |-> Entire(b).LUSDDebt]>>
CollBalanceUpdated(b, balance) ==
    <<[event |-> "CollBalanceUpdated", user |-> b, balance |-> balance]>>
Liquidation == <<[event |-> "Liquidation"]>>
\* moved: whether the caller moved tokens, which the event does not tell.
UserDepositChanged(deposit, moved) ==
    <<[event |-> "UserDepositChanged", deposit |-> deposit, moved |-> moved]>>
ETHGainWithdrawn(loss) == <<[event |-> "ETHGainWithdrawn", loss |-> loss]>>

\* _applyPendingRewards
RewardsApplied(b) ==
    IF HasPendingRewards(b) THEN TroveUpdated("applyPendingRewards", b, AppliedTrove(b))
    ELSE << >>

\* The events of a transaction are only seen when it succeeds.
Emit(events) ==
    IF Idle' THEN emitted' = << >> /\ block' = block \o emitted \o events
    ELSE emitted' = emitted \o events /\ block' = block

LiquidatedAs(b) == IF InRecovery THEN "liquidateInRecoveryMode" ELSE "liquidateInNormalMode"

\* The surplus is accounted for before the trove is reported liquidated, with
\* what goes to the Stability Pool as its collateral.
Liquidated(b) ==
    LET v == CappedValues(b)
        surplus == IF v.CollSurplus > 0
                   THEN CollBalanceUpdated(b, AccountSurplus(b, v.CollSurplus)[b]) ELSE << >>
    IN  (IF InRecovery /\ CurrentICR(b) >= MCR
         THEN surplus \o TroveLiquidated(LiquidatedAs(b), b, v.CollToSendToSP)
         ELSE TroveLiquidated(LiquidatedAs(b), b, Entire(b).ETH))
        \o TroveClosed(LiquidatedAs(b), b)

-----------------------------------------------------------------------------
(* The ledger's steps with their events *)

Others == UNCHANGED <<index, initialDeposit, misled, missed>>

BorrowerEvents ==
    \E b \in Borrowers :
      \/ /\ \E coll \in CollAmounts, amount \in DebtAmounts, fee \in BorrowingFees \union {0} :
              /\ OpenTrove(b, coll, amount, fee)
              /\ Emit(TroveUpdated("openTrove", b, [coll |-> coll,
                        debt |-> CompositeDebt(amount + fee), stake |-> Troves[b].stake']))
      \/ AdjustOwnTrove(b) /\ Emit(RewardsApplied(b) \o TroveUpdated("adjustTrove", b, Troves[b]'))
      \/ CloseOwnTrove(b) /\ Emit(RewardsApplied(b) \o TroveClosed("closeTrove", b))
      \/ ClaimCollateral(b) /\ Emit(CollBalanceUpdated(b, 0))

LiquidationEvents ==
    \/ \E op \in {"sequence", "batch"} : BeginLiquidation(op) /\ Emit(<< >>)
    \/ \E b \in Borrowers : LiquidateInRecoveryMode(b) /\ Emit(Liquidated(b))
    \/ \E b \in Borrowers : LiquidateInNormalMode(b) /\ Emit(Liquidated(b))
    \/ \E b \in Borrowers : PassOver(b) /\ Emit(<< >>)
    \/ FinishLiquidation /\ Emit(Liquidation)

RedemptionEvents ==
    \/ \E b \in Borrowers, amount \in Redemptions : BeginRedemption(amount, b) /\ Emit(<< >>)
    \/ \E b \in Borrowers :
         /\ RedeemWholeTrove(b)
         /\ Emit(RewardsApplied(b) \o CollBalanceUpdated(b, Surplus(b)')
                   \o TroveClosed("redeemCollateral", b))
    \/ \E b \in Borrowers :
         /\ RedeemPart(b)
         /\ Emit(RewardsApplied(b) \o TroveUpdated("redeemCollateral", b, Troves[b]'))
    \/ \E b \in Borrowers : CancelPartial(b) /\ Emit(RewardsApplied(b))
    \/ FinishRedemption /\ Emit(<< >>)

Loss == initialDeposit - arth.stabilityPool

\* withdrawFromSP(0)
OnlyWithdrawGain == Idle /\ initialDeposit > 0 /\ Loss > 0 /\ UNCHANGED vars

\* provideToSP and withdrawFromSP report the new deposit first, then the loss.
ChangeDeposit ==
    /\ \/ \E amount \in Deposits : ProvideToSP(amount) \/ WithdrawFromSP(amount)
       \/ OnlyWithdrawGain
    /\ Emit(UserDepositChanged(arth'.stabilityPool, arth' # arth) \o ETHGainWithdrawn(Loss))
    /\ initialDeposit' = arth'.stabilityPool
    /\ misled' = (misled \/ Loss > 0)
    /\ UNCHANGED <<index, missed>>

\* withdrawETHGainToTrove reports the loss first.
GainToTrove(b, gain) ==
    /\ initialDeposit > 0 /\ Loss > 0
    /\ AdjustTrove(b, 0, gain, 0, FALSE, 0)
    /\ Emit(ETHGainWithdrawn(Loss) \o UserDepositChanged(arth.stabilityPool, FALSE)
              \o RewardsApplied(b) \o TroveUpdated("adjustTrove", b, Troves[b]'))
    /\ initialDeposit' = arth.stabilityPool
    /\ UNCHANGED <<index, misled, missed>>

\* The price that handlers will read is no longer the one a trove was
\* liquidated at.
ChangePrice(p) ==
    /\ SetPrice(p)
    /\ misled' = (misled \/ \E i \in DOMAIN block : block[i].event = "TroveLiquidated")
    /\ UNCHANGED <<emitted, block, index, initialDeposit, missed>>

LedgerStep ==
    \/ (BorrowerEvents \/ LiquidationEvents \/ RedemptionEvents) /\ Others
    \/ Revert /\ emitted' = << >> /\ UNCHANGED block /\ Others
    \/ ChangeDeposit
    \/ \E b \in Borrowers, gain \in CollChanges : GainToTrove(b, gain)
    \/ \E p \in Prices : ChangePrice(p)

-----------------------------------------------------------------------------
(* Entities *)

UnknownTrove == [status |-> "unknown", collateral |-> 0, debt |-> 0, stake |-> 0,
                 snapshot |-> Amount(0, 0)]

EmptyIndex ==
    [troves |-> [b \in Borrowers |-> UnknownTrove],
     numberOf |-> [open |-> 0, closedByOwner |-> 0, closedByLiquidation |-> 0,
                   closedByRedemption |-> 0],
     totalRedistributed |-> Amount(0, 0),
     totalCollateral |-> 0, totalDebt |-> 0, tokensInStabilityPool |-> 0,
     collSurplusPoolBalance |-> 0, collSurplus |-> [b \in Borrowers |-> 0],
     depositedAmount |-> 0]

\* getTrove: a trove is counted as open when it is first heard of.
WithTrove(x, b) ==
    IF x.troves[b].status # "unknown" THEN x
    ELSE [x EXCEPT !.troves[b].status = "open", !.numberOf.open = @ + 1]

\* setTroveStatus, with the counters of Global.
WithStatus(x, b, status) ==
    LET before == x.troves[b].status IN
    IF status = before THEN x
    ELSE IF status = "open"
    THEN [x EXCEPT !.troves[b].status = status, !.numberOf[before] = @ - 1,
                   !.numberOf.open = @ + 1]
    ELSE [x EXCEPT !.troves[b].status = status, !.numberOf[status] = @ + 1,
                   !.numberOf.open = @ - 1]

BorrowerOperation == {"openTrove", "closeTrove", "adjustTrove"}
LiquidationOperation == {"liquidateInNormalMode", "liquidateInRecoveryMode"}
TroveOperation(op) == IF op = "applyPendingRewards" THEN "accrueRewards" ELSE op

StatusAfter(op, coll) ==
    IF coll # 0 THEN "open"
    ELSE IF op \in LiquidationOperation THEN "closedByLiquidation"
    ELSE IF op = "redeemCollateral" THEN "closedByRedemption"
    ELSE "closedByOwner"

\* The mapping's own idea of what the Stability Pool absorbs.
TryToOffset(x, coll, debt) ==
    LET tokens == x.tokensInStabilityPool IN
    IF debt <= tokens
    THEN [x EXCEPT !.totalCollateral = @ - coll, !.totalDebt = @ - debt,
                   !.tokensInStabilityPool = @ - debt]
    ELSE IF tokens > 0
    THEN [x EXCEPT !.totalCollateral = @ - (coll * tokens) \div debt, !.totalDebt = @ - tokens,
                   !.tokensInStabilityPool = 0]
    ELSE x

\* updateSystemStateByTroveChange, for a trove that goes from `before` to the
\* new collateral and debt.  Rewards that accrue were in the totals all along.
MutByTroveChange(x, op, before, coll, debt) ==  \* broken: the mode is not looked at
    IF op \in BorrowerOperation \union {"redeemCollateral"}
    THEN [x EXCEPT !.totalCollateral = @ + coll - before.collateral,
                   !.totalDebt = @ + debt - before.debt]
    ELSE IF op \in LiquidationOperation
    THEN TryToOffset(x, before.collateral - coll, before.debt - debt)
    ELSE x
ByTroveChange(x, op, before, coll, debt) ==
    IF op \in BorrowerOperation \union {"redeemCollateral"}
    THEN [x EXCEPT !.totalCollateral = @ + coll - before.collateral,
                   !.totalDebt = @ + debt - before.debt]
    ELSE IF \/ op = "liquidateInNormalMode"
            \/ op = "liquidateInRecoveryMode" /\ before.collateral * price > before.debt * DECIMAL_PRECISION
    THEN TryToOffset(x, before.collateral - coll, before.debt - debt)
    ELSE x

UpdateTrove(x, op, b, coll, debt, stake, snapshot) ==
    LET known == WithTrove(x, b)
        before == known.troves[b]
        changed == [ByTroveChange(known, op, before, coll, debt) EXCEPT
                      !.troves[b].collateral = coll, !.troves[b].debt = debt,
                      !.troves[b].stake = stake, !.troves[b].snapshot = snapshot]
    IN  IF coll = before.collateral /\ debt = before.debt THEN known
        ELSE WithStatus(changed, b, StatusAfter(op, coll))

-----------------------------------------------------------------------------
(* Handlers *)

HandleTroveUpdated(x, e) ==
    UpdateTrove(x, TroveOperation(e.op), e.user, e.coll, e.debt, e.stake, rewardSnapshots[e.user])

\* The rewards the contract counted are accrued first.
HandleTroveLiquidated(x, e) ==
    UpdateTrove(UpdateTrove(x, "accrueRewards", e.user, e.coll, e.debt, 0, Amount(0, 0)),
                e.op, e.user, 0, 0, 0, Amount(0, 0))

\* updateUserClaimColl
HandleCollBalanceUpdated(x, e) ==
    [x EXCEPT !.collSurplus[e.user] = e.balance,
              !.collSurplusPoolBalance = @ + e.balance - x.collSurplus[e.user]]

\* updateStabilityDeposit: "depositTokens" or "withdrawTokens"
HandleUserDepositChanged(x, e) ==
    [x EXCEPT !.depositedAmount = e.deposit,
              !.tokensInStabilityPool = @ + e.deposit - x.depositedAmount]

\* withdrawCollateralGainFromStabilityDeposit: liquidations have already taken
\* the loss off the tokens in the pool.
HandleETHGainWithdrawn(x, e) == [x EXCEPT !.depositedAmount = @ - e.loss]

MutHandleLiquidation(x) == x    \* broken: the sums stay as they were
HandleLiquidation(x) == [x EXCEPT !.totalRedistributed = L]

Handle(x, e) ==
    CASE e.event = "TroveUpdated" -> HandleTroveUpdated(x, e)
      [] e.event = "TroveLiquidated" -> HandleTroveLiquidated(x, e)
      [] e.event = "CollBalanceUpdated" -> HandleCollBalanceUpdated(x, e)
      [] e.event = "Liquidation" -> HandleLiquidation(x)
      [] e.event = "UserDepositChanged" -> HandleUserDepositChanged(x, e)
      [] e.event = "ETHGainWithdrawn" -> HandleETHGainWithdrawn(x, e)

\* Rewards that round to zero were applied: the contract moved the trove's
\* snapshot, but updateTrove sees the amounts it has and returns.
WorthlessRewards(x, e) ==
    /\ e.event = "TroveUpdated" /\ e.op = "applyPendingRewards"
    /\ e.coll = x.troves[e.user].collateral /\ e.debt = x.troves[e.user].debt

EndBlock ==
    LET before(i) == FoldLeft(Handle, index, SubSeq(block, 1, i - 1)) IN
    /\ Idle /\ block # << >>
    /\ index' = FoldLeft(Handle, index, block)
    /\ block' = << >>
    /\ missed' = missed \union
         {block[i].user : i \in {j \in DOMAIN block : WorthlessRewards(before(j), block[j])}}
    /\ UNCHANGED <<vars, emitted, initialDeposit, misled>>

SubgraphInit ==
    /\ Init
    /\ emitted = << >> /\ block = << >>
    /\ index = EmptyIndex
    /\ initialDeposit = 0
    /\ misled = FALSE
    /\ missed = {}

SubgraphNext ==
    \/ (Idle => Len(block) < MaxBlockEvents) /\ LedgerStep
    \/ EndBlock

SubgraphSpec == SubgraphInit /\ [][SubgraphNext]_subgraphVars

-----------------------------------------------------------------------------
(* Properties *)

Indexed == Idle /\ block = << >>

\* SubgraphLiquity.getTrove
IndexedTrove(b) ==
    LET t == index.troves[b]
        fields(amount) == SDK!Trove(amount.ETH, amount.LUSDDebt)
    IN  SDK!ApplyRedistribution(SDK!Trove(t.collateral, t.debt), t.stake,
                                fields(t.snapshot), fields(index.totalRedistributed))

StatusInIndex(status) ==
    CASE status = "nonExistent" -> "unknown"
      [] status = "active" -> "open"
      [] OTHER -> status

\* Once a block is indexed, the front end computes for every trove, from the
\* events' amounts and the snapshots read after them, what the contracts
\* compute for it, rewards included (and never less, if the index missed a
\* snapshot of it); its status, the number of troves of each status and the
\* surplus to claim are right, whichever transactions of the block touched the
\* trove, and if it was closed and opened again.
IndexedTrovesAgree ==
    Indexed => \A b \in Borrowers :
        /\ IndexedTrove(b).collateral >= Entire(b).ETH
        /\ IndexedTrove(b).debt >= Entire(b).LUSDDebt
        /\ b \notin missed => IndexedTrove(b) = SDK!Trove(Entire(b).ETH, Entire(b).LUSDDebt)
        /\ index.troves[b].status = StatusInIndex(Troves[b].status)
        /\ index.collSurplus[b] = surplusPool.balances[b]
        /\ \A status \in DOMAIN index.numberOf :
             index.numberOf[status] =
               Cardinality({c \in Borrowers : StatusInIndex(Troves[c].status) = status})

\* The mapping guesses from a trove's ratio how the contracts split its debt
\* between the Stability Pool and the other troves.  It guesses right: the
\* debt, the tokens in the pool and the surplus it adds up are the system's,
\* and it never reports less collateral than there is (it does not subtract the
\* liquidators' share and the surplus of a capped liquidation), unless something misled it: a loss that a depositor's
\* change reported late, or a price that changed after a liquidation of the
\* same block.
TotalsAgree ==
    Indexed =>
        /\ index.collSurplusPoolBalance = surplusPool.ETH
        /\ ~misled =>
             /\ index.totalDebt = EntireSystemDebt
             /\ index.tokensInStabilityPool = arth.stabilityPool
             /\ index.totalCollateral >= EntireSystemColl

\* "Don't create a StabilityDepositChange when there's no change... duh. It
\* means user only wanted to withdraw collateral gains": a call that moves no
\* tokens reports the amount the index has for the deposit.
GainWithdrawalsReportNoChange ==
    Idle => \A i \in DOMAIN block :
        block[i].event = "UserDepositChanged" /\ ~block[i].moved =>
            FoldLeft(Handle, index, SubSeq(block, 1, i - 1)).depositedAmount = block[i].deposit
=============================================================================
