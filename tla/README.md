# ARTH loans in TLA+

A formal model of the ARTH loans protocol (`packages/contracts`): borrowers lock
collateral in *troves* and borrow ARTH against it; troves whose collateral ratio
falls too low are liquidated against the Stability Pool or redistributed to the
other troves; anyone may redeem ARTH for the collateral of the riskiest troves.
Around the contracts: the client libraries (`packages/lib-base`, `lib-ethers`,
`providers`), the subgraph with its client, and the scripts that deploy it all.

## 1. The system

| Component | State | Operations | Talks to |
|---|---|---|---|
| `SortedTroves.sol` | doubly linked list of owners, size, limit | `insert`, `reInsert`, `remove`, the hint search | called by TroveManager and BorrowerOperations, asks TroveManager for current ratios |
| `TroveManager.sol` | troves, reward snapshots, owners array, stakes and their snapshots, `L_ETH`, `L_LUSDDebt`, division errors, base rate | `liquidate`, `liquidateTroves`, `batchLiquidateTroves`, `redeemCollateral`, the functions BorrowerOperations calls | list, pools, Stability Pool, token, price feed |
| `BorrowerOperations.sol` | front ends; otherwise none | `openTrove`, `adjustTrove` and its four short forms, `closeTrove`, `claimCollateral` | TroveManager, list, pools, token, IncentivePool, Governance |
| `ActivePool`, `DefaultPool`, `CollSurplusPool`, `GasPool` | collateral and debt counters, claimable surplus by owner, ARTH reserves | transfers between each other | called by the two above; `ActivePool.borrow`/`repay` by the AMO |
| `StabilityPool.sol` | deposits, snapshots, `P`, sums by epoch and scale, front-end stakes | `provideToSP`, `withdrawFromSP`, `withdrawETHGainToTrove`, `offset` | TroveManager, CommunityIssuance |
| `ARTHValuecoin.sol` | balances, one debt ceiling for each deployment | mint, burn, pool transfers | all |
| `CommunityIssuance.sol`, `IncentivePool.sol` | streaming reward clocks and balances | issue, notify, update, claim | Stability Pool, BorrowerOperations |
| `PriceFeed.sol`, `GMUOracle.sol`, `UniswapPairOracle.sol` | sources, cumulative prices | `fetchPrice`, `update`, `consult` | external oracles |
| `Governance.sol`, `Timelock.sol`, `EcosystemFund.sol` | parameters, queued actions | setters; queue, cancel, execute | owner |
| `HintHelpers.sol`, `MultiTroveGetter.sol` | none | views | TroveManager, list |
| `lib-base`: `Decimal`, `Trove`, `Fees` | none | predictions of fees and of what an operation makes of a trove | the contracts' parameters, copied |
| `lib-base`, `lib-ethers`: stores, cache, watchers | the last read state and what is derived of it | reads at every block, subscriptions, debounced events | provider, contracts |
| `providers` | batches of calls, poller and web socket, block listeners | batching timer, reconnecting, waiting for transactions | nodes behind a load balancer |
| subgraph, `lib-subgraph` | troves, deposits, totals, from events and contract reads | handlers; `getTrove` | logs of a block, contracts at the block's end |
| deployment scripts | `OUTPUT_FILE` | create, save, wire, renounce | nodes |
| fuzzer, simulations, gas reports, front ends | | | |

What is hard in it:

* **Loops over shared storage.** A liquidation or redemption changes troves, list,
  stakes and pools once for each trove, keeps running copies of the totals in memory
  and sends money only at the end. Copies, storage and pools must fit together at
  each iteration, and a failure at any point undoes everything.
* **Lazy redistribution.** Debt and collateral of liquidated troves are spread by a
  global sum per unit staked. Every division rounds; stakes change between
  redistributions; the default pool must still be able to pay.
* **Stale inputs.** Hints and the redeemer's first trove were computed before other
  transactions; ratios move behind the list's back.
* **Two modes.** The rules change below the critical ratio, also in the middle of a
  liquidation sequence.
* **Clocks and streams.** Base-rate decay, issuance, timelock, price windows.
* **Asynchronous clients.** Answers overtake each other, fail, or come after a stop;
  listeners move between a poller and web sockets that come and go; nodes lag behind
  each other; calls are batched and repeated.
* **Two copies of one computation.** The client predicts fees, hints and rewards; the
  subgraph guesses from events, read after the block, what happened within it.
* **Crashes.** A deployment script dies between creating a contract and saving it, and
  is run again while its transactions are still being mined.

What makes each part correct: the list is one list, sorted, and every search ends
(SortedTroves); every coin is accounted for and every claim is covered (TroveManager
and pools); no borrower's operation takes the system below CCR, and nobody's trove
changes to its loss by somebody else's operation (BorrowerOperations, redemption);
a depositor never gets more than the pool holds, and an issuance is paid
once (StabilityPool, CommunityIssuance); the base rate decays neither slower nor
faster than it should, and the client predicts it (Fees); a store shows one block at
a time and catches up; a call is answered for its block, and a wait ends (providers);
the index agrees with the contracts it reads; contracts know only the contracts that
were saved (deployment). `PROJECT.json` lists the hazards with their lines.

## 2. Modules

| Module | Models | State and actions |
|---|---|---|
| `LiquityMath` | `LiquityMath.sol`, `LiquityBase.sol` | constant operators: ratios, composite debt, gas compensation; the system's parameters and the assumptions on them |
| `SortedList` | what the list promises | one sequence of owners; `Insert` between neighbours whose ratios enclose the new one, `Delete` |
| `SortedTroves` | `SortedTroves.sol` | pointers and size; a call in progress (`Insert`, `ReInsert`, `RemoveNode`, then `CheckHint`, one `Descend` or `Ascend` for each iteration of a walk, `LinkNode`); `Redistribute` moves the ratios between calls |
| `TroveManager` | `TroveManager.sol` and the ledgers it writes to | see below |
| `BorrowerOperations` | `BorrowerOperations.sol`, deposits, the price | the borrower's operations, `Init`, `Next`, `Spec`, the properties of the ledger |
| `HintHelpers` | `HintHelpers.getRedemptionHints` | evaluated in the states of the ledger |
| `Decimal`, `Trove` | `Decimal.ts`, `Trove.ts`, `StabilityDeposit.ts` | constant operators |
| `FeeRates` | base rate of `TroveManager.sol`, `Fees.ts` | rate, its clock, time, the system's ratio; `Borrow`, `Redeem`, `Wait`, `ChangeTCR` |
| `CommunityIssuance`, `StabilityPool` | the two contracts | deposits, front ends, product, sums, issuance; one action per entry point, `Notify`, `Wait` |
| `Subgraph` | mappings and entities, `SubgraphLiquity.ts` | extends the ledger: events of each transaction, the block under way, the index; `LedgerStep`, `EndBlock` |
| `LiquityStore`, `BlockPolledLiquityStore` | `LiquityStore.ts`; its subclass, the cache and the watchers of lib-ethers | base, derived and subscribers' state; reads underway; `Start`, `Stop`, `BlockListener`, answers, failures, `UpdateTimer`, `GetTrove` ... |
| `WebSocketAugmentedProvider`, `BatchedProvider` | the two mixins, one on the other | sockets, attached listeners, waits; batch, requests, answers |
| `DeploymentPlans`, `Deployment` | seven deployment scripts | what each does, as data; a machine that runs it, with file, chain and mempool |
| `MCLoans`, `MCStabilityPool`, `MCSubgraph`, `MCDeployment` | | symmetry sets and inputs for TLC |
| `CollectionTheorems` | | lemmas about sequences and about sums over finite sets |
| `SortedTrovesProofs`, `LedgerProofs`, `FeeRatesProofs`, `StabilityPoolProofs`, `StoreProofs`, `ProviderProofs`, `DeploymentProofs` | | theorems about the module of that name; the ledger is `TroveManager` with `BorrowerOperations` |

The definitions called `Mut...` are broken variants of the definition after them;
nothing uses them. They show what each property notices.

**TroveManager.** The state is the storage of the contracts, under the source's
names: `Troves`, `TroveOwners`, `totalStakes`, `L` (the pair `L_ETH`, `L_LUSDDebt`),
`activePool` and so on. `sortedTroves` is the list as `SortedList` sees it: an
insertion puts the owner at any place that the current ratios allow, which covers
every outcome of every hint. `tx`, `totals` and `redemption` are the memory
variables of the transaction under way (`LocalVariables_LiquidationSequence`,
`LiquidationTotals`, `RedemptionTotals`). A transaction with a loop is split into a
`Begin...` step, one step for each trove, and a `Finish...` step with the transfers
after the loop; the other transactions are one step. Nothing else runs while `tx` is
not idle, as in the EVM, but `Revert` may happen after each step: a failed `require`,
an exceeded fee limit or the end of the gas. It restores `committed`, the ledger at
the last `Commit`. SafeMath subtractions are guards (`Covers`): where one would go
below zero the step does not happen, and only `Revert` is left.

`liquidate` is a batch of one; the caller's array in a batch is any sequence of
addresses, so the loop may look at any trove next, or end. A sequence in recovery
mode walks the list with `getPrev` from the tail to the trove that was first; in
normal mode both kinds of loop go on while they find troves below MCR. `totals`
records only what the code records in `LiquidationTotals`; `TakenOff` is the one
place where sequence and batch differ.

What is abstracted: ARTH is held by three classes (`wallets`, the gas pool, the
Stability Pool), because users pass it to each other freely; the redemption fee is a
part of the drawn collateral and the borrowing fee a free choice from
`BorrowingFees`, so the base rate has no state here; `n` in `liquidateTroves`, and
`maxIterations`, end a loop early, which `Finish...` may do at any iteration.

**FeeRates** has the base rate by itself, with a clock in seconds. The client's
computation (`Fees`, `BorrowingRate`, `WhatChanged`, `Apply`) is translated from
TypeScript and the contracts' from Solidity, each with its own rounding; the
properties compare the two. Each side has parameters of its own (the contracts' from
`Governance` and `LiquityBase`, the client's from `constants.ts`), and none is assumed equal to its copy.
`_decPow` counts at most a thousand years (`MAX_MINUTES`), `Decimal.pow` has no such limit;
the module assumes that nobody looks further ahead.

**StabilityPool** keeps the contracts' product `P`, the sums by epoch and scale, the
three error terms, and the snapshots of depositors and front ends. `setAddresses` never
assigns `communityIssuance`; the model takes it to be set, as the code that calls it
expects. After `periodFinish`, every operation that triggers an issuance reverts until the
owner calls `notifyRewardAmount` (`CanIssue`).

**Subgraph.** Each transaction of the ledger also appends its events to the block, in
the order of the `emit` statements. `EndBlock` folds the handlers over them. A handler that
calls a contract sees it at the end of the block, as a graph node does, which is what makes
its order interesting. One depositor stands for all.

**BlockPolledLiquityStore.** A read of a block is a record in `gets` whose fields are
answered one by one; its answers may come after those of a later block, after `stop`
or after a second `start`, and any may fail. Three fields stand for the thirty: one that
only the chain knows, and the trove and the redistribution from which the store
derives a third. The cache is asked while the store changes under it (`GetTrove`,
`ChainAnswers`, `Apply`: one action for each `await`). A watcher debounces events and then reads; nobody catches
or repeats a read that fails (`LoseRead`). A store without a block tag (the first
load of a reader that never polls) is not excluded from mixing blocks, and what
it shows may go back to an older block while answers overtake each other.

**Providers.** Nodes behind a load balancer each have a height, and any may answer.
`Switchover` moves the block listener; a socket that the code forgets stays
connected. `closeWebSocket` does not stop the reconnection that waits for its ten seconds, and a
request on a socket that closes is never settled: both are so in the code. Callers
and waiters for transactions are explored from separate initial states, because they
share only the block events.

**Deployment.** A plan is a sequence of steps: create a contract with the addresses
its constructor is given, call a setter unless its guard finds the ownership
renounced, call it always, initialize a contract behind a proxy unless it is
initialized, flip a switch, throw. `Deployment` runs any plan: the file
is read, a contract created, awaited and saved, a guard read and *then* the setter sent.
`Crash` happens at any await; the transactions sent are mined all the same.
`waitForTransaction` returns for reverted transactions too. The scripts belong to
several revisions of the contracts: constructors and setters have changed since, and the contracts beside them have neither `initialize`,
nor the factories of `LQTYToken` and `Controller`. So the plans
model the scripts, and the contracts as each script takes them to be: a setter stores what it is passed, and a final one
renounces. The hardhat plan is in the order in which the tests call its functions. The script for Matic
uses a variable that is defined nowhere and throws. A crash in the middle of
writing the file is not modelled.

**Abstract specification.** `SortedTroves` implements `SortedList` under the mapping
that reads the owners from `head` along `nextId` (`ImplementsSortedList`); the
ledger uses the abstract list, and the subgraph the ledger.

## 3. Runs

| Run | Instance | States | Question |
|---|---|---|---|
| `sorted_troves` | 4 owners, 3 ratios, any hints | 31,518 | Do the pointers stay one list, does each insertion end at a valid place, does each walk end, and is it the abstract list? |
| `liquidation` | 3 borrowers, 6 transactions, 4 prices, one deposit size | 363,409 | Do ledgers, stakes, owners, reserves and running totals agree at every step of sequences and batches in both modes? |
| `redemption` | 3 borrowers, 5 transactions, 2 prices, all borrower operations | 67,996 | The same for redemptions and adjustments; do they respect the minimum debt, the minimum ratio, the mode and the other troves, and do hints stay exact? |
| `fees` | waits of 59 and 61 s up to 250 s, two fractions, four system ratios | 354,472 | Does the base rate decay as it should, how well does the client predict it with its own parameters, and what trove does it get? |
| `stability_pool` | 2 depositors, 1 front end, 2 offsets, 6 steps, deposits up to 24 | 266,709 | Are deposits, gains and issuance ever owed twice or beyond what there is? |
| `subgraph` | 3 borrowers, 5 transactions, blocks of 2 | 840,207 | Does the index agree with the contracts after every block? |
| `store` | 2 blocks, 2 starts, 1 failure | 101,332 | Does a store mix blocks, does the cache, do store and watchers catch up? |
| `provider` | 2 nodes, 2 blocks, 2 web sockets, 2 calls, 1 wait, 1 subscriber | 368,704 | Are blocks heard once, calls answered at their block, and do calls and waits end? |
| `deployment` | 7 scripts, 2 collaterals, 3 starts | 48,150 | What do crash and rerun leave behind, and does a script that ends have done everything? |
| `batch_recovery` | 3 borrowers, recovery mode | | Does a batch cap only troves below the system's ratio? It does not: section 6. |
| `deposit_rounding` | 1 depositor, 2 offsets, deposits up to 49 | | Are depositors never owed more than a larger pool holds? They are: section 6. |
| `deposit_index` | as `subgraph` | | Does a withdrawal of gains report no change? It reports one: section 6. |

**Bounds of the ledger.** Amounts are small integers on a scale of 100 or 1000 parts (`DECIMAL_PRECISION`)
instead of 1e18. Divisions that leave a remainder are the common case on this scale,
so rounding errors are proportionally much larger than in the code. The amounts are
chosen so that these cases occur: a trove at each
side of 100%, MCR and the system's ratio; an offset that empties the Stability Pool
and leaves a rest to redistribute; a capped liquidation with a surplus; a return to
normal mode inside a sequence; a partial redemption that is allowed and one that is
cancelled; a trove that is redeemed, or liquidated with a surplus, twice. MCR and
CCR lie closer together than in a typical deployment, so
that few price steps cross both. Three troves are what a redistribution needs after
a swap in the owners array; four nodes are what the list needs for a removal
between two inner nodes. `MaxTransactions` bounds the transactions that change
troves; deposits and prices are bounded by their own sets. Reachable states are counted up
to the symmetry of the borrowers where a run names one.

**Other bounds.**
* `fees`: 59 and 61 seconds are the two sides of a minute; together they put operations at any
  phase of it. A decay of a tenth per minute instead of 0.06% per minute makes an error
  of a minute visible after one step. Rounding may cost three last digits
  per minute begun, which is what can be proved for every constant; one would do in this instance.
  The parameters differ as in the code where they do (critical ratio, minimum ratio, reserve, floors; in
  units of 1/10,000 for the rates): a system ratio of 120 is recovery mode for the client and not for the contracts, 107 for both,
  160 for neither. Only the fees of the contracts' borrowing floor and cap, which are zero unless the owner sets them, are
  set (0.25% and 3%), for with a cap of zero there would be nothing to predict.
* `stability_pool`: `SCALE_FACTOR` 5 lets one offset cross a scale and two end an
  epoch, which is what separates the three cases of a gain. `MaxDeposits` (24) keeps the pool below
  `DECIMAL_PRECISION` (25), and `MaxOffsets` lets it be offset twice: beyond either, depositors are
  owed a unit too much now and then (section 6), which then also earns gains. The theorem about deposits
  has neither limit; gains and issuance are claimed within them only. `Tolerance` (2) allows a front end's stake
  the rounding of its own product next to those of its depositors.
* `subgraph`: amounts of some hundreds, not tens, because with tiny amounts the rounding of the capped
  collateral alone would change the ratio the mapping decides from. Two events of the ledger in a block are
  what it takes for a handler to read a contract that a later transaction changed.
* `store`: two blocks overtake each other, and a second start lets the first one's
  answers arrive late; a third would repeat this. Failures are bounded, for a chain
  that always fails gives no liveness.
* `provider`: two nodes disagree, two calls share or do not share a batch, and the second
  socket is the one after a reconnection; a third would find the same states.
* `deployment`: two collaterals share contracts, and MAHA is the one that the testnet script treats
  differently. The first run may crash anywhere, the second finds what it left, and
  the last two are not interrupted. A proxy that was initialized, or a contract given away, before the crash is what the reruns meet.

`CHECK_DEADLOCK FALSE` stands where the system may rest: all steps of the pool used up, the store
stopped at the last block, a script that has ended. The other runs check deadlock.

**Fairness.** *List:* the loop of a call (`CheckHint`, `Descend`, `Ascend`, `LinkNode`) is
weakly fair, since the EVM does not leave a call in the middle. *Store:* blocks come,
the provider reports them, reads that were sent are answered or fail, and timers fire (event
loop); nothing is assumed of starts, stops and reads by users. *Providers:* the 10 ms
timer of the batch and the 50 ms timer of the listeners fire; the request of each call proceeds
(answers for each call, not for the set of requests, so that one repeated request cannot
starve another); nodes reach the last block; an opened socket connects; a block event
comes to whoever listens. Users need do nothing. *Deployment:* transactions are
mined, the script goes on, and somebody runs it again. The ledger, the fees and
the pool have no liveness property: nobody is obliged to liquidate, redeem or pay in.

## 4. Properties

*Ledger.*
* `ActivePoolBacksTroves`, `GasPoolCoversReserves`, `SurplusIsFunded`: pools against
  the sums over all troves, at every step, the totals in memory included.
* `DefaultPoolCoversRewards`: whatever is rounded, the pending rewards can be paid.
* `StakesAddUp`: the sum of stakes, somebody to redistribute to, the assertion of `_computeNewStake`.
* `OwnersConsistent`: array, indices and list, now and after a revert.
* `SupplyEqualsDebt`: every ARTH is owed.
* `LedgerBalanced`: the four about sums, in the run with redemptions and adjustments. (The repository's
  fuzzer checks the pools against the sums over troves in the same way.)
* `SequenceTracksSystem`: the copies of the system's totals that decide who is
  liquidated in recovery mode.
* `NetDebtAboveMinimum`, `NormalModeKept`, `RedemptionSparesRisky`,
  `OthersOnlyGain`: what operations may never do.
* `HintsStayExact`: what `getRedemptionHints` foresaw is what `redeemCollateral` does,
  trove by trove.
* `TypeOK`: with it, that unguarded subtractions stay at or above zero.

*Fees.* `RateKeepsDecaying` and `RateNotLostEarly` bound the rate from both sides by a reference that
multiplies once for each minute. `ClientAgrees` compares predictions at any later time: the base rate is the same to the last
digit, and the rates are as far apart as floors and caps are. It leaves out the case that one side sees
recovery mode and the other does not. `ReachesTheTarget` has no such exception: what the client expects, composed from its inverse
of a fee and its fee, is the trove it wants, and what the contracts make of its request is the same but for the difference of the two fees and of the two
reserves, which the property names.

*Stability Pool.* `DepositsNearlyCovered`, `GainsCovered`, `IssuancePaidOnce`,
`StakesFollowDeposits`: sums of what everybody is owed against what there is. `DepositsCovered`, without
"nearly", is what a comment of the source promises and the run `deposit_rounding` refutes.

*Subgraph.* `IndexedTrovesAgree`: what the front end shows of a trove, from event and
snapshots, is the contracts' (`missed`: section 6). `TotalsAgree`: so are the totals, unless one of two
named circumstances misled the mapping. The total of collateral is only bounded from below,
for the mapping subtracts neither the gas compensation (a TODO in its source) nor the surplus of a capped liquidation.

*Store.* `StateBelongsToItsBlock`, `ReadsOneBlock`, `KeepsUp`. Reads of other
people's troves without a block tag do combine two blocks and are excepted. `KeepsUp` says of a watcher that a change
is reported, by a read of its block or of a later one, unless the read of the last event fails
(`ObservableEthersLiquity.ts:80` has no catch and no retry): then the change is lost.

*Providers.* `HearsBlocksOnce`, `AnsweredAtItsBlock`, `EverythingEnds`.

*Deployment.* `WiredToSaved`, `CompleteWhenDone`, `EventuallyWired`. Some guards of the testnet
script ask about another contract than the one they guard. `CompleteWhenDone` excepts the switches of its reruns
(`testnetDeploymentHelpers.js:485`, `:490`), which flip two of them back; every other setter is claimed of
reruns too, which do end (`initialize` is skipped the second time, line 240). `EventuallyWired` excepts a script that dies between
`PriceFeed.setAddresses` and the setter of `SortedTroves`, which guards it, or between `LockupContractFactory`'s and that of
`LQTYStaking` (`HalfWired`): every rerun sends the former again, and its contract is nobody's any more.

## 5. Proofs

All theorems hold for every value of the constants that satisfies the named
assumptions: finitely many borrowers, of whom `address(0)` is none; 100% < MCR < CCR;
scales and prices above zero (section 7 names what that leaves out); inputs that are natural numbers;
for the base rate a decay factor below one and a clock within a thousand years (`FeesAssumption`);
for the providers at least one socket, for providers and store a `None` that is no number;
for the deployment that scripts pass on and ask about only what they have created (`ProgramAssumption`), and that a
contract is given away by one setter, after all others addressed to it and all questions for its owner, that an initializer passes no
address and gives nothing away, and that no switch is
flipped twice (`OrderAssumption`). TLC evaluates both for the seven scripts.

*The list* (`SortedTrovesProofs`). `ListTypes`, `ListWellLinked`,
`InsertsAtValidPosition` and `ListSorted` are the checked invariants. They are not
inductive by themselves: a walk in progress must also know that the pair it
looks at are neighbours in a list that still spells its members, and that a node on
its way in is not yet a member. The invariant is proved with a witness, the
sequence that the pointers spell, and each way of unlinking and linking a node says
how that sequence changes.

That the pointers implement the abstract list (`ListImplementsSequence`) uses the same witness. The mapping of
`ImplementsSortedList` walks from `head` along `nextId`; `OrderIs` identifies what it finds with the sequence
that the pointers spell. Unlinking is then `Delete` (`UnlinkIsDelete`), linking is an `Insert` at a place that
the ratios allow, because the search has just accepted it (`LinkIsInsert`), and the steps of a walk and the moves of the
ratios are stutters.

*The ledger* (`LedgerProofs`). First owners array,
indices and list only: closing (`CloseKeepsBook`, with the swap of the last owner),
re-inserting and opening a trove keep them consistent. Then
`LedgerTypes`, `OwnersStayConsistent` and `SupplyIsDebt` from one inductive
invariant `IInv`. It states book, rewards, stakes and pools twice, for the present ledger
and for `committed`, because a revert makes the latter the former. It adds what the
steps rely on:

* a trove that is not active is empty, so that reopening it adds no old debt and the
  gas compensation of a stranger's address is never paid;
* no snapshot is ahead of `L`, so that pending rewards are not negative;
* a walk stands on a listed trove: `getPrev` of the trove that is about to be
  removed is still listed afterwards;
* while a loop is in recovery mode its tracked ratio is below CCR, and so below
  the ratio of an empty trove: whatever `_liquidateRecoveryMode`
  closes owes something and is active, without a look at its status.

There is one lemma for each action (`...OK`).

`SequencesTrackTheSystem` and `GasPoolIsFunded`
need one more fact, that a transaction which is not a liquidation has empty totals
(`Settled`); `GasPoolIsFunded` counts the active troves, and each close, opening or
end of a liquidation moves that count and the reserves alike. `DebtsStayAboveMinimum`
is inductive next to it, again for the present and the committed ledger, since a
redemption that is cancelled or reverted leaves debts it has touched.
`BorrowersKeepNormalMode` shows that the ratio which `_requireNewTCRisAboveCCR`
receives, computed before rewards are moved between the pools, is the ratio afterwards.

`TrovesOnlyGain` is the action property `OthersOnlyGain`: in any
one step a trove that stays open loses nothing, unless it is redeemed from, its owner adjusts it, or
a transaction is undone. Redistribution raises the rewards per unit staked; a stake's
share of them, rounded down, grows with them; and a step that rewrites a trove's
stake or snapshot has first added what was pending. A revert is excepted because it gives back what a
redemption took, and, where `hasPendingRewards` saw nothing (only `L_LUSDDebt` had grown), restores the old stake
in place of the new one.

*The sums of the ledger* (second half of `LedgerProofs`). The theory of sums over finite sets (`CollectionTheorems`: what one update
adds, that sums are linear and monotone) is proved once, by the library's induction over a number of elements.
Each step of the ledger rewrites the trove of one borrower, so that each sum changes by one term (`TrovesAddUp`, `SumsOK`, for the present and the
committed ledger):

* `ActivePoolIsExact`, `ClaimsAreFunded` and `StakesAreExact` are equalities, with what the transaction under way
  has closed, drawn or accounted and not yet sent.
* `DefaultPoolPaysCollateral` is an inequality in units of 1/`DECIMAL_PRECISION`: the sum of stake times (`L` minus snapshot),
  plus the last division's error, is at most the pool. A redistribution adds to both what it divides; a trove that
  takes its share, rounded down, takes from the pool no more than leaves the sum.
* `DefaultPoolIsEnough` says the same of the debt, and needs the condition `RewardsRiseTogether`: no redistribution raises the
  debt per unit staked and leaves the collateral as it was. `hasPendingRewards` looks at the collateral
  only. After such a redistribution a trove may be restaked without having taken its debt; the new stake
  then counts for the past, and the sum of the shares may exceed the pool. The condition is about behaviours, not constants,
  and it holds in every behaviour of the runs `liquidation` and `redemption` (checked by TLC, without symmetry, in
  2,096,746 and 397,724 states): the code meets the excepted case when less than 1e-18 units of collateral fall on a
  unit staked.
* `RedistributionsFindStakes` has the hypothesis `StakesPositive`, that no open trove has a stake that was rounded down to zero. It holds in the
  same states. Stakes shrink, relative to the collateral, as redistributions accumulate,
  and the code has the assertion but nothing that keeps the last stake above zero.
* `LedgerIsBalanced` puts them together for the run `redemption`.

*The hints* (the last part of `LedgerProofs`). `HintsAreExact` is the action property `HintsStayExact`. The walk of
`getRedemptionHints` is a recursive function of place and amount, of which a `HintWalk` is the equation: it has a solution for
every list (`WalkExists`), two lists that agree up to a place give the same there (`WalksAgree`), and an amount cut to what a
walk can redeem gives the same ratio and leaves nothing (`WalkTruncated`). None of these needs an induction theorem: the
proofs look at the first place where the claim fails. A whole redemption then takes the last place off, and what its step
changes (the list, the pools, the index of another owner) is nothing that the walk over the others reads
(`PlacesKept`). Partial redemptions need `NetIs`, that what `getRedemptionHints` counts as pending is what
`_applyPendingRewards` moves; this is where the condition `RewardsRiseTogether` is needed again, because the hints count a
pending debt whether or not collateral is pending with it.

*Whom a redemption comes to* (the end of `LedgerProofs`). `RedemptionsSpareTheRisky` is the action property `RedemptionSparesRisky`. Hint and
search look at the trove where the redemption starts and at its neighbour towards the tail; nothing looks at the troves that
`getPrev` leads to afterwards. The invariant `Spared` says that from the present trove to the head all are at or above MCR. It is kept, because a
trove that is redeemed from takes no part in the others' ratios (`PlacesKept`), and it holds at the start if the list is in the order of the ratios then, which is the
condition `RedemptionsFindOrder`. The condition cannot be dropped: a redistribution rounds the two
parts of each trove's share by themselves, and may leave two neighbours the other way round. (It does in the run `liquidation`. In the run `redemption` the list
is in order in every state; both checked by TLC.)

*The base rate* (`FeeRatesProofs`). Both sides compute powers by repeated squaring, with two loops, and both loops are recursive
functions of a record. That they have a value at all, and what it is, follows from the equation by the smallest
argument where a claim fails (`RecursionExists`, `StrongInduction`), without the library's induction theorems. `LoopsAgree` shows that the
two loops compute the same, rounding included. The reference multiplies once for each minute, rounding down (`Steps`). Multiplying
by a fraction does not enlarge an error and adds one of its own (`MulLipschitz`, `RoundedMulBounds`), so a loop for *n* minutes
is less than 2*n* last digits off (`LoopNear`), and a rate times such a power at most 3*n* off the reference
(`DecayNear`).

`RateKeepsDecaying` and `RateNotLostEarly` say nothing of `lastFeeOperationTime`. The inductive invariant `FeesInv`
does: it says that the stored rate has decayed by some number *k* of minutes since the redemption (`Counted`), that these
end less than a minute after the clock, so none was counted twice, and that they are at least half of what the clock has moved,
because a step that moves the clock drops less than a minute and counts at least one. An operation within the minute counts
nothing and does not move the clock. (TLC checks `FeesInv` with *k* up to 10.)

`ClientPredictsRates` and `ClientReachesItsTarget` hold for any two sets of parameters. Two sums of one rate and a floor, each cut at a cap,
differ by a number between the difference of the floors and that of the caps (`ClampedBetween`). For the target, the
client divides the debt it wants by `1 + rate`, rounding up, and multiplies by it again
(`FeeRoundTrip`): what the rounding added comes back times `1 + rate`, which is one last digit as long as the rate is at most one, and more beyond.
The client's cap, `MAXIMUM_BORROWING_RATE`, is at most one (5%); nothing is assumed of the contracts', to which `Governance.setMaxBorrowingFee` sets
no limit.

*The Stability Pool* (`StabilityPoolProofs`). `DepositsAreNearlyCovered` holds for any depositors, scales, epochs and numbers of offsets. A deposit has a
*weight*, its initial value over the product in its snapshot, and what is left of it is the weight times `P`,
rounded down. `PoolInvariant` says that there are such weights, in parts of some whole `K`, so that all of
them times `P`, plus `lastLUSDLossError_Offset`, are at most the pool plus `MaxDeposits` parts of `DECIMAL_PRECISION`
(scale and epoch accounted for). An offset multiplies the left side and the pool by the same factor but for its
rounding, which is its own error; the error of the previous offset it gives back in full, although in the
invariant that one has shrunk too, and the `MaxDeposits` parts, which it never exceeds, make up for the difference. A deposit or withdrawal replaces one weight,
in parts of a finer `K`. Nothing here is particular to two offsets. `SmallPoolIsCovered`
is the case of less than one such unit, which is the run `stability_pool`.

*The store* (`StoreProofs`). `StoreIsOneBlock` needs `StoreInv`: answers that have come for
a read are values of its block, whatever other reads are underway. `CachedReadsAreOneBlock` adds
`QueryInv`: at each await of a tagged read there is only one possible result left.

*The providers* (`ProviderProofs`). `BlocksAreHeardOnce` needs that sockets which were never opened hear nothing
(`ListenerInv`), or else the next one would start with a listener too many. `AnswersAreAtTheirBlock` needs that all calls of a batch and of a request have
its block tag, and that an answered call has asked (`BatchInv`).

*Deployment* (`DeploymentProofs`). `FileIsClosed`: the references of *every* contract
on the chain, forgotten ones included, and of every transaction in the mempool lead to contracts in use. This
is inductive together with: the objects of a run are those of the file; a run knows exactly what its steps so far have
created; and the contract that is awaited is the last one of the mempool, or of the
chain once the mempool is empty, even behind transactions of a crashed run.

`NothingIsLeftUndone` (`CompleteWhenDone`) is about the questions a rerun asks. It passes a setter by when the guard has been
renounced, and by then must not have lost anything that setter does, although a crashed run's setter may be mined at
any time, also between question and setter. `Promises` says what a renounced owner tells: such a contract has been told
all that any step tells it, and all setters that ask for its owner before they are sent are done; a transaction in the
mempool that renounces will leave it so. It can be sent only by the one final setter, and the steps before it are done
(`SettersDone`), which is where `OrderAssumption` is needed. What is done stays done (`DoneStays`), as names and books only grow.
A switch has no such memory, since flipped twice it is off again: `SwitchesFlipped` says that in a
first run nothing but the awaited transaction is on its way, and exactly the switches behind the run are on. Hence no
question is answered yes by accident, and no switch is passed by. That a contract behind a proxy is initialized needs no such
care: `initialized` never goes back, and it is the initializer itself that is asked for.

*Model-checked only.*
* Liveness: `WalkEnds`, `KeepsUp`, `EverythingEnds`, `EventuallyWired`.
* `GainsCovered`, `IssuancePaidOnce`, `StakesFollowDeposits`: they hold within the bounds of section 3 only, for the
  reason given in section 6.
* `IndexedTrovesAgree`, `TotalsAgree`: the subgraph folds its handlers over the events of a block, and what the fold
  computes for a block of any length takes an induction over it. `TotalsAgree` also depends on the bounds
  (section 3, `subgraph`: tiny amounts).

## 6. Findings

*Batch liquidation and the surplus* (`batch_recovery`). `TroveManager.sol:405` says that a
trove between MCR and the system's ratio is liquidated while its ratio is below the
current one, "accounting for the preceding liquidations in the current sequence". After
a capped liquidation `liquidateTroves` takes the offset collateral and the surplus off its copy of the
system's collateral; `batchLiquidateTroves` takes off only the former (line 848). The
copy is too high, and the run shows a batch that closes a trove whose ratio is not
below the system's.

*What an offset takes too much* (`deposit_rounding`). `StabilityPool.sol:656` rounds the loss per unit up: "We want
"slightly too much" LUSD loss, which ensures the error in any given compoundedLUSDDeposit favors the Stability Pool." Two lines
above it, what the previous offset took too much is given back by subtracting `lastLUSDLossError_Offset` from the numerator.
That error was taken from a larger `P`, and the new factor applies to a smaller one: the
product can end up above the share that is left. With a deposit of 44 on a scale of 25, offsets of 2 and 35 leave a pool of
7 and a deposit worth 8. The excess is at most one unit for each `DECIMAL_PRECISION` in the pool
(`DepositsAreNearlyCovered`): with a scale of 1e18 and millions of ARTH, some millions of 1e-18 units in sum. It matters to the last
depositor, whose withdrawal of everything fails in the subtraction from the total
(`fuzzTests/PoolManager_AllDepositorsCanWithdrawTest.js:14` "checks whether all SP depositors can successfully withdraw").
The same excess earns gains: with three offsets TLC finds gains of 51 against 50 in the pool.

*Withdrawing gains in the subgraph* (`deposit_index`). A comment in
`StabilityDeposit.ts:81` expects that a withdrawal of gains alone reports no
change of the deposit. `withdrawFromSP` reports the deposit before its loss, so
after an offset the handler of `UserDepositChanged` sees a change and records it as `withdrawTokens`. The indexed deposit then
lacks the loss, and the handler of `ETHGainWithdrawn`, which comes next, subtracts the loss it reports a second time. `withdrawETHGainToTrove`
has the two events in the other order.

*A remark on the client's parameters.* `lib-base/src/constants.ts:4` calls
`CRITICAL_COLLATERAL_RATIO` the "Total collateral ratio below which recovery mode is
triggered." It is 150%; the contracts' `CCR` is 110%. In between, the client takes
the system to be in recovery mode and predicts a borrowing fee of zero, while the contracts charge what `Governance` says. By default
that is zero as well, for the floor and the maximum of the borrowing fee both are (`Governance.sol:27`, `:29`);
the client's copies of these are 0.5% and 5%, so that by default it predicts a fee in normal mode which nobody charges. Other copies
differ as well: the minimum ratio (110%, contracts 105%), the liquidation
reserve (200, contracts 5), the minimum net debt (1800, contracts 50) and the floor of the
redemption rate (0.5%, contracts 0.1%). A trove opened by the client therefore has 195 less of debt than the client expects,
before fees. The run `fees` gives each side its own, and its properties say how far predictions can be off.

*A snapshot the index misses* (no run: it takes five troves and eight transactions). A redemption that comes to a
trove first applies its pending rewards; if it then cancels, they stay applied. When the trove is so small that they round
to zero, the contract has moved its snapshot and reports unchanged amounts, on which `updateTrove` of the
subgraph returns early (`Trove.ts:101`) with the old snapshot. After the next redistribution the front end
rounds once where the contracts round twice and shows a unit more. Such troves are `missed`:
`IndexedTrovesAgree` claims for them only that the front end never shows less. No trove is missed within the bounds of
the run `subgraph`. With `DECIMAL_PRECISION` 100: troves of 287, 3, 3, 1 and 2 units of collateral and 5000, 269, 269, 51
and 120 of net debt, opened at a price of 9900; at 9000 the second is liquidated, the fifth redeemed, the fourth
cancelled and the third liquidated. The fourth has 52 of debt, and 53 in the index.

## 7. What is not modelled

*In modelled parts.*
* Bootstrap period, `registerFrontEnd`, the split of the borrowing fee; the ledger takes
  the rate of a fee from a set instead of composing `FeeRates`, which would multiply its states by a clock.
* `ActivePool.borrow` and `repay`: what the AMO does with the collateral is not in this code.
  Several deployments of one token.
* Overflow of 256 bits: SafeMath reverts, and no amount in the protocol comes near.
* Permit, allowances, access control. Re-entrancy: collateral is an ERC20 without callbacks.
* The redistribution that raises the debt per unit staked and not the collateral
  (dust). `hasPendingRewards` looks at the collateral only; the runs keep both above
  zero. (The theorems do not exclude it.)
* A price of zero: `PriceFeed` returns one when an oracle's call fails, since nobody looks at `success`.
  With it every ratio is zero and the capped offset divides by it.
* `getApproxHint` (it returns some owner, and the list is checked for any hints), the client's
  cap of 70 troves, and its second attempt with a truncated amount.
* `deploy.ts` with a Uniswap pair in place of the `UniToken` (`createUniswapV2Pair`), and `connectUnipool` of the hardhat script,
  which no deployment calls.
* Parsing and formatting of decimals; thirty fields of the store for three; paged reads.
* The subgraph's history entities and sort key; several depositors. The front end's two queries for a trove
  (`SubgraphLiquity.ts:220-227`) are taken to see one state of the index. `TroveManager.setAddresses` emits
  no `PriceFeedAddressChanged`, from which the mapping would learn the price feed: the model assumes that it is known.
  `lib-subgraph` asks for `currentTrove` where the schema has `trove`: the model follows the schema.

*Parts left out.*
* IncentivePool (called at `BorrowerOperations.sol:247`, `:449`, `:483`): balances and rewards of its own in the
  pattern of CommunityIssuance; nothing in the ledger reads it.
* Governance, EcosystemFund: setters of what the models take as constants. Timelock: one map with
  one `require` per case. UniswapPairOracle: arithmetic modulo 2^32 and 2^256 that nothing
  modelled reads. MultiTroveGetter: a view.
* `PopulatableEthersLiquity` but for its use of hints: encoding of transactions and decoding
  of receipts. `mainnetDeployment/deployer.js`: most of it is commented out, and what is left requires a
  file that is not in the repository.
* Proxies and scripts; third-party token code; fuzzer, simulations, gas reports, examples, front
  ends; tables of ABIs and accounts. The latter make up most of the JavaScript, and there
  is no behaviour in them to model.

## 8. Plan

The plan of this development is carried out: the ledger and its list first, then hints, fees, the pools' own
bookkeeping, clients, subgraph and deployment. What section 7 leaves out is left out for the reason it
gives. The proofs cover list, ledger, base rate, Stability Pool,
store, providers and deployment; what is left to TLC, and why, is said at the end of section 5.
