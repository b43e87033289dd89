# PERI Finance in TLA+

TLA+ models of PERI Finance (a fork of Synthetix with a token bridge, a
cross-chain debt ledger and external staking tokens): of its contracts, and of
the scripts that deploy and operate them; the TLC configurations that check the
models on small instances, and machine-checked proofs of the main invariants.
Paths of contracts are relative to `src/contracts/`, paths of scripts to
`src/publish/src/`.

Contents: 1 the system, 2 the plan, 3 the modules, 4 the runs, 5 fairness,
6 the proofs, 7 what is not modelled.

## 1. The system

A network runs one copy of the contracts. Everything of a network is executed
by one transaction at a time, so the interleavings that matter are those of
whole transactions: of users, of the owner, of oracles and debt managers, of
the keepers, and of the bridge validators, which are the only processes that
act on two networks.

| Component | State | State-changing operations | What makes it correct |
|---|---|---|---|
| **Bridge**: `BridgeState`, the bridge calls of `MultiCollateralPynth` | `outboundings`, `inboundings`, `accountInboundings`, `outboundPeriods`, the list of periods to process, totals and `movedAmounts`, the pynth's balances | `overchainTransfer`, `claimAllBridgedAmounts`, `appendInboundingRequest(s)`, `closeOutboundPeriod`, `processOutboundPeriod`, owner settings | a burned amount is issued at its destination once, and eventually; no request falls out of the periods |
| **Exchange**: `Exchanger`, `ExchangeState`, `VirtualPynth` | queue of unsettled exchanges per account and pynth, `lastExchangeRate` | `exchange`, `settle`, `suspendPynthWithInvalidRate`, `resetLastExchangeRate` | a settlement replaces the price at the exchange with the price at the end of the waiting period, once, and can always be paid |
| **Prices**: `ExchangeRates` | rounds per currency, inverse pricing | `updateRates`, `deleteRate`, `setInversePricing`, `freezeRate` | the round at the end of a waiting period, once past, is fixed |
| **Debt cache**: `BaseDebtCache`, `DebtCache` | `_cachedDebt`, `_cachedPynthDebt`, validity | `takeDebtSnapshot`, `updateCachedPynthDebt*`, `purgeCachedPynthDebt`, `updateDebtCacheValidity` | the total is the sum of its parts, whatever is updated alone |
| **Issuance**: `Issuer`, `PeriFinanceState` | pynths, issuance data per account, `debtLedger`, `totalIssuerCount`, last issue event | `issuePynths`, `issueMaxPynths`, `burnPynths`, `fitToClaimable`, `exit`, `liquidateDelinquentAccount`, `addPynth`, `removePynth` | issuing or burning moves the share of the caller and nobody else's debt |
| **Cross-chain debt**: `CrossChainManager`, `CrossChainState` | issued and active debt per network, `outboundSumToCurrentNetwork` | the setters of the debt manager, add/subtract of issued debt | the share of a network follows what is issued on it; bridging does not move debt |
| **Fees**: `FeePool`, `FeePoolState`, `FeePoolEternalStorage` | fee periods, debt entries per account, last withdrawal | `closeCurrentFeePeriod`, `claimFees`, `recordFeePaid`, `appendAccountIssuanceRecord` | what is claimed was collected, once, in proportion to the debt held |
| **Escrow**: `BaseRewardEscrowV2`, `ImportableRewardEscrowV2`, `RewardEscrow`, `PeriFinanceEscrow` | vesting entries, escrowed and vested totals | `vest`, `createEscrowEntry`, `appendVestingEntry`, `mergeAccount`, migration | escrowed totals are the sum of the entries; nothing vests twice or early |
| **External staking**: `ExternalTokenStakeManager`, `StakingState` | staked amounts and staker counts per token | `stake`, `unstake`, `redeem`, `unstakeToFitTR`, `exit` | totals and counts follow the accounts; what is refunded was staked |
| **Liquidations** | flag and deadline per account | `flagAccountForLiquidation`, `checkAndRemoveAccountInLiquidation`, `liquidateAccount` | only an account past its deadline and under the ratio is liquidated |
| **System status** | suspension per section, pynth, exchange | `suspend*`, `resume*` | only who may suspend suspends; a resumed part is whole |
| **Collateral**: `Collateral`, `CollateralErc20/Eth/Short`, `CollateralManager`, states | loans, interest indices, debt per currency | `open`, `close`, `deposit`, `withdraw`, `repay`, `draw`, `liquidate` | long and short totals follow the loans |
| **Binary options**: `BinaryOptionMarket`, `Manager`, `Factory`, `BinaryOption` | bids, options, deposits, phase | `bid`, `refund`, `resolveMarket`, `claimOptions`, `exerciseOptions`, `expire`, migration | deposits cover every claim; phases only advance |
| **Depot**, `StakingRewards`, `ShortingRewards`, `TradingRewards` | deposit queue; stakes, reward per token | `depositPynths`, `exchangeEtherForPynths`; `stake`, `getReward`, `notifyRewardAmount` | queue and totals agree; rewards paid were provided |
| **PERI token**: `PeriFinance`, `BasePeriFinance`, `PeriFinanceTo*`, `SupplySchedule`, `RewardsDistribution` | balances, mint schedule | `transfer`, `mint`, `inflationalMint`, `overchainTransfer`, `claimAllBridgedAmounts` | supply follows the schedule and the bridge |
| **Messenger bridge**: `PeriFinanceBridgeToBase/ToOptimism`, `MintablePeriFinance` | deposits, activation | `deposit`, `withdraw`, `completeDeposit`, `completeWithdrawal`, `migrateBridge` | what is minted on one side is locked on the other |
| **Deployment**: `commands/deploy.js`, `Deployer.js`, `util.js`, `prepare-deploy`, `versions-update` | `config.json`, `deployment.json`, `versions.json`, `owner-actions.json`; what a run keeps in memory; the links between the contracts | one run of the script; a release; the notes after it | a run that dies can be run again; a clean run leaves everything wired, and the next one does nothing |
| **Owner actions**: `commands/owner.js`, `commands/nominate.js`, `safe-utils.js` | entries that are complete, nominations, the safe's nonce, the transactions of its service | walking the entries, approving, handing over, noting; execution by the other signers | each call is executed once, in order, or is known to be lost |
| **Operator commands**: `purge-pynths`, `remove-pynths`, `settle`, `migrate-binary-option-markets`, `connect-bridge`, `deploy-shorting-rewards` | the list a run has read, the files, the nonce of the account, how far it is | one transaction at a time, in batches, on a system that is in use | nobody is left with a pynth that is gone or a short that cannot be closed; what failed is done by the next run |
| **Plumbing**: proxies, resolver, `Owned`, `State`, `TokenState`, `ExternStateToken`, `EternalStorage`, `FlexibleStorage`, `SystemSettings`, `DelegateApprovals` | owners, addresses, settings | setters | a setter writes what it is given |

How they interact:

* `Pynth.transfer`, `Exchanger.exchange` and `Issuer._burnPynths` all settle
  the exchanges of a pynth first, so balances of an account can change in the
  middle of a call that has read them already.
* `Exchanger` and `Issuer` report each change of supply to `DebtCache`, which
  reads `ExchangeRates`; `Issuer` turns a debt amount into a share of the debt
  of the network, which `CrossChainManager` derives from the cached debt, the
  bridge counters and what the debt manager last said of the other networks.
* `FeePool` reads the issuance records that `Issuer` appends; `RewardEscrowV2`
  receives what `FeePool` pays; `Liquidations` and the external staking ask
  `Issuer` for ratios and have it burn.
* `BridgeState` counts what moves between networks, `CrossChainManager` nets it.

* A deployment is a process outside: it reads and writes the files and sends
  one transaction after the other, without any atomicity between a transaction
  and the file that notes it. What the deployer does not own it leaves in
  `owner-actions.json`; the owner's command hands that to a safe, whose other
  signers execute it when they like. Contracts cache the addresses they resolve,
  so that a new contract needs other contracts to be told.

The hard behaviours: calls of different users in any order; values read before
a settlement and used after it; oracle rounds that arrive late; validators that
race, retry and restart; batches that fail as a whole; integer rounding that
leaves dust in shares and totals; caches that may be stale; counters at zero;
limits (queue lengths, deviation factors, waiting periods); the order of
claims, period closings and ratio changes; scripts that die between a
transaction and its record and are run again, on what they had read before
others changed it.

## 2. The plan

In the order of importance and of dependence:

1. `Bridge` over two networks with validators, its abstract specification
   `TransferLedger`, liveness, and proofs of its invariants.
   Done.
2. `Exchanger`: exchanges, settlement, rates and debt cache of one network.
   Done, with proofs of all its properties.
3. `Deployment` with the script of `deploy.js`, `OwnerActions`, and the commands
   of operators (`Operations`): crashes and restarts, liveness of repeated runs,
   and proofs that the files know the chain, that nothing is wired to what no
   file knows, that no call waits twice, is executed twice or overtakes another,
   that nobody is stranded, that markets are counted and that shorts can be
   closed. Done.
4. `DebtPool`: issuance, debt register and cross-chain share, composed with the
   exchanges of 2. That issuing and burning leave the debt of the others alone, up
   to a named rounding bound, is the property of a step `DebtFollowsIssuer`.
   Done but for external tokens (with 7), addition and removal of pynths, and
   the other setters of the debt manager; that bridging moves no debt and that
   collateral is respected is proved. Its abstract specification, a pool of
   shares, is left, and a proof of `DebtWithinTotal` and `DebtFollowsIssuer` with a
   rounding bound for every instance.
5. `FeePool`: periods, rollover, claims; theorem: what is claimed of a period
   never exceeds what was to distribute.
6. `RewardEscrow`: vesting entries, merge, append; theorem: totals are sums.
7. `ExternalStaking` with `Liquidations`: counts, refunds, deadlines.
8. `BinaryOptions`: the market's phases and options, besides the lists and
   deposits of `MarketMigration`.
9. `Collateral`: loans and shorts against the manager's totals, besides the
   enrolment of shorts in `ShortRewards`.
10. `StakingRewards`, `Depot`, `VirtualPynth`, messenger bridge.

## 3. The modules

| Module | What it is |
|---|---|
| `Lists` | `PositionOf`, `RemoveId`: the search-and-shift removal that `claimInbound` and `processOutboundPeriod` share, with its default index 0 |
| `Bridge` | `BridgeState` on every chain, the pynth's bridge calls, the validators |
| `TransferLedger` | what the bridge promises: transfers in transit, claimable, settled |
| `MCBridge` | the constants of the small instances of `Bridge` |
| `SafeDecimal` | the fixed-point operations of `SafeDecimalMath`, truncating and rounding |
| `Prices` | `ExchangeRates`: rounds, inverse prices, freezing, the oracle |
| `Exchanger` | `Exchanger`, `ExchangeState`, `DebtCache`, the transfers of `Pynth`; EXTENDS `Prices` |
| `MCExchanger` | the constants of the small instances of `Exchanger` |
| `DebtPool` | `Issuer`, `PeriFinanceState`, `CrossChainManager`, `CrossChainState`, the bridge of pUSD; EXTENDS `Exchanger` |
| `MCDebtPool` | the constants of the small instances of `DebtPool` |
| `DeployScript` | the steps of `deploy.js`, in its order, as a sequence of records |
| `Deployment` | `Deployer`, `performTransactionalStep` and the files, walking that sequence; the owner, users and releases between the runs; EXTENDS `DeployScript` |
| `MCDeployment` | the constants of the small instance of `Deployment` |
| `OwnerActions` | `owner.js`, `nominate.js`, `safe-utils.js`, the safe and its service |
| `MCOwnerActions` | two entries and one contract |
| `PynthCommands` | `settle.js`, `purge-pynths.js`, `remove-pynths.js` and the people who use the pynths meanwhile |
| `MarketMigration` | `migrate-binary-option-markets.js` and the two managers of markets |
| `BridgeConnection` | `connect-bridge.js`, the resolvers and bridges of two layers, and the deployments of others |
| `ShortRewards` | `deploy-shorting-rewards.js`, and the borrowers whose shorts `Collateral` enrols at `ShortingRewards` |
| `Operations` | one of these four, with the fairness of operators; INSTANCEs all |
| `MCOperations` | the small instance of `Operations` |
| `DeploymentProofs`, `OwnerProofs`, `OperationProofs` | the inductive invariants of these modules and their theorems |
| `ExchangerProofs` | those of `Exchanger` and `Prices` |
| `ListProofs` | lemmas on `Lists`, on ascending sequences of ids, and on sums over sets and sequences |
| `PoolProofs` | those of `DebtPool`; EXTENDS `ExchangerProofs` |
| `BridgeProofs` | the inductive invariant of `Bridge` and its theorems |
| `LedgerProofs` | `Bridge` implements `TransferLedger`, conserves what is owned, and its counters agree |

### Bridge

One variable per state variable of `BridgeState`, indexed by chain, with the
name it has in the source; `balanceOf` and `totalSupply` are the pynth's
`TokenState`; `roles[c]` is the set of validators, `networkOpened[c]` the
destinations accepted. `movedOut` and `movedIn` are the two rows of
`movedAmounts`. Ids are numbered from 1. A signature is the pair that
`ecrecover` makes of it, its signer and the amount signed; the source chain
stores it unchecked, `ClaimAllBridgedAmounts` verifies it.

One action per entry point: `OverchainTransfer` (burn, append, and the
period refresh that follows in the same call), `ClaimAllBridgedAmounts` (the
whole loop or a revert), `AppendInboundings` (one id or a batch),
`CloseOutboundPeriod`, `ProcessOutboundPeriod`, and the four owner settings.
`claimAllBridgedAmounts` walks a copy of a list from which each iteration
removes an id; the action takes the effect of the whole loop and
`ClaimLoopEmptiesInbox` compares it with the loop run id by id.

A validator is not in the repository. It is modelled from the entry points and
views it has: it picks a period of the list (`PickPeriod`: reads the ids and
which of them are registered), registers pending requests one by one or
together (`Relay`), drops those another validator registered
(`SkipRegistered`), marks the period processed (`FinishPeriod`) or finds that
another did (`AbandonPeriod`), and may restart and forget (`Crash`). Between
two of these steps anything else may happen, so what it knows is stale.

`LedgerSpec` maps `Bridge` to `TransferLedger`: `inTransit` is what no
destination has registered, `claimable` what is registered and unclaimed,
`settled` what is claimed. Closing, marking, retrying and restarting stutter.

### Prices

`rates[k]` is the sequence of rounds of a key (`_rates` and
`currentRoundForRate`): round ids are positions, deleting a price drops the last
round, and the next price takes its id again, as in the code. `inversePricing`
and `roundFrozen` have their names. `posted` records when a round reached the
chain; no action reads it.

`UpdateRates` is a whole batch of the oracle (older prices skipped, the rest
appended), `DeleteRate`, `SetInversePricing`, `RemoveInversePricing` and
`FreezeRate` are the other entry points. The walk of
`getLastRoundIdBeforeElapsedSecs` is a CHOOSE of the round where it stops.

### Exchanger

`exchanges[a][k]` is the queue of `ExchangeState`, `lastExchangeRate` and
`pynthSuspension` have their names, `cachedPynthDebt`, `cachedDebt`,
`cacheInvalid` and `cacheTimestamp` are the state of `DebtCache`, and
`feesToDistribute` adds up what `recordFeePaid` is told. `balanceOf[k][a]` stands
for the token states; the supply of a pynth is their sum.

`InternalExchange` is `_exchange`. It settles the source first and then ends in
one of three ways without a revert: nothing is left to exchange
(`NothingToExchange`), the circuit breaker suspends one of the two pynths
(`BreakCircuit`), or the exchange takes place (`ConvertAndAppend`). In the first
two the early return skips the update of the debt cache, as in the code: the
settlement was made with `updateCache` false. `Transfer`, `TransferToZero`,
`TransferToFeeAddress` and `TransferAndSettle` are the four shapes of
`Pynth.transfer*`; the fee address receives pUSD by an exchange of its own, with
an entry in its queue. `Settle`, the updates and snapshots of the cache,
`SuspendPynthWithInvalidRate` and the owner's `ResetLastExchangeRate`,
`ResumePynth` and `ConfigureInverse` complete the entry points.

Loans and shorts of the collateral contracts are constants here, `Longs` and
`Shorts`: they only enter the value of a pynth and of the snapshot.

A partial update is modelled on the state that the calls before it leave, hence
`IssuedPynthValue(k)'`. The subtraction of SafeMath is a guard
(`cached <= cachedDebt`), so a revert is an action that is not enabled.

### DebtPool

A step of `PoolSpec` is a step of a staker, of the bridge or the debt manager, or
any step of `Exchanger`; the three parts share the balances and the debt cache.
`issuanceData`, `debtLedger` and `totalIssuerCount` are the state of
`PeriFinanceState`, with ledger positions from 1; `lastIssueEvent` is the entry
in the flexible storage; `selfIssuedDebt`, `crossIssuedDebt`, `crossActiveDebt`
and `outboundSum` are the state of `CrossChainState`; `totalOutbound` and
`totalInbound` are the totals of the bridge state of pUSD.

`ActiveDebt` is `_currentNetworkActiveDebt`: the cached debt, plus what has left
and minus what has come, plus the debt of the other networks, times the share of
this one in all that was issued. `DebtBalanceOf` is the share of an account,
scaled by the ledger since its last step. Both round at the precision of 10^27
(`PreciseUnit`) and then at 10^18, as the code does.

`IssuePynths` and `IssueMaxPynths` are the two ways to issue (`InternalIssue` is
`_issuePynths`); `BurnPynths` and `Exit` settle the account's pUSD first and burn
with the debt read before (`SettleAndBurn`); `FitToClaimable` burns the excess
with neither settlement nor stake time. What `SafeMath` or a `require` would
revert is a guard (`CanRemoveDebt`, `DebtReadable`, and the total by which
`AddToDebtRegister` divides). `OverchainTransfer` and
`ClaimBridgedAmount` are the effect of the bridge calls on this network;
`SetCrossNetworkDebtsAll` is the report of the debt manager.

### Deployment

`DeployScript` is a table: each record is a call of `deployContract` (with its
dependencies and the addresses its constructor stores), a call of `runStep` (the
contract called, the slot it sets, the value, and whether a value that is set
already is kept), or one of the blocks of `deploy.js` that are neither: fee
periods, `importAddresses`, `rebuildCaches`, the recall, replacement and addition
of pynths. `given` and `when` are the conditions the code asks before a step.

`Deployment` walks it. `chain` holds the addresses that have a contract (an
address is a name and an instance), `slots` what the contracts store, `config`,
`targets`, `versions` and `actions` are the four files. `SendDeployment`,
`RecordDeployment` and `RecordConfig` are the transaction of a deployment and the
writes of the two files, with room for a `Crash` between each; `ReuseContract`
is the contract that is not flagged. `SetStep` is `performTransactionalStep`:
what is as expected is passed over (`PassOver`, for all such steps in a row),
what the deployer owns is called, the rest is `Staged`. A run that may not import
addresses ends (`ImportAddresses`), one whose call reverts does too (`Fail`).
Between runs the owner acts, in the order of the file; ownership is handed over;
governance tunes a setting, through the settings contract that the storage at that
time admits (`ContractStorage.sol:52-57`; a call from any other one reverts,
`Reverts`); users come to hold pynths; a deployment is noted in `versions.json`; a
release sets flags.

What the proofs need of the table is in `ScriptAssumption`, part by part:
`StepsInOrder` (import, rebuild, sort and add happen once and in this order, after the
deployments they are about), `ContractsInOrder` (each contract has one deployment, after
those it is given; the optional ones, as `VirtualPynthIssuer`, are required by
nobody), `LinksInOrder` (a slot that holds a contract is set after
that contract is deployed, on one whose deployment asked for it, and the resolver is set
at its proxy before the caches are rebuilt), `PynthsInOrder` (each pynth is recalled
before and queued after it is deployed), `FieldsApart` (one step per such slot, which a
constructor sets alike) and `SettingsInOrder` (what is set through the settings contract is
set after the caches are rebuilt, and the steps for one slot agree; each setting that
governance may tune has one step, which stores a fixed value in `FlexibleStorage` through
`SystemSettings` where there is none).
`NetworkAssumption` says that every `config.json` lists the contracts in `Core`,
which `deploy.js` asks for. TLC evaluates both on the table of `deploy.js` in every run
of `deploy`: a step moved to a wrong place there fails the run.

### OwnerActions

The command walks the entries and then the nominated contracts (`Tasks`). For a
safe, `TakeNonce`, `Approve`, `Submit` and `Record` are its four steps, each of
which may fail in the way the code lets it: a nonce that cannot be read is that of
the safe (`blind` remembers it), an approval that fails ends the command, a
transaction that the service refuses is only logged. `SendDirectly` is an owner
that is an account: it sends the call and waits for the receipt. web3 gives up after
50 blocks, or the connection drops, and `owner.js:216` ends the command in the same
way as for a call that the node has refused, though this one may still be mined:
`inFlight` holds it, `MineLate` mines it, and `lost` counts such receipts. A call sent
while another is in flight takes its nonce and its place. An account that died after it
had sent a call leaves it in flight too. `staged` and `since` are the list and the nonce read when the
command began, and are not refreshed, as in the code. `Execute` and `Propose` are
the other signers.

### Operations

`PynthCommands` has one variable for which command runs and what is left of its
list; `held`, `waiting` and `due` are what the pynths and the exchanger know of
a pair of holder and pynth, from nothing to exchanged, to waiting, to settleable.
`remove-pynths.js` checks the supply, sends the removal or leaves it to the owner,
and writes its files, in separate steps; `purge-pynths.js` reads the holders once,
at most as many as the API returns, and exchanges them batch by batch;
`settle.js` spends a nonce per exchange whether or not the node takes it, and
`Mine` takes transactions in the order of nonces, which are counted from that of the
account. A settlement may revert: it is not yet due, the pynth is suspended (`Active`),
the Issuer has dropped it, or the account has less than is reclaimed (`unpayable`: a
`Transfer` may leave too little for a price that comes late). A purge asks for a valid
`rate` and for settlements that can be paid, and reverts otherwise; a price that is too
far from the last one stops it without an error, with the holders settled, none of them
purged and the pynth suspended (`ExchangeAll`, `Exchanger.sol:555-560`). It does not ask
whether the pynth is suspended: the suspension is looked at by the modifier of
`BasePeriFinance`, by `settle` and by transfers, and `PurgeablePynth` calls
`Exchanger.exchange`. `Trouble` moves prices and suspends and resumes. `MarketMigration` keeps the
lists and totals of two managers and moves chunks of the lists its command read.
`BridgeConnection` has, for each layer, the bridge in its `deployment.json`, the two
names in its resolver and what each bridge has cached of them; the command walks the
layers with the bridges it read at its start, while `Redeploy` replaces one and
`RebuildByOthers` calls the public `rebuildCache`. In `ShortRewards` the command
deploys (`deployContract`), notes it (`Record`), makes it know `CollateralShort`
(`rebuildCache`) and links it or leaves that to the owner (`Link`, `OwnerLinks`);
`Open` and `Close` are the calls of `Collateral` that draw and repay, with the
enrolment and the withdrawal they make at the contract that is linked. `crossed`
remembers who had shorts open when the link changed.
The four parts share nothing, so a behaviour of `Operations` is one of a part.

## 4. The runs

| Run | Instance | What it shows |
|---|---|---|
| `bridge_safety` | 2 chains, 2 requests of 1 or 2 of two accounts, either account's signature on either request, periods of size 1 or 2 and duration 1, 3 instants, 2 validators, 1 owner call | `TypeOK`, `RelayedOnce`, `InboxExact`, `PeriodsWellFormed`, `ClaimLoopEmptiesInbox`, `SupplyConserved`, `MovedAmountsAgree` |
| `bridge_live` | 2 requests filling a period, 2 validators, 1 restart, 1 owner call, 1 instant | `ProcessedMeansRelayed`, the refinement `LedgerSpec`, `ClosedPeriodsProcessed`, `TransfersClaimed` |
| `exchanger_users` | pUSD and pBTC, one account and the fee address, 2 user calls, prices 1, 1.5 and 2 reported up to one second late, waiting period of one second | `CacheIsSum`, `SettlementAffordable`, `WorthConserved`, `PriceStepsBounded` |
| `exchanger_owner` | pUSD, pBTC and the inverse iBTC, whose price reaches both limits; 1 user call, 1 call of the owner or of a deletion | `OwedIsFinal`, `FrozenPriceHolds` |
| `exchange_amount` | the instance of `exchanger_users` | refutes `AmountReducedToSupply`, a comment of the code |
| `cache_shorts` | the same with an open short of pBTC | refutes `CacheRequirementHolds`, a comment of the code |
| `debt_pool` | 2 stakers that may issue 8 and 4 dollars, one exchange of pUSD for pBTC whose price doubles, 3 issues or burns, 1 bridge call or report | `DebtWithinTotal`, `DebtFollowsIssuer`, `CollateralRespected`, `BridgingMovesNoDebt` |
| `repay` | 1 staker, 1 issue, exchanges there and back around a doubling price | refutes `DebtCanBeRepaid`, a test of the repository at moving prices |
| `ledger_restart` | the same with a report of other debts and 3 issues or burns | refutes `LedgerRestartsAtOne`, a test and a comment |
| `deploy` | the script for a small network (21 contracts) with one death and one tuned setting, and for all contracts without; one pynth added later, one release of three kinds | `FilesKnowTheChain`, `WiredIsRecorded`, `WiredWhenClean`, `QuietWhenClean`, `TunedSettingsKept`, `PeriodsFromLivePool`, `EventuallyWired` |
| `owner_actions` | 2 entries and 1 contract, an account or a safe, 1 foreign transaction, 2 failures or missed receipts, 1 death | `OnePendingPerCall`, `AgainOnlyAfterLoss`, `OrderKept`, `EntriesExecuted`, `OwnershipAccepted` |
| `operations` | 1 pynth, 2 holders, 2 exchanges or transfers, 2 changes of prices or suspensions for the owner's account, 1 failure; or 3 markets, chunks of 2; or 3 bridges per layer; or 2 borrowers, 3 shorts, 3 rewards contracts; 1 death | `NobodyStranded`, `MarketsCounted`, `ShortsCanClose`, `PynthsGo`, `ExchangesSettle`, `MarketsMove`, `BridgesConnect` |

Bounds of `Bridge`. Two validators are enough for every race: each contract call
checks `srcOutboundingIdRegistered`, which keeps no trace of who wrote it, so a
third validator only repeats what the second can do. Two requests fill a period
of size 2, or fall into two periods, when the size is 1 or a validator closes the
first; three instants let a period be younger than, exactly at and past its
duration, and the owner's call may change the size of an open one. Two requests of
one account in one claim make the removal loop start and go on on the list that
it has changed; that it is right for lists of any length is what the lemmas of
`ListProofs` and the theorem `InboxAlwaysExact` add. Amounts of 1 and 2 tell a
claim of the wrong request from one of the right, and a balance of 3 is short of
two of 2. `MaxOutboundings`, `MaxTime`, `MaxAdminCalls` and `MaxCrashes` are guards
of the actions they bound; because they stop the system,
every configuration but that of `owner_actions` says `CHECK_DEADLOCK FALSE`. The
validators are symmetric in the safety run; no symmetry is used for liveness.

Limits of the instances: requests go one way only; a chain keeps what it sends and
what it receives in different variables, and only `movedAmounts` and the supply
join them. `bridge_live` lets the owner make one call. It may take
the role from one of the two validators, and the other one still works; with
no validator left nothing is relayed, as in the code. `SupplyConserved` has no
fees and no other pynth operation than the bridge's.

Bounds of `Deployment`. Steps are taken one by one, and a state is a point of the
script and what the last run left: a run that may die at each of them, in a first
deployment, in the release after it and in the runs that repair either, is what
one death, at any step, gives; the contract whose steps it may hit (`CrashAt`) is
the fee pool, which has a constructor with addresses, a proxy, a cache, settings
and the import of its periods. `MaxInstances` lets it be deployed by a first run,
by one that dies and by the one after that. The three releases are a contract of the
core with the one that caches it, the resolver itself, and a new version of a
pynth that users may hold or not, and that was added with `--add-new-pynths`. All
names of `config.json` are in the second project, so that each step of the
script is taken.

Bounds of `OwnerActions`. Two entries have an order to keep, a contract shows what
owner.js does besides; a foreign transaction takes the nonce of one of them before
or after it is handed over. Two failures let a nonce be read blindly and a
handing-over be lost, or an account miss two receipts; one death, between any two steps. `MaxNonce` of 6 is
more than those can use up, so the bound never stops anyone.

Bounds of `Operations`. Two holders and a limit of one that the API returns, in
batches of one, make a purge need two runs; two exchanges or transfers let someone come
back after the purge, or after the removal was sent, or pass on what is not settled; two
changes let a price leave and come back, or stop a purge and the pynth be resumed
(`MaxTroubles`; none, `MaxLateTroubles`, for an account that leaves its calls to the
owner, of which `PynthsGo` says nothing). `MaxNonce` is more than a run gets ahead of
its account, so it never stops one. One refused transaction leaves a
gap in the nonces. Three markets and chunks of two make a migration of several
chunks, whose markets may be resolved or end in between. Three bridges on a layer
are one that is there, one deployed while a command runs and one after it. Three
rewards contracts are one that is linked, one of a run that dies, and one that is
linked while shorts are open at the first; three shorts of two borrowers give one of
them two and the other one, opened before and after the link.

Bounds of `Exchanger`. Amounts and prices are tenths (`Unit` = 10): every
operation rounds in some exchange, which a `Unit` of 10^18 would do as well but
less often. Two user calls are what it takes to break a settlement (exchange,
then spend), to put two entries into one queue, and to compare the prices of two
exchanges; everything else, prices, keepers and settlements, is unbounded but
for time and the number of rounds. Three instants of time from the start let a
waiting period begin, end and be over. The steps 1, 1.5, 2 are below the
threshold of 2 one by one and reach it together, so the circuit breaker has a
price that moves past it in two small steps. In the owner's run the price of
iBTC mirrors pBTC between 1.2 and 2, so that the reported prices reach both
limits and a price between them. One account is enough: an account's queue and
balance are touched by others only through transfers to it, and those the fee
address makes and receives in these runs.

Bounds of `DebtPool`. Two stakers are what it takes for one to dilute the other;
three issues or burns let one of them issue, the other issue, and the first burn,
or issue again. One exchange and one doubling of the price change what everyone
owes in between; the exchange enters the queue that a burn of pUSD must not wait
for, or settle, one second later, and the stake time is one second as well. A
report of other networks (5 dollars issued, worth 6.6, 1 sent here) makes the
share of the network less than 1 and the inbound total smaller than what is said
to be on its way. `DebtRounding` is 3 tenths: `PreciseUnit` is only 100 times
`Unit` here, so that shares round within these few steps.

The properties of one step have the premise `StepIsExact`. Its parts are what the
code does not promise: in a network whose issued debt and debt are not in
proportion an issue moves everyone's debt, by the definition of the share; a
ledger that has passed through 0 has forgotten its shareholders
(`RegisterIntact`); a debt cache that an exchange left behind its settlement
makes the next step catch up (`CacheOfPUSDCurrent`); and when the loans have issued more than
the supply of pUSD, which they can once borrowers have exchanged it,
`BaseDebtCache.sol:143` counts the supply as 0, and what is issued or bridged moves
the debt by less than itself, or not at all (`LoansWithinSupply`). `DebtWithinTotal` has no
premise on prices, reports or the cache.

Three properties of `Exchanger` have premises that name what the code does not promise.
`SettlementAffordable` excepts prices that reach the chain after the end of the
waiting period with a time inside it, and prices changed by the owner.
`OwedIsFinal` excepts those late prices and rounds that were deleted: the next
price takes the id of a deleted round. `FrozenPriceHolds` excepts a frozen price
whose round was deleted, and a pynth frozen before it had a price.

### What the violation runs show

* `exchange_amount`: `calculateAmountAfterSettlement` caps an amount at the
  balance, which already holds the refund, and then adds the refund
  (`Exchanger.sol:323-331`). An exchange of everything and a little more, after a
  settlement that refunds, asks for more than the balance and reverts, where the
  comment promises that it is reduced.
* `cache_shorts`: a snapshot subtracts the value of the shorts from the total but
  not from the parts (`DebtCache.sol:41`). With a short open, the parts exceed the
  total from the snapshot on, here 120 and 118, and once the supply or the price of
  one of them has changed, an update of them all fails the requirement that "should
  never fail" (`DebtCache.sol:126-128`), until the next snapshot. In TLC's trace no
  price moves: a burn of pUSD, which does not update the cache, is enough.
* `repay`: what a burn takes off the issued debt is a debt at current prices
  (`CrossChainState.sol:198`). A staker issues 4 dollars, makes 6 of them by an
  exchange, owes 6, has 6, and cannot burn more than 4.
* `ledger_restart`: with debts on other networks, the account burns the 4 dollars
  that were issued and 2 are left; the share of the network is now 0, so nobody
  owes anything, but the last ledger entry is not 0. The next issue appends 0,
  and the 4 dollars it issues are nobody's debt (`Issuer.sol:1388`).

## 5. Fairness

`Bridge!FairSpec` assumes that a validator keeps taking its steps while it has one
(`WF` of `ValidatorStep`), that validators close an open period that has
requests (`WF` of `CloseOutboundPeriod`), and that an account claims what it
can claim. The first two are the purpose of the validator role: the contract
closes a stale period only in the next request, and has no other way to
move on; `closeOutboundPeriod` is callable by validators for exactly that. The
third says that a user wants the tokens. Nothing is assumed about new
requests, owner calls, time or restarts.

`TransfersClaimed` has an exception that the code has: one request with a
signature that does not verify makes `claimAllBridgedAmounts` revert for all the
requests of that account on that destination, since the loop reverts as a whole
and there is no other call to claim with.

`Deployment!FairSpec`: a run goes on (`WF` of `RunStep`: a script has no reason to
stand still, and its death is an action of its own); a run that did not end clean
is repeated (`WF`), which is how the script is meant to be used: it reuses what is
deployed and passes over what is set; and the owner acts on what is staged, again
and again (`SF`, since a run in progress disables it). `EventuallyWired` has an exception that the code has: a
pynth that is deployed again while nobody holds it is neither replaced nor added,
since the Issuer still lists the old one (`PynthStuck`); and one whose old
contract has a supply is left to the owner in three calls that may not all be
possible.

`OwnerActions!FairSpec`: the command goes on and is run again, the signers execute
what the service shows them, and each contract is nominated. Nothing is assumed
about failures but that they are as few as the bound says. `EntriesExecuted`
excepts entries that the code itself gives up: those noted as complete whose
transaction the service never got, or whose nonce went to another one.

`Operations!Spec`: commands go on (`WF`), are begun again and again although people
keep disabling them (`SF` of the three commands, of settle.js with `--latest`),
miners mine and waiting periods end (`WF`). connect-bridge.js is run again and again
(`WF`), since a bridge may be deployed after its last run. Nobody is assumed to sell or to
leave a pynth, prices to come back, or suspended pynths to be resumed. `PynthsGo` excepts
the entry in `pynths.json` when a command died between the writes of `deployment.json` and
`pynths.json`: the next one does not find the pynth it is told to remove. It excepts a
pynth whose price stays invalid or too far from the last one, and one with a holder
who cannot pay what is reclaimed: both stop every purge. `ExchangesSettle` excepts what
an account cannot pay, a pynth that stays suspended, and one that was removed
with entries of accounts that had passed it on, which can never be settled
(`BaseDebtCache.sol:131`). Without any one of these exceptions TLC refutes the property.

## 6. The proofs

`BridgeProofs` proves `IndInv` inductive for every value of the constants that
satisfies the assumptions in `Bridge` (signatures are pairs of an account and an
amount; amounts, sizes and durations are positive naturals; accounts are finite;
bounds are naturals). `IndInv` is the conjunction of

* `TypeOK`;
* `PeriodsWellFormed`, which bounds the ids a validator reads in a period and
  gives each request its period;
* `JobsSound`, needed because a validator marks a period processed on the
  strength of what it read earlier: nothing in the contract checks it;
* `RelayedOnce`, whose third part (every registered pair has an entry) makes the
  guard of `_appendInboundingRequest` exclude a second entry;
* `InboxExact`, which needs `RelayedOnce` for the accounts of the entries;
* `ProcessedMeansRelayed`, which follows in `FinishPeriod` from `JobsSound`.

There is one lemma per action and conjunct; the lemmas of `ListProofs` say what
the removal loop and the ascending enumeration of a batch return, those at
the beginning of `BridgeProofs` what joining and closing do to the periods. The theorems are
`TypeCorrect`, `RelayedAtMostOnce`, `InboxAlwaysExact`,
`PeriodsAlwaysWellFormed`, `JobsAlwaysSound`, `ProcessedOnlyWhenRelayed`: each is
`Spec => []Inv` for the invariant of that name, which the runs check but for
`JobsSound`.

`ClaimLoopAlwaysEmptiesInbox` is about the loop of `claimAllBridgedAmounts`, which
shrinks the list it walks a copy of. The claim by number of iterations is a set of
numbers that contains 0 and with each its successor (`NatInductionSet` of
`ListProofs`): after m of them the list is what is left of the copy from m + 1 on.

`LedgerProofs` has three results on top of `IndInv`.

* `BridgeImplementsLedger` (`Spec => LedgerSpec`). A request moves through the
  refinement mapping when it is made, registered, claimed; `SendStep`, `RelayStep`
  and `ClaimStep` show each to be the step of the ledger, a batch that relays and a
  loop that claims included, and `UnseenStep` shows everything else to stutter.
* `SupplyAlwaysConserved`. On each chain the supply is the sum of the balances; what
  an account has on all chains, with what is claimable by it or in transit to it, is
  constant. The sum in flight (`FlyingTotal`) is one over pairs of a chain and a
  position in its list, so that a request that is relayed leaves one set and enters
  the other.
* `MovedAmountsAlwaysAgree`. The difference of the two counters of a pair of chains is
  the sum of a row in which a relayed request counts 0 (`Missing`), and the totals of
  a chain that of a row in which an unclaimed one does (`Credited`).

`ExchangerProofs` is about any finite set of pynths and accounts, any prices,
amounts, limits and thresholds, any fees of at most half of an exchange, and any
waiting period, of length 0 included. The assumptions are those of `Prices` and
`Exchanger`: reported prices are positive (`updateRates` refuses 0), no price is
frozen at deployment, and the owner never inverts the dollar, which
`setInversePricing` would accept but no `pynths.json` asks for; only
`WorthAlwaysConserved` needs the last. All the steps but those of prices and the owner are of four
kinds for the queue and balance of an account and pynth (`HoldingKept`): nothing is
taken; the queue is settled; what is reclaimed is left, after the waiting periods;
an entry is added with all it received. `StepKinds` sorts the steps.

* `ExchangerTypeCorrect`, with no balance and no cached debt below zero.
* `CacheAlwaysSum`. A partial update changes the total by the change of its parts
  (`UpdateCacheEffect`), for any set of keys and whatever the steps before it did to
  supplies and prices.
* `OwedAlwaysFinal`. Without the owner rounds are only appended, and those that exist
  keep their prices (`RoundsFixed`). That a freezing does this too needs that an
  inverse price is within its limits (`InverseSound`) and that the price frozen is
  the one it has. The walk of `getLastRoundIdBeforeElapsedSecs` then stops where it
  did, since a round reported for a later time stops it as its absence did.
* `SettlementAlwaysAffordable`. The property alone is not inductive: before the end
  of a waiting period nobody knows what will be reclaimed. What is (`EntriesCovered`):
  a balance is at least the sum of what each entry may still cost (`Reserve`), which
  is all it received until its waiting period is over and what is reclaimed then. It
  needs `RoundsKnown`, that the rounds of an exchange exist, for the rounds of a
  late price to come after them; and it needs that no more is reclaimed than was
  received, which follows from what should have been received not being negative.
* `FrozenPriceAlwaysHolds` and `PriceStepsAlwaysBounded`, from the same invariant.
* `WorthAlwaysConserved`. A step that changes what waits moves at most three amounts
  (`MovesThree`): none in a settlement, since what is paid out is no longer owed; two
  that cancel in a transfer after it; the amount, what is received and the fee in an
  exchange, whose new entry owes nothing at the rounds it was made at
  (`NewEntryOwesNothing`). The sums over holders and pynths then change by these
  amounts at their prices (`WorthMoves`), and `ExchangeRounding` bounds the result:
  a rounded product is within half of `Unit`, a rounded quotient within half of the
  divisor. It needs that the dollar keeps its price (`DollarFixed`), for the fee to be
  rounded only once, and that nothing waits where there is no waiting period
  (`NothingWaits`); the property says nothing of exchanges there.

Two things came out of these proofs. `FrozenPriceHolds` was false of a pynth that is
configured as frozen while its only price is deleted: its first report gives it the
frozen price. No run made two such calls; the property now says that there is a
price. And `_rateOrInverted` had been written with cases that overlapped, of which
TLA+ may take any; it is now in the order of the code.

`PoolProofs` is about any stakers, collateral, prices, loans and reports of other
networks, any number of steps, and any precision that is a multiple of ten units, as
10^27 is of 10^18. The amounts are naturals, as in Solidity. `PoolInv` adds to the
invariant of `Exchanger` that the register and the totals are naturals
(`RegisterTyped`, `NetworksTyped`), that whoever has a share has an entry in the ledger
(`EntriesExist`), without which `DebtBalanceOf` would read outside it, and that the
dollar keeps its price.

* `PoolTypeCorrect`, with no share, no issued debt and no number of issuers below
  zero. It needs that a share stays within a whole (`ShareWithinOne`), for
  the entry appended to the ledger not to be negative.
* `PoolCacheAlwaysSum`: the steps of stakers and of the bridge update the cached debt
  of pUSD as those of `Exchanger` do, so its lemma (`CacheStepKeepsInv`) is used again.
* `BridgingNeverMovesDebt`. The cached debt moves by what is bridged
  (`CachedDebtMoves`), which the totals of the bridge undo before the share of the
  network is applied. So it is exact, for any share.
* `CollateralAlwaysRespected`. The debt of an account and of the network grow by the
  same amount (`IssueAddsAmount`), of which the account is given the share
  (`SingleNetworkDebt`): `ToPrecise` and `FromPrecise` are exact in a single network
  (`PreciseBack`). Only the share is rounded, at the precision, by half a unit of it
  (`ShareRounds`), so the debt is off by at most the debt divided by twice the
  precision, and then by the roundings at 10^18. The bound in the property is one more
  than the debt divided by the precision: 1 for any debt below 10^9 dollars.

Two things came out of these proofs. The premise `LoansWithinSupply` above was
missing: no instance of `DebtPool` has loans. And the model let an issue of 0 into
an empty network, which the code reverts when it divides by the new total: a
guard now.

`DeploymentProofs` is about any script in the order that `ScriptAssumption` asks for
(section 3; it uses nothing else of the table in `DeployScript`), any configuration with
the core in it, any releases, any number of instances and deaths, and an owner who acts
as late as he likes. It has four arguments, each on top of the one before.

The files. `Inv` says that every value a run can come by, in `deployed`, in `versions`, in the
slots of contracts, in what waits for the owner, is an address that
`deployment.json` has held, or no address: only the step between `SendDeployment` and
`RecordDeployment` knows another, and keeps it in `sent`. `FilesAlwaysKnowTheChain`
and `WiredIsAlwaysRecorded` follow. Neither property is inductive alone: a reused
contract is wired from `targets`, a fee pool from `versions`, a pynth from what
the resolver or the Issuer stored earlier.

The wiring (`WiredAlwaysWhenClean`, `Spec => []WiredWhenClean`). The property speaks of the
end of a run, so the invariant (`WiringInv`) has to say what holds at each step of it,
and of what an owner may still send after it. Its parts:

* `NetInv`: instances of a contract are numbered as they are deployed, what a run has is
  what `deployment.json` has, and a run that is past a contract has it.
* `WireInv`: what a run is past is wired, as long as it has left nothing to the owner:
  links, the names that are imported, the caches that are rebuilt, the pynths that are
  added or still waited for.
* `OwnInv`: what is staged leads from and to the contracts the script names
  (`ActionsFit`), ascends in the instances it leads to (`ActionsOrdered`), and leads no
  slot to an earlier instance than the slot has (`PendingAhead`). This is what makes a
  late owner harmless: a call staged by one run could otherwise wire an old contract
  after a later run was clean. But what is staged is on contracts of the owner, whose
  slots no run writes any more, and each run stages what `deployment.json` has, the
  last instance; so once a slot leads to it, nothing that waits leads back.
* `PynthsInv`: a pynth in replacement is one with an old contract that the run itself
  recalled, and a removal that waits removes only what has been superseded.

The settings (`QuietAlwaysWhenClean`, `Spec => QuietWhenClean`). `SettingInv` adds that
names lead to contracts of that name (`NamesLead`), that what is staged sets slots to what
the script has for them (`ActionsRight`), and that what a clean run is past is set
(`SetInv`). At the end of a clean run everything is, and stays so whatever the owner and
governance do (`QuietInv`): a value set by governance is kept, for the step asks
only that there be one. A run without flags then reuses every contract, passes over every
step, and has nothing to import, rebuild, remove or add. That a contract deployed
unasked (`force`) is in `config.json` by then (`ForcedListed`) is needed, or a pynth would be
deployed again by a run with no flags.

What governance has chosen (`TunedSettingsAlwaysKept`, `Spec => TunedSettingsKept`). No step
of the script writes over it, for it asks only that there be a value. What could is a call
that has waited for the owner since before governance chose: it sets the value of the
script when it is sent at last. `TunedInv` says why the storage does not take it then. At most one call
waits for a setting, since a later one has the same key and takes its place
(`SettingsStaged`). Governance chooses when the last run was clean, so a value was
there already, and the call that waits must be of a settings contract that has been
deployed again since (`LateInv`): the deployer owns the new one and set the value itself. The storage
asks its resolver who may write, and by then the proxy of resolvers leads to the resolver of
`deployment.json`, and this one to its settings contract; by `PendingAhead` no
link that waits leads either back to an earlier instance, and what a later run deploys leads further on
(`Retired`, `Beyond`). So the call reverts. It needs that a contract has no slots before it is
deployed, and until it is recorded leads to what `deployment.json` has (`NewInv`).

Four things came out of these proofs. The storage of settings checks its caller
against its own resolver, so a settings contract that is deployed again cannot write
before the resolver names it: a call of the script, of the owner or of governance may revert
(`Fails`, `Reverts`, `MaySet`), which the model had left out. The right of the exchanger to
suspend was a slot with the name of a contract, as if `SystemStatus` had cached it; it
is `mayBeSuspendedBy` now. A contract that is deployed in some runs only, as
`VirtualPynthIssuer`, may be missing in the resolver after a clean run, and a cache is
held to what it needs only when `deployment.json` has all of it (`ResolverHolds`,
`CachesHold`). And `PeriodsFromLivePool` needs that no link of the
proxy to a fee pool waits for the owner: with two releases a run may import periods
from the pool that the files have, while the proxy still leads to the one before. Run `deploy` has one release,
where this cannot happen.

`OwnerProofs` assumes that entries and contracts are different calls.

* `CallsWaitOnce` (`Spec => []OnePendingPerCall`). What is pending while the command
  runs was pending when it began, and is in the list it read, or has been handed
  over by an earlier task (`PendingKnown`). It needs that what was pending stays so
  under a nonce that only grows.
* `ExecutedAgainOnlyAfterLoss`. The executions of an entry, its call that waits or is in
  flight (`Waits`) and the chance that it is handed over once more (`Open`) never add up
  to more than one and the losses (`OnceInv`): the deaths of the command and, for an
  account, the receipts that did not come. For a safe it is the deaths alone.
* `OrderAlwaysKept`. While the service answers, a task that the command has passed is
  executed, waiting or dropped (`PassedSettled`), the nonce it takes is above all
  that the service has, and so a later entry never has a lower nonce than every call
  of an earlier one (`NoncesInOrder`). An account has nothing in flight before all
  earlier entries are executed (`AccountInv`), so what is mined late keeps the order.

`OperationProofs` proves a property of three of the four parts of `Operations`.

* `NobodyIsStranded`: the removal, and not the check before it, looks at the supply,
  an exchange needs the Issuer to list the pynth, and a transfer is of one that is held.
* `MarketsAlwaysCounted`: a market is on one list of the manager that owns it and on
  no other, and a manager's total is the sum of the deposits of its markets, chunk by
  chunk. It needs that a market that was never created is owned by nobody.
* `ShortsAlwaysClose`. When the link changes, what makes a borrower without shorts
  safe is that no other contract has anything of him enrolled (`EnrolledAtLinked`);
  and what makes the contract take the calls is that the command links, or leaves to
  the owner, only what it has recorded and made ready (`LinksAreReady`). It assumes
  that `MaxRewards` is a natural.

Sums are folds in the models. `ListProofs` evaluates them for every finite set:
adding an element, changing one, splitting a set, renaming its elements, summing
rows. What would be induction with an operator is there a set that is closed under
adding one more (`AddOneInduction`).

Only model-checked: liveness everywhere; `DebtWithinTotal` and `DebtFollowsIssuer`
of `DebtPool`, whose bound is that of the instance (`DebtRounding`), since each entry of
the ledger is a rounded quotient of the last and the error of what an old share is
worth grows with the number of entries and as they shrink; of the
deployment, `PeriodsFromLivePool`; that the commands get to their ends
(`PynthsGo`, `ExchangesSettle`, `MarketsMove`, `BridgesConnect`).

## 7. Not modelled

In `Bridge`: fees in the native coin, events, `accountOutboundings` (read by
views only), the waiting period behind `_ensureCanTransfer`, transfers between
accounts of one chain, the PERI side of the bridge (the same calls from
`PeriFinance.sol:175-216`).

In `Prices`: Chainlink aggregators, whose rounds have the shape of the oracle's,
and their warning flags, and the deletion of the rate of pUSD, which
`ExchangeRates.sol:99-107` does not forbid (`PriceStep`). In `Exchanger`: virtual pynths, exchanges on behalf of
another or with a tracking code (the same `_exchange`), trading rewards,
allowances, the blacklist, the sections of `SystemStatus` other than the
suspension of a pynth, `purgeCachedPynthDebt`, Ether collateral, and the changes
that loans make to the debt.

In `DebtPool`: external tokens (no account has staked any), liquidations, the
records for the fee pool, addition and removal of pynths, `fixDebtRegister`,
delegated calls, changes of the price of PERI, the setters of single figures of
the other networks, and the staleness of the synchronization. The requirement after a
burn, 'Over max external quota' (`Issuer.sol:1060-1063`), which cannot fail without
external tokens, is left out. `addCurrentNetworkIssuedDebt` and
`subtractCurrentNetworkIssuedDebt` (`CrossChainManager.sol:418`, `431`) are external and
check no caller; only the calls that the contracts make of them are modelled.

In `Deployment`: dry runs, the local network, Optimism, inverse pricing, the debts
of an older `CrossChainState`, the refresh of the debt cache, mock tokens, the
contracts of old resolver interfaces, and what is read of old contracts other than
supplies (the oracle, the inflation). Three things a reader of the code
should know are in the model as they are: a new resolver is without the
`VirtualPynthIssuer` (`commands/deploy.js:1070` knows of it only when the exchanger
is deployed); a first deployment that died is resumed only with
`--ignore-safety-checks`; and `externalTokenQuota` and `tradingRewardsEnabled` are
compared with the parameters and so reset by each run.

In `OwnerActions`: the prompts, a service whose list cannot be read, which ends
the command, and an approval of a safe that is mined without its receipt: it hands
nothing to the service, and the next run approves again. In `PynthCommands`: the filter, the seed and the debt report of
`settle.js` (which with `--show-debt` asks for the balance of a pynth the Issuer has
dropped and ends there), single amounts, and supplies too large to purge; `purge-pynths.js` is modelled with the
address of a proxy given, since `purge-pynths.js:122` looks it up under a name that
`deploy.js:1298` does not give it. For an account that is not the owner, a removal
left to a safe reverts as long as someone exchanges into the pynth, while the files
have forgotten it: `PynthsGo` is about the owner's account. In `MarketMigration`:
options, refunds, exercise and fees.

Commands that end before they do anything as the code stands:
`commands/replace-pynths.js:154` reads the proxy under the same missing name and
ends with a TypeError (it would also call `Issuer.addPynth`, which is commented out at
`Issuer.sol:828`); `commands/import-fee-periods.js` calls
`FeePool.importFeePeriod`, commented out at `FeePool.sol:495`;
`commands/migrate-bridge.js:58` calls `toLowerCase` of an object.
`deploy-staking-rewards.js` deploys contracts that stand alone, by the one step of
`Deployment` that deploys.

In `BridgeConnection`: dry runs and the other names the bridges resolve. In
`ShortRewards`: the rewards, a paused contract, and single loans. A short that is
repaid in full keeps its collateral until it is closed, and `closeInternal` has the
rewards contract withdraw 0 (`Collateral.sol:396`), which it refuses
(`ShortingRewards.sol:108`): the borrower must draw again first. Shorts here are counted
in units, which do not show this. Those who had shorts open when a link changed are
excepted from `ShortsCanClose`: the new contract has nothing of theirs to withdraw,
as the code stands.

`CrossChainState.sol:107`: `setCrossNetworkIssuedDebtAll` overwrites this network's own
issued debt when the list contains it, where `setCrossNetworkDebtsAll`, which is
modelled, skips it.

Of the system, so far: fees, escrow, external staking, liquidations, collateral,
options, the depot and the rewards, in the order of the plan. Views,
compilation and verification of sources, hardhat tasks, tests, interfaces and the
empty stubs are not going to be modelled: they keep no state of the protocol.
