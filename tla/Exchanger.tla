----------------------------- MODULE Exchanger -----------------------------
(***************************************************************************)
(* Pynths, their exchange and its settlement, and the debt cache:          *)
(* Exchanger, ExchangeState, DebtCache, and the transfers of Pynth, over   *)
(* the prices of Prices.                                                   *)
(*                                                                         *)
(* An exchange is made at the current prices.  Its entry stays in a queue  *)
(* of the receiver until the waiting period is over; then a settlement     *)
(* takes back or pays the difference to the prices at the end of it.       *)
(*                                                                         *)
(* Left out: virtual pynths, exchanges on behalf and with tracking (the    *)
(* same _exchange), trading rewards, allowances, the blacklist, the flags  *)
(* of SystemStatus other than the suspension of a pynth, Ether collateral  *)
(* (EmptyEtherCollateral reports 0).  The total supply of a pynth is the   *)
(* sum of its balances: issue and burn change both by the same amount.     *)
(***************************************************************************)
EXTENDS Prices, Lists, FiniteSetsExt

CONSTANTS
    Accounts,
    FeeAddress,                     \* FeePool's FEE_ADDRESS
    InverseKeys,                    \* keys whose name starts with i
    ExchangeAmounts, TransferAmounts,
    InitialBalances,                \* [k][a] balances at deployment
    Longs, Shorts,                  \* [k] loans and shorts of k that Collateral
                                    \* has recorded; they stay open
    ExchangeFeeRate,                \* [k] by destination
    WaitingPeriodSecs,
    PriceDeviationThresholdFactor,
    MaxEntriesInQueue,
    MaxUserCalls                    \* bound: exchanges and transfers

\* _exchange and _transferToFeeAddress reject 0.
ASSUME AmountsAssumption ==
    /\ ExchangeAmounts \subseteq Nat \ {0}
    /\ TransferAmounts \subseteq Nat \ {0}
    /\ Longs \in [Keys -> Nat]
    /\ Shorts \in [Keys -> Nat]

Holders == Accounts \cup {FeeAddress}

\* MAX_EXCHANGE_FEE_RATE is a tenth; twice a fee must be within the whole.
ASSUME HoldersAssumption ==
    /\ IsFiniteSet(Accounts)
    /\ InitialBalances \in [Keys -> [Holders -> Nat]]
    /\ ExchangeFeeRate \in [Keys -> Nat]
    /\ \A k \in Keys : 2 * ExchangeFeeRate[k] <= Unit
    /\ WaitingPeriodSecs \in Nat

VARIABLES
    balanceOf,          \* [k][a]
    exchanges,          \* [a][k] entries to settle, k the destination
    lastExchangeRate,   \* [k] 0 before the first exchange
    pynthSuspension,    \* suspended pynths
    cachedPynthDebt,    \* [k] _cachedPynthDebt
    cachedDebt,         \* _cachedDebt
    cacheInvalid,       \* _cacheInvalid
    cacheTimestamp,     \* _cacheTimestamp
    feesToDistribute,   \* what FeePool.recordFeePaid has been told
    userCalls

cacheVars    == <<cachedPynthDebt, cachedDebt, cacheInvalid, cacheTimestamp>>
exchangeVars == <<exchanges, lastExchangeRate, pynthSuspension>>
vars == <<priceVars, balanceOf, exchangeVars, cacheVars,
          feesToDistribute, userCalls>>

-----------------------------------------------------------------------------
(* DebtCache.                                                              *)

TotalSupply(k) == SumFunction(balanceOf[k])

\* _issuedPynthValues: the supply that collateral loans have not issued.
IssuedPynthValue(k) ==
    LET supply == TotalSupply(k)
    IN  MultiplyDecimalRound(IF Longs[k] > supply THEN 0 ELSE supply - Longs[k],
                             Rate(k))

IssuedDebts == [k \in Keys |-> IssuedPynthValue(k)]

\* totalShort: the value of all the shorts.
TotalShort == SumFunction([k \in Keys |-> MultiplyDecimal(Shorts[k], Rate(k))])

\* Broken variant: the difference of the first key only is applied.
UpdateCacheOfOne(keys) ==
    LET k      == CHOOSE key \in keys : TRUE
        cached == cachedPynthDebt[k]
        issued == IssuedPynthValue(k)'
    IN  /\ cachedPynthDebt' =
               [key \in Keys |-> IF key \in keys THEN IssuedPynthValue(key)'
                                 ELSE cachedPynthDebt[key]]
        /\ cached # issued => cached <= cachedDebt
        /\ cachedDebt' = cachedDebt - cached + issued
        /\ UNCHANGED cacheTimestamp

\* _updateCachedPynthDebtsWithRates, on the state the calls before it leave.
UpdateCache(keys) ==
    LET cached == SumFunctionOnSet(cachedPynthDebt, keys)
        issued == SumFunctionOnSet(cachedPynthDebt', keys)
    IN  /\ cachedPynthDebt' =
               [k \in Keys |-> IF k \in keys THEN IssuedPynthValue(k)'
                               ELSE cachedPynthDebt[k]]
        /\ cached # issued => cached <= cachedDebt
        /\ cachedDebt' = cachedDebt - cached + issued
        /\ UNCHANGED cacheTimestamp

\* A partial update can only invalidate the cache.
UpdateValidity(keys) ==
    cacheInvalid' = (cacheInvalid \/ \E k \in keys : RateIsInvalid(k))

UpdateCachedPynthDebts(keys) ==
    /\ UNCHANGED <<priceVars, balanceOf, exchangeVars,
                   feesToDistribute, userCalls>>
    /\ UpdateCache(keys)
    /\ UpdateValidity(keys)

TakeDebtSnapshot ==
    LET issued == SumFunction(IssuedDebts)
    IN  /\ TotalShort <= issued
        /\ cachedPynthDebt' = IssuedDebts
        /\ cachedDebt' = issued - TotalShort
        /\ cacheTimestamp' = now
        /\ cacheInvalid' = (\E k \in Keys : RateIsInvalid(k))
        /\ UNCHANGED <<priceVars, balanceOf, exchangeVars,
                       feesToDistribute, userCalls>>

-----------------------------------------------------------------------------
(* What is owed for the exchanges of an account that wait in a queue.      *)

\* _isDeviationAboveThreshold
DeviationAboveThreshold(base, comparison) ==
    IF base = 0 \/ comparison = 0 THEN TRUE
    ELSE LET high == IF comparison > base THEN comparison ELSE base
             low  == IF comparison > base THEN base ELSE comparison
         IN  DivideDecimal(high, low) >= PriceDeviationThresholdFactor

\* maxSecsLeftInWaitingPeriod # 0
InWaitingPeriod(a, k) ==
    \E i \in DOMAIN exchanges[a][k] :
        now < exchanges[a][k][i].timestamp + WaitingPeriodSecs

\* _feeRateForExchange: a swing between a pynth and an inverse pynth pays twice.
FeeRateForExchange(src, dest) ==
    IF pUSD \notin {src, dest} /\ ~(src \in InverseKeys <=> dest \in InverseKeys)
    THEN 2 * ExchangeFeeRate[dest] ELSE ExchangeFeeRate[dest]

\* _getAmountReceivedForExchange
AmountReceivedForExchange(amount, feeRate) ==
    MultiplyDecimal(amount, Unit - feeRate)

\* getRoundIdsAtPeriodEnd
RoundAtPeriodEnd(k, round, entry) ==
    LastRoundIdBefore(k, round, entry.timestamp + WaitingPeriodSecs)

AmountShouldHaveReceived(entry, dest) ==
    AmountReceivedForExchange(
        EffectiveValueAtRound(entry.src, entry.amount, dest,
            RoundAtPeriodEnd(entry.src, entry.roundIdForSrc, entry),
            RoundAtPeriodEnd(dest, entry.roundIdForDest, entry)),
        entry.exchangeFeeRate)

\* What an entry is still owed; below zero, what it has to give back.
Owed(entry, dest) ==
    LET should == AmountShouldHaveReceived(entry, dest)
    IN  IF DeviationAboveThreshold(entry.amountReceived, should) THEN 0
        ELSE should - entry.amountReceived

OwedList(a, k) ==
    [i \in DOMAIN exchanges[a][k] |-> Owed(exchanges[a][k][i], k)]

\* _settlementOwing: reclaimAmount and rebateAmount
ReclaimAmount(a, k) ==
    SumOf([i \in DOMAIN exchanges[a][k] |->
              IF OwedList(a, k)[i] < 0 THEN -OwedList(a, k)[i] ELSE 0])
RebateAmount(a, k) ==
    SumOf([i \in DOMAIN exchanges[a][k] |->
              IF OwedList(a, k)[i] > 0 THEN OwedList(a, k)[i] ELSE 0])

NetRefund(a, k) == RebateAmount(a, k) - ReclaimAmount(a, k)

-----------------------------------------------------------------------------
(* Settlement.                                                             *)

BalanceAfterSettlement(a, k) == balanceOf[k][a] + NetRefund(a, k)

\* _internalSettle goes through: no waiting period, and the account can give
\* back what is reclaimed.
CanSettle(a, k) ==
    /\ ~InWaitingPeriod(a, k)
    /\ BalanceAfterSettlement(a, k) >= 0

\* The balances and the queues that _internalSettle leaves.
SettledBalances(a, k) ==
    [balanceOf EXCEPT ![k][a] = BalanceAfterSettlement(a, k)]
SettledQueues(a, k) == [exchanges EXCEPT ![a][k] = <<>>]

Settle(a, k) ==
    /\ k \notin pynthSuspension
    /\ CanSettle(a, k)
    /\ balanceOf' = SettledBalances(a, k)
    /\ exchanges' = SettledQueues(a, k)
    /\ UNCHANGED <<priceVars, lastExchangeRate, pynthSuspension,
                   feesToDistribute, userCalls>>
    /\ UpdateCache({k})
    /\ UpdateValidity({k})

-----------------------------------------------------------------------------
(* Exchange.                                                               *)

\* Broken variant: the price is compared with that of the previous round only.
PynthRateIsInvalidLastRound(k) ==
    LET previous == RateAtRound(k, currentRoundForRate(k) - 1)
    IN  Rate(k) = 0 \/ (previous > 0 /\ DeviationAboveThreshold(previous, Rate(k)))

\* _isPynthRateInvalid: zero, or too far from the last exchange, or, before the
\* first one, from one of the three rounds before the current one.
PynthRateIsInvalid(k) ==
    LET current == currentRoundForRate(k)
    IN  \/ Rate(k) = 0
        \/ IF lastExchangeRate[k] > 0
           THEN DeviationAboveThreshold(lastExchangeRate[k], Rate(k))
           ELSE \E r \in (current - 3)..(current - 1) :
                    /\ RateAtRound(k, r) > 0
                    /\ DeviationAboveThreshold(RateAtRound(k, r), Rate(k))

\* calculateAmountAfterSettlement, when there was something to settle.
AmountAfterSettlement(a, k, amount) ==
    LET after  == BalanceAfterSettlement(a, k)
        capped == IF amount > after THEN after ELSE amount
    IN  IF exchanges[a][k] = <<>> THEN amount
        ELSE IF NetRefund(a, k) > 0 THEN capped + NetRefund(a, k) ELSE capped

\* The settlement inside _exchange leaves no amount: only it takes place.
NothingToExchange(from, src, amount) ==
    /\ AmountAfterSettlement(from, src, amount) = 0
    /\ balanceOf' = SettledBalances(from, src)
    /\ exchanges' = SettledQueues(from, src)
    /\ UNCHANGED <<lastExchangeRate, pynthSuspension, cacheVars,
                   feesToDistribute>>

\* The circuit breaker: an invalid price suspends its pynth instead of
\* exchanging.  The source is looked at first, and its price recorded when it
\* is valid.
BreakCircuit(from, src, amount, dest) ==
    /\ AmountAfterSettlement(from, src, amount) # 0
    /\ \/ /\ PynthRateIsInvalid(src)
          /\ pynthSuspension' = pynthSuspension \cup {src}
          /\ UNCHANGED lastExchangeRate
       \/ /\ ~PynthRateIsInvalid(src)
          /\ PynthRateIsInvalid(dest)
          /\ pynthSuspension' = pynthSuspension \cup {dest}
          /\ lastExchangeRate' = [lastExchangeRate EXCEPT ![src] = Rate(src)]
    /\ balanceOf' = SettledBalances(from, src)
    /\ exchanges' = SettledQueues(from, src)
    /\ UNCHANGED <<cacheVars, feesToDistribute>>

\* Broken variant: the fee is issued without its conversion to dollars.
FeeUnconverted(dest, fee) == fee

FeeInUSD(dest, fee) == EffectiveValue(dest, fee, pUSD)

\* _convert and the fee: the source is burned, the destination and the fee are
\* issued.  `settled` are the balances after the settlement of the source.
ConvertedBalances(settled, from, src, amount, dest, to, received, feeUSD) ==
    LET Delta(k, a) == (IF k = src /\ a = from THEN -amount ELSE 0)
                         + (IF k = dest /\ a = to THEN received ELSE 0)
                         + (IF k = pUSD /\ a = FeeAddress THEN feeUSD ELSE 0)
    IN  [k \in Keys |-> [a \in Holders |-> settled[k][a] + Delta(k, a)]]

\* appendExchange, at the current rounds
NewEntry(src, amount, dest, received, feeRate) ==
    [src |-> src, amount |-> amount, amountReceived |-> received,
     exchangeFeeRate |-> feeRate, timestamp |-> now,
     roundIdForSrc |-> currentRoundForRate(src),
     roundIdForDest |-> currentRoundForRate(dest)]

\* The rest of _exchange.  What _transferToFeeAddress receives is `reported` as a
\* fee too.
ConvertAndAppend(from, src, asked, dest, to, reported) ==
    LET amount   == AmountAfterSettlement(from, src, asked)
        value    == EffectiveValue(src, amount, dest)
        feeRate  == FeeRateForExchange(src, dest)
        received == AmountReceivedForExchange(value, feeRate)
        feeUSD   == FeeInUSD(dest, value - received)
        settled  == SettledBalances(from, src)
        queues   == SettledQueues(from, src)
        entry    == NewEntry(src, amount, dest, received, feeRate)
    IN  /\ amount # 0
        /\ ~PynthRateIsInvalid(src)
        /\ ~PynthRateIsInvalid(dest)
        /\ settled[src][from] >= amount
        /\ balanceOf' = ConvertedBalances(settled, from, src, amount, dest, to,
                                          received, feeUSD)
        /\ feesToDistribute' = feesToDistribute + feeUSD
                                 + (IF reported THEN received ELSE 0)
        /\ lastExchangeRate' = [lastExchangeRate EXCEPT ![src]  = Rate(src),
                                                        ![dest] = Rate(dest)]
        /\ UNCHANGED <<pynthSuspension, cacheInvalid>>
        /\ UpdateCache({src, dest, pUSD})
        /\ IF WaitingPeriodSecs > 0
           THEN /\ Len(queues[to][dest]) < MaxEntriesInQueue
                /\ exchanges' = [queues EXCEPT ![to][dest] = Append(@, entry)]
           ELSE exchanges' = queues

\* _exchange: its three ways to end without a revert.
InternalExchange(from, src, amount, dest, to, reported) ==
    /\ src # dest
    /\ ~RateIsInvalid(src) /\ ~RateIsInvalid(dest)
    /\ CanSettle(from, src)
    /\ UNCHANGED priceVars
    /\ \/ NothingToExchange(from, src, amount)
       \/ BreakCircuit(from, src, amount, dest)
       \/ ConvertAndAppend(from, src, amount, dest, to, reported)

UserCall == userCalls < MaxUserCalls /\ userCalls' = userCalls + 1

\* PeriFinance.exchange
Exchange(from, src, amount, dest) ==
    /\ UserCall
    /\ {src, dest} \cap pynthSuspension = {}
    /\ InternalExchange(from, src, amount, dest, from, FALSE)

-----------------------------------------------------------------------------
(* Pynth: transfers.                                                       *)

\* Broken variant: what will be reclaimed may be sent away.
EnsureCanTransferAll(from, k, value) ==
    /\ ~InWaitingPeriod(from, k)
    /\ balanceOf[k][from] >= value
    /\ k \notin pynthSuspension

\* _ensureCanTransfer; a rebate that is owed does not count.
EnsureCanTransfer(from, k, value) ==
    /\ ~InWaitingPeriod(from, k)
    /\ balanceOf[k][from] - ReclaimAmount(from, k) >= value
    /\ k \notin pynthSuspension

Moved(balances, k, from, to, value) ==
    [balances EXCEPT ![k] = [a \in Holders |->
        @[a] - (IF a = from THEN value ELSE 0) + (IF a = to THEN value ELSE 0)]]

\* transfer to an account; transferFrom to anyone, the fee address included.
Transfer(from, to, k, value) ==
    /\ UserCall
    /\ EnsureCanTransfer(from, k, value)
    /\ balanceOf' = Moved(balanceOf, k, from, to, value)
    /\ UNCHANGED <<priceVars, exchangeVars, cacheVars,
                   feesToDistribute>>

\* To address 0: burned, and the debt cache is not told.
TransferToZero(from, k, value) ==
    /\ UserCall
    /\ EnsureCanTransfer(from, k, value)
    /\ balanceOf' = [balanceOf EXCEPT ![k][from] = @ - value]
    /\ UNCHANGED <<priceVars, exchangeVars, cacheVars,
                   feesToDistribute>>

\* _transferToFeeAddress: pUSD is moved, any other pynth is exchanged for pUSD
\* of the fee address; either is reported to the fee pool.
TransferToFeeAddress(from, k, value) ==
    /\ UserCall
    /\ EnsureCanTransfer(from, k, value)
    /\ \/ /\ k = pUSD
          /\ balanceOf' = Moved(balanceOf, k, from, FeeAddress, value)
          /\ feesToDistribute' = feesToDistribute + value
          /\ UNCHANGED <<priceVars, exchangeVars, cacheVars>>
       \/ /\ k # pUSD
          /\ InternalExchange(from, k, value, pUSD, FeeAddress, TRUE)

\* transferAndSettle: the settlement of Settle, then what is left of the value.
TransferAndSettle(from, to, k, asked) ==
    LET settled == SettledBalances(from, k)
        value   == IF exchanges[from][k] # <<>> /\ asked > settled[k][from]
                   THEN settled[k][from] ELSE asked
    IN  /\ UserCall
        /\ k \notin pynthSuspension
        /\ CanSettle(from, k)
        /\ settled[k][from] >= value
        /\ balanceOf' = Moved(settled, k, from, to, value)
        /\ exchanges' = SettledQueues(from, k)
        /\ UNCHANGED <<priceVars, lastExchangeRate, pynthSuspension,
                       feesToDistribute>>
        /\ UpdateCache({k})
        /\ UpdateValidity({k})

-----------------------------------------------------------------------------
(* The circuit breaker's other entry points, and the owner.                *)

SuspendPynthWithInvalidRate(k) ==
    /\ PynthRateIsInvalid(k)
    /\ pynthSuspension' = pynthSuspension \cup {k}
    /\ UNCHANGED <<priceVars, balanceOf, exchanges, lastExchangeRate, cacheVars,
                   feesToDistribute, userCalls>>

ResetLastExchangeRate(keys) ==
    /\ AdminCall
    /\ \A k \in keys : ~RateIsInvalid(k)
    /\ lastExchangeRate' = [k \in Keys |-> IF k \in keys THEN Rate(k)
                                           ELSE lastExchangeRate[k]]
    /\ UNCHANGED <<now, rates, inversePricing, roundFrozen, balanceOf, exchanges,
                   pynthSuspension, cacheVars, feesToDistribute,
                   userCalls>>

\* SystemStatus.resumePynth
ResumePynth(k) ==
    /\ AdminCall
    /\ k \in pynthSuspension
    /\ pynthSuspension' = pynthSuspension \ {k}
    /\ UNCHANGED <<now, rates, inversePricing, roundFrozen, balanceOf, exchanges,
                   lastExchangeRate, cacheVars, feesToDistribute,
                   userCalls>>

\* The end of setInversePricing: setLastExchangeRateForPynth, at the new price.
ConfigureInverse(k, config) ==
    /\ SetInversePricing(k, config)
    /\ lastExchangeRate' = IF Rate(k)' > 0
                           THEN [lastExchangeRate EXCEPT ![k] = Rate(k)']
                           ELSE lastExchangeRate
    /\ UNCHANGED <<balanceOf, exchanges, pynthSuspension, cacheVars,
                   feesToDistribute, userCalls>>

\* The steps of Prices that nothing else takes part in.
PriceStep ==
    /\ \/ \E batch \in Batches, t \in (now - OracleLag)..(now + FutureLimit) :
              UpdateRates(batch, t)
       \/ \E k \in Keys \ {pUSD} : DeleteRate(k)
       \/ \E k \in Keys : RemoveInversePricing(k)
       \/ \E k \in Keys : FreezeRate(k)
       \/ Tick
    /\ UNCHANGED <<balanceOf, exchangeVars, cacheVars,
                   feesToDistribute, userCalls>>

-----------------------------------------------------------------------------

\* The deployed system after its inverse pynths were configured, each with its
\* price known, and after a snapshot of the debt.
Init ==
    /\ InitPrices
    /\ balanceOf = InitialBalances
    /\ exchanges = [a \in Holders |-> [k \in Keys |-> <<>>]]
    /\ lastExchangeRate = [k \in Keys |->
                               IF inversePricing[k] = NoInverse THEN 0 ELSE Rate(k)]
    /\ pynthSuspension = {}
    /\ cachedPynthDebt = IssuedDebts
    /\ TotalShort <= SumFunction(IssuedDebts)
    /\ cachedDebt = SumFunction(IssuedDebts) - TotalShort
    /\ cacheInvalid = FALSE
    /\ cacheTimestamp = now
    /\ feesToDistribute = 0
    /\ userCalls = 0

UserStep ==
    \E a \in Accounts, k \in Keys :
        \/ \E x \in ExchangeAmounts, dest \in Keys : Exchange(a, k, x, dest)
        \/ \E x \in TransferAmounts, to \in Holders :
               Transfer(a, to, k, x) \/ TransferAndSettle(a, to, k, x)
        \/ \E x \in TransferAmounts :
               TransferToZero(a, k, x) \/ TransferToFeeAddress(a, k, x)

KeeperStep ==
    \/ \E a \in Holders, k \in Keys : Settle(a, k)
    \/ \E keys \in SUBSET Keys \ {{}} : UpdateCachedPynthDebts(keys)
    \/ TakeDebtSnapshot
    \/ \E k \in Keys : SuspendPynthWithInvalidRate(k)

OwnerStep ==
    \/ \E keys \in SUBSET Keys \ {{}} : ResetLastExchangeRate(keys)
    \/ \E k \in Keys : ResumePynth(k)
    \/ \E k \in Keys : \E config \in InverseConfigs[k] :
           ConfigureInverse(k, config)

Next == UserStep \/ KeeperStep \/ OwnerStep \/ PriceStep

Spec == Init /\ [][Next]_vars

-----------------------------------------------------------------------------
(* Types.                                                                  *)

Entry == [src : Keys, amount : Nat \ {0}, amountReceived : Nat,
          exchangeFeeRate : 0..Unit, timestamp : Nat,
          roundIdForSrc : Nat, roundIdForDest : Nat]

\* Every variable has its type; in particular no balance and no cached debt goes
\* below zero, where the SafeMath subtraction of the code would have reverted.
TypeOK ==
    /\ PricesTypeOK
    /\ balanceOf \in [Keys -> [Holders -> Nat]]
    /\ exchanges \in [Holders -> [Keys -> Seq(Entry)]]
    /\ lastExchangeRate \in [Keys -> Nat]
    /\ pynthSuspension \subseteq Keys
    /\ cachedPynthDebt \in [Keys -> Nat]
    /\ cachedDebt \in Nat
    /\ cacheInvalid \in BOOLEAN
    /\ cacheTimestamp \in Nat
    /\ feesToDistribute \in Nat

-----------------------------------------------------------------------------
(* Safety.                                                                 *)

\* The total of the debt cache is the sum of its parts, whichever parts the
\* exchanges, the settlements and the keepers update: a part updated without
\* the total would distort the debt of every staker until the next snapshot.
CacheIsSum ==
    (\A k \in Keys : Shorts[k] = 0) =>
        cachedDebt = SumFunction(cachedPynthDebt)

\* The comment in _updateCachedPynthDebtsWithRates, "This requirement should
\* never fail": whichever pynths are updated, at whatever prices, the sum of
\* their cached debts is within the cached total when it has to change.
CacheRequirementHolds ==
    \A keys \in SUBSET Keys :
        LET cached == SumFunctionOnSet(cachedPynthDebt, keys)
        IN  cached # SumFunctionOnSet(IssuedDebts, keys) => cached <= cachedDebt

\* A price of the waiting period of the entry reached the chain only when the
\* waiting period was over.
PriceWasLate(entry, dest) ==
    \E k \in {entry.src, dest} : \E r \in DOMAIN rates[k] :
        LET end == entry.timestamp + WaitingPeriodSecs
        IN  /\ r > IF k = dest THEN entry.roundIdForDest ELSE entry.roundIdForSrc
            /\ rates[k][r].time <= end
            /\ rates[k][r].posted >= end

\* What has to be given back is there: an account can move nothing of a pynth
\* before the waiting period is over and nothing of what is reclaimed then, so
\* that its settlement never reverts for lack of balance, unless a price was
\* late or the owner changed prices afterwards.
SettlementAffordable ==
    \A a \in Holders, k \in Keys :
        \/ adminCalls > 0
        \/ \E i \in DOMAIN exchanges[a][k] : PriceWasLate(exchanges[a][k][i], k)
        \/ BalanceAfterSettlement(a, k) >= 0

\* What the holders of k have or are owed.
Entitled(k) == SumFunction([a \in Holders |-> BalanceAfterSettlement(a, k)])

\* The same of all pynths, at current prices, times Unit.
Worth == SumFunction([k \in Keys |-> Rate(k) * Entitled(k)])

RoundingOfExchange == 2 * Unit + Max({Rate(k) : k \in Keys})

\* No value appears or disappears in a settlement, alone or as a part of an
\* exchange or a transfer, and an exchange with its fee changes the total by
\* no more than its three roundings: half a cent of dollars twice and half a
\* unit of the destination.
WorthConserved ==
    [][ UNCHANGED priceVars /\ exchanges' # exchanges =>
            LET change == Worth' - Worth
                onlySettled == \A a \in Holders, k \in Keys :
                                   exchanges'[a][k] \in {<<>>, exchanges[a][k]}
            IN  IF onlySettled THEN change = 0
                ELSE 2 * change \in -RoundingOfExchange..RoundingOfExchange
      ]_vars

PeriodEnds(a, k) ==
    {exchanges[a][k][i].timestamp + WaitingPeriodSecs :
        i \in DOMAIN exchanges[a][k]}

\* A step that reports a price of time `end` or before.
ReportsUntil(end) ==
    \E k \in Keys : /\ Len(rates'[k]) > Len(rates[k])
                    /\ rates'[k][Len(rates'[k])].time <= end

\* The rounds an account's exchanges of k were made at have not been deleted.
RoundsExist(a, k) ==
    \A i \in DOMAIN exchanges[a][k] :
        LET entry == exchanges[a][k][i]
        IN  /\ entry.roundIdForSrc <= currentRoundForRate(entry.src)
            /\ entry.roundIdForDest <= currentRoundForRate(k)

\* What is owed for an exchange is final when its waiting period is over: no
\* later price and no freezing of an inverse price changes it, only a price of
\* that period that is late, or the owner.  A deletion changes it later too: the
\* next price takes the id of a deleted round, and if the exchange was made at
\* that round, is used whatever its time.
OwedIsFinal ==
    [][ \A a \in Holders, k \in Keys :
            /\ exchanges'[a][k] = exchanges[a][k]
            /\ adminCalls' = adminCalls
            /\ RoundsExist(a, k)
            /\ \A end \in PeriodEnds(a, k) : now >= end /\ ~ReportsUntil(end)
            => OwedList(a, k)' = OwedList(a, k)
      ]_vars

\* The circuit breaker: from one exchange to the next the price of a pynth
\* moves by less than the threshold, whatever the oracle reports in between,
\* unless the owner resets it.
PriceStepsBounded ==
    [][ \A k \in Keys :
            /\ lastExchangeRate[k] > 0
            /\ lastExchangeRate'[k] # lastExchangeRate[k]
            /\ adminCalls' = adminCalls
            => ~DeviationAboveThreshold(lastExchangeRate[k], lastExchangeRate'[k])
      ]_vars

\* A frozen price holds, whatever the oracle reports, until the owner changes
\* or removes the inverse pricing or the price of the freezing is deleted: then
\* the pynth moves again while it still counts as frozen.  A pynth frozen while
\* it has no price gets the frozen one with the first report.
FrozenPriceHolds ==
    [][ \A k \in Keys :
            /\ Frozen(k)
            /\ Frozen(k)'
            /\ Rate(k) > 0
            /\ currentRoundForRate(k) >= roundFrozen[k]
            /\ adminCalls' = adminCalls
            => Rate(k)' = Rate(k)
      ]_vars

\* The comment in calculateAmountAfterSettlement: an amount that is more than
\* the account has after its settlement is reduced to what it has.
AmountReducedToSupply ==
    \A a \in Accounts, k \in Keys, x \in ExchangeAmounts :
        exchanges[a][k] # <<>> /\ CanSettle(a, k) =>
            AmountAfterSettlement(a, k, x) <= BalanceAfterSettlement(a, k)
=============================================================================
