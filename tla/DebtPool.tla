------------------------------ MODULE DebtPool ------------------------------
(***************************************************************************)
(* The debt pool: Issuer, PeriFinanceState, CrossChainManager and          *)
(* CrossChainState, and the bridging of pUSD, over the pynths and the debt *)
(* cache of Exchanger.                                                     *)
(*                                                                         *)
(* Stakers issue pUSD against their PERI.  What they owe is not the pUSD   *)
(* but a share of the value of all pynths.  The register stores the share  *)
(* at the last issue or burn of an account, and a ledger of the factors by *)
(* which the issues and burns of all accounts have since scaled it.        *)
(*                                                                         *)
(* Left out: external tokens (no account has staked any, so the target     *)
(* ratio is the issuance ratio), liquidations, the records for the fee     *)
(* pool, addition and removal of pynths, fixDebtRegister, delegated calls, *)
(* changes of the price of PERI, the setters of single figures of the      *)
(* other networks, and _syncTimestamp and _isStale, which only the minting *)
(* of PERI reads.                                                          *)
(***************************************************************************)
EXTENDS Exchanger

CONSTANTS
    PreciseUnit,            \* 10^27
    CollateralValue,        \* [a] value of the PERI of an account, in dollars
    IssuanceRatio,
    MinimumStakeTime,
    DebtSnapshotStaleTime,
    BurnDust,               \* 10: a balance nearer to a burn is burned whole
    IssueAmounts, BurnAmounts, BridgeAmounts,
    NetworkDebts,           \* what the debt manager may report: records of the
                            \* debts of the other networks and their outbound sum
    MaxDebtCalls,           \* bound: issues and burns
    MaxCrossCalls,          \* bound: bridge transfers, claims and reports
    DebtRounding            \* what rounding may amount to within these bounds

ASSUME PreciseUnitAssumption ==
    /\ PreciseUnit \in Nat \ {0}
    /\ PreciseUnit % (10 * Unit) = 0

ASSUME DebtsAssumption ==
    /\ CollateralValue \in [Accounts -> Nat]
    /\ IssuanceRatio \in Nat
    /\ IssueAmounts \cup BurnAmounts \cup BridgeAmounts \subseteq Nat
    /\ NetworkDebts \subseteq [issued : Nat, active : Nat, outbound : Nat]

VARIABLES
    issuanceData,           \* [a]
    debtLedger,
    totalIssuerCount,
    lastIssueEvent,         \* [a]
    selfIssuedDebt,         \* _selfNetworkIssuedDebt
    crossIssuedDebt,        \* _crossNetworkIssuedDebt
    crossActiveDebt,        \* _crossNetworkActiveDebt
    outboundSum,            \* _outboundSumToCurrentNetwork
    totalOutbound,          \* of pUSD, in the bridge state
    totalInbound,
    debtCalls,
    crossCalls

registerVars == <<issuanceData, debtLedger, totalIssuerCount, lastIssueEvent,
                  selfIssuedDebt>>
reportVars   == <<crossIssuedDebt, crossActiveDebt, outboundSum>>
bridgeVars   == <<totalOutbound, totalInbound>>
debtVars     == <<registerVars, reportVars, bridgeVars, debtCalls, crossCalls>>
poolVars     == <<vars, debtVars>>

-----------------------------------------------------------------------------
(* High precision.                                                         *)

PrecisionFactor == PreciseUnit \div Unit
ToPrecise(x)    == x * PrecisionFactor
FromPrecise(x)  == (x \div (PrecisionFactor \div 10) + 5) \div 10

MultiplyPrecise(x, y) == MultiplyRound(x, y, PreciseUnit)
DividePrecise(x, y)   == DivideRound(x, y, PreciseUnit)

-----------------------------------------------------------------------------
(* CrossChainManager: the debt of this network.                            *)

\* _getInOutAmount: what the other networks say they have sent counts as soon
\* as they say it.
InboundAmount == IF totalInbound < outboundSum THEN outboundSum ELSE totalInbound

\* What the subtraction in _currentNetworkActiveDebt leaves.
LocalDebt == cachedDebt + totalOutbound - InboundAmount

\* _currentNetworkDebtPercentage
NetworkShare ==
    LET total == selfIssuedDebt + crossIssuedDebt
    IN  IF total = 0 THEN PreciseUnit
        ELSE DividePrecise(ToPrecise(selfIssuedDebt), ToPrecise(total))

\* _currentNetworkActiveDebt
ActiveDebt ==
    FromPrecise(MultiplyPrecise(ToPrecise(LocalDebt + crossActiveDebt),
                                NetworkShare))

\* The debt can be used: the subtraction does not revert and the cache is
\* neither invalid nor stale.
DebtReadable ==
    /\ LocalDebt >= 0
    /\ ~cacheInvalid
    /\ cacheTimestamp + DebtSnapshotStaleTime >= now

-----------------------------------------------------------------------------
(* Issuer: what an account owes and what it may issue.                     *)

LastDebtLedgerEntry ==
    IF debtLedger = <<>> THEN 0 ELSE debtLedger[Len(debtLedger)]

\* _debtBalanceOfAndTotalDebt
DebtBalanceOf(a) ==
    LET data       == issuanceData[a]
        systemDebt == debtLedger[data.debtEntryIndex]
        ownership  == MultiplyPrecise(
                          DividePrecise(LastDebtLedgerEntry, systemDebt),
                          data.initialDebtOwnership)
    IN  IF data.initialDebtOwnership = 0 \/ systemDebt = 0 THEN 0
        ELSE FromPrecise(MultiplyPrecise(ToPrecise(ActiveDebt), ownership))

\* _maxIssuablePynths, _preciseMulToDecimal
MaxIssuablePynths(a) ==
    FromPrecise(MultiplyPrecise(ToPrecise(CollateralValue[a]),
                                ToPrecise(IssuanceRatio)))

\* Broken variant: what has been issued already is forgotten.
RemainingWithoutIssued(a) == MaxIssuablePynths(a)

\* _remainingIssuablePynths
RemainingIssuablePynths(a) ==
    IF MaxIssuablePynths(a) > DebtBalanceOf(a)
    THEN MaxIssuablePynths(a) - DebtBalanceOf(a) ELSE 0

-----------------------------------------------------------------------------
(* The debt register.                                                      *)

\* setCurrentIssuanceData, before the entry of the step is appended.
IssuanceDataWith(a, ownership) ==
    [issuanceData EXCEPT ![a] = [initialDebtOwnership |-> ownership,
                                 debtEntryIndex |-> Len(debtLedger) + 1]]

\* Broken variant: the others are diluted by the issuer's whole debt.
AddWholeDebtToRegister(a, amount, existing, total) ==
    LET newTotal == amount + total
        delta    == PreciseUnit - DividePrecise(amount + existing, newTotal)
    IN  /\ newTotal > 0
        /\ issuanceData' =
               IssuanceDataWith(a, DividePrecise(amount + existing, newTotal))
        /\ totalIssuerCount' = totalIssuerCount + (IF existing > 0 THEN 0 ELSE 1)
        /\ selfIssuedDebt' = selfIssuedDebt + amount
        /\ debtLedger' =
               Append(debtLedger,
                      IF LastDebtLedgerEntry # 0
                      THEN MultiplyPrecise(LastDebtLedgerEntry, delta)
                      ELSE PreciseUnit)

\* Broken variant: who has issued before does not dilute the others.
AddNewIssuerToRegister(a, amount, existing, total) ==
    LET newTotal == amount + total
        delta    == IF existing > 0 THEN PreciseUnit
                    ELSE PreciseUnit - DividePrecise(amount, newTotal)
    IN  /\ newTotal > 0
        /\ issuanceData' =
               IssuanceDataWith(a, DividePrecise(amount + existing, newTotal))
        /\ totalIssuerCount' = totalIssuerCount + (IF existing > 0 THEN 0 ELSE 1)
        /\ selfIssuedDebt' = selfIssuedDebt + amount
        /\ debtLedger' =
               Append(debtLedger,
                      IF LastDebtLedgerEntry # 0
                      THEN MultiplyPrecise(LastDebtLedgerEntry, delta)
                      ELSE PreciseUnit)

\* _addToDebtRegister, which reverts dividing by a total of 0.  The ledger
\* restarts when its last entry is 0.
AddToDebtRegister(a, amount, existing, total) ==
    LET newTotal == amount + total
        delta    == PreciseUnit - DividePrecise(amount, newTotal)
    IN  /\ newTotal > 0
        /\ issuanceData' =
               IssuanceDataWith(a, DividePrecise(amount + existing, newTotal))
        /\ totalIssuerCount' = totalIssuerCount + (IF existing > 0 THEN 0 ELSE 1)
        /\ selfIssuedDebt' = selfIssuedDebt + amount
        /\ debtLedger' =
               Append(debtLedger,
                      IF LastDebtLedgerEntry # 0
                      THEN MultiplyPrecise(LastDebtLedgerEntry, delta)
                      ELSE PreciseUnit)

\* The requirements of _burnPynths and _removeFromDebtRegister.
CanRemoveDebt(amount, existing, total) ==
    /\ amount <= existing
    /\ amount <= total
    /\ IF amount = existing THEN totalIssuerCount > 0 ELSE amount < total
    /\ amount <= selfIssuedDebt

\* _removeFromDebtRegister.  The ledger ends with 0 when no debt is left.
RemoveFromDebtRegister(a, amount, existing, total) ==
    LET newTotal == total - amount
        delta    == IF newTotal > 0
                    THEN PreciseUnit + DividePrecise(amount, newTotal) ELSE 0
    IN  /\ CanRemoveDebt(amount, existing, total)
        /\ issuanceData' =
               IssuanceDataWith(a, IF amount = existing THEN 0
                                   ELSE DividePrecise(existing - amount, newTotal))
        /\ totalIssuerCount' = totalIssuerCount - (IF amount = existing THEN 1 ELSE 0)
        /\ selfIssuedDebt' = selfIssuedDebt - amount
        /\ debtLedger' =
               Append(debtLedger, MultiplyPrecise(LastDebtLedgerEntry, delta))

-----------------------------------------------------------------------------
(* Issue.                                                                  *)

DebtCall ==
    /\ debtCalls < MaxDebtCalls
    /\ debtCalls' = debtCalls + 1
    /\ UNCHANGED <<priceVars, lastExchangeRate, pynthSuspension,
                   feesToDistribute, userCalls, reportVars, bridgeVars,
                   crossCalls>>

\* _issuePynths
InternalIssue(a, amount) ==
    /\ AddToDebtRegister(a, amount, DebtBalanceOf(a), ActiveDebt)
    /\ lastIssueEvent' = [lastIssueEvent EXCEPT ![a] = now]
    /\ balanceOf' = [balanceOf EXCEPT ![pUSD][a] = @ + amount]
    /\ UNCHANGED <<exchanges, cacheInvalid>>
    /\ UpdateCache({pUSD})

\* issuePynths of PERI
IssuePynths(a, amount) ==
    /\ DebtCall
    /\ DebtReadable
    /\ amount <= RemainingIssuablePynths(a)
    /\ InternalIssue(a, amount)

\* issueMaxPynths, which does nothing when nothing remains to be issued.
IssueMaxPynths(a) ==
    /\ DebtCall
    /\ DebtReadable
    /\ RemainingIssuablePynths(a) > 0
    /\ InternalIssue(a, RemainingIssuablePynths(a))

-----------------------------------------------------------------------------
(* Burn.                                                                   *)

\* The pUSD that _burnPynths takes for an amount of debt: a balance that is
\* almost the amount is taken whole.
AmountBurnt(balance, amount) ==
    LET deviation == IF amount > balance THEN amount - balance
                     ELSE balance - amount
    IN  IF deviation < BurnDust THEN balance ELSE amount

\* _burnPynths, from the `settled` balances, and the rest of
\* _voluntaryBurnPynths, whose subtraction of what was burnt must not revert.
InternalBurn(a, settled, amount) ==
    LET existing == DebtBalanceOf(a)
        burnt    == AmountBurnt(settled[pUSD][a], amount)
    IN  /\ RemoveFromDebtRegister(a, amount, existing, ActiveDebt)
        /\ settled[pUSD][a] >= burnt
        /\ existing >= burnt
        /\ balanceOf' = [settled EXCEPT ![pUSD][a] = @ - burnt]
        /\ UNCHANGED <<lastIssueEvent, cacheInvalid>>
        /\ UpdateCache({pUSD})

\* _voluntaryBurnPynths when not burning to the target.  The debt was read
\* before the settlement, which may change the amount.
SettleAndBurn(a, asked) ==
    /\ DebtCall
    /\ DebtReadable
    /\ DebtBalanceOf(a) > 0
    /\ now >= lastIssueEvent[a] + MinimumStakeTime
    /\ pUSD \notin pynthSuspension
    /\ CanSettle(a, pUSD)
    /\ exchanges' = SettledQueues(a, pUSD)
    /\ InternalBurn(a, SettledBalances(a, pUSD),
                    AmountAfterSettlement(a, pUSD, asked))

\* burnPynths of PERI
BurnPynths(a, amount) == SettleAndBurn(a, amount)

\* exit asks for the whole debt.
Exit(a) == SettleAndBurn(a, DebtBalanceOf(a))

\* fitToClaimable, also by the owner for anyone: no stake time, no settlement.
FitToClaimable(a) ==
    /\ DebtCall
    /\ DebtReadable
    /\ DebtBalanceOf(a) > MaxIssuablePynths(a)
    /\ InternalBurn(a, balanceOf, DebtBalanceOf(a) - MaxIssuablePynths(a))
    /\ UNCHANGED exchanges

-----------------------------------------------------------------------------
(* The bridge of pUSD and the debt manager.                                *)

CrossCall ==
    /\ crossCalls < MaxCrossCalls
    /\ crossCalls' = crossCalls + 1
    /\ UNCHANGED <<priceVars, exchangeVars, feesToDistribute, userCalls,
                   registerVars, debtCalls>>

\* Broken variant: the debt cache is not told of the burn.
OverchainTransferUncached(a, amount) ==
    /\ CrossCall
    /\ EnsureCanTransfer(a, pUSD, amount)
    /\ balanceOf' = [balanceOf EXCEPT ![pUSD][a] = @ - amount]
    /\ totalOutbound' = totalOutbound + amount
    /\ UNCHANGED <<totalInbound, reportVars, cacheVars>>

\* overchainTransfer of pUSD; Bridge has the rest of the transfer.
OverchainTransfer(a, amount) ==
    /\ CrossCall
    /\ EnsureCanTransfer(a, pUSD, amount)
    /\ balanceOf' = [balanceOf EXCEPT ![pUSD][a] = @ - amount]
    /\ totalOutbound' = totalOutbound + amount
    /\ UNCHANGED <<totalInbound, reportVars, cacheInvalid>>
    /\ UpdateCache({pUSD})

\* _claimBridgedAmount of a transfer that the validators have approved.
ClaimBridgedAmount(a, amount) ==
    /\ CrossCall
    /\ balanceOf' = [balanceOf EXCEPT ![pUSD][a] = @ + amount]
    /\ totalInbound' = totalInbound + amount
    /\ UNCHANGED <<totalOutbound, reportVars, cacheInvalid>>
    /\ UpdateCache({pUSD})

\* setCrossNetworkDebtsAll.  A report is made some time after the transfers it
\* sums up, so it may be behind or ahead of what has arrived here.
SetCrossNetworkDebtsAll(report) ==
    /\ CrossCall
    /\ crossIssuedDebt' = report.issued
    /\ crossActiveDebt' = report.active
    /\ outboundSum' = report.outbound
    /\ UNCHANGED <<balanceOf, cacheVars, bridgeVars>>

-----------------------------------------------------------------------------

PoolInit ==
    /\ Init
    /\ issuanceData = [a \in Accounts |-> [initialDebtOwnership |-> 0,
                                           debtEntryIndex |-> 1]]
    /\ debtLedger = <<>>
    /\ totalIssuerCount = 0
    /\ lastIssueEvent = [a \in Accounts |-> 0]
    /\ selfIssuedDebt = 0
    /\ crossIssuedDebt = 0
    /\ crossActiveDebt = 0
    /\ outboundSum = 0
    /\ totalOutbound = 0
    /\ totalInbound = 0
    /\ debtCalls = 0
    /\ crossCalls = 0

StakerStep ==
    \E a \in Accounts :
        \/ \E x \in IssueAmounts : IssuePynths(a, x)
        \/ IssueMaxPynths(a)
        \/ \E x \in BurnAmounts : BurnPynths(a, x)
        \/ Exit(a)
        \/ FitToClaimable(a)

CrossStep ==
    \/ \E a \in Accounts, x \in BridgeAmounts :
           OverchainTransfer(a, x) \/ ClaimBridgedAmount(a, x)
    \/ \E report \in NetworkDebts : SetCrossNetworkDebtsAll(report)

PynthStep == Next /\ UNCHANGED debtVars

PoolNext == StakerStep \/ CrossStep \/ PynthStep

PoolSpec == PoolInit /\ [][PoolNext]_poolVars

-----------------------------------------------------------------------------
(* Types.                                                                  *)

\* Every variable has its type; in particular no burn takes more than there is
\* and no share of the debt goes below zero.
PoolTypeOK ==
    /\ TypeOK
    /\ issuanceData \in [Accounts -> [initialDebtOwnership : Nat,
                                      debtEntryIndex : Nat \ {0}]]
    /\ debtLedger \in Seq(Nat)
    /\ totalIssuerCount \in Nat
    /\ lastIssueEvent \in [Accounts -> Nat]
    /\ selfIssuedDebt \in Nat
    /\ crossIssuedDebt \in Nat
    /\ crossActiveDebt \in Nat
    /\ outboundSum \in Nat
    /\ totalOutbound \in Nat
    /\ totalInbound \in Nat

-----------------------------------------------------------------------------
(* Safety.                                                                 *)

Shareholders == {a \in Accounts : issuanceData[a].initialDebtOwnership > 0}

\* The ledger has not passed through 0 since a shareholder's last step.  When it
\* does, it was because the whole debt was 0 or was burned by another account.
RegisterIntact ==
    \A a \in Shareholders :
        \A i \in issuanceData[a].debtEntryIndex..Len(debtLedger) :
            debtLedger[i] # 0

TotalOwed == MapThenSumSet(DebtBalanceOf, Accounts)

\* The accounts together never owe more than the debt of the network, whatever
\* they issue and burn, however the value of the pynths moves in between and
\* whatever the other networks report: a share that is counted twice would have
\* to be paid by burning pynths that do not exist.
DebtWithinTotal ==
    LocalDebt >= 0 /\ RegisterIntact => TotalOwed <= ActiveDebt + DebtRounding

SingleNetwork == crossIssuedDebt = 0 /\ crossActiveDebt = 0

\* The cached debt of pUSD is its supply: nobody has sent pUSD to address 0, and
\* no exchange has ended after its settlement of pUSD.
CacheOfPUSDCurrent == cachedPynthDebt[pUSD] = IssuedPynthValue(pUSD)

\* Otherwise the supply that the loans have not issued counts as 0, and what is
\* issued or bridged changes the debt by less, or not at all.
LoansWithinSupply == Longs[pUSD] <= TotalSupply(pUSD)

\* Premises of the properties of one step.
StepIsExact ==
    /\ LocalDebt >= 0
    /\ SingleNetwork
    /\ RegisterIntact
    /\ CacheOfPUSDCurrent
    /\ LoansWithinSupply

\* Who issues or burns pUSD owes more or less by as much: its own debt changes
\* with the supply, and the debt of every other account stays where it is,
\* unless the step settles an exchange as well.
DebtFollowsIssuer ==
    [][ /\ debtLedger' # debtLedger
        /\ StepIsExact
        /\ LoansWithinSupply'
        /\ exchanges' = exchanges
        => \A a \in Accounts :
               LET moved  == DebtBalanceOf(a)' - DebtBalanceOf(a)
                   issued == IF issuanceData'[a] = issuanceData[a] THEN 0
                             ELSE TotalSupply(pUSD)' - TotalSupply(pUSD)
               IN  moved - issued \in -DebtRounding..DebtRounding
      ]_poolVars

\* No issue takes what an account owes, read again after the step, above what
\* its collateral allows by more than the rounding of its share of the debt.
CollateralRespected ==
    [][ \A a \in Accounts :
            /\ StepIsExact
            /\ selfIssuedDebt' > selfIssuedDebt
            /\ issuanceData'[a] # issuanceData[a]
            => DebtBalanceOf(a)'
                   <= MaxIssuablePynths(a) + 1 + ActiveDebt' \div PreciseUnit
      ]_poolVars

\* Bridging moves pUSD, not debt: neither a transfer to another network nor a
\* claim changes the debt of this one, unless the other networks have reported
\* transfers that have not arrived.
BridgingMovesNoDebt ==
    [][ /\ bridgeVars' # bridgeVars
        /\ LocalDebt >= 0
        /\ CacheOfPUSDCurrent
        /\ LoansWithinSupply /\ LoansWithinSupply'
        /\ outboundSum <= totalInbound
        => ActiveDebt' = ActiveDebt
      ]_poolVars

\* The test "should allow user to burn all pynths issued even after other users
\* have issued" (Issuer.js): an account that has the pUSD it owes, and nothing
\* to settle, can burn its debt up to the rounding.
DebtCanBeRepaid ==
    \A a \in Accounts :
        /\ LocalDebt >= 0
        /\ exchanges[a][pUSD] = <<>>
        /\ DebtBalanceOf(a) > DebtRounding
        /\ balanceOf[pUSD][a] >= DebtBalanceOf(a)
        => \E amount \in (DebtBalanceOf(a) - DebtRounding)..DebtBalanceOf(a) :
               CanRemoveDebt(amount, DebtBalanceOf(a), ActiveDebt)

\* The test "should set lastDebtLedgerEntry to 1 when a user added to a
\* debtRegister and no debt exists" (Issuer.js).
LedgerRestartsAtOne ==
    [][ selfIssuedDebt' > selfIssuedDebt /\ LocalDebt >= 0 /\ ActiveDebt = 0
        => LastDebtLedgerEntry' = PreciseUnit
      ]_poolVars
=============================================================================
