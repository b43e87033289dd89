---------------------------- MODULE DeployScript ----------------------------
(***************************************************************************)
(* The steps of deploy.js, in its order, for Deployment to walk.           *)
(*                                                                         *)
(* A step is a contract to deploy or to reuse, or a slot to set, with what *)
(* the code asks before it: the contracts that must be there (given), and  *)
(* flags of which one must be set (when).  What a constructor is passed    *)
(* besides addresses, the read proxy of the resolver, which most are       *)
(* passed and which is never replaced, and the variant of a contract that  *)
(* a network gets are left out; of the parameters of a deployment it is    *)
(* only kept that they are values.  Also left out are inverse pricing, the *)
(* debts copied from an older CrossChainState, the refresh of the debt     *)
(* cache, and the mock tokens of test networks.                            *)
(***************************************************************************)
EXTENDS Naturals, Sequences, TLC

CONSTANTS
    Pynths,         \* pynths.json: [currency key -> name of the contract]
    PynthOrder,     \* its keys, in its order
    Bridged,        \* the key of the pynth that bridges: pUSD
    Roles,          \* parameters: holders of roles of a bridge,
    Networks,       \*   networks it opens,
    Feeds,          \*   standalone feeds, and those of the own oracle,
    OwnFeeds,
    StakingTokens,  \*   and tokens to stake
    OnTestnet

\* One step per element of a sequence.
Each(S, step(_)) == [i \in DOMAIN S |-> step(S[i])]

\* Steps of a list of lists.
Flatten(SS) ==
    LET upto[n \in 0..Len(SS)] == IF n = 0 THEN <<>> ELSE upto[n - 1] \o SS[n]
    IN  upto[Len(SS)]

\* A contract, what it depends on, and the addresses its constructor stores.
Contract(name, deps, ctor) ==
    [op |-> "deploy", name |-> name, key |-> "", given |-> {}, when |-> {},
     deps |-> deps, ctor |-> ctor, force |-> FALSE]

Needing(name, deps) == Contract(name, deps, <<>>)
Plain(name)         == Needing(name, {})

\* A slot of contract on to hold the address of contract to: both must be there.
Link(on, field, to) ==
    [op |-> "set", label |-> on, on |-> on, at |-> on, via |-> FALSE,
     field |-> field, to |-> to, given |-> {on, to}, when |-> {}, keep |-> FALSE]

\* A slot to hold a parameter.
Param(on, field) ==
    [op |-> "set", label |-> on, on |-> on, at |-> on, via |-> FALSE,
     field |-> field, to |-> "fixed", given |-> {on}, when |-> {}, keep |-> FALSE]

\* Only a slot that holds nothing yet.
Default(step) == [step EXCEPT !.keep = TRUE]
When(step, names) == [step EXCEPT !.when = names]
Given(step, names) == [step EXCEPT !.given = names]
Forced(step) == [step EXCEPT !.force = TRUE]

-----------------------------------------------------------------------------
(* The core.                                                               *)

Libraries == <<Plain("SafeDecimalMath"), Plain("Math")>>

ResolverSteps == <<
    Plain("AddressResolver"),
    Plain("ReadProxyAddressResolver"),
    Link("ReadProxyAddressResolver", "target", "AddressResolver"),
    Needing("FlexibleStorage", {"ReadProxyAddressResolver"}),
    Plain("SystemSettings")>>

\* On a testnet the deployer may suspend the system.
StatusSteps ==
    <<Plain("SystemStatus")>>
    \o (IF OnTestnet THEN <<Param("SystemStatus", "accessControl")>> ELSE <<>>)

RateSteps == <<
    Plain("ExchangeRates"),
    Param("ExchangeRates", "oracle")>>

EscrowSteps == <<
    Plain("RewardEscrow"),
    Needing("RewardEscrowV2", {"AddressResolver"}),
    Plain("PeriFinanceEscrow"),
    Plain("PeriFinanceState"),
    Plain("ProxyFeePool")>>

ApprovalSteps == <<
    Plain("DelegateApprovalsEternalStorage"),
    Contract("DelegateApprovals", {},
             "eternalStorage" :> "DelegateApprovalsEternalStorage"),
    [Link("DelegateApprovalsEternalStorage", "associatedContract",
          "DelegateApprovals") EXCEPT !.label = "EternalStorage"]>>

LiquidationSteps == <<
    Plain("Liquidations"),
    Contract("EternalStorageLiquidations", {}, "associatedContract" :> "Liquidations"),
    Link("EternalStorageLiquidations", "associatedContract", "Liquidations")>>

FeePoolSteps == <<
    Plain("FeePoolEternalStorage"),
    Contract("FeePool", {"ProxyFeePool", "AddressResolver"},
             ("proxy" :> "ProxyFeePool")),
    [op |-> "periods"],
    Link("ProxyFeePool", "target", "FeePool"),
    Link("FeePoolEternalStorage", "associatedContract", "FeePool"),
    Contract("FeePoolState", {"FeePool"}, "feePool" :> "FeePool"),
    Link("FeePoolState", "feePool", "FeePool")>>

RewardsSteps == <<
    Contract("RewardsDistribution", {"RewardEscrowV2", "ProxyFeePool"},
             ("rewardEscrow" :> "RewardEscrowV2") @@ ("feePoolProxy" :> "ProxyFeePool"))>>

PeriFinanceContracts == <<
    Plain("ProxyERC20"),
    Plain("TokenStatePeriFinance"),
    Plain("BlacklistManager"),
    Contract("PeriFinance",
             {"ProxyERC20", "TokenStatePeriFinance", "AddressResolver", "BlacklistManager"},
             ("proxy" :> "ProxyERC20") @@ ("tokenState" :> "TokenStatePeriFinance")
             @@ ("blacklistManager" :> "BlacklistManager")),
    Given(Param("PeriFinance", "minterRole"), {})>>

\* The blacklist manager is set only where there is none.
PeriFinanceLinks == <<
    Given(Param("PeriFinance", "bridgeValidator"), {}),
    Default(Link("PeriFinance", "blacklistManager", "BlacklistManager")),
    Param("PeriFinance", "inflationMinter"),
    Link("ProxyERC20", "target", "PeriFinance"),
    Link("PeriFinance", "proxy", "ProxyERC20")>>

\* The state of a bridge, the roles on it and the networks it opens.
BridgeParams(state, token) ==
    Each(Roles \o Networks, LAMBDA p : Given(Param(state, p), {state, token}))

BridgeSteps ==
    << Contract("BridgeState", {"PeriFinance"}, "associatedContract" :> "PeriFinance"),
       Link("BridgeState", "associatedContract", "PeriFinance") >>
    \o BridgeParams("BridgeState", "PeriFinance")

\* The exchanger may suspend pynths: of those that SystemStatus lets do so, the
\* slot holds the last.
ExchangerSteps == <<
    Needing("DebtCache", {"AddressResolver"}),
    Needing("Exchanger", {"AddressResolver"}),
    When(Needing("VirtualPynthIssuer", {"AddressResolver"}), {"Exchanger"}),
    Contract("ExchangeState", {"Exchanger"}, "associatedContract" :> "Exchanger"),
    Link("ExchangeState", "associatedContract", "Exchanger"),
    Link("SystemStatus", "mayBeSuspendedBy", "Exchanger")>>

\* The first supply is put into the token state when it is new.
IssuerSteps == <<
    When(Param("TokenStatePeriFinance", "balanceOf"), {"TokenStatePeriFinance"}),
    Link("TokenStatePeriFinance", "associatedContract", "PeriFinance"),
    Needing("Issuer", {"AddressResolver"}),
    Needing("TradingRewards", {"AddressResolver", "Exchanger"}),
    Link("PeriFinanceState", "associatedContract", "Issuer")>>

EscrowLinks == <<
    Given(Contract("EscrowChecker", {"PeriFinanceEscrow"},
                   "periFinanceEscrow" :> "PeriFinanceEscrow"), {"PeriFinanceEscrow"}),
    Link("RewardEscrow", "periFinance", "PeriFinance"),
    Link("RewardEscrow", "feePool", "FeePool"),
    Plain("SupplySchedule"),
    Given(Link("SupplySchedule", "periFinanceProxy", "ProxyERC20"),
          {"SupplySchedule", "PeriFinance"}),
    Link("RewardsDistribution", "authority", "PeriFinance"),
    Given(Link("RewardsDistribution", "periFinanceProxy", "ProxyERC20"),
          {"RewardsDistribution", "PeriFinance"}),
    Link("RewardsDistribution", "rewardEscrow", "RewardEscrowV2")>>

\* Only in a run that deploys one of the two.
OldEscrowLinks ==
    LET either == {"PeriFinance", "PeriFinanceEscrow"} IN <<
    When(Given(Link("PeriFinanceEscrow", "periFinance", "ProxyERC20"), {}), either),
    Default(When(Given(Param("PeriFinanceEscrow", "addressToRefund"), {}), either))>>

-----------------------------------------------------------------------------
(* Pynths, each with its token state and proxy; pUSD also has a bridge.    *)

TokenStateOf(key) == "TokenState" \o key
ProxyOf(key)      == "ProxyERC20" \o key

PynthContracts(key) == <<
    Forced(Plain(TokenStateOf(key))),
    Forced(Plain(ProxyOf(key))),
    [op |-> "recall", key |-> key],
    [Forced(Contract(Pynths[key],
              {TokenStateOf(key), ProxyOf(key), "PeriFinance", "FeePool"},
              ("proxy" :> ProxyOf(key)) @@ ("tokenState" :> TokenStateOf(key)))) EXCEPT !.key = key]>>

PynthBridge(key) ==
    IF key # Bridged THEN <<>> ELSE
    LET state == "BridgeState" \o key IN
    << Given(Param(Pynths[key], "bridgeValidator"), {}),
       Forced(Contract(state, {Pynths[key]}, "associatedContract" :> Pynths[key])),
       Link(state, "associatedContract", Pynths[key]) >>
    \o BridgeParams(state, Pynths[key])
    \o << Link(Pynths[key], "bridgeState", state) >>

\* PERI itself has no aggregator.
PynthLinks(key) == <<
    Link(TokenStateOf(key), "associatedContract", Pynths[key]),
    Link(ProxyOf(key), "target", Pynths[key]),
    Link(Pynths[key], "proxy", ProxyOf(key)),
    [op |-> "queue", key |-> key],
    Param("ExchangeRates", "aggregator" \o key)>>

PynthSteps(key) == PynthContracts(key) \o PynthBridge(key) \o PynthLinks(key)

-----------------------------------------------------------------------------
(* Stakes of external tokens, debts of other networks, and what is around. *)

StakingSteps ==
    << Plain("StakingState"),
       Given(Contract("ExternalTokenStakeManager", {"AddressResolver", "StakingState"},
                      ("stakingState" :> "StakingState")), {"StakingState"}),
       Link("StakingState", "associatedContract", "ExternalTokenStakeManager"),
       Link("ExternalTokenStakeManager", "stakingState", "StakingState") >>
    \o Each(StakingTokens, LAMBDA t :
            Given(Param("StakingState", t), {"StakingState", "ExternalTokenStakeManager"}))

CrossChainContracts == <<
    Plain("CrossChainState"),
    Contract("CrossChainManager", {"Issuer", "CrossChainState", "AddressResolver"},
             ("crossChainState" :> "CrossChainState"))>>

AncillarySteps == <<
    Needing("Depot", {"ProxyERC20", "PynthpUSD", "FeePool"}),
    Needing("EtherCollateral", {"AddressResolver"}),
    Needing("EtherCollateralpUSD", {"AddressResolver"}),
    Needing("PeriFinanceBridgeToOptimism", {"AddressResolver"})>>

UtilitySteps == <<
    Needing("PynthUtil", {"ReadProxyAddressResolver"}),
    Plain("DappMaintenance")>>

\* A price that the own oracle reports is marked as external.
FeedSteps ==
    Flatten(Each(Feeds, LAMBDA feed : <<
        Param("ExchangeRates", "aggregator" \o feed),
        [Param("ExchangeRates", "external" \o feed) EXCEPT !.to = "none"]>>))
    \o Each(OwnFeeds, LAMBDA feed :
             Given(Param("ExchangeRates", "external" \o feed), {}))

CollateralManagerSteps == <<
    Plain("CollateralManagerState"),
    Contract("CollateralManager", {},
             ("state" :> "CollateralManagerState")),
    Link("CollateralManagerState", "associatedContract", "CollateralManager")>>

\* A kind of collateral: its loans, and the state that only they may change.
CollateralSteps(kind) ==
    LET state == "CollateralState" \o kind
        loans == "Collateral" \o kind IN <<
    Plain(state),
    Contract(loans, {}, ("state" :> state) @@ ("manager" :> "CollateralManager")),
    Link(state, "associatedContract", loans)>>

-----------------------------------------------------------------------------
(* The end: pynths of the issuer, settings, and the debts of other chains. *)

ReplacePynth(key) == <<
    [op |-> "retire", key |-> key,
     label |-> IF key = Bridged THEN "MultiCollateralPynth" ELSE "Pynth"],
    [op |-> "remove", key |-> key]>>

IssuerPynths == <<[op |-> "sort"]>>
                \o Flatten(Each(PynthOrder, ReplacePynth))
                \o <<[op |-> "add"]>>

\* A setting is stored by FlexibleStorage.
Setting(field) ==
    [Param("SystemSettings", field) EXCEPT !.at = "FlexibleStorage", !.via = TRUE]
Initial(field) == Default(Setting(field))

FeeRateSettings == Each(PynthOrder, LAMBDA key : Initial("exchangeFeeRate" \o key))

IssuanceSettings == <<
    Initial("waitingPeriodSecs"),
    Initial("priceDeviationThresholdFactor"),
    Setting("tradingRewardsEnabled"),
    Initial("issuanceRatio"),
    Initial("exTokenIssuanceRatio"),
    Setting("externalTokenQuota"),
    Initial("feePeriodDuration"),
    Initial("targetThreshold")>>

LiquidationSettings == <<
    Initial("liquidationDelay"),
    Initial("liquidationRatio"),
    Initial("liquidationRatios"),
    Initial("liquidationPenalty"),
    Initial("rateStalePeriod"),
    Initial("minimumStakeTime"),
    Initial("debtSnapshotStaleTime")>>

BridgeSettings == <<
    Initial("bridgeClaimGasCost"),
    Initial("bridgeTransferGasCost"),
    Initial("syncStaleThreshold"),
    Initial("aggregatorWarningFlags")>>

CrossChainLinks == <<
    Link("CrossChainState", "associatedContract", "CrossChainManager"),
    Link("CrossChainManager", "crossChainState", "CrossChainState")>>

-----------------------------------------------------------------------------

DeploySteps ==
    Libraries \o ResolverSteps \o StatusSteps \o RateSteps \o EscrowSteps
    \o ApprovalSteps \o LiquidationSteps \o FeePoolSteps \o RewardsSteps
    \o PeriFinanceContracts \o PeriFinanceLinks \o BridgeSteps
    \o ExchangerSteps \o IssuerSteps \o EscrowLinks \o OldEscrowLinks
    \o Flatten(Each(PynthOrder, PynthSteps))
    \o StakingSteps \o CrossChainContracts \o AncillarySteps \o UtilitySteps
    \o FeedSteps \o CollateralManagerSteps
    \o Flatten(Each(<<"Eth", "Erc20", "Short">>, CollateralSteps))
    \o <<[op |-> "import"], [op |-> "rebuild"]>>
    \o IssuerPynths
    \o FeeRateSettings \o IssuanceSettings \o LiquidationSettings
    \o BridgeSettings \o CrossChainLinks
=============================================================================
