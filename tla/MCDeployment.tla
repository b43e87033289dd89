---------------------------- MODULE MCDeployment ----------------------------
(* The script of deploy.js on a small network. *)
EXTENDS Deployment

TwoPynths == ("pUSD" :> "PynthpUSD") @@ ("pETH" :> "PynthpETH")

KeyOrder    == <<"pUSD", "pETH">>
RoleList    == <<"validator">>
NetworkList == <<"bsc">>
FeedList    == <<"XAU">>
OwnFeedList == <<"PERI">>
TokenList   == <<"USDC">>

CoreNames == {"SafeDecimalMath", "Math", "AddressResolver", "ReadProxyAddressResolver",
         "FlexibleStorage", "SystemSettings", "SystemStatus", "ExchangeRates",
         "RewardEscrow", "RewardEscrowV2", "PeriFinanceEscrow", "PeriFinanceState",
         "ProxyFeePool", "FeePoolEternalStorage", "FeePool", "FeePoolState",
         "DelegateApprovalsEternalStorage", "DelegateApprovals", "Liquidations",
         "EternalStorageLiquidations", "RewardsDistribution", "ProxyERC20",
         "TokenStatePeriFinance", "BlacklistManager", "PeriFinance", "BridgeState",
         "DebtCache", "Exchanger", "VirtualPynthIssuer", "ExchangeState", "Issuer",
         "TradingRewards", "EscrowChecker", "SupplySchedule"}

Rest == {"StakingState", "ExternalTokenStakeManager", "CrossChainState",
         "CrossChainManager", "Depot", "EtherCollateral", "EtherCollateralpUSD",
         "PeriFinanceBridgeToOptimism", "PynthUtil", "DappMaintenance",
         "CollateralManagerState", "CollateralManager", "CollateralStateEth",
         "CollateralEth", "CollateralStateErc20", "CollateralErc20",
         "CollateralStateShort", "CollateralShort"}

PUSD == {"TokenStatepUSD", "ProxyERC20pUSD", "PynthpUSD", "BridgeStatepUSD"}
PETH == {"TokenStatepETH", "ProxyERC20pETH", "PynthpETH"}

\* pETH is not in config.json: it is added with --add-new-pynths.
All == CoreNames \cup Rest \cup PUSD

NonUpgradeableNames ==
    {"Depot", "ExchangeState", "FeePoolEternalStorage", "FeePoolState", "ProxyFeePool",
     "ProxyERC20", "ProxyERC20pUSD", "ProxyERC20pETH", "RewardEscrow", "RewardEscrowV2",
     "RewardsDistribution", "SafeDecimalMath", "SupplySchedule", "PeriFinanceEscrow",
     "PeriFinanceState", "TokenStatePeriFinance", "TokenStatepUSD", "TokenStatepETH",
     "ReadProxyAddressResolver", "StakingState", "BlacklistManager",
     "EternalStorageLiquidations"}

\* A smaller network, without what does not touch a release of the core: here
\* runs die and governance tunes.
Small == {"AddressResolver", "ReadProxyAddressResolver", "FlexibleStorage",
          "SystemSettings", "SystemStatus", "ExchangeRates", "ProxyFeePool", "FeePool",
          "FeePoolState", "ProxyERC20", "TokenStatePeriFinance", "BlacklistManager",
          "PeriFinance", "DebtCache", "Exchanger", "VirtualPynthIssuer", "Issuer"} \cup PUSD

\* Some of what the contracts resolve.
RequiredNames ==
    ("SystemSettings" :> {"FlexibleStorage"})
    @@ ("FeePool" :> {"Issuer", "SystemStatus", "FeePoolState"})
    @@ ("Issuer" :> {"FeePool", "Exchanger", "DebtCache"})
    @@ ("Exchanger" :> {"Issuer", "FeePool", "ExchangeRates"})
    @@ ("PynthpUSD" :> {"Issuer", "Exchanger"})
    @@ ("PynthpETH" :> {"Issuer", "Exchanger"})

SmallAndWhole == {[listed |-> Small, crashes |-> 1, tunes |-> 1],
                  [listed |-> All, crashes |-> 0, tunes |-> 0]}

ReleaseSets == {{"FeePool", "Issuer"}, {"AddressResolver", "Exchanger"}, {"PynthpETH"}}
=============================================================================
