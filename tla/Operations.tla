----------------------------- MODULE Operations -----------------------------
(***************************************************************************)
(* The commands that operators run on a live system.  Those on pynths, the *)
(* migration of markets, the connection of the messenger's bridges and the *)
(* rewards of shorts share no contract, so that what one does never        *)
(* changes what another sees: a behaviour is of one of them, and the       *)
(* others stand still.                                                     *)
(***************************************************************************)
EXTENDS Naturals

CONSTANTS
    Keys, Holders, BatchSize, HolderLimit, MaxNonce, MaxExchanges, MaxTroubles,
    MaxLateTroubles, MaxFailures,
    Markets, ChunkSize, MaxDeposit,
    MaxBridges,
    Borrowers, MaxRewards, MaxShorts,
    MaxDeaths

ASSUME ChunkAssumption == ChunkSize \in Nat \ {0}
ASSUME RewardsAssumption == MaxRewards \in Nat

VARIABLES
    subject,        \* what the operator works on
    isOwner, held, waiting, due, unpayable, rate, suspended, issued, config, pynths, actions,
    events, saved, file, running, todo, stage, batch, nonce, pool, exchanges, troubles,
    failures, deaths,
    manager, active, matured, deposited, totalDeposited, receiving, doing, activeMarkets,
    maturedMarkets, past,
    target, resolver, addressCache, layer, phase, PeriFinanceBridge,
    deployed, recorded, ready, shortingRewards, work, ownerActions, shorts, balances,
    crossed

P == INSTANCE PynthCommands
M == INSTANCE MarketMigration
B == INSTANCE BridgeConnection
S == INSTANCE ShortRewards

pynthVars  == <<isOwner, held, waiting, due, unpayable, rate, suspended, issued, config,
                pynths, actions, events, saved, file, running, todo, stage, batch, nonce, pool,
                exchanges, troubles, failures>>
marketVars == <<manager, active, matured, deposited, totalDeposited, receiving, doing,
                activeMarkets, maturedMarkets, past>>
bridgeVars == <<target, resolver, addressCache, layer, phase, PeriFinanceBridge>>
rewardVars == <<deployed, recorded, ready, shortingRewards, work, ownerActions, shorts,
                balances, crossed>>
vars == <<subject, pynthVars, marketVars, bridgeVars, rewardVars, deaths>>

Init == /\ P!Init /\ M!Init /\ B!Init /\ S!Init
        /\ subject \in {"pynths", "markets", "bridges", "rewards"}
        /\ subject # "pynths" => held = {}
        /\ subject \in {"markets", "bridges"} => isOwner

On(s, A) == subject = s /\ A /\ UNCHANGED subject
OnPynths(A)  == On("pynths", A) /\ UNCHANGED <<marketVars, bridgeVars, rewardVars>>
OnMarkets(A) == On("markets", A) /\ UNCHANGED <<pynthVars, bridgeVars, rewardVars>>
OnBridges(A) == On("bridges", A) /\ UNCHANGED <<pynthVars, marketVars, rewardVars>>
OnRewards(A) == On("rewards", A) /\ UNCHANGED <<pynthVars, marketVars, bridgeVars>>

Next == \/ OnPynths(P!Next)
        \/ OnMarkets(M!Next)
        \/ OnBridges(B!Next)
        \/ OnRewards(S!Next)

\* Commands go on, and are run again and again; waiting periods end and miners
\* mine.  Nobody has to use or leave a pynth or a market.
Fairness ==
    /\ WF_vars(OnPynths(P!Steps))
    /\ WF_vars(OnPynths(P!Mine))
    /\ \A k \in Keys : /\ SF_vars(OnPynths(P!StartPurge(k)))
                       /\ SF_vars(OnPynths(P!StartRemove({k})))
    /\ SF_vars(OnPynths(P!StartSettle(TRUE)))
    /\ \A p \in Holders \X Keys : WF_vars(OnPynths(P!EndWaiting(p)))
    /\ WF_vars(OnMarkets(M!Command))
    /\ WF_vars(OnBridges(B!Command))

Spec == Init /\ [][Next]_vars /\ Fairness

-----------------------------------------------------------------------------
(* Properties.                                                             *)

\* No holder is left with a pynth that the Issuer has dropped (remove-pynths.js).
NobodyStranded == P!NobodyStranded

\* Each manager lists and counts its own markets, and nobody else's, at every
\* point of a migration (migrate-binary-option-markets.js).
MarketsCounted == M!MarketsCounted

\* An owner gets rid of a pynth by purging and removing it until it is gone
\* (purge-pynths.js, remove-pynths.js).
PynthsGo == <>[](subject = "pynths" => P!AllGone)

\* All exchanges are settled in the end (settle.js).
ExchangesSettle == <>[](subject = "pynths" => P!AllSettled)

\* All markets move in the end (migrate-binary-option-markets.js).
MarketsMove == <>[](subject = "markets" => M!AllMoved)

\* The bridges of both layers are connected in the end, wherever the command died
\* and whatever was deployed meanwhile (connect-bridge.js).
BridgesConnect == <>[](subject = "bridges" => B!Connected)

\* Shorts that were opened at the contract that rewards them can be closed
\* (deploy-shorting-rewards.js).
ShortsCanClose == S!ShortsCanClose
=============================================================================
