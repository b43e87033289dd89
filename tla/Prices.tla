------------------------------- MODULE Prices -------------------------------
(***************************************************************************)
(* ExchangeRates: the rounds of prices an oracle reports, in US dollars,   *)
(* the prices of inverse pynths derived from them, and the freezing of an  *)
(* inverse price that has reached one of its limits.                       *)
(*                                                                         *)
(* Left out: Chainlink aggregators, whose rounds have the same shape, and  *)
(* their warning flags; invertedKeys, a list that is read by views only.   *)
(***************************************************************************)
EXTENDS SafeDecimal, Sequences, FiniteSets, Functions

CONSTANTS
    Keys,               \* currency keys of the pynths
    pUSD,               \* the one whose price is Unit for ever
    Batches,            \* price updates the oracle may send: functions from
                        \* some of the keys to prices
    InverseConfigs,     \* [k] records setInversePricing may be given for k
    InitialRates,       \* [k] price of every key at deployment
    InitialInverse,     \* [k] inverse pricing at deployment, or NoInverse
    RateStalePeriod,
    StartTime,          \* block timestamp at deployment
    FutureLimit,        \* ORACLE_FUTURE_LIMIT
    OracleLag,          \* bound: the oldest price an oracle reports
    MaxRounds,          \* bound: rounds of one key
    MaxTime,            \* bound: the last block timestamp
    MaxAdminCalls       \* bound: calls of the owner, and deletions of prices

\* A price that was never reported, of time 0, is stale from the start.
ASSUME StartTimeAssumption ==
    /\ RateStalePeriod \in Nat
    /\ StartTime \in Nat
    /\ StartTime > RateStalePeriod
    /\ FutureLimit \in Nat
    /\ OracleLag \in 0..(StartTime - 1)

\* The price of pUSD is never updated, and no price is updated to 0.
ASSUME KeysAssumption ==
    /\ IsFiniteSet(Keys)
    /\ pUSD \in Keys
    /\ InitialRates \in [Keys -> Nat \ {0}]
    /\ \A batch \in Batches : /\ DOMAIN batch \subseteq Keys \ {pUSD}
                             /\ batch \in [DOMAIN batch -> Nat \ {0}]

VARIABLES
    now,                \* block timestamp
    rates,              \* [k] rounds of k, by round id; `posted` is the block
                        \* timestamp of the update, which only properties read
    inversePricing,     \* [k]
    roundFrozen,        \* [k] the round the price was frozen at, or 0
    adminCalls

priceVars == <<now, rates, inversePricing, roundFrozen, adminCalls>>

NoInverse == [entryPoint |-> 0, upperLimit |-> 0, lowerLimit |-> 0,
              frozenAtUpperLimit |-> FALSE, frozenAtLowerLimit |-> FALSE]

PriceRound == [rate : Nat \ {0}, time : Nat \ {0}, posted : Nat]

InverseConfig == [entryPoint : Nat, upperLimit : Nat, lowerLimit : Nat,
                  frozenAtUpperLimit : BOOLEAN, frozenAtLowerLimit : BOOLEAN]

InitPrices ==
    /\ now = StartTime
    /\ rates = [k \in Keys |->
                   <<[rate |-> IF k = pUSD THEN Unit ELSE InitialRates[k],
                      time |-> StartTime, posted |-> StartTime]>>]
    /\ inversePricing = InitialInverse
    /\ roundFrozen = [k \in Keys |-> 0]
    /\ adminCalls = 0

-----------------------------------------------------------------------------
(* Views.                                                                  *)

currentRoundForRate(k) == Len(rates[k])

\* A round that was never written, or was deleted, reads as zero.
Round(k, r) ==
    IF r \in DOMAIN rates[k] THEN rates[k][r]
    ELSE [rate |-> 0, time |-> 0, posted |-> 0]

Frozen(k) == inversePricing[k].frozenAtUpperLimit
                 \/ inversePricing[k].frozenAtLowerLimit

Clamp(x, low, high) == IF x >= high THEN high ELSE IF x <= low THEN low ELSE x

\* Broken variant: a frozen price applies to the rounds before the freezing too.
RateOrInvertedAlways(k, rate, r) ==
    LET inverse == inversePricing[k]
    IN  IF inverse.entryPoint = 0 \/ rate = 0 THEN rate
        ELSE IF inverse.frozenAtUpperLimit THEN inverse.upperLimit
        ELSE IF inverse.frozenAtLowerLimit THEN inverse.lowerLimit
        ELSE Clamp(2 * inverse.entryPoint - rate,
                   inverse.lowerLimit, inverse.upperLimit)

\* Broken variant: the limit applies at the round of the freezing only.
RateOrInvertedOnce(k, rate, r) ==
    LET inverse == inversePricing[k]
        frozen  == r = roundFrozen[k]
    IN  IF inverse.entryPoint = 0 \/ rate = 0 THEN rate
        ELSE IF frozen /\ inverse.frozenAtUpperLimit THEN inverse.upperLimit
        ELSE IF frozen /\ inverse.frozenAtLowerLimit THEN inverse.lowerLimit
        ELSE Clamp(2 * inverse.entryPoint - rate,
                   inverse.lowerLimit, inverse.upperLimit)

\* _rateOrInverted: the price of an inverse pynth mirrors the reported one
\* around the entry point, within its limits.  A difference below zero, which
\* the code replaces by 0, is below the lower limit as well.
RateOrInverted(k, rate, r) ==
    LET inverse == inversePricing[k]
        frozen  == r >= roundFrozen[k]
    IN  IF inverse.entryPoint = 0 \/ rate = 0 THEN rate
        ELSE IF frozen /\ inverse.frozenAtUpperLimit THEN inverse.upperLimit
        ELSE IF frozen /\ inverse.frozenAtLowerLimit THEN inverse.lowerLimit
        ELSE Clamp(2 * inverse.entryPoint - rate,
                   inverse.lowerLimit, inverse.upperLimit)

\* _getRateAndTimestampAtRound, _getRate, _getUpdatedTime
RateAtRound(k, r) == RateOrInverted(k, Round(k, r).rate, r)
Rate(k)           == RateAtRound(k, currentRoundForRate(k))
UpdatedTime(k)    == Round(k, currentRoundForRate(k)).time

\* rateIsInvalid, where no aggregator has raised a flag
RateIsInvalid(k) == k # pUSD /\ UpdatedTime(k) + RateStalePeriod < now

\* getLastRoundIdBeforeElapsedSecs: the walk from round `start` stops before
\* the first round that does not exist or was reported for a later time.
LastRoundIdBefore(k, start, end) ==
    CHOOSE r \in start..(start + Len(rates[k])) :
        LET Stops(q) == Round(k, q + 1).time = 0 \/ Round(k, q + 1).time > end
        IN  Stops(r) /\ \A q \in start..(r - 1) : ~Stops(q)

\* USD value of an amount, then the amount of dest of that value
Convert(amount, srcRate, destRate) ==
    IF destRate = 0 THEN 0
    ELSE DivideDecimalRound(MultiplyDecimalRound(amount, srcRate), destRate)

EffectiveValue(src, amount, dest) ==
    IF src = dest THEN amount ELSE Convert(amount, Rate(src), Rate(dest))

EffectiveValueAtRound(src, amount, dest, srcRound, destRound) ==
    IF src = dest THEN amount
    ELSE Convert(amount, RateAtRound(src, srcRound), RateAtRound(dest, destRound))

-----------------------------------------------------------------------------
(* The oracle.                                                             *)

\* updateRates: the prices of a batch carry the time they were sent for; one
\* that is older than the price it would replace is skipped.
UpdateRates(batch, timeSent) ==
    LET updated == {k \in DOMAIN batch : timeSent >= UpdatedTime(k)}
    IN  /\ timeSent < now + FutureLimit
        /\ \A k \in DOMAIN batch : currentRoundForRate(k) < MaxRounds
        /\ rates' = [k \in Keys |->
                        IF k \in updated
                        THEN Append(rates[k], [rate   |-> batch[k],
                                               time   |-> timeSent,
                                               posted |-> now])
                        ELSE rates[k]]
        /\ UNCHANGED <<now, inversePricing, roundFrozen, adminCalls>>

AdminCall == adminCalls < MaxAdminCalls /\ adminCalls' = adminCalls + 1

\* deleteRate: the previous round becomes the current one.
DeleteRate(k) ==
    /\ AdminCall
    /\ Rate(k) > 0
    /\ rates' = [rates EXCEPT ![k] = SubSeq(@, 1, Len(@) - 1)]
    /\ UNCHANGED <<now, inversePricing, roundFrozen>>

-----------------------------------------------------------------------------
(* Inverse pynths.                                                         *)

ValidInverse(config) ==
    /\ config.lowerLimit > 0
    /\ config.upperLimit > config.entryPoint
    /\ config.upperLimit < 2 * config.entryPoint
    /\ config.lowerLimit < config.entryPoint
    /\ ~(config.frozenAtUpperLimit /\ config.frozenAtLowerLimit)

\* The contract would let the owner invert the dollar too; no pynths.json does.
\* No price is frozen at deployment.
ASSUME InverseAssumption ==
    /\ InitialInverse \in [Keys -> InverseConfig]
    /\ InitialInverse[pUSD] = NoInverse /\ InverseConfigs[pUSD] = {}
    /\ \A k \in Keys : InitialInverse[k] # NoInverse =>
           /\ ValidInverse(InitialInverse[k])
           /\ ~InitialInverse[k].frozenAtUpperLimit
           /\ ~InitialInverse[k].frozenAtLowerLimit
    /\ InverseConfigs \in [Keys -> SUBSET InverseConfig]

\* setInversePricing.  Exchanger adds what it tells the exchanger.
SetInversePricing(k, config) ==
    /\ AdminCall
    /\ ValidInverse(config)
    /\ inversePricing' = [inversePricing EXCEPT ![k] = config]
    /\ roundFrozen' =
           [roundFrozen EXCEPT
               ![k] = IF config.frozenAtUpperLimit \/ config.frozenAtLowerLimit
                      THEN currentRoundForRate(k) ELSE 0]
    /\ UNCHANGED <<now, rates>>

\* removeInversePricing leaves roundFrozen alone.
RemoveInversePricing(k) ==
    /\ AdminCall
    /\ inversePricing[k].entryPoint > 0
    /\ inversePricing' = [inversePricing EXCEPT ![k] = NoInverse]
    /\ UNCHANGED <<now, rates, roundFrozen>>

\* freezeRate: anyone may freeze a price that is at one of its limits.
FreezeRate(k) ==
    LET inverse == inversePricing[k]
    IN  /\ inverse.entryPoint > 0
        /\ ~Frozen(k)
        /\ Rate(k) > 0
        /\ Rate(k) >= inverse.upperLimit \/ Rate(k) <= inverse.lowerLimit
        /\ inversePricing' =
               [inversePricing EXCEPT
                   ![k].frozenAtUpperLimit = (Rate(k) = inverse.upperLimit),
                   ![k].frozenAtLowerLimit = (Rate(k) = inverse.lowerLimit)]
        /\ roundFrozen' = [roundFrozen EXCEPT ![k] = currentRoundForRate(k)]
        /\ UNCHANGED <<now, rates, adminCalls>>

Tick ==
    /\ now < MaxTime
    /\ now' = now + 1
    /\ UNCHANGED <<rates, inversePricing, roundFrozen, adminCalls>>

-----------------------------------------------------------------------------
(* Types.                                                                  *)

PricesTypeOK ==
    /\ now \in Nat
    /\ rates \in [Keys -> Seq(PriceRound)]
    /\ inversePricing \in [Keys -> InverseConfig]
    /\ roundFrozen \in [Keys -> Nat]
    /\ adminCalls \in Nat
=============================================================================
