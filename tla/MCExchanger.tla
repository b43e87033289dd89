---------------------------- MODULE MCExchanger ----------------------------
(* Small instances of Exchanger.  Unit is 10: amounts and prices in tenths. *)
EXTENDS Exchanger, TLC

CONSTANTS a1, a2, pBTC, iBTC

\* pBTC is reported at 1, 1.5 or 2 dollars, alone.
BTCBatches == {(pBTC :> x) : x \in {10, 15, 20}}

\* pBTC and the price iBTC mirrors, in one call.
BothBatches == {(pBTC :> x) @@ (iBTC :> x) : x \in {15, 20}}

NoInverseKeys == [k \in Keys |-> NoInverse]
NoConfigs     == [k \in Keys |-> {}]

\* iBTC mirrors around 1.5, between 1.2 and 2.
Mirror == [entryPoint |-> 15, upperLimit |-> 20, lowerLimit |-> 12,
           frozenAtUpperLimit |-> FALSE, frozenAtLowerLimit |-> FALSE]
iBTCMirrored  == (iBTC :> Mirror) @@ NoInverseKeys
iBTCConfigs   == (iBTC :> {[Mirror EXCEPT !.frozenAtLowerLimit = TRUE]}) @@ NoConfigs

NoLoans == [k \in Keys |-> 0]
OneUSDLong == [k \in Keys |-> IF k = pUSD THEN 10 ELSE 0]
BTCShort == [k \in Keys |-> IF k = pBTC THEN 2 ELSE 0]

AllAt10 == [k \in Keys |-> 10]
AllAt15 == [k \in Keys |-> 15]

\* Fees of 10%, and 20% for iBTC.
FeeRates == [k \in Keys |-> IF k = iBTC THEN 2 ELSE 1]

\* 10 dollars for each account, and a little pBTC.
Balances == [k \in Keys |-> [a \in Holders |->
    IF a = FeeAddress \/ k = iBTC THEN 0 ELSE IF k = pUSD THEN 100 ELSE 20]]
=============================================================================
