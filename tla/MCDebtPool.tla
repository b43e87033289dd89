----------------------------- MODULE MCDebtPool -----------------------------
(* Small instances of DebtPool.  Unit is 10 and PreciseUnit 1000. *)
EXTENDS DebtPool, TLC

CONSTANTS a1, a2, pBTC

\* pBTC is reported at 2 dollars, after 1 at deployment.
BTCDoubles == {(pBTC :> 20)}

NoInverseKeys == [k \in Keys |-> NoInverse]
NoConfigs     == [k \in Keys |-> {}]
NoLoans       == [k \in Keys |-> 0]
NoFees        == [k \in Keys |-> 0]
AllAt10       == [k \in Keys |-> 10]
NoBalances    == [k \in Keys |-> [a \in Holders |-> 0]]

\* a1 may issue 8 dollars, anyone else 4.
Collateral == [a \in Accounts |-> IF a = a1 THEN 200 ELSE 100]

\* The other networks have issued 5 dollars of debt, now worth 6.6, and have
\* sent 1 dollar here.
Reports == {[issued |-> 50, active |-> 66, outbound |-> 10]}

\* They have sent nothing.
QuietReports == {[issued |-> 50, active |-> 50, outbound |-> 0]}
=============================================================================
