--------------------------- MODULE TransferLedger ---------------------------
(***************************************************************************)
(* What the bridge promises its users, without periods, validators, lists  *)
(* or flags: an amount leaves a wallet, is for a while in transit, then    *)
(* claimable at its destination, and its owner is credited with it, once.  *)
(* Bridge implements this specification (Bridge!LedgerSpec).               *)
(***************************************************************************)
EXTENDS Naturals, FiniteSets, FiniteSetsExt

CONSTANTS
    Chains, Accounts,
    Amounts,    \* what one transfer can carry
    Ids         \* names of the transfers of a chain

VARIABLES
    wallet,      \* [c][a] what account a holds on chain c
    inTransit,   \* transfers burned at the source, unknown to the destination
    claimable,   \* transfers the destination knows, not credited yet
    settled      \* transfers credited to their account

ledgerVars == <<wallet, inTransit, claimable, settled>>

Transfer == [src : Chains, id : Ids, account : Accounts, amount : Amounts,
             dest : Chains, signed : BOOLEAN]

Total(transfers) == MapThenSumSet(LAMBDA t : t.amount, transfers)

Init ==
    /\ wallet \in [Chains -> [Accounts -> Nat]]
    /\ inTransit = {}
    /\ claimable = {}
    /\ settled = {}

\* A transfer leaves its wallet under an id its chain has not used before.
Send(t) ==
    /\ \A u \in inTransit \cup claimable \cup settled :
           u.src = t.src => u.id # t.id
    /\ wallet[t.src][t.account] >= t.amount
    /\ wallet' = [wallet EXCEPT ![t.src][t.account] = @ - t.amount]
    /\ inTransit' = inTransit \cup {t}
    /\ UNCHANGED <<claimable, settled>>

\* Some transfers become known to their destination.
Arrive(transfers) ==
    /\ transfers # {}
    /\ transfers \subseteq inTransit
    /\ inTransit' = inTransit \ transfers
    /\ claimable' = claimable \cup transfers
    /\ UNCHANGED <<wallet, settled>>

ClaimableBy(account, d) ==
    {t \in claimable : t.account = account /\ t.dest = d}

\* An account is credited with everything it can claim on a chain, or, when it
\* has not signed one of these transfers, with nothing.
Claim(account, d) ==
    LET mine == ClaimableBy(account, d)
    IN  /\ mine # {}
        /\ \A t \in mine : t.signed
        /\ wallet' = [wallet EXCEPT ![d][account] = @ + Total(mine)]
        /\ claimable' = claimable \ mine
        /\ settled' = settled \cup mine
        /\ UNCHANGED inTransit

Next ==
    \/ \E t \in Transfer : Send(t)
    \/ \E transfers \in SUBSET inTransit : Arrive(transfers)
    \/ \E a \in Accounts, d \in Chains : Claim(a, d)

Spec == Init /\ [][Next]_ledgerVars
=============================================================================
