---------------------------- MODULE ShortRewards ----------------------------
(***************************************************************************)
(* deploy-shorting-rewards.js deploys the contract that rewards shorts of  *)
(* one currency and links it to CollateralShort, while people open and     *)
(* close shorts, which enrols them at the contract that is linked and      *)
(* withdraws them from it.  Each run deploys a new one, also the run that  *)
(* repeats one that died.                                                  *)
(*                                                                         *)
(* Shorts of a borrower are counted in units: drawing more of a loan opens *)
(* one, and a repayment or a liquidation closes one.  Left out: the        *)
(* rewards, prompts (answered yes), dry runs, and a contract that is       *)
(* paused.                                                                 *)
(***************************************************************************)
EXTENDS Naturals, FiniteSetsExt

CONSTANTS
    Borrowers,
    MaxRewards,     \* bound: contracts that are deployed
    MaxShorts,      \* bound: shorts that are open
    MaxDeaths       \* bound: runs that die

Rewards == 1..MaxRewards

VARIABLES
    isOwner,        \* the account of the command owns CollateralShort
    deployed,       \* contracts deployed, the last of which is the command's
    recorded,         \* the one in deployment.json, 0 for none
    ready,          \* those whose cache knows CollateralShort
    shortingRewards,\* the one that is linked, 0 for none
    work,           \* the command: what it does next
    ownerActions,   \* links that were left to the owner
    shorts,         \* [borrower -> its open shorts]
    balances,       \* [contract -> [borrower -> what it has enrolled]]
    crossed,        \* history: who had shorts open when the link changed
    deaths

linkVars  == <<shortingRewards, crossed>>
shortVars == <<shorts, balances>>
vars == <<isOwner, deployed, recorded, ready, linkVars, work, ownerActions, shortVars, deaths>>

-----------------------------------------------------------------------------
(* The contracts.                                                          *)

addRewardsContracts(c) ==
    /\ shortingRewards' = c
    /\ crossed' = crossed \cup {b \in Borrowers : shorts[b] > 0}

\* Only a contract that knows CollateralShort takes a call of it.
Takes(c) == c = 0 \/ c \in ready

Open(b) ==
    /\ MapThenSumSet(LAMBDA a : shorts[a], Borrowers) < MaxShorts
    /\ Takes(shortingRewards)
    /\ shorts' = [shorts EXCEPT ![b] = @ + 1]
    /\ balances' = [c \in Rewards |-> IF c = shortingRewards
                                      THEN [balances[c] EXCEPT ![b] = @ + 1]
                                      ELSE balances[c]]
    /\ UNCHANGED <<isOwner, deployed, recorded, ready, linkVars, work, ownerActions, deaths>>

\* Broken variant: a repayment forgets to withdraw.
CloseEnrolled(b) ==
    /\ shorts[b] > 0
    /\ shorts' = [shorts EXCEPT ![b] = @ - 1]
    /\ UNCHANGED <<isOwner, deployed, recorded, ready, linkVars, work, ownerActions, balances,
                   deaths>>

\* What the linked contract does not have of the borrower cannot be withdrawn
\* from it, and the short cannot be closed.
Close(b) ==
    /\ shorts[b] > 0
    /\ Takes(shortingRewards)
    /\ shortingRewards # 0 => balances[shortingRewards][b] > 0
    /\ shorts' = [shorts EXCEPT ![b] = @ - 1]
    /\ balances' = [c \in Rewards |-> IF c = shortingRewards
                                      THEN [balances[c] EXCEPT ![b] = @ - 1]
                                      ELSE balances[c]]
    /\ UNCHANGED <<isOwner, deployed, recorded, ready, linkVars, work, ownerActions, deaths>>

-----------------------------------------------------------------------------
(* The command.                                                            *)

\* The option names the contract, so that it is always deployed; what
\* deployment.json says of it is not looked at.
deployContract ==
    /\ work = "idle"
    /\ deployed < MaxRewards
    /\ deployed' = deployed + 1
    /\ work' = "record"
    /\ UNCHANGED <<isOwner, recorded, ready, linkVars, ownerActions, shortVars, deaths>>

Record ==
    /\ work = "record"
    /\ recorded' = deployed
    /\ work' = "rebuild"
    /\ UNCHANGED <<isOwner, deployed, ready, linkVars, ownerActions, shortVars, deaths>>

rebuildCache ==
    /\ work = "rebuild"
    /\ ready' = ready \cup {deployed}
    /\ work' = "link"
    /\ UNCHANGED <<isOwner, deployed, recorded, linkVars, ownerActions, shortVars, deaths>>

Link ==
    /\ work = "link"
    /\ IF isOwner THEN addRewardsContracts(deployed) /\ UNCHANGED ownerActions
                  ELSE ownerActions' = ownerActions \cup {deployed} /\ UNCHANGED linkVars
    /\ work' = "idle"
    /\ UNCHANGED <<isOwner, deployed, recorded, ready, shortVars, deaths>>

Die ==
    /\ work # "idle" /\ deaths < MaxDeaths
    /\ deaths' = deaths + 1
    /\ work' = "idle"
    /\ UNCHANGED <<isOwner, deployed, recorded, ready, linkVars, ownerActions, shortVars>>

\* The owner does what was left to it.
OwnerLinks ==
    /\ \E c \in ownerActions : /\ addRewardsContracts(c)
                               /\ ownerActions' = ownerActions \ {c}
    /\ UNCHANGED <<isOwner, deployed, recorded, ready, work, shortVars, deaths>>

-----------------------------------------------------------------------------

Init ==
    /\ isOwner \in BOOLEAN
    /\ deployed = 0 /\ recorded = 0 /\ ready = {}
    /\ shortingRewards = 0 /\ crossed = {}
    /\ work = "idle" /\ ownerActions = {}
    /\ shorts = [b \in Borrowers |-> 0]
    /\ balances = [c \in Rewards |-> [b \in Borrowers |-> 0]]
    /\ deaths = 0

Command == deployContract \/ Record \/ rebuildCache \/ Link

Next == Command \/ Die \/ OwnerLinks \/ \E b \in Borrowers : Open(b) \/ Close(b)

-----------------------------------------------------------------------------
(* Properties.                                                             *)

\* Whatever dies and whenever the owner acts, the contract that is linked is one
\* that deployment.json has named and that takes the calls of CollateralShort,
\* and it has enrolled all the shorts of a borrower, which can so be closed,
\* but for those who had shorts open when the link changed: theirs are
\* enrolled at another contract, or at none.
ShortsCanClose ==
    shortingRewards # 0 =>
        /\ shortingRewards <= recorded /\ shortingRewards \in ready
        /\ \A b \in Borrowers \ crossed : balances[shortingRewards][b] = shorts[b]
=============================================================================
