------------------------------- MODULE Bridge -------------------------------
(***************************************************************************)
(* The token bridge: one BridgeState contract per chain, the pynth token   *)
(* (MultiCollateralPynth) that burns on the source chain and issues on the *)
(* destination chain, and the validators that carry the requests from one  *)
(* chain to the other.  A validator is a process outside the repository;   *)
(* it is modelled from the entry points BridgeState gives it.              *)
(*                                                                         *)
(* Ids: the code numbers outboundings, inboundings and periods from 0, the *)
(* model from 1, so that an id is an index into the sequence it names.     *)
(* The open period of a chain is the last one of outboundPeriods[c].       *)
(*                                                                         *)
(* Left out: fees paid in the native coin, events, accountOutboundings (an *)
(* index that is read by views only), the exchange waiting period behind   *)
(* _ensureCanTransfer, and transfers between accounts of one chain.        *)
(***************************************************************************)
EXTENDS Integers, Sequences, FiniteSets, Functions, Lists

CONSTANTS
    Chains,             \* networks that run a BridgeState and a pynth
    Accounts,           \* holders of the pynth
    Validators,         \* accounts given ROLE_VALIDATOR at deployment
    Amounts,            \* values of _amount
    Signatures,         \* values of _sign a wallet may attach to a request
    PeriodSizes,        \* values the owner gives numberOfOutboundPerPeriod
    PeriodDurations,    \* values the owner gives periodDuration
    InitialBalance,     \* pynths of every account on every chain
    NoJob,              \* a validator with no period in hand
    MaxOutboundings,    \* [c] bound: requests made on chain c
    MaxTime,            \* bound: the block timestamp
    MaxAdminCalls,      \* bound: owner calls, over all chains
    MaxCrashes          \* bound: validator restarts

\* A signature is what ecrecover makes of it: a signer and the amount signed.
ASSUME SignaturesAssumption ==
    Signatures \subseteq [signer : Accounts, amount : Amounts]

\* overchainTransfer rejects 0; setNumberOfOutboundPerPeriod and
\* setPeriodDuration reject 0 too.
ASSUME NumbersAssumption ==
    /\ Amounts \subseteq Nat \ {0}
    /\ PeriodSizes \subseteq Nat \ {0}
    /\ PeriodDurations \subseteq Nat \ {0}
    /\ InitialBalance \in Nat
    /\ IsFiniteSet(Accounts)
    /\ IsFiniteSet(Chains)

ASSUME BoundsAssumption ==
    /\ MaxOutboundings \in [Chains -> Nat]
    /\ MaxTime \in Nat
    /\ MaxAdminCalls \in Nat
    /\ MaxCrashes \in Nat

VARIABLES
    now,                        \* block timestamp
    roles,                      \* [c] validators of chain c
    networkOpened,              \* [c] destinations chain c accepts
    outboundings,               \* [c] requests to leave chain c, by id
    inboundings,                \* [c] requests registered on c, by id
    accountInboundings,         \* [c][a] inbounding ids still to be claimed
    srcOutboundingIdRegistered, \* [c] pairs <<source chain, outbounding id>>
    outboundPeriods,            \* [c] periods, by id
    outboundPeriodIdsToProcess, \* [c] closed periods not processed yet
    numberOfOutboundPerPeriod,  \* [c]
    periodDuration,             \* [c]
    totalOutboundAmount,        \* [c]
    totalInboundAmount,         \* [c]
    movedOut,                   \* [c][d] movedAmounts[OUTBOUND]
    movedIn,                    \* [c][d] movedAmounts[INBOUND]
    balanceOf,                  \* [c][a] the pynth's TokenState
    totalSupply,                \* [c] the pynth's totalSupply
    job,                        \* [v] the period validator v is relaying
    adminCalls,                 \* owner calls made so far
    crashes                     \* validator restarts so far

listVars   == <<inboundings, accountInboundings, srcOutboundingIdRegistered>>
periodVars == <<outboundPeriods, outboundPeriodIdsToProcess>>
adminVars  == <<roles, networkOpened, numberOfOutboundPerPeriod,
                periodDuration, adminCalls>>
tokenVars  == <<balanceOf, totalSupply>>
vars == <<now, adminVars, outboundings, listVars, periodVars,
          totalOutboundAmount, totalInboundAmount, movedOut, movedIn,
          tokenVars, job, crashes>>

-----------------------------------------------------------------------------
(* Helpers.                                                                *)

\* verify: the request was signed by its account, over its amount.
Verified(account, amount, sign) ==
    sign.signer = account /\ sign.amount = amount

\* The period an outbounding request made now would join.
currentOutboundPeriodId(c) == Len(outboundPeriods[c])

NewPeriod(t) == [startTime |-> t, outboundingIds |-> <<>>, processed |-> FALSE]

\* _periodIsStaled
PeriodIsStaled(c, period) ==
    \/ Len(period.outboundingIds) >= numberOfOutboundPerPeriod[c]
    \/ now - period.startTime > periodDuration[c]

-----------------------------------------------------------------------------
(* The contracts after deployment: the period opened by the constructor,   *)
(* the validators registered and every other network opened by the owner.  *)
Init ==
    /\ now = 1
    /\ roles = [c \in Chains |-> Validators]
    /\ networkOpened = [c \in Chains |-> Chains \ {c}]
    /\ outboundings = [c \in Chains |-> <<>>]
    /\ inboundings = [c \in Chains |-> <<>>]
    /\ accountInboundings = [c \in Chains |-> [a \in Accounts |-> <<>>]]
    /\ srcOutboundingIdRegistered = [c \in Chains |-> {}]
    /\ outboundPeriods = [c \in Chains |-> <<NewPeriod(1)>>]
    /\ outboundPeriodIdsToProcess = [c \in Chains |-> <<>>]
    /\ numberOfOutboundPerPeriod \in [Chains -> PeriodSizes]
    /\ periodDuration \in [Chains -> PeriodDurations]
    /\ totalOutboundAmount = [c \in Chains |-> 0]
    /\ totalInboundAmount = [c \in Chains |-> 0]
    /\ movedOut = [c \in Chains |-> [d \in Chains |-> 0]]
    /\ movedIn = [c \in Chains |-> [d \in Chains |-> 0]]
    /\ balanceOf = [c \in Chains |-> [a \in Accounts |-> InitialBalance]]
    /\ totalSupply = [c \in Chains |-> InitialBalance * Cardinality(Accounts)]
    /\ job = [v \in Validators |-> NoJob]
    /\ adminCalls = 0
    /\ crashes = 0

-----------------------------------------------------------------------------
(* MultiCollateralPynth on the source chain.                               *)

\* Broken variant: the id pushed is the one of the new period.
CloseAndOpenNext(c, closed) ==
    /\ outboundPeriodIdsToProcess' =
           [outboundPeriodIdsToProcess EXCEPT
               ![c] = Append(@, currentOutboundPeriodId(c) + 1)]
    /\ outboundPeriods' =
           [outboundPeriods EXCEPT
               ![c] = Append([@ EXCEPT ![currentOutboundPeriodId(c)] = closed],
                             NewPeriod(now))]

\* Broken variant: a closed period is not pushed when nothing waits before it.
CloseAndOpenUnlisted(c, closed) ==
    /\ outboundPeriodIdsToProcess' =
           [outboundPeriodIdsToProcess EXCEPT
               ![c] = IF @ = <<>> THEN @ ELSE Append(@, currentOutboundPeriodId(c))]
    /\ outboundPeriods' =
           [outboundPeriods EXCEPT
               ![c] = Append([@ EXCEPT ![currentOutboundPeriodId(c)] = closed],
                             NewPeriod(now))]

\* _closeAndOpenOutboundPeriod, where `closed` is the open period of c as the
\* caller leaves it.
CloseAndOpen(c, closed) ==
    /\ outboundPeriodIdsToProcess' =
           [outboundPeriodIdsToProcess EXCEPT
               ![c] = Append(@, currentOutboundPeriodId(c))]
    /\ outboundPeriods' =
           [outboundPeriods EXCEPT
               ![c] = Append([@ EXCEPT ![currentOutboundPeriodId(c)] = closed],
                             NewPeriod(now))]

\* _appendOutboundingRequest on the periods: the request id joins the open
\* period, which starts with its first request; then _periodRefresher.
JoinPeriod(c, id) ==
    LET cur    == currentOutboundPeriodId(c)
        open   == outboundPeriods[c][cur]
        joined == [open EXCEPT
                      !.startTime = IF open.outboundingIds = <<>> THEN now ELSE @,
                      !.outboundingIds = Append(@, id)]
    IN  \/ /\ PeriodIsStaled(c, joined)
           /\ CloseAndOpen(c, joined)
        \/ /\ ~PeriodIsStaled(c, joined)
           /\ outboundPeriods' = [outboundPeriods EXCEPT ![c][cur] = joined]
           /\ UNCHANGED outboundPeriodIdsToProcess

\* Broken variant: a balance one short of the amount passes.
CanBurnOneShort(c, account, amount) ==
    balanceOf[c][account] + 1 >= amount /\ totalSupply[c] >= amount

\* The subtractions of _internalBurn, which revert below zero.
CanBurn(c, account, amount) ==
    balanceOf[c][account] >= amount /\ totalSupply[c] >= amount

\* The pynth is burned, then the request is appended.  The signature is stored
\* as it came: only the destination verifies it.
OverchainTransfer(c, account, amount, destChainId, sign) ==
    /\ Len(outboundings[c]) < MaxOutboundings[c]
    /\ CanBurn(c, account, amount)
    /\ destChainId \in networkOpened[c]
    /\ balanceOf' = [balanceOf EXCEPT ![c][account] = @ - amount]
    /\ totalSupply' = [totalSupply EXCEPT ![c] = @ - amount]
    /\ outboundings' =
           [outboundings EXCEPT
               ![c] = Append(@, [account     |-> account,
                                 amount      |-> amount,
                                 destChainId |-> destChainId,
                                 periodId    |-> currentOutboundPeriodId(c),
                                 sign        |-> sign])]
    /\ totalOutboundAmount' = [totalOutboundAmount EXCEPT ![c] = @ + amount]
    /\ movedOut' = [movedOut EXCEPT ![c][destChainId] = @ + amount]
    /\ JoinPeriod(c, Len(outboundings[c]) + 1)
    /\ UNCHANGED <<now, adminVars, listVars, totalInboundAmount, movedIn,
                   job, crashes>>

-----------------------------------------------------------------------------
(* MultiCollateralPynth and BridgeState on the destination chain.          *)

\* Broken variant: the position in the list is taken for the id.
InboundAmountsByPosition(c, ids) ==
    [k \in 1..Len(ids) |-> inboundings[c][k].amount]

\* What each claimInbound of the loop returns.
InboundAmounts(c, ids) ==
    [k \in 1..Len(ids) |-> inboundings[c][ids[k]].amount]

\* claimAllBridgedAmounts: claimInbound and _internalIssue for every id in the
\* account's list, or a revert of the whole call when one of them is refused.
\* The loop takes every id off the list it started from and sets each claimed
\* flag once (ClaimLoopEmptiesInbox compares it with the loop of claimInbound).
ClaimAllBridgedAmounts(c, account) ==
    LET ids   == accountInboundings[c][account]
        total == SumOf(InboundAmounts(c, ids))
    IN  /\ ids # <<>>
        /\ \A k \in 1..Len(ids) :
               LET inbounding == inboundings[c][ids[k]]
               IN  /\ inbounding.account = account
                   /\ ~inbounding.claimed
                   /\ Verified(account, inbounding.amount, inbounding.sign)
        /\ inboundings' =
               [inboundings EXCEPT
                   ![c] = [i \in 1..Len(inboundings[c]) |->
                              IF i \in Range(ids)
                              THEN [inboundings[c][i] EXCEPT !.claimed = TRUE]
                              ELSE inboundings[c][i]]]
        /\ accountInboundings' = [accountInboundings EXCEPT ![c][account] = <<>>]
        /\ totalInboundAmount' = [totalInboundAmount EXCEPT ![c] = @ + total]
        /\ balanceOf' = [balanceOf EXCEPT ![c][account] = @ + total]
        /\ totalSupply' = [totalSupply EXCEPT ![c] = @ + total]
        /\ UNCHANGED <<now, adminVars, outboundings, srcOutboundingIdRegistered,
                       periodVars, totalOutboundAmount, movedOut, movedIn,
                       job, crashes>>

\* One iteration of the loop, on the account's list and the claimed ids: the
\* require of claimInbound, then the removal from the list.
ClaimInbound(state, id) ==
    IF state.reverted \/ id \in state.claimed \/ state.ids = <<>>
    THEN [state EXCEPT !.reverted = TRUE]
    ELSE [state EXCEPT !.claimed = @ \cup {id}, !.ids = RemoveId(@, id)]

\* The loop over the list the call has read: the state after n iterations.
ClaimLoop(c, account) ==
    LET read == accountInboundings[c][account]
        after[n \in 0..Len(read)] ==
            IF n = 0
            THEN [ids |-> read, reverted |-> FALSE,
                  claimed |-> {i \in 1..Len(inboundings[c]) :
                                  inboundings[c][i].claimed}]
            ELSE ClaimInbound(after[n - 1], read[n])
    IN  after

\* Broken variant: only the first id of a batch is looked up.
FirstNotRegistered(src, d, ids) ==
    ids # {} => <<src, Ascending(ids)[1]>> \notin srcOutboundingIdRegistered[d]

\* The require of _appendInboundingRequest, for every id of the call.
NoneRegistered(src, d, ids) ==
    \A o \in ids : <<src, o>> \notin srcOutboundingIdRegistered[d]

\* Broken variant: the id pushed is one too low.
NewIdsOneLow(src, d, batch, a) ==
    {Len(inboundings[d]) + k - 1 : k \in {j \in 1..Len(batch) :
                                outboundings[src][batch[j]].account = a}}

\* Broken variant: the ids of a batch are pushed once, after its loop.
NewIdsLastOnly(src, d, batch, a) ==
    {Len(inboundings[d]) + k : k \in {j \in {Len(batch)} :
                                outboundings[src][batch[j]].account = a}}

\* The ids the entries of a batch get on chain d, those of account a.
NewIds(src, d, batch, a) ==
    {Len(inboundings[d]) + k : k \in {j \in 1..Len(batch) :
                                outboundings[src][batch[j]].account = a}}

\* Broken variant: movedAmounts is updated once per call, not once per request.
FirstAmount(src, batch) == <<outboundings[src][batch[1]].amount>>

BatchAmounts(src, batch) ==
    [k \in 1..Len(batch) |-> outboundings[src][batch[k]].amount]

\* appendInboundingRequest for one id, appendMultipleInboundingRequests for
\* several: validator v registers the requests `ids` of chain src on chain d,
\* in the order of their ids.  One registered id reverts the whole call.
AppendInboundings(v, src, d, ids) ==
    LET batch == Ascending(ids)
        Entry(o) == [account          |-> outboundings[src][o].account,
                     amount           |-> outboundings[src][o].amount,
                     srcChainId       |-> src,
                     srcOutboundingId |-> o,
                     claimed          |-> FALSE,
                     sign             |-> outboundings[src][o].sign]
    IN  /\ v \in roles[d]
        /\ NoneRegistered(src, d, ids)
        /\ srcOutboundingIdRegistered' =
               [srcOutboundingIdRegistered EXCEPT
                   ![d] = @ \cup {<<src, o>> : o \in ids}]
        /\ inboundings' =
               [inboundings EXCEPT
                   ![d] = @ \o [k \in 1..Len(batch) |-> Entry(batch[k])]]
        /\ accountInboundings' =
               [accountInboundings EXCEPT
                   ![d] = [a \in Accounts |->
                              accountInboundings[d][a]
                                  \o Ascending(NewIds(src, d, batch, a))]]
        /\ movedIn' =
               [movedIn EXCEPT
                   ![d][src] = @ + SumOf(BatchAmounts(src, batch))]
        /\ UNCHANGED <<now, adminVars, outboundings, periodVars,
                       totalOutboundAmount, totalInboundAmount, movedOut,
                       tokenVars, crashes>>

-----------------------------------------------------------------------------
(* BridgeState's validator entry points on the source chain.               *)

CloseOutboundPeriod(v, c) ==
    LET open == outboundPeriods[c][currentOutboundPeriodId(c)]
    IN  /\ v \in roles[c]
        /\ open.outboundingIds # <<>>
        /\ CloseAndOpen(c, open)
        /\ UNCHANGED <<now, adminVars, outboundings, listVars,
                       totalOutboundAmount, totalInboundAmount, movedOut,
                       movedIn, tokenVars, job, crashes>>

ProcessOutboundPeriod(v, c, p) ==
    /\ v \in roles[c]
    /\ outboundPeriods[c][p].startTime > 0
    /\ p \in Range(outboundPeriodIdsToProcess[c])
    /\ ~outboundPeriods[c][p].processed
    /\ outboundPeriodIdsToProcess' =
           [outboundPeriodIdsToProcess EXCEPT ![c] = RemoveId(@, p)]
    /\ outboundPeriods' =
           [outboundPeriods EXCEPT ![c][p].processed = TRUE]
    /\ UNCHANGED <<now, adminVars, outboundings, listVars,
                   totalOutboundAmount, totalInboundAmount, movedOut, movedIn,
                   tokenVars, crashes>>

-----------------------------------------------------------------------------
(* The validator process: it reads periodIdsToProcess and the requests of  *)
(* one period, registers them at their destinations one by one or in       *)
(* batches, and marks the period processed when it has none left.  What it *)
(* read may be stale by then: another validator may hold the same period.  *)

PickPeriod(v, c) ==
    /\ job[v] = NoJob
    /\ \E p \in Range(outboundPeriodIdsToProcess[c]) :
           job' = [job EXCEPT ![v] =
                      [src     |-> c,
                       period  |-> p,
                       pending |->
                         {o \in Range(outboundPeriods[c][p].outboundingIds) :
                            <<c, o>> \notin srcOutboundingIdRegistered
                                               [outboundings[c][o].destChainId]}]]
    /\ UNCHANGED <<now, adminVars, outboundings, listVars, periodVars,
                   totalOutboundAmount, totalInboundAmount, movedOut, movedIn,
                   tokenVars, crashes>>

PendingFor(v, d) ==
    {o \in job[v].pending : outboundings[job[v].src][o].destChainId = d}

\* One call: a single request, or all those pending for the destination.
Relay(v, d) ==
    /\ job[v] # NoJob
    /\ \E ids \in {{o} : o \in PendingFor(v, d)} \cup {PendingFor(v, d)} :
           /\ ids # {}
           /\ AppendInboundings(v, job[v].src, d, ids)
           /\ job' = [job EXCEPT ![v].pending = @ \ ids]

\* Broken variant: the validator insists until the whole period is processed.
SkipRegisteredLate(v) ==
    /\ job[v] # NoJob
    /\ job[v].period \notin Range(outboundPeriodIdsToProcess[job[v].src])
    /\ \E o \in job[v].pending :
           /\ <<job[v].src, o>> \in srcOutboundingIdRegistered
                                       [outboundings[job[v].src][o].destChainId]
           /\ job' = [job EXCEPT ![v].pending = @ \ {o}]
    /\ UNCHANGED <<now, adminVars, outboundings, listVars, periodVars,
                   totalOutboundAmount, totalInboundAmount, movedOut, movedIn,
                   tokenVars, crashes>>

\* The call would revert, another validator was first: go on with the others.
SkipRegistered(v) ==
    /\ job[v] # NoJob
    /\ \E o \in job[v].pending :
           /\ <<job[v].src, o>> \in srcOutboundingIdRegistered
                                       [outboundings[job[v].src][o].destChainId]
           /\ job' = [job EXCEPT ![v].pending = @ \ {o}]
    /\ UNCHANGED <<now, adminVars, outboundings, listVars, periodVars,
                   totalOutboundAmount, totalInboundAmount, movedOut, movedIn,
                   tokenVars, crashes>>

FinishPeriod(v) ==
    /\ job[v] # NoJob
    /\ job[v].pending = {}
    /\ ProcessOutboundPeriod(v, job[v].src, job[v].period)
    /\ job' = [job EXCEPT ![v] = NoJob]

\* processOutboundPeriod would revert: the other validator was first.
AbandonPeriod(v) ==
    /\ job[v] # NoJob
    /\ job[v].pending = {}
    /\ job[v].period \notin Range(outboundPeriodIdsToProcess[job[v].src])
    /\ job' = [job EXCEPT ![v] = NoJob]
    /\ UNCHANGED <<now, adminVars, outboundings, listVars, periodVars,
                   totalOutboundAmount, totalInboundAmount, movedOut, movedIn,
                   tokenVars, crashes>>

\* The process restarts and has forgotten what it had in hand.
Crash(v) ==
    /\ crashes < MaxCrashes
    /\ job[v] # NoJob
    /\ job' = [job EXCEPT ![v] = NoJob]
    /\ crashes' = crashes + 1
    /\ UNCHANGED <<now, adminVars, outboundings, listVars, periodVars,
                   totalOutboundAmount, totalInboundAmount, movedOut, movedIn,
                   tokenVars>>

-----------------------------------------------------------------------------
(* The owner of a BridgeState, and time.                                   *)

AdminCall ==
    /\ adminCalls < MaxAdminCalls
    /\ adminCalls' = adminCalls + 1
    /\ UNCHANGED <<now, outboundings, listVars, periodVars,
                   totalOutboundAmount, totalInboundAmount, movedOut, movedIn,
                   tokenVars, job, crashes>>

SetRole(c, v, set) ==
    /\ AdminCall
    /\ roles' = [roles EXCEPT ![c] = IF set THEN @ \cup {v} ELSE @ \ {v}]
    /\ UNCHANGED <<networkOpened, numberOfOutboundPerPeriod, periodDuration>>

SetNetworkStatus(c, d, setTo) ==
    /\ AdminCall
    /\ networkOpened' =
           [networkOpened EXCEPT ![c] = IF setTo THEN @ \cup {d} ELSE @ \ {d}]
    /\ UNCHANGED <<roles, numberOfOutboundPerPeriod, periodDuration>>

SetNumberOfOutboundPerPeriod(c, number) ==
    /\ AdminCall
    /\ numberOfOutboundPerPeriod' =
           [numberOfOutboundPerPeriod EXCEPT ![c] = number]
    /\ UNCHANGED <<roles, networkOpened, periodDuration>>

SetPeriodDuration(c, time) ==
    /\ AdminCall
    /\ periodDuration' = [periodDuration EXCEPT ![c] = time]
    /\ UNCHANGED <<roles, networkOpened, numberOfOutboundPerPeriod>>

Tick ==
    /\ now < MaxTime
    /\ now' = now + 1
    /\ UNCHANGED <<adminVars, outboundings, listVars, periodVars,
                   totalOutboundAmount, totalInboundAmount, movedOut, movedIn,
                   tokenVars, job, crashes>>

-----------------------------------------------------------------------------

UserAction ==
    \E c \in Chains, a \in Accounts :
        \/ \E amount \in Amounts, d \in Chains, sign \in Signatures :
               OverchainTransfer(c, a, amount, d, sign)
        \/ ClaimAllBridgedAmounts(c, a)

ValidatorStep(v) ==
    \/ \E c \in Chains : PickPeriod(v, c) \/ Relay(v, c)
    \/ SkipRegistered(v)
    \/ FinishPeriod(v)
    \/ AbandonPeriod(v)

ValidatorAction ==
    \E v \in Validators :
        \/ ValidatorStep(v)
        \/ \E c \in Chains : CloseOutboundPeriod(v, c)
        \/ Crash(v)

OwnerAction ==
    \E c \in Chains :
        \/ \E v \in Validators, set \in BOOLEAN : SetRole(c, v, set)
        \/ \E d \in Chains, setTo \in BOOLEAN : SetNetworkStatus(c, d, setTo)
        \/ \E n \in PeriodSizes : SetNumberOfOutboundPerPeriod(c, n)
        \/ \E t \in PeriodDurations : SetPeriodDuration(c, t)

Next == UserAction \/ ValidatorAction \/ OwnerAction \/ Tick

Spec == Init /\ [][Next]_vars

\* A validator that holds the role keeps relaying and closes the open period
\* when it has requests; an account claims what it can claim.
Fairness ==
    /\ \A v \in Validators : WF_vars(ValidatorStep(v))
    /\ \A v \in Validators, c \in Chains : WF_vars(CloseOutboundPeriod(v, c))
    /\ \A c \in Chains, a \in Accounts : WF_vars(ClaimAllBridgedAmounts(c, a))

FairSpec == Spec /\ Fairness

-----------------------------------------------------------------------------
(* Types.                                                                  *)

Outbounding == [account : Accounts, amount : Nat, destChainId : Chains,
                periodId : Nat \ {0}, sign : Signatures]

Inbounding == [account : Accounts, amount : Nat, srcChainId : Chains,
               srcOutboundingId : Nat \ {0}, claimed : BOOLEAN,
               sign : Signatures]

Period == [startTime : Nat \ {0}, outboundingIds : Seq(Nat \ {0}),
           processed : BOOLEAN]

Job == [src : Chains, period : Nat \ {0}, pending : SUBSET (Nat \ {0})]

\* Every variable has its type; in particular no balance, supply or total goes
\* below zero, where the SafeMath subtraction of the code would have reverted.
TypeOK ==
    /\ now \in Nat \ {0}
    /\ roles \in [Chains -> SUBSET Validators]
    /\ networkOpened \in [Chains -> SUBSET Chains]
    /\ outboundings \in [Chains -> Seq(Outbounding)]
    /\ inboundings \in [Chains -> Seq(Inbounding)]
    /\ accountInboundings \in [Chains -> [Accounts -> Seq(Nat \ {0})]]
    /\ srcOutboundingIdRegistered \in [Chains -> SUBSET (Chains \X (Nat \ {0}))]
    /\ outboundPeriods \in [Chains -> Seq(Period)]
    /\ outboundPeriodIdsToProcess \in [Chains -> Seq(Nat \ {0})]
    /\ numberOfOutboundPerPeriod \in [Chains -> PeriodSizes]
    /\ periodDuration \in [Chains -> PeriodDurations]
    /\ totalOutboundAmount \in [Chains -> Nat]
    /\ totalInboundAmount \in [Chains -> Nat]
    /\ movedOut \in [Chains -> [Chains -> Nat]]
    /\ movedIn \in [Chains -> [Chains -> Nat]]
    /\ balanceOf \in [Chains -> [Accounts -> Nat]]
    /\ totalSupply \in [Chains -> Nat]
    /\ job \in [Validators -> Job \cup {NoJob}]
    /\ adminCalls \in Nat
    /\ crashes \in Nat

-----------------------------------------------------------------------------
(* Safety.                                                                 *)

\* Entry i of chain d is a copy of a request made elsewhere for d, whose id d has
\* noted, and it is claimed only if its account signed that request.
FaithfulEntry(d, i) ==
    LET inb == inboundings[d][i]
        out == outboundings[inb.srcChainId][inb.srcOutboundingId]
    IN  /\ inb.srcOutboundingId <= Len(outboundings[inb.srcChainId])
        /\ out.destChainId = d
        /\ inb.account = out.account
        /\ inb.amount = out.amount
        /\ inb.sign = out.sign
        /\ <<inb.srcChainId, inb.srcOutboundingId>>
               \in srcOutboundingIdRegistered[d]
        /\ inb.claimed => Verified(out.account, out.amount, out.sign)

SameRequest(d, i, j) ==
    /\ inboundings[d][i].srcChainId = inboundings[d][j].srcChainId
    /\ inboundings[d][i].srcOutboundingId = inboundings[d][j].srcOutboundingId

\* The entries of a chain are faithful copies, no two of the same request, and
\* srcOutboundingIdRegistered holds exactly their requests: whatever two
\* validators, a retry or a restart relayed twice, the guard of
\* _appendInboundingRequest let in once.
RelayedOnce ==
    \A d \in Chains :
        /\ \A i \in 1..Len(inboundings[d]) : FaithfulEntry(d, i)
        /\ \A i, j \in 1..Len(inboundings[d]) : SameRequest(d, i, j) => i = j
        /\ \A r \in srcOutboundingIdRegistered[d] :
               \E i \in 1..Len(inboundings[d]) :
                   /\ inboundings[d][i].srcChainId = r[1]
                   /\ inboundings[d][i].srcOutboundingId = r[2]

\* An account's list of claimable ids is duplicate-free and holds exactly its
\* unclaimed requests: the two records claimInbound keeps of the same fact, the
\* claimed flag and the list, never disagree, so that the removal loop always
\* finds its id and never removes another one.
InboxExact ==
    \A c \in Chains, a \in Accounts :
        LET ids == accountInboundings[c][a]
        IN  /\ \A j, k \in 1..Len(ids) : ids[j] = ids[k] => j = k
            /\ \A k \in 1..Len(ids) :
                   /\ ids[k] \in 1..Len(inboundings[c])
                   /\ inboundings[c][ids[k]].account = a
                   /\ ~inboundings[c][ids[k]].claimed
            /\ \A i \in 1..Len(inboundings[c]) :
                   inboundings[c][i].account = a /\ ~inboundings[c][i].claimed
                       => i \in Range(ids)

\* The loop of claimAllBridgedAmounts, run id by id over the list read before
\* it, is never stopped by a flag or a list it has itself changed: after n ids
\* exactly those n have left the stored list and are claimed, so that at its end
\* the list is empty.
ClaimLoopEmptiesInbox ==
    \A c \in Chains, a \in Accounts :
        LET read  == accountInboundings[c][a]
            after == ClaimLoop(c, a)
            Done(n) == {read[k] : k \in 1..n}
        IN  \A n \in 0..Len(read) :
                /\ ~after[n].reverted
                /\ Len(after[n].ids) = Len(read) - n
                /\ Range(after[n].ids) = Range(read) \ Done(n)
                /\ after[n].claimed =
                       {i \in 1..Len(inboundings[c]) : inboundings[c][i].claimed}
                           \cup Done(n)

\* The life of a period: every request is in exactly the period it names, once;
\* every period but the open one has requests and is either processed or in the
\* list to be processed, never both; the list has no duplicates and never holds
\* the open period; a period does not start in the future.
PeriodsWellFormed ==
    \A c \in Chains :
        LET open == currentOutboundPeriodId(c)
            list == outboundPeriodIdsToProcess[c]
        IN  /\ open > 0
            /\ \A j, k \in 1..Len(list) : list[j] = list[k] => j = k
            /\ \A k \in 1..Len(list) : list[k] < open
            /\ ~outboundPeriods[c][open].processed
            /\ \A p \in 1..open :
                   LET ids == outboundPeriods[c][p].outboundingIds
                   IN  /\ outboundPeriods[c][p].startTime <= now
                       /\ \A j, k \in 1..Len(ids) : ids[j] = ids[k] => j = k
                       /\ \A k \in 1..Len(ids) :
                              /\ ids[k] <= Len(outboundings[c])
                              /\ outboundings[c][ids[k]].periodId = p
                       /\ p < open =>
                              /\ ids # <<>>
                              /\ outboundPeriods[c][p].processed <=>
                                     p \notin Range(list)
            /\ \A o \in 1..Len(outboundings[c]) :
                   LET p == outboundings[c][o].periodId
                   IN  /\ p <= open
                       /\ o \in Range(outboundPeriods[c][p].outboundingIds)

\* What processed promises: every request of a processed period is registered
\* at its destination.  The contract cannot see the other chain; it rests on a
\* validator that ends a period only when it has nothing left to relay, even
\* when what it knows of the destination is stale.
ProcessedMeansRelayed ==
    \A c \in Chains : \A o \in 1..Len(outboundings[c]) :
        outboundPeriods[c][outboundings[c][o].periodId].processed =>
            <<c, o>> \in srcOutboundingIdRegistered[outboundings[c][o].destChainId]

\* What a validator holds is never wrong, only late: its period is closed, what
\* is pending is of that period, and what is no longer pending is registered.
JobsSound ==
    \A v \in Validators : job[v] # NoJob =>
        LET c      == job[v].src
            period == outboundPeriods[c][job[v].period]
        IN  /\ job[v].period < currentOutboundPeriodId(c)
            /\ job[v].pending \subseteq Range(period.outboundingIds)
            /\ \A o \in Range(period.outboundingIds) \ job[v].pending :
                   <<c, o>> \in srcOutboundingIdRegistered
                                    [outboundings[c][o].destChainId]

\* The request o of chain c has been claimed at its destination.
Claimed(c, o) ==
    LET d == outboundings[c][o].destChainId
    IN  \E i \in 1..Len(inboundings[d]) :
            /\ inboundings[d][i].srcChainId = c
            /\ inboundings[d][i].srcOutboundingId = o
            /\ inboundings[d][i].claimed

InFlight(account) ==
    SumFunction([c \in Chains |->
        SumOf([o \in 1..Len(outboundings[c]) |->
                  IF outboundings[c][o].account = account /\ ~Claimed(c, o)
                  THEN outboundings[c][o].amount ELSE 0])])

\* No pynth is created or lost by the bridge: what an account holds on all the
\* chains, with what it has in flight, never changes, and the supply of a chain
\* is what the accounts of the chain hold.
SupplyConserved ==
    /\ \A a \in Accounts :
           SumFunction([c \in Chains |-> balanceOf[c][a]]) + InFlight(a)
               = InitialBalance * Cardinality(Chains)
    /\ \A c \in Chains : totalSupply[c] = SumFunction(balanceOf[c])

\* The counters CrossChainManager reads as the net flow between two networks:
\* a chain has never recorded more from a source than the source has sent it,
\* the difference being what no validator has relayed yet; and the totals of a
\* chain are the sums of its requests and of its claimed requests.
MovedAmountsAgree ==
    \A c \in Chains :
        /\ \A d \in Chains :
               movedOut[c][d] - movedIn[d][c] =
                   SumOf([o \in 1..Len(outboundings[c]) |->
                             IF /\ outboundings[c][o].destChainId = d
                                /\ <<c, o>> \notin srcOutboundingIdRegistered[d]
                             THEN outboundings[c][o].amount ELSE 0])
        /\ totalOutboundAmount[c] = SumFunction(movedOut[c])
        /\ totalInboundAmount[c] =
               SumOf([i \in 1..Len(inboundings[c]) |->
                         IF inboundings[c][i].claimed
                         THEN inboundings[c][i].amount ELSE 0])

-----------------------------------------------------------------------------
(* The bridge implements TransferLedger.                                   *)

TransferOf(c, o) ==
    LET out == outboundings[c][o]
    IN  [src     |-> c,
         id      |-> o,
         account |-> out.account,
         amount  |-> out.amount,
         dest    |-> out.destChainId,
         signed  |-> Verified(out.account, out.amount, out.sign)]

Registered(c, o) ==
    <<c, o>> \in srcOutboundingIdRegistered[outboundings[c][o].destChainId]

Transfers(Test(_, _)) ==
    UNION {{TransferOf(c, o) : o \in {i \in 1..Len(outboundings[c]) : Test(c, i)}}
               : c \in Chains}

Unregistered(c, o) == ~Registered(c, o)
Unclaimed(c, o)    == Registered(c, o) /\ ~Claimed(c, o)

OutboundingIds == UNION {1..MaxOutboundings[c] : c \in Chains}

Ledger == INSTANCE TransferLedger WITH
    Ids       <- OutboundingIds,
    wallet    <- balanceOf,
    inTransit <- Transfers(Unregistered),
    claimable <- Transfers(Unclaimed),
    settled   <- Transfers(Claimed)

\* Through periods, batches, retries, restarts and stale reads, every step of
\* the bridge is a step of the ledger, or is not visible in it: a burned amount
\* is credited to its owner at its destination, at most once.
LedgerSpec == Ledger!Spec

-----------------------------------------------------------------------------
(* Liveness, under FairSpec.                                               *)

\* A period on the process list is eventually processed, whichever validator
\* restarts, loses the race for it or loses its role.
ClosedPeriodsProcessed ==
    \A c \in Chains : \A p \in 1..(MaxOutboundings[c] + 1) :
        p \in Range(outboundPeriodIdsToProcess[c])
            ~> /\ p \in 1..Len(outboundPeriods[c])
               /\ outboundPeriods[c][p].processed

\* The account has a request for chain d that it did not sign itself: d will
\* refuse it, and with it every claim of the account.
BadlySigned(account, d) ==
    \E c \in Chains : \E o \in 1..Len(outboundings[c]) :
        LET out == outboundings[c][o]
        IN  /\ out.account = account
            /\ out.destChainId = d
            /\ ~Verified(account, out.amount, out.sign)

\* What is burned is eventually issued at the destination, unless a request of
\* the same account for the same destination carries a bad signature.
TransfersClaimed ==
    \A c \in Chains : \A o \in 1..MaxOutboundings[c] :
        o \in 1..Len(outboundings[c])
            ~> /\ o \in 1..Len(outboundings[c])
               /\ \/ Claimed(c, o)
                  \/ BadlySigned(outboundings[c][o].account,
                                 outboundings[c][o].destChainId)
=============================================================================
