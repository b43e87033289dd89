---------------------------- MODULE PynthCommands ----------------------------
(***************************************************************************)
(* settle.js, purge-pynths.js and remove-pynths.js: the commands that take *)
(* a pynth out of the system while people still use it.  settle.js settles *)
(* the exchanges that wait, purge-pynths.js exchanges what holders have to *)
(* pUSD in batches, remove-pynths.js takes a pynth out of the Issuer and   *)
(* the files.  Each may fail or die at any transaction, is run again, and  *)
(* starts from what the files and the chain then say.                      *)
(*                                                                         *)
(* An account holds a pynth or not: amounts are those of Exchanger.tla.    *)
(* So a supply is zero when nobody holds the pynth, and of a settlement    *)
(* only matters whether the account can pay what is reclaimed.  Of a price *)
(* it matters whether it is valid, and whether it is too far from the last *)
(* one.  Left out: prompts (answered yes), the filter, the seed and the    *)
(* report of settle.js, dry runs, and supplies too large to be purged.     *)
(***************************************************************************)
EXTENDS Integers, FiniteSets, FiniteSetsExt

CONSTANTS
    Keys, Holders,
    BatchSize,      \* holders that one transaction purges
    HolderLimit,    \* holders that the token API returns
    MaxNonce,       \* bound: how far settle.js gets ahead of its account
    MaxExchanges,   \* bound: exchanges into pynths, and transfers of them
    MaxTroubles,    \* bound: changes of prices and of what is suspended
    MaxLateTroubles,\* bound: the same, when calls are left to the owner
    MaxFailures,    \* bound: transactions that the node does not take
    MaxDeaths       \* bound: commands that die

Pairs == Holders \X Keys

VARIABLES
    isOwner,        \* the account of the commands owns the contracts
    held,           \* pairs of a holder and a pynth it has
    waiting, due,   \* pairs with an unsettled exchange, by its waiting period
    unpayable,      \*   and those of them that have less than is reclaimed
    rate,           \* [pynth -> "valid", "deviating" or "invalid"]
    suspended,      \* pynths that are suspended, alone or with the whole system
    issued,         \* the pynths of the Issuer
    config,         \* the pynths of config.json and deployment.json
    pynths,         \*   and of pynths.json
    actions,        \* calls that were left to the owner
    events,         \* pairs of all exchanges
    saved, file,    \* settle.js has saved its exchanges, and which
    running, todo,  \* the command, and what is left of its list
    stage, batch,   \* the step of remove and purge, and whom purge has left
    nonce,          \* the next nonce of settle.js, counted from that of its account
    pool,           \* its transactions that wait to be mined, counted in the same way
    exchanges, troubles, failures, deaths

statusVars  == <<rate, suspended, troubles>>
userVars    == <<held, waiting, due, unpayable, events, exchanges, statusVars>>
fileVars    == <<config, pynths, actions>>
settleVars  == <<saved, file, nonce, pool>>
commandVars == <<running, todo, stage, batch>>
vars == <<isOwner, userVars, issued, fileVars, settleVars, commandVars, failures, deaths>>

Idle == running = "none"

\* totalSupply of the pynth is 0.
Empty(k) == \A h \in Holders : <<h, k>> \notin held

Fail == failures < MaxFailures /\ failures' = failures + 1

Stop == running' = "none" /\ todo' = {} /\ stage' = "next" /\ batch' = {}

-----------------------------------------------------------------------------
(* What people do.                                                         *)

Active(k) == k \in issued \ suspended

\* An account that has more may be able to pay what is reclaimed from it.  At a
\* price too far from the last one the exchange would only have the pynth suspended.
Exchange(p) ==
    /\ Active(p[2]) /\ rate[p[2]] = "valid"
    /\ exchanges < MaxExchanges
    /\ exchanges' = exchanges + 1
    /\ held' = held \cup {p}
    /\ waiting' = waiting \cup {p} /\ due' = due \ {p}
    /\ unpayable' \in {unpayable, unpayable \ {p}}
    /\ events' = events \cup {p}
    /\ UNCHANGED <<isOwner, issued, fileVars, settleVars, commandVars, statusVars, failures,
                   deaths>>

EndWaiting(p) ==
    /\ p \in waiting
    /\ waiting' = waiting \ {p} /\ due' = due \cup {p}
    /\ UNCHANGED <<isOwner, held, unpayable, events, exchanges, issued, fileVars, settleVars,
                   commandVars, statusVars, failures, deaths>>

\* A part of what an account has, or all of it, goes to another one, or is burned.
\* When a settlement is due, what is reclaimed so far must stay; a price that
\* comes late may make it more than that.
Transfer(p, to) ==
    /\ p \in held \ (waiting \cup unpayable)
    /\ p[2] \notin suspended
    /\ exchanges < MaxExchanges
    /\ exchanges' = exchanges + 1
    /\ held' \in {held \cup to, (held \ {p}) \cup to}
    /\ unpayable' \in {U \cup V : U \in {unpayable, unpayable \ to}, V \in SUBSET ({p} \cap due)}
    /\ UNCHANGED <<isOwner, waiting, due, events, issued, fileVars, settleVars, commandVars,
                   statusVars, failures, deaths>>

\* What is exchanged is settled first.  A price that is too far from the last one
\* stops the exchange after that and suspends the pynth, without an error.
ExchangeAll(k, S) ==
    /\ due' = due \ S
    /\ IF rate[k] = "deviating" /\ S # {}
       THEN suspended' = suspended \cup {k} /\ UNCHANGED held
       ELSE held' = held \ S /\ UNCHANGED suspended

Sell(p) ==
    /\ p \in held \ (waiting \cup unpayable)
    /\ Active(p[2]) /\ rate[p[2]] # "invalid"
    /\ ExchangeAll(p[2], {p})
    /\ UNCHANGED <<isOwner, waiting, unpayable, events, exchanges, issued, fileVars, settleVars,
                   commandVars, rate, troubles, failures, deaths>>

\* Anyone may have a pynth suspended whose price is too far from the last one.
suspendPynthWithInvalidRate(k) ==
    /\ Active(k) /\ rate[k] = "deviating"
    /\ suspended' = suspended \cup {k}
    /\ UNCHANGED <<isOwner, held, waiting, due, unpayable, events, exchanges, issued, fileVars,
                   settleVars, commandVars, rate, troubles, failures, deaths>>

\* Prices move, become stale or come back, with the oracle or by a reset of the
\* last one; pynths are suspended and resumed by those who may.
Trouble(k) ==
    /\ troubles < IF isOwner THEN MaxTroubles ELSE MaxLateTroubles
    /\ troubles' = troubles + 1
    /\ \/ /\ rate' \in [Keys -> {"valid", "deviating", "invalid"}]
          /\ \A j \in Keys : rate'[j] = rate[j] <=> j # k
          /\ UNCHANGED suspended
       \/ suspended' \in {suspended \cup {k}, suspended \ {k}} \ {suspended} /\ UNCHANGED rate
    /\ UNCHANGED <<isOwner, held, waiting, due, unpayable, events, exchanges, issued, fileVars,
                   settleVars, commandVars, failures, deaths>>

-----------------------------------------------------------------------------
(* The contracts, as the owner calls them.                                 *)

Having(k, B) == (B \X {k}) \cap held

\* Holders who have nothing are passed over; what the others have is exchanged,
\* which asks for a valid price and a settlement that can be paid.  It does not
\* ask whether the pynth is suspended.
CanPurge(k, B) ==
    Having(k, B) # {} => /\ k \in issued /\ rate[k] # "invalid"
                         /\ Having(k, B) \cap (waiting \cup unpayable) = {}

\* Broken variant: the supply is not looked at.
CanRemoveAny(k) == k \in issued

CanRemove(k) == k \in issued /\ Empty(k)

-----------------------------------------------------------------------------
(* remove-pynths.js.                                                       *)

StartRemove(S) ==
    /\ Idle
    /\ S # {} /\ S \subseteq pynths
    /\ running' = "remove" /\ todo' = S
    /\ UNCHANGED <<isOwner, userVars, issued, fileVars, settleVars, stage, batch,
                   failures, deaths>>

\* A pynth that the deployment does not know ends the command, and so does one
\* with a supply; one that the Issuer does not know has only to be forgotten.
CheckPynth(k) ==
    /\ running = "remove" /\ stage = "next" /\ k \in todo
    /\ \/ k \in config \cap issued /\ Empty(k) /\ stage' = "send" /\ batch' = {k}
          /\ UNCHANGED <<running, todo>>
       \/ k \in config \ issued /\ stage' = "forget" /\ batch' = {k}
          /\ UNCHANGED <<running, todo>>
       \/ (k \notin config \/ (k \in issued /\ ~Empty(k))) /\ Stop
    /\ UNCHANGED <<isOwner, userVars, issued, fileVars, settleVars, failures, deaths>>

\* Broken variant: the files forget the pynth even when the removal failed.
SendAndForget(k) ==
    /\ running = "remove" /\ stage = "send" /\ k \in batch
    /\ IF isOwner THEN /\ issued' = IF CanRemove(k) THEN issued \ {k} ELSE issued
                       /\ UNCHANGED actions
                  ELSE /\ actions' = actions \cup {[call |-> "remove", key |-> k, batch |-> {}]}
                       /\ UNCHANGED issued
    /\ stage' = "forget"
    /\ UNCHANGED <<isOwner, userVars, config, pynths, settleVars, running, todo, batch,
                   failures, deaths>>

\* The owner removes the pynth; another account leaves that to the owner.
SendRemoval(k) ==
    /\ running = "remove" /\ stage = "send" /\ k \in batch
    /\ \/ /\ isOwner /\ CanRemove(k)
          /\ issued' = issued \ {k} /\ stage' = "forget"
          /\ UNCHANGED <<actions, running, todo, batch>>
       \/ /\ isOwner /\ ~CanRemove(k)
          /\ Stop
          /\ UNCHANGED <<issued, actions>>
       \/ /\ ~isOwner
          /\ actions' = actions \cup {[call |-> "remove", key |-> k, batch |-> {}]}
          /\ stage' = "forget"
          /\ UNCHANGED <<issued, running, todo, batch>>
    /\ UNCHANGED <<isOwner, userVars, config, pynths, settleVars, failures, deaths>>

ForgetTargets(k) ==
    /\ running = "remove" /\ stage = "forget" /\ k \in batch
    /\ config' = config \ {k}
    /\ stage' = "pynths"
    /\ UNCHANGED <<isOwner, userVars, issued, pynths, actions, settleVars, running, todo,
                   batch, failures, deaths>>

ForgetPynth(k) ==
    /\ running = "remove" /\ stage = "pynths" /\ k \in batch
    /\ pynths' = pynths \ {k}
    /\ IF todo = {k} THEN Stop
                     ELSE /\ todo' = todo \ {k} /\ stage' = "next" /\ batch' = {}
                          /\ UNCHANGED running
    /\ UNCHANGED <<isOwner, userVars, issued, config, actions, settleVars, failures, deaths>>

-----------------------------------------------------------------------------
(* purge-pynths.js, for one pynth and with the address of its proxy.       *)

StartPurge(k) ==
    /\ Idle
    /\ k \in pynths
    /\ running' = "purge" /\ todo' = {k}
    /\ UNCHANGED <<isOwner, userVars, issued, fileVars, settleVars, stage, batch,
                   failures, deaths>>

\* The holders are read once, as many as the API returns.
ReadHolders(k) ==
    /\ running = "purge" /\ stage = "next" /\ k \in todo
    /\ LET holders == {h \in Holders : <<h, k>> \in held}
       IN \/ /\ k \in config \cap issued /\ ~Empty(k)
             /\ batch' \in {B \in SUBSET holders :
                                Cardinality(B) = Min({HolderLimit, Cardinality(holders)})}
             /\ stage' = "purge"
             /\ UNCHANGED <<running, todo>>
          \/ (k \notin config \cap issued \/ Empty(k)) /\ Stop
    /\ UNCHANGED <<isOwner, userVars, issued, fileVars, settleVars, failures, deaths>>

\* One holder that cannot be purged fails its batch, and that ends the command.
\* A batch that is stopped by the price has not failed: the command goes on.
Purge(k) ==
    /\ running = "purge" /\ stage = "purge" /\ k \in todo
    /\ batch # {}
    /\ \E B \in SUBSET batch :
           /\ Cardinality(B) = Min({BatchSize, Cardinality(batch)})
           /\ \/ /\ isOwner /\ CanPurge(k, B)
                 /\ ExchangeAll(k, Having(k, B))
                 /\ batch' = batch \ B
                 /\ UNCHANGED <<actions, running, todo, stage>>
              \/ /\ isOwner /\ ~CanPurge(k, B)
                 /\ Stop
                 /\ UNCHANGED <<held, due, suspended, actions>>
              \/ /\ ~isOwner
                 /\ actions' = actions \cup {[call |-> "purge", key |-> k, batch |-> B]}
                 /\ batch' = batch \ B
                 /\ UNCHANGED <<held, due, suspended, running, todo, stage>>
    /\ UNCHANGED <<isOwner, waiting, unpayable, events, exchanges, issued, config, pynths,
                   settleVars, rate, troubles, failures, deaths>>

EndPurge ==
    /\ running = "purge" /\ stage = "purge" /\ batch = {}
    /\ Stop
    /\ UNCHANGED <<isOwner, userVars, issued, fileVars, settleVars, failures, deaths>>

\* What was left to the owner.
OwnerActs(a) ==
    /\ a \in actions
    /\ actions' = actions \ {a}
    /\ \/ /\ a.call = "remove" /\ CanRemove(a.key)
          /\ issued' = issued \ {a.key}
          /\ UNCHANGED <<held, due, suspended>>
       \/ /\ a.call = "purge" /\ CanPurge(a.key, a.batch)
          /\ ExchangeAll(a.key, Having(a.key, a.batch))
          /\ UNCHANGED issued
    /\ UNCHANGED <<isOwner, waiting, unpayable, events, exchanges, config, pynths, settleVars,
                   commandVars, rate, troubles, failures, deaths>>

-----------------------------------------------------------------------------
(* settle.js.                                                              *)

Used == {tx.nonce : tx \in pool}

\* Broken variant: the file is taken even when the latest exchanges are asked for.
StartSettleFromFile(latest) ==
    /\ Idle
    /\ LET found == IF saved THEN file ELSE events
       IN saved' = TRUE /\ file' = found /\ todo' = found
    /\ running' = "settle" /\ nonce' = 0
    /\ UNCHANGED <<isOwner, userVars, issued, fileVars, stage, batch, pool, failures, deaths>>

\* Exchanges come from the file of an earlier run, unless the latest are asked for.
StartSettle(latest) ==
    /\ Idle
    /\ LET found == IF saved /\ ~latest THEN file ELSE events
       IN saved' = TRUE /\ file' = found /\ todo' = found
    /\ running' = "settle" /\ nonce' = 0
    /\ UNCHANGED <<isOwner, userVars, issued, fileVars, stage, batch, pool, failures, deaths>>

\* What has nothing to settle, or waits, is passed over; with --show-debt, which
\* looks at the balance, also what cannot be paid.
Pass(p) ==
    /\ running = "settle" /\ stage = "next" /\ p \in todo \ (due \ unpayable)
    /\ todo' = todo \ {p}
    /\ UNCHANGED <<isOwner, userVars, issued, fileVars, settleVars, running, stage, batch,
                   failures, deaths>>

\* The nonce is spent whether or not the node takes the transaction; it does not
\* when it knows one with that nonce.
Send(p) ==
    /\ running = "settle" /\ stage = "next" /\ p \in todo \cap due
    /\ nonce <= MaxNonce
    /\ nonce' = nonce + 1
    /\ \/ /\ nonce >= 0 /\ nonce \notin Used
          /\ pool' = pool \cup {[nonce |-> nonce, pair |-> p]}
          /\ stage' = "sent"
          /\ UNCHANGED <<todo, failures>>
       \/ /\ \/ (nonce < 0 \/ nonce \in Used) /\ UNCHANGED failures
             \/ nonce >= 0 /\ nonce \notin Used /\ Fail
          /\ todo' = todo \ {p}
          /\ UNCHANGED <<pool, stage>>
    /\ UNCHANGED <<isOwner, userVars, issued, fileVars, saved, file, running, batch, deaths>>

\* The receipt comes, or the command gives up: at once in this model when an
\* earlier nonce is missing.
Await(p) ==
    /\ running = "settle" /\ stage = "sent" /\ p \in todo
    /\ \/ nonce <= 0 /\ UNCHANGED failures
       \/ nonce > 0 /\ (0..(nonce - 1)) \subseteq Used /\ Fail
       \/ nonce > 0 /\ ~((0..(nonce - 1)) \subseteq Used) /\ UNCHANGED failures
    /\ stage' = "next"
    /\ todo' = todo \ {p}
    /\ UNCHANGED <<isOwner, userVars, issued, fileVars, settleVars, running, batch, deaths>>

EndSettle ==
    /\ running = "settle" /\ todo = {}
    /\ Stop
    /\ UNCHANGED <<isOwner, userVars, issued, fileVars, settleVars, failures, deaths>>

\* Settled is what is due and can be paid, of a pynth that is neither suspended nor
\* gone.
CanSettle(p) == p \in due \ unpayable /\ Active(p[2])

\* A transaction is mined; it settles, or does nothing, or reverts.
Mine ==
    /\ \E tx \in pool :
           /\ tx.nonce = 0
           /\ pool' = {[t EXCEPT !.nonce = @ - 1] : t \in pool \ {tx}}
           /\ due' = {p \in due : p = tx.pair => ~CanSettle(p)}
    /\ nonce' = nonce - 1
    /\ UNCHANGED <<isOwner, held, waiting, unpayable, events, exchanges, issued, fileVars,
                   saved, file, commandVars, statusVars, failures, deaths>>

Die ==
    /\ ~Idle /\ deaths < MaxDeaths
    /\ deaths' = deaths + 1
    /\ Stop
    /\ UNCHANGED <<isOwner, userVars, issued, fileVars, settleVars, failures>>

-----------------------------------------------------------------------------

Init ==
    /\ isOwner \in BOOLEAN
    /\ held \in SUBSET Pairs
    /\ waiting = {} /\ due = {} /\ unpayable = {} /\ events = {}
    /\ rate = [k \in Keys |-> "valid"] /\ suspended = {}
    /\ issued = Keys /\ config = Keys /\ pynths = Keys /\ actions = {}
    /\ saved = FALSE /\ file = {}
    /\ running = "none" /\ todo = {} /\ stage = "next" /\ batch = {}
    /\ nonce = 0 /\ pool = {}
    /\ exchanges = 0 /\ troubles = 0 /\ failures = 0 /\ deaths = 0

Steps == \/ \E k \in Keys : \/ CheckPynth(k) \/ SendRemoval(k) \/ ForgetTargets(k)
                            \/ ForgetPynth(k) \/ ReadHolders(k) \/ Purge(k)
         \/ EndPurge \/ EndSettle
         \/ \E p \in Pairs : Pass(p) \/ Send(p) \/ Await(p)

Starts == \/ \E S \in SUBSET Keys : StartRemove(S)
          \/ \E k \in Keys : StartPurge(k)
          \/ \E latest \in BOOLEAN : StartSettle(latest)

People == \E p \in Pairs :
              \/ Exchange(p) \/ EndWaiting(p) \/ Sell(p)
              \/ \E h \in Holders \ {p[1]} : \E to \in {{}, {<<h, p[2]>>}} : Transfer(p, to)

Troubles == \E k \in Keys : Trouble(k) \/ suspendPynthWithInvalidRate(k)

Next == \/ Starts \/ Steps \/ Mine \/ Die \/ People \/ Troubles
        \/ \E a \in actions : OwnerActs(a)

Spec == Init /\ [][Next]_vars

-----------------------------------------------------------------------------
(* Properties.                                                             *)

\* Nobody holds a pynth that the Issuer has dropped, however long its removal
\* waits for the owner and whoever exchanges into it after the command has seen
\* that it is empty: its holders could not exchange it any more.
NobodyStranded == \A p \in held : p[2] \in issued

\* An owner that purges and removes a pynth again and again gets rid of it in the
\* Issuer and in the files, but that pynths.json keeps it when the command died
\* just before it was written.  A pynth stays whose price does not come back, or
\* one of whose holders cannot pay what is reclaimed from it; that it was suspended
\* meanwhile does not matter.
Gone(k) == k \notin issued \cup config /\ (k \in pynths => deaths > 0)
AllGone == isOwner => \A k \in Keys : \/ Gone(k)
                                     \/ rate[k] # "valid"
                                     \/ \E h \in Holders : <<h, k>> \in held \cap unpayable

\* Whatever the node refuses, and whatever nonces are left unused by that, all
\* exchanges are settled in the end, by one run or another, that can be: not what
\* an account cannot pay, nor those of a pynth that stays suspended, or that has
\* been removed when its last holders had passed it on before they were settled.
AllSettled == \A p \in due : ~CanSettle(p)
=============================================================================
