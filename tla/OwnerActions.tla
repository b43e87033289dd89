---------------------------- MODULE OwnerActions ----------------------------
(***************************************************************************)
(* What a deployment leaves to the owner: nominate.js, owner.js and the    *)
(* calls of safe-utils.js on the safe of the owner and on the service that *)
(* collects its transactions.                                              *)
(*                                                                         *)
(* owner.js walks the entries of owner-actions.json and then the contracts *)
(* whose ownership is nominated.  An owner that is an account sends each   *)
(* call itself; for a safe the command approves the call under the next    *)
(* nonce and hands it to the service, from where the other signers         *)
(* execute it, in the order of the nonces.  The command may die between    *)
(* any two of these steps, or give up a call whose receipt does not come   *)
(* although the node has it, and is then run again.                        *)
(*                                                                         *)
(* Left out: prompts (answered yes), gas, what the approvals of the other  *)
(* signers need, and a list of transactions that cannot be read, which     *)
(* ends the command before it has done anything.  The service and the safe *)
(* are external.                                                           *)
(***************************************************************************)
EXTENDS Naturals, Sequences, FiniteSets

CONSTANTS
    Entries,        \* owner-actions.json: its calls, in its order
    Contracts,      \* config.json: its contracts, in its order
    Other,          \* what other signers propose
    MaxNonce,       \* bound: nonces of the safe
    MaxOthers,      \* bound: transactions that other signers propose
    MaxFailures,    \* bound: calls to the chain or the service that fail
    MaxCrashes      \* bound: commands that die

CallsAreDistinct ==
    /\ Entries \in Seq({Entries[i] : i \in DOMAIN Entries})
    /\ Contracts \in Seq({Contracts[i] : i \in DOMAIN Contracts})
    /\ \A i, j \in DOMAIN Entries : Entries[i] = Entries[j] => i = j
    /\ \A i, j \in DOMAIN Contracts : Contracts[i] = Contracts[j] => i = j
    /\ \A i \in DOMAIN Entries, j \in DOMAIN Contracts : Entries[i] # Contracts[j]
    /\ \A i \in DOMAIN Entries : Entries[i] # Other
    /\ \A j \in DOMAIN Contracts : Contracts[j] # Other

ASSUME CallsAssumption == CallsAreDistinct
ASSUME NonceAssumption == MaxNonce \in Nat

\* A contract stands for the call of its acceptOwnership.
Tasks     == Entries \o Contracts
Actions   == {Entries[i] : i \in DOMAIN Entries}
Owned     == {Contracts[i] : i \in DOMAIN Contracts}
NoNonce   == MaxNonce + 1

VARIABLES
    isSafe,         \* the new owner is a contract
    complete,       \* entries that owner-actions.json marks complete
    deployers,      \* contracts that the deployer still owns
    nominated,      \*   and those of them nominated to the new owner
    nonce,          \* of the safe
    txs,            \* transactions the service knows
    executed,       \* [entry -> times it was executed]
    task, stage,    \* the command: its task, and how far it is
    staged,         \* stagedTransactions and currentSafeNonce, read when it began
    since,
    new, last,      \* newNonce of its transaction and lastNonce
    inFlight,       \* the call the account has sent and has no receipt of
    blind,          \* history: a nonce was taken without the last transaction
    lost,           \* history: receipts that did not come
    others, failures, crashes

chainVars   == <<deployers, nominated, nonce, executed>>
commandVars == <<task, stage, staged, since, new, last>>
countVars   == <<lost, others, failures, crashes>>
vars == <<isSafe, complete, chainVars, txs, commandVars, inFlight, blind, countVars>>

Idle == task = 0
Task == Tasks[task]

Pending(tx, from) == ~tx.done /\ tx.nonce >= from
Highest == CHOOSE n \in 0..MaxNonce : /\ \E tx \in txs : tx.nonce = n
                                      /\ \A tx \in txs : tx.nonce <= n

\* A call does what it does on the chain.
Effect(call) ==
    /\ executed' = IF call \in Actions THEN [executed EXCEPT ![call] = @ + 1] ELSE executed
    /\ deployers' = deployers \ {call}
    /\ nominated' = nominated \ {call}

Fail == failures < MaxFailures /\ failures' = failures + 1

-----------------------------------------------------------------------------
(* The command.                                                            *)

\* Back to the shell.
Stop == /\ task' = 0 /\ stage' = "check"
        /\ staged' = {} /\ since' = 0
        /\ new' = NoNonce /\ last' = NoNonce

Start ==
    /\ Idle
    /\ task' = 1 /\ stage' = "check"
    /\ staged' = IF isSafe THEN txs ELSE {}
    /\ since' = nonce
    /\ UNCHANGED <<isSafe, complete, chainVars, txs, new, last, inFlight, blind, countVars>>

\* Broken variants: what has been executed is looked for, and what cannot be
\* executed any more counts as pending.
ExistingExecuted(call) == \E tx \in staged : tx.call = call /\ tx.done /\ tx.nonce >= since
ExistingEver(call) == \E tx \in staged : tx.call = call /\ Pending(tx, 0)

\* Entries that are complete, contracts that are owned already or not nominated,
\* and calls that were pending when the command began need nothing.
Existing(call) == \E tx \in staged : tx.call = call /\ Pending(tx, since)
ToDo(call) == /\ call \in Actions => call \notin complete
              /\ call \in Owned => call \in nominated
              /\ ~Existing(call)

Skip == /\ task \in DOMAIN Tasks /\ stage = "check"
        /\ ~ToDo(Task)
        /\ task' = task + 1
        /\ UNCHANGED <<isSafe, complete, chainVars, txs, stage, staged, since, new, last,
                       inFlight, blind, countVars>>

\* The next nonce is one above the last transaction of the service, or that of
\* the safe when there is none, or when it cannot be read.
NextNonce == IF txs = {} THEN nonce ELSE Highest + 1

TakeNonce ==
    /\ isSafe
    /\ task \in DOMAIN Tasks /\ stage = "check"
    /\ ToDo(Task)
    /\ \/ new' = NextNonce /\ UNCHANGED <<blind, failures>>
       \/ new' = nonce /\ blind' = TRUE /\ Fail
    /\ new' # last
    /\ new' \in 0..MaxNonce
    /\ stage' = "nonce"
    /\ UNCHANGED <<isSafe, complete, chainVars, txs, task, staged, since, last,
                   inFlight, lost, others, crashes>>

\* Broken variant: a call whose approval fails is passed over.
ApproveOrGoOn ==
    /\ stage = "nonce"
    /\ \/ stage' = "approved" /\ UNCHANGED <<task, failures>>
       \/ Fail /\ stage' = "check" /\ task' = task + 1
    /\ UNCHANGED <<isSafe, complete, chainVars, txs, staged, since, new, last, inFlight,
                   blind, lost, others, crashes>>

\* The approval is sent; when it fails, or its receipt does not come, the command
\* ends and has handed nothing over.
Approve ==
    /\ stage = "nonce"
    /\ \/ /\ stage' = "approved"
          /\ UNCHANGED <<task, staged, since, new, last, failures>>
       \/ Fail /\ Stop
    /\ UNCHANGED <<isSafe, complete, chainVars, txs, inFlight, blind, lost, others, crashes>>

\* The transaction is handed to the service; when that fails nobody notices.
Submit ==
    /\ stage = "approved"
    /\ \/ /\ txs' = txs \cup {[nonce |-> new, call |-> Task, done |-> FALSE]}
          /\ UNCHANGED failures
       \/ UNCHANGED txs /\ Fail
    /\ stage' = "sent"
    /\ UNCHANGED <<isSafe, complete, chainVars, task, staged, since, new, last, inFlight,
                   blind, lost, others, crashes>>

\* An account has a call to send.
Sending == ~isSafe /\ task \in DOMAIN Tasks /\ stage = "check" /\ ToDo(Task)

\* It sends the call and waits for the receipt.  The command ends when the node
\* refuses the call, and also when only the receipt does not come: the call may
\* then still be mined.  One that is sent while another is in flight takes the
\* nonce of that one, which the chain cannot mine any more.
SendDirectly ==
    /\ Sending
    /\ \/ /\ Effect(Task) /\ inFlight' = {}
          /\ stage' = "sent"
          /\ UNCHANGED <<task, staged, since, new, last, lost, failures>>
       \/ /\ Fail /\ Stop
          /\ \/ UNCHANGED <<inFlight, lost>>
             \/ inFlight' = {Task} /\ lost' = lost + 1
          /\ UNCHANGED <<deployers, nominated, executed>>
    /\ UNCHANGED <<isSafe, complete, nonce, txs, blind, others, crashes>>

\* A call that nobody waits for any more is mined, or reverts.
MineLate ==
    /\ inFlight # {} /\ inFlight' = {}
    /\ \E call \in inFlight :
           IF call \in Owned \ nominated THEN UNCHANGED <<deployers, nominated, executed>>
                                       ELSE Effect(call)
    /\ UNCHANGED <<isSafe, complete, nonce, txs, commandVars, blind, countVars>>

\* Broken variant: the file is not written.
RecordInMemory ==
    /\ stage = "sent"
    /\ last' = new
    /\ task' = task + 1 /\ stage' = "check"
    /\ UNCHANGED <<isSafe, complete, chainVars, txs, staged, since, new, inFlight, blind,
                   countVars>>

\* An entry is complete as soon as it is handed over.
Record ==
    /\ stage = "sent"
    /\ complete' = complete \cup ({Task} \cap Actions)
    /\ last' = new
    /\ task' = task + 1 /\ stage' = "check"
    /\ UNCHANGED <<isSafe, chainVars, txs, staged, since, new, inFlight, blind, countVars>>

Finish ==
    /\ task = Len(Tasks) + 1
    /\ Stop
    /\ UNCHANGED <<isSafe, complete, chainVars, txs, inFlight, blind, countVars>>

\* It may have sent a call just before.
Die ==
    /\ ~Idle
    /\ crashes < MaxCrashes
    /\ crashes' = crashes + 1
    /\ Stop
    /\ \/ UNCHANGED inFlight
       \/ Sending /\ inFlight' = {Task}
    /\ UNCHANGED <<isSafe, complete, chainVars, txs, blind, lost, others, failures>>

\* The command asks for the nonce until it is another one than its last; someone
\* ends it when that takes too long.
Waiting == /\ isSafe /\ task \in DOMAIN Tasks /\ stage = "check"
           /\ ToDo(Task) /\ NextNonce = last

Interrupt ==
    /\ Waiting
    /\ Stop
    /\ UNCHANGED <<isSafe, complete, chainVars, txs, inFlight, blind, countVars>>

-----------------------------------------------------------------------------
(* The deployer, the safe and its other signers.                           *)

\* nominate.js, for one contract: the deployer owns it and has not done so.
Nominate(c) ==
    /\ c \in deployers \ nominated
    /\ nominated' = nominated \cup {c}
    /\ UNCHANGED <<isSafe, complete, deployers, nonce, executed, txs, commandVars,
                   inFlight, blind, countVars>>

\* A call that reverts does not use up the nonce.
Execute ==
    /\ isSafe
    /\ \E tx \in txs :
           /\ tx.nonce = nonce /\ ~tx.done
           /\ tx.call \in Owned => tx.call \in nominated
           /\ Effect(tx.call)
           /\ txs' = (txs \ {tx})
                         \cup {[nonce |-> nonce, call |-> tx.call, done |-> TRUE]}
    /\ nonce' = nonce + 1
    /\ UNCHANGED <<isSafe, complete, commandVars, inFlight, blind, countVars>>

\* Another transaction of the safe, which may take the place of a pending one.
Propose ==
    /\ isSafe
    /\ others < MaxOthers
    /\ others' = others + 1
    /\ \E n \in nonce..NextNonce :
           /\ n <= MaxNonce
           /\ txs' = txs \cup {[nonce |-> n, call |-> Other, done |-> FALSE]}
    /\ UNCHANGED <<isSafe, complete, chainVars, commandVars, inFlight, blind, lost, failures,
                   crashes>>

-----------------------------------------------------------------------------

Init == /\ isSafe \in BOOLEAN
        /\ complete = {}
        /\ deployers = Owned /\ nominated = {}
        /\ nonce = 0 /\ txs = {}
        /\ executed = [e \in Actions |-> 0]
        /\ task = 0 /\ stage = "check"
        /\ staged = {} /\ since = 0
        /\ new = NoNonce /\ last = NoNonce
        /\ inFlight = {} /\ blind = FALSE /\ lost = 0
        /\ others = 0 /\ failures = 0 /\ crashes = 0

Command == Start \/ Skip \/ TakeNonce \/ Approve \/ Submit \/ SendDirectly \/ Record
           \/ Finish \/ Interrupt

Next == Command \/ Die \/ MineLate \/ Execute \/ Propose \/ \E c \in Owned : Nominate(c)

Spec == Init /\ [][Next]_vars

\* The command goes on and is run again and again, contracts are nominated, and
\* the signers execute what the service shows them.
FairSpec == /\ Spec
            /\ WF_vars(Command)
            /\ WF_vars(Execute)
            /\ \A c \in Owned : WF_vars(Nominate(c))

-----------------------------------------------------------------------------
(* Properties.                                                             *)

TypeOK ==
    /\ isSafe \in BOOLEAN
    /\ complete \subseteq Actions
    /\ nominated \subseteq deployers /\ deployers \subseteq Owned
    /\ nonce \in 0..NoNonce
    /\ txs \subseteq [nonce : 0..MaxNonce, call : Actions \cup Owned \cup {Other},
                      done : BOOLEAN]
    /\ executed \in [Actions -> Nat]
    /\ task \in 0..(Len(Tasks) + 1)
    /\ stage \in {"check", "nonce", "approved", "sent"}
    /\ new \in 0..NoNonce /\ last \in 0..NoNonce
    /\ inFlight \subseteq Actions \cup Owned /\ lost \in Nat

\* A call never waits twice: however often the command has died, it finds what
\* it has handed over, unless that has been executed or cannot be any more.
OnePendingPerCall ==
    \A a, b \in txs : (a.call = b.call /\ a.call # Other
                       /\ Pending(a, nonce) /\ Pending(b, nonce)) => a = b

\* An entry is executed again only for a command that died after it had handed
\* it over and before it had noted so, or, when the owner is an account, for a
\* receipt that did not come.
AgainOnlyAfterLoss ==
    \A e \in Actions : executed[e] <= 1 + crashes + IF isSafe THEN 0 ELSE lost

\* Its nonce went to another transaction, or the service never got it: neither
\* can happen to the entries of an account.
Superseded(e) == \E tx \in txs : tx.call = e /\ ~tx.done /\ tx.nonce < nonce
Dropped(e)    == isSafe /\ e \in complete /\ ~\E tx \in txs : tx.call = e

\* Entries are executed in the order of owner-actions.json, unless an earlier one
\* has been superseded or dropped, as long as the last transaction of the service
\* could be read each time.
OrderKept ==
    ~blind => \A i, j \in DOMAIN Entries :
        (i < j /\ executed[Entries[j]] > 0 /\ executed[Entries[i]] = 0)
            => Superseded(Entries[i]) \/ Dropped(Entries[i])

\* All entries are executed in the end, but for those that are lost so after they
\* were noted as complete.
EntriesExecuted ==
    <>[](\A e \in Actions :
             executed[e] > 0 \/ (e \in complete /\ (Superseded(e) \/ Dropped(e))))

\* Ownership is transferred in the end, whatever gets lost on the way.
OwnershipAccepted == <>[](deployers = {})
=============================================================================
