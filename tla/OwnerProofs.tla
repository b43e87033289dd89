---------------------------- MODULE OwnerProofs ----------------------------
(***************************************************************************)
(* However often owner.js dies and is run again, and whatever the other    *)
(* signers do meanwhile, no call waits twice in the service.               *)
(*                                                                         *)
(* The argument: what is pending while the command runs was pending when   *)
(* it began, and so is in the list it read then, or the command has handed *)
(* it over itself, for an earlier task.  The list excludes the first, and  *)
(* the calls of two tasks are never the same.                              *)
(***************************************************************************)
EXTENDS OwnerActions, ListProofs

TypeInv ==
    /\ nonce \in Nat /\ since \in Nat /\ task \in Nat
    /\ \A tx \in txs : tx.nonce \in Nat
    /\ stage \in {"nonce", "approved", "sent"} => task \in DOMAIN Tasks
    /\ stage \in {"nonce", "approved"} => new \in Nat
    /\ since <= nonce

\* Where a pending transaction can come from.
Handed(call) == \/ \E k \in DOMAIN Tasks : k < task /\ call = Tasks[k]
                \/ stage = "sent" /\ call = Task

PendingKnown == \A tx \in txs : (~Idle /\ tx.call # Other /\ Pending(tx, nonce))
                                    => tx \in staged \/ Handed(tx.call)

Inv == /\ TypeInv
       /\ PendingKnown
       /\ stage \in {"nonce", "approved"} => ~Existing(Task)
       /\ OnePendingPerCall

-----------------------------------------------------------------------------

\* Tasks are numbered from 1, and no two of them are the same call.
LEMMA TasksDistinct ==
    /\ 0 \notin DOMAIN Tasks /\ DOMAIN Tasks \subseteq Nat
    /\ \A i, j \in DOMAIN Tasks : Tasks[i] = Tasks[j] => i = j
<1> DEFINE S == {Entries[i] : i \in DOMAIN Entries} \cup {Contracts[i] : i \in DOMAIN Contracts}
<1>1. Entries \in Seq(S) /\ Contracts \in Seq(S)
  BY CallsAssumption DEF CallsAreDistinct
<1>2. /\ Len(Entries) \in Nat /\ Len(Contracts) \in Nat
      /\ DOMAIN Entries = 1..Len(Entries) /\ DOMAIN Contracts = 1..Len(Contracts)
  BY <1>1
<1>3. /\ DOMAIN Tasks = 1..(Len(Entries) + Len(Contracts))
      /\ \A i \in DOMAIN Tasks : Tasks[i] = IF i <= Len(Entries) THEN Entries[i]
                                            ELSE Contracts[i - Len(Entries)]
  BY <1>1, <1>2, ConcatProperties DEF Tasks
<1>4. ASSUME NEW i \in DOMAIN Tasks, NEW j \in DOMAIN Tasks, Tasks[i] = Tasks[j]
      PROVE  i = j
  <2>1. \A k \in 1..Len(Entries), l \in 1..Len(Contracts) : Entries[k] # Contracts[l]
    BY <1>2, CallsAssumption DEF CallsAreDistinct
  <2>2. CASE i <= Len(Entries) /\ j <= Len(Entries)
    BY <1>2, <1>3, <1>4, <2>2, CallsAssumption DEF CallsAreDistinct
  <2>3. CASE i > Len(Entries) /\ j > Len(Entries)
    <3>1. i - Len(Entries) \in DOMAIN Contracts /\ j - Len(Entries) \in DOMAIN Contracts
      BY <1>2, <1>3, <2>3
    <3>2. Contracts[i - Len(Entries)] = Contracts[j - Len(Entries)]
      BY <1>2, <1>3, <1>4, <2>3
    <3>3. i - Len(Entries) = j - Len(Entries)
      BY <3>1, <3>2, CallsAssumption DEF CallsAreDistinct
    <3> QED
      BY <1>2, <1>3, <3>3
  <2>4. CASE i <= Len(Entries) /\ j > Len(Entries)
    <3>1. i \in 1..Len(Entries) /\ j - Len(Entries) \in 1..Len(Contracts)
      BY <1>2, <1>3, <2>4
    <3> QED
      BY <1>2, <1>3, <1>4, <2>1, <2>4, <3>1
  <2>5. CASE i > Len(Entries) /\ j <= Len(Entries)
    <3>1. j \in 1..Len(Entries) /\ i - Len(Entries) \in 1..Len(Contracts)
      BY <1>2, <1>3, <2>5
    <3> QED
      BY <1>2, <1>3, <1>4, <2>1, <2>5, <3>1
  <2> QED
    BY <1>2, <1>3, <2>2, <2>3, <2>4, <2>5
<1> QED
  BY <1>2, <1>3, <1>4

\* At first nothing is pending.
LEMMA InvInit == Init => Inv
  BY DEF Init, Inv, TypeInv, PendingKnown, OnePendingPerCall, Existing

\* When a call is handed over, nothing pending has the same one.
LEMMA NothingPending ==
    ASSUME Inv, ~Idle, stage \in {"nonce", "approved"}, NEW tx \in txs, Pending(tx, nonce),
           Task # Other
    PROVE  tx.call # Task
<1> SUFFICES ASSUME tx.call = Task PROVE FALSE
  OBVIOUS
<1>1. tx \in staged \/ Handed(tx.call)
  BY DEF Inv, PendingKnown
<1>2. CASE tx \in staged
  <2>1. Pending(tx, since)
    BY DEF Inv, TypeInv, Pending
  <2> QED
    BY <1>2, <2>1 DEF Inv, Existing
<1>3. CASE Handed(tx.call)
  <2>1. PICK k \in DOMAIN Tasks : k < task /\ Task = Tasks[k]
    BY <1>3 DEF Handed
  <2>2. task \in DOMAIN Tasks
    BY DEF Inv, TypeInv
  <2>3. k = task /\ k \in Nat
    BY <2>1, <2>2, TasksDistinct DEF Task
  <2> QED
    BY <2>1, <2>3
<1> QED
  BY <1>1, <1>2, <1>3

\* The end of a command forgets what the invariant says of one.
LEMMA StopKeeps ==
    ASSUME Inv, Stop, UNCHANGED <<txs, nonce>>
    PROVE  Inv'
<1>1. TypeInv'
  BY DEF Stop, Inv, TypeInv
<1>2. PendingKnown' /\ (stage' \notin {"nonce", "approved"})
  BY DEF Stop, PendingKnown, Idle
<1>3. OnePendingPerCall'
  BY DEF Inv, OnePendingPerCall, Pending
<1> QED
  BY <1>1, <1>2, <1>3 DEF Inv

\* A step of the command that leaves the service and the safe alone keeps what
\* is pending known, when it does not forget what it has handed over.
LEMMA CommandKeeps ==
    ASSUME Inv, UNCHANGED <<txs, nonce, staged, since>>, TypeInv',
           \A call : Handed(call) => Handed(call)',
           Idle => Idle',
           stage' \in {"nonce", "approved"} => ~Existing(Task)'
    PROVE  Inv'
<1>1. PendingKnown'
  <2> SUFFICES ASSUME NEW tx \in txs, ~Idle', tx.call # Other, Pending(tx, nonce)
               PROVE  tx \in staged \/ Handed(tx.call)'
    BY DEF PendingKnown, Pending
  <2>1. ~Idle
    OBVIOUS
  <2>2. tx \in staged \/ Handed(tx.call)
    BY <2>1 DEF Inv, PendingKnown
  <2> QED
    BY <2>2
<1>2. OnePendingPerCall'
  BY DEF Inv, OnePendingPerCall, Pending
<1> QED
  BY <1>1, <1>2 DEF Inv

\* The command begins with what the service says.
LEMMA StartKeeps == Inv /\ (isSafe \/ txs = {}) /\ Start => Inv'
<1> SUFFICES ASSUME Inv, isSafe \/ txs = {}, Start PROVE Inv'
  OBVIOUS
<1> USE DEF Start, chainVars
<1>1. TypeInv'
  BY DEF Inv, TypeInv
<1>2. PendingKnown'
  BY DEF PendingKnown
<1>3. OnePendingPerCall'
  BY DEF Inv, OnePendingPerCall, Pending
<1> QED
  BY <1>1, <1>2, <1>3 DEF Inv

\* Going on to the next task, or to the next call of this one.
LEMMA WalkKeeps ==
    Inv /\ (Skip \/ TakeNonce \/ Approve \/ SendDirectly \/ Record) => Inv'
<1> SUFFICES ASSUME Inv PROVE (Skip \/ TakeNonce \/ Approve \/ SendDirectly \/ Record) => Inv'
  OBVIOUS
<1>1. ASSUME Skip PROVE Inv'
  <2>1. TypeInv'
    BY <1>1, TasksDistinct DEF Skip, chainVars, Inv, TypeInv
  <2>2. \A call : Handed(call) => Handed(call)'
    BY <1>1, TasksDistinct DEF Skip, Handed, Inv, TypeInv
  <2>3. ~Idle /\ stage' = "check"
    BY <1>1, TasksDistinct DEF Skip, Idle
  <2> QED
    BY <1>1, <2>1, <2>2, <2>3, CommandKeeps DEF Skip, chainVars
<1>2. ASSUME TakeNonce PROVE Inv'
  <2>1. TypeInv'
    BY <1>2 DEF TakeNonce, chainVars, Inv, TypeInv
  <2>2. \A call : Handed(call) => Handed(call)'
    BY <1>2 DEF TakeNonce, Handed
  <2>3. ~Idle /\ ~Existing(Task)'
    BY <1>2, TasksDistinct DEF TakeNonce, Idle, ToDo, Existing, Task
  <2> QED
    BY <1>2, <2>1, <2>2, <2>3, CommandKeeps DEF TakeNonce, chainVars
<1>3. ASSUME Approve PROVE Inv'
  <2>1. CASE Stop
    BY <1>3, <2>1, StopKeeps DEF Approve, chainVars
  <2>2. CASE /\ stage' = "approved"
             /\ UNCHANGED <<task, staged, since, new, last, failures>>
    <3>1. TypeInv'
      BY <1>3, <2>2 DEF Approve, chainVars, Inv, TypeInv
    <3>2. \A call : Handed(call) => Handed(call)'
      BY <1>3, <2>2 DEF Approve, Handed
    <3>3. (Idle => Idle') /\ ~Existing(Task)'
      BY <1>3, <2>2 DEF Approve, Idle, Existing, Task, Inv
    <3> QED
      BY <1>3, <2>2, <3>1, <3>2, <3>3, CommandKeeps DEF Approve, chainVars
  <2> QED
    BY <1>3, <2>1, <2>2 DEF Approve
<1>4. ASSUME SendDirectly PROVE Inv'
  <2>1. CASE Stop
    BY <1>4, <2>1, StopKeeps DEF SendDirectly
  <2>2. CASE /\ stage' = "sent"
             /\ UNCHANGED <<task, staged, since, new, last, failures>>
    <3>1. TypeInv'
      BY <1>4, <2>2 DEF SendDirectly, Sending, Inv, TypeInv
    <3>2. \A call : Handed(call) => Handed(call)'
      BY <1>4, <2>2 DEF SendDirectly, Sending, Handed
    <3>3. Idle => Idle'
      BY <2>2 DEF Idle
    <3> QED
      BY <1>4, <2>2, <3>1, <3>2, <3>3, CommandKeeps DEF SendDirectly
  <2> QED
    BY <1>4, <2>1, <2>2 DEF SendDirectly
<1>5. ASSUME Record PROVE Inv'
  <2>1. TypeInv'
    BY <1>5 DEF Record, chainVars, Inv, TypeInv
  <2>2. task \in DOMAIN Tasks /\ task \in Nat
    BY <1>5 DEF Record, Inv, TypeInv
  <2>3. \A call : Handed(call) => Handed(call)'
    BY <1>5, <2>2, TasksDistinct DEF Record, Handed, Task
  <2>4. ~Idle /\ stage' = "check"
    BY <1>5, <2>2, TasksDistinct DEF Record, Idle
  <2> QED
    BY <1>5, <2>1, <2>3, <2>4, CommandKeeps DEF Record, chainVars
<1> QED
  BY <1>1, <1>2, <1>3, <1>4, <1>5

\* What is handed over was not pending before.
LEMMA SubmitKeeps == Inv /\ Submit => Inv'
<1> SUFFICES ASSUME Inv, Submit PROVE Inv'
  OBVIOUS
<1> DEFINE tx == [nonce |-> new, call |-> Task, done |-> FALSE]
<1> USE DEF Submit, chainVars
<1>1. txs' \subseteq txs \cup {tx} /\ tx.call = Task /\ tx.nonce \in Nat
  BY DEF Inv, TypeInv
<1> HIDE DEF tx
<1>2. TypeInv'
  BY <1>1 DEF Inv, TypeInv
<1>3. ~Idle /\ Task' = Task
  BY TasksDistinct DEF Inv, TypeInv, Idle, Task
<1>4. PendingKnown'
  <2> SUFFICES ASSUME NEW a \in txs', a.call # Other, Pending(a, nonce)
               PROVE  a \in staged \/ Handed(a.call)'
    BY DEF PendingKnown, Pending
  <2>1. CASE a \in txs
    BY <1>3, <2>1 DEF Inv, PendingKnown, Handed
  <2>2. CASE a = tx
    BY <1>1, <1>3, <2>2 DEF Handed
  <2> QED
    BY <1>1, <2>1, <2>2
<1>5. OnePendingPerCall'
  <2> SUFFICES ASSUME NEW a \in txs', NEW b \in txs', a.call = b.call, a.call # Other,
                      Pending(a, nonce), Pending(b, nonce)
               PROVE  a = b
    BY DEF OnePendingPerCall, Pending
  <2>1. \A c \in txs : Pending(c, nonce) /\ Task # Other => c.call # Task
    BY <1>3, NothingPending
  <2> QED
    BY <1>1, <2>1 DEF Inv, OnePendingPerCall
<1> QED
  BY <1>2, <1>4, <1>5 DEF Inv

\* What is executed is pending no more, and the nonce it had is used up.
LEMMA ExecuteKeeps == Inv /\ Execute => Inv'
<1> SUFFICES ASSUME Inv, Execute PROVE Inv'
  OBVIOUS
<1> PICK tx \in txs : /\ tx.nonce = nonce
                      /\ txs' = (txs \ {tx})
                                    \cup {[nonce |-> nonce, call |-> tx.call, done |-> TRUE]}
  BY DEF Execute
<1> DEFINE ex == [nonce |-> nonce, call |-> tx.call, done |-> TRUE]
<1> USE DEF Execute, commandVars
<1>1. UNCHANGED <<Idle, Task>> /\ nonce' = nonce + 1
  BY DEF Idle, Task
<1>2. txs' = (txs \ {tx}) \cup {ex} /\ ex.nonce = nonce /\ ex.done = TRUE
  OBVIOUS
<1> HIDE DEF ex
<1>7. TypeInv'
  BY <1>1, <1>2 DEF Inv, TypeInv
<1>3. \A a \in txs' : Pending(a, nonce') => a \in txs /\ Pending(a, nonce)
  BY <1>1, <1>2 DEF Inv, TypeInv, Pending
<1>4. PendingKnown'
  BY <1>1, <1>3 DEF Inv, PendingKnown, Handed, Pending
<1>5. OnePendingPerCall'
  BY <1>3 DEF Inv, OnePendingPerCall, Pending
<1>6. stage' \in {"nonce", "approved"} => ~Existing(Task)'
  BY <1>1 DEF Inv, Existing, Pending
<1> QED
  BY <1>7, <1>4, <1>5, <1>6 DEF Inv

\* Other signers propose calls of their own.
LEMMA ProposeKeeps == Inv /\ Propose => Inv'
<1> SUFFICES ASSUME Inv, Propose PROVE Inv'
  OBVIOUS
<1> USE DEF Propose, commandVars, chainVars
<1> PICK n \in nonce..NextNonce : txs' = txs \cup {[nonce |-> n, call |-> Other, done |-> FALSE]}
  OBVIOUS
<1>1. n \in Nat
  BY DEF Inv, TypeInv
<1> DEFINE tx == [nonce |-> n, call |-> Other, done |-> FALSE]
<1>2. txs' = txs \cup {tx} /\ tx.call = Other /\ tx.nonce \in Nat
  BY <1>1
<1> HIDE DEF tx
<1>3. TypeInv'
  BY <1>2 DEF Inv, TypeInv
<1>4. PendingKnown'
  BY <1>2 DEF Inv, PendingKnown, Handed, Pending, Idle, Task
<1>5. OnePendingPerCall'
  BY <1>2 DEF Inv, OnePendingPerCall, Pending
<1>6. stage' \in {"nonce", "approved"} => ~Existing(Task)'
  BY DEF Inv, Existing, Pending, Task
<1> QED
  BY <1>3, <1>4, <1>5, <1>6 DEF Inv

\* The other steps leave the service, the safe and the command alone, or end it.
LEMMA OthersKeep ==
    Inv /\ (Finish \/ Interrupt \/ Die \/ MineLate \/ (\E c \in Owned : Nominate(c))
            \/ UNCHANGED vars)
        => Inv'
<1> SUFFICES ASSUME Inv
             PROVE  (Finish \/ Interrupt \/ Die \/ MineLate \/ (\E c \in Owned : Nominate(c))
                     \/ UNCHANGED vars) => Inv'
  OBVIOUS
<1>1. Finish \/ Interrupt \/ Die => Inv'
  BY StopKeeps DEF Finish, Interrupt, Die, chainVars
<1>2. ASSUME MineLate \/ (\E c \in Owned : Nominate(c)) \/ UNCHANGED vars PROVE Inv'
  <2>1. UNCHANGED <<txs, nonce, task, stage, staged, since, new>>
    BY <1>2 DEF MineLate, Nominate, vars, chainVars, commandVars
  <2>2. TypeInv' /\ Idle' = Idle /\ Task' = Task
    BY <2>1 DEF Inv, TypeInv, Idle, Task
  <2>3. \A call : (Handed(call) => Handed(call)') /\ Existing(call)' = Existing(call)
    BY <2>1, <2>2 DEF Handed, Existing, Pending
  <2> QED
    BY <2>1, <2>2, <2>3, CommandKeeps DEF Inv, Existing, Pending
<1> QED
  BY <1>1, <1>2

-----------------------------------------------------------------------------

\* An owner that is no safe has no transactions there, and one that is sends no
\* call itself.
NoSafeNoTxs == /\ isSafe \/ txs = {}
               /\ isSafe => inFlight = {}
               /\ stage \in {"nonce", "approved"} => isSafe

\* Only a safe has transactions.
LEMMA NoSafeNoTransactions == NoSafeNoTxs /\ [Next]_vars => NoSafeNoTxs'
<1> SUFFICES ASSUME NoSafeNoTxs PROVE [Next]_vars => NoSafeNoTxs'
  OBVIOUS
<1> USE DEF NoSafeNoTxs
<1>1. Start \/ Skip \/ TakeNonce \/ Finish \/ Interrupt \/ Die \/ MineLate => NoSafeNoTxs'
  BY DEF Start, Skip, TakeNonce, Finish, Interrupt, Die, Sending, Stop, MineLate, commandVars
<1>2. Approve => NoSafeNoTxs'
  BY DEF Approve, Stop
<1>3. Submit => NoSafeNoTxs'
  BY DEF Submit
<1>4. SendDirectly \/ Record => NoSafeNoTxs'
  BY DEF SendDirectly, Sending, Record, Stop
<1>5. Execute \/ Propose => NoSafeNoTxs'
  BY DEF Execute, Propose, commandVars
<1>6. (\E c \in Owned : Nominate(c)) \/ UNCHANGED vars => NoSafeNoTxs'
  BY DEF Nominate, vars, commandVars
<1> QED
  BY <1>1, <1>2, <1>3, <1>4, <1>5, <1>6 DEF Next, Command

\* What CallsWaitOnce needs, and what the other theorems build on.
BaseInv == Inv /\ NoSafeNoTxs

\* At first nothing is pending, and every step keeps it known.
LEMMA BaseInit == Init => BaseInv
BY InvInit DEF Init, NoSafeNoTxs, BaseInv

\* Every step keeps the invariant.
LEMMA BaseStep == BaseInv /\ [Next]_vars => BaseInv'
BY StartKeeps, WalkKeeps, SubmitKeeps, ExecuteKeeps, ProposeKeeps, OthersKeep,
   NoSafeNoTransactions DEF Next, Command, NoSafeNoTxs, BaseInv

\* Whatever dies, fails or is run again, no call waits in the service twice
\* (owner.js looks for it with checkExistingPendingTx before it hands it over).
THEOREM CallsWaitOnce == Spec => []OnePendingPerCall
<1>1. BaseInv => OnePendingPerCall
  BY DEF BaseInv, Inv
<1> QED
  BY <1>1, BaseInit, BaseStep, PTL DEF Spec

-----------------------------------------------------------------------------
(* AgainOnlyAfterLoss.                                                     *)

\* Deaths, and the receipts that an account has missed.
Losses == crashes + IF isSafe THEN 0 ELSE lost

\* The ways in which the command stops, and what a death or a receipt that does
\* not come costs.
Ends == /\ Stop
        /\ UNCHANGED <<isSafe, complete, executed, txs, nonce, blind>>
        /\ \/ stage # "sent" /\ UNCHANGED <<crashes, lost, inFlight>>
           \/ crashes' = crashes + 1 /\ UNCHANGED <<lost, inFlight>>
           \/ /\ Sending /\ inFlight' = {Task}
              /\ \/ crashes' = crashes + 1 /\ lost' = lost
                 \/ crashes' = crashes /\ lost' = lost + 1

\* The approval is sent.
Approved == /\ stage = "nonce" /\ stage' = "approved"
            /\ UNCHANGED <<isSafe, complete, executed, txs, nonce, blind, crashes, lost,
                           inFlight, task, staged, since, new, last>>

\* The owner is an account and has sent the call.
Sent == /\ Sending
        /\ Effect(Task) /\ inFlight' = {}
        /\ stage' = "sent"
        /\ UNCHANGED <<isSafe, complete, txs, nonce, blind, crashes, lost, task, staged,
                       since, new, last>>

\* A call in flight is mined.
Late == /\ inFlight' = {}
        /\ \E call \in inFlight :
               executed' = IF call \in Actions THEN [executed EXCEPT ![call] = @ + 1]
                           ELSE executed
        /\ UNCHANGED <<isSafe, complete, txs, nonce, blind, crashes, lost, task, stage, staged,
                       since, new, last>>

\* Nothing that the invariants are about changes.
Elsewhere == UNCHANGED <<isSafe, complete, executed, txs, nonce, blind, crashes, lost,
                         inFlight, task, stage, staged, since, new, last>>

\* Every step is one of these.
LEMMA StepCases ==
    ASSUME BaseInv, [Next]_vars
    PROVE  \/ Ends \/ Start \/ Skip \/ TakeNonce \/ Approved \/ Submit \/ Sent \/ Record
           \/ Late \/ Execute \/ Propose \/ Elsewhere
<1>1. ASSUME Finish \/ Interrupt PROVE Ends
  <2>1. stage # "sent"
    <3>1. CASE Finish
      <4>1. task \notin DOMAIN Tasks
        <5>1. DOMAIN Tasks = 1..Len(Tasks) /\ Len(Tasks) \in Nat
          <6>1. Entries \in Seq({Entries[i] : i \in DOMAIN Entries}
                                    \cup {Contracts[i] : i \in DOMAIN Contracts})
                /\ Contracts \in Seq({Entries[i] : i \in DOMAIN Entries}
                                         \cup {Contracts[i] : i \in DOMAIN Contracts})
            BY CallsAssumption DEF CallsAreDistinct
          <6> QED
            BY <6>1, ConcatProperties, LenProperties DEF Tasks
        <5> QED
          BY <3>1, <5>1 DEF Finish
      <4> QED
        BY <4>1 DEF BaseInv, Inv, TypeInv
    <3>2. CASE Interrupt
      BY <3>2 DEF Interrupt, Waiting
    <3> QED
      BY <1>1, <3>1, <3>2
  <2> QED
    BY <1>1, <2>1 DEF Ends, Finish, Interrupt, chainVars, countVars
<1>2. ASSUME Die PROVE Ends
  BY <1>2 DEF Die, Ends, chainVars
<1>3. ASSUME Approve PROVE Ends \/ Approved
  BY <1>3 DEF Approve, Ends, Approved, chainVars
<1>4. ASSUME SendDirectly PROVE Ends \/ Sent
  BY <1>4 DEF SendDirectly, Sending, Ends, Sent
<1>5. ASSUME NEW c \in Owned, Nominate(c) PROVE Elsewhere
  BY <1>5 DEF Nominate, Elsewhere, commandVars, countVars
<1>6. ASSUME UNCHANGED vars PROVE Elsewhere
  BY <1>6 DEF Elsewhere, vars, chainVars, commandVars, countVars
<1>7. ASSUME MineLate PROVE Late
  <2>1. UNCHANGED <<isSafe, complete, txs, nonce, blind, crashes, lost, task, stage, staged,
                    since, new, last>>
    BY <1>7 DEF MineLate, commandVars, countVars
  <2>2. PICK call \in inFlight :
            IF call \in Owned \ nominated THEN UNCHANGED <<deployers, nominated, executed>>
                                        ELSE Effect(call)
    BY <1>7 DEF MineLate
  <2>3. call \in Actions => call \notin Owned
    BY CallsAssumption DEF CallsAreDistinct, Actions, Owned
  <2>4. executed' = IF call \in Actions THEN [executed EXCEPT ![call] = @ + 1] ELSE executed
    BY <2>2, <2>3 DEF Effect
  <2> QED
    BY <1>7, <2>1, <2>4 DEF MineLate, Late
<1> QED
  BY <1>1, <1>2, <1>3, <1>4, <1>5, <1>6, <1>7 DEF Next, Command

\* 1 while a call of the entry waits in the service, or is in flight.
Waits(e) == IF e \in inFlight \/ \E tx \in txs : tx.call = e /\ Pending(tx, nonce) THEN 1 ELSE 0

\* 1 while the command may still hand the entry over.
Open(e) == IF e \in complete \/ (stage = "sent" /\ Task = e) THEN 0 ELSE 1

\* What the command is about to hand over has not been noted yet.
NotNoted == stage \in {"nonce", "approved"} /\ Task \in Actions => Task \notin complete

\* What an entry has had and may still have: a death, or a receipt that does not
\* come, is what makes it one more.
OnceInv ==
    /\ executed \in [Actions -> Nat] /\ crashes \in Nat /\ lost \in Nat
    /\ NotNoted
    /\ \A e \in Actions : executed[e] + Waits(e) + Open(e) <= 1 + Losses

\* At first every entry is open.
LEMMA OnceInit == Init => OnceInv
<1> SUFFICES ASSUME Init PROVE OnceInv
  OBVIOUS
<1>1. \A e \in Actions : executed[e] = 0 /\ Waits(e) = 0 /\ Open(e) = 1
  BY DEF Init, Waits, Open
<1> QED
  BY <1>1 DEF Init, OnceInv, NotNoted, Losses

\* It is enough that the sum of each entry grows by no more than the losses.
LEMMA OnceKept ==
    ASSUME OnceInv, executed' \in [Actions -> Nat], crashes' \in Nat, lost' \in Nat, NotNoted',
           \A e \in Actions : executed'[e] + Waits(e)' + Open(e)'
                                  <= executed[e] + Waits(e) + Open(e) + (Losses' - Losses)
    PROVE  OnceInv'
<1>1. ASSUME NEW e \in Actions
      PROVE  executed'[e] + Waits(e)' + Open(e)' <= 1 + Losses'
  <2>1. /\ executed[e] \in Nat /\ executed'[e] \in Nat
        /\ Waits(e) \in Nat /\ Open(e) \in Nat /\ Waits(e)' \in Nat /\ Open(e)' \in Nat
        /\ executed[e] + Waits(e) + Open(e) <= 1 + Losses
    BY DEF OnceInv, Waits, Open
  <2>2. Losses \in Nat
    BY DEF OnceInv, Losses
  <2>3. CASE isSafe'
    BY <2>1, <2>2, <2>3 DEF Losses
  <2>4. CASE ~isSafe'
    BY <2>1, <2>2, <2>4 DEF Losses
  <2> QED
    BY <2>3, <2>4
<1> QED
  BY <1>1 DEF OnceInv

\* Steps of the command before and after it hands something over, and the end.
LEMMA OnceQuiet ==
    ASSUME BaseInv, OnceInv,
           Ends \/ Start \/ Skip \/ TakeNonce \/ Approved \/ Elsewhere \/ Propose
    PROVE  OnceInv'
<1>1. ASSUME UNCHANGED <<executed, txs, nonce, complete, inFlight>>
      PROVE  \A e : executed'[e] = executed[e] /\ Waits(e)' = Waits(e)
  BY <1>1 DEF Waits, Pending
<1>2. CASE Ends
  <2>1. /\ crashes' \in Nat /\ lost' \in Nat /\ stage' = "check" /\ executed' = executed
        /\ Losses \in Nat /\ Losses' \in Nat /\ Losses <= Losses'
    BY <1>2 DEF Ends, Stop, Sending, OnceInv, Losses
  <2>2. \A e \in Actions : Waits(e)' + Open(e)' <= Waits(e) + Open(e) + (Losses' - Losses)
    <3>1. CASE stage # "sent" /\ UNCHANGED <<crashes, lost, inFlight>>
      BY <1>2, <3>1 DEF Ends, Stop, Open, Losses, Waits, Pending, OnceInv
    <3>2. CASE crashes' = crashes + 1 /\ UNCHANGED <<lost, inFlight>>
      <4>1. Losses' - Losses = 1
        BY <1>2, <3>2 DEF Ends, Losses, OnceInv
      <4> QED
        BY <1>2, <3>2, <4>1 DEF Ends, Stop, Open, Waits, Pending
    <3>3. CASE /\ Sending /\ inFlight' = {Task}
               /\ \/ crashes' = crashes + 1 /\ lost' = lost
                  \/ crashes' = crashes /\ lost' = lost + 1
      <4>1. Losses' - Losses = 1
        BY <1>2, <3>3 DEF Ends, Sending, Losses, OnceInv
      <4>2. \A e \in Actions : Open(e)' = Open(e)
        BY <1>2, <3>3 DEF Ends, Stop, Sending, Open
      <4> QED
        BY <4>1, <4>2 DEF Waits, Open
    <3> QED
      BY <1>2, <3>1, <3>2, <3>3 DEF Ends
  <2>3. \A e \in Actions : /\ executed[e] \in Nat /\ Waits(e) \in Nat /\ Open(e) \in Nat
                            /\ Waits(e)' \in Nat /\ Open(e)' \in Nat
    BY DEF OnceInv, Waits, Open
  <2>4. \A e \in Actions : executed'[e] + Waits(e)' + Open(e)'
                               <= executed[e] + Waits(e) + Open(e) + (Losses' - Losses)
    BY <2>1, <2>2, <2>3
  <2> QED
    BY <2>1, <2>4, OnceKept DEF OnceInv, NotNoted
<1>3. ASSUME UNCHANGED <<isSafe, executed, complete, crashes, lost>>,
             \A e \in Actions : Waits(e)' = Waits(e) /\ Open(e)' = Open(e),
             NotNoted'
      PROVE  OnceInv'
  <2>1. Losses' = Losses
    BY <1>3 DEF Losses
  <2> QED
    BY <1>3, <2>1 DEF OnceInv
<1>4. CASE Start
  <2>1. stage # "sent" /\ stage' = "check"
    BY <1>4, TasksDistinct DEF Start, Idle, BaseInv, Inv, TypeInv
  <2>2. \A e \in Actions : Open(e)' = Open(e)
    BY <1>4, <2>1 DEF Start, Open
  <2> QED
    BY <1>1, <1>3, <1>4, <2>1, <2>2 DEF Start, NotNoted, chainVars, countVars
<1>5. CASE Skip
  BY <1>1, <1>3, <1>5 DEF Skip, Open, NotNoted, chainVars, countVars
<1>6. CASE TakeNonce
  <2>1. /\ Task' = Task
        /\ UNCHANGED <<isSafe, executed, txs, nonce, complete, crashes, lost, inFlight>>
    BY <1>6 DEF TakeNonce, Task, chainVars
  <2>2. Task \in Actions => Task \notin complete
    BY <1>6 DEF TakeNonce, ToDo
  <2> QED
    BY <1>1, <1>3, <1>6, <2>1, <2>2 DEF TakeNonce, Open, NotNoted
<1>7. CASE Approved
  BY <1>1, <1>3, <1>7 DEF Approved, Open, Task, OnceInv, NotNoted
<1>8. CASE Elsewhere
  BY <1>1, <1>3, <1>8 DEF Elsewhere, Open, Task, OnceInv, NotNoted
<1>9. CASE Propose
  <2>1. UNCHANGED <<isSafe, executed, nonce, complete, crashes, lost, inFlight, stage, task>>
    BY <1>9 DEF Propose, chainVars, commandVars
  <2>2. PICK tx : tx.call = Other /\ txs' = txs \cup {tx}
    BY <1>9 DEF Propose
  <2>3. Other \notin Actions
    BY CallsAssumption DEF CallsAreDistinct, Actions
  <2>4. \A e \in Actions : Waits(e)' = Waits(e)
    BY <2>1, <2>2, <2>3 DEF Waits, Pending
  <2> QED
    BY <1>3, <2>1, <2>4 DEF Open, Task, OnceInv, NotNoted
<1> QED
  BY <1>2, <1>4, <1>5, <1>6, <1>7, <1>8, <1>9

\* A call that is handed over waits at most once, and is not open any more.
LEMMA OnceHanded ==
    ASSUME BaseInv, OnceInv, Submit \/ Sent \/ Record
    PROVE  OnceInv'
<1>1. Task' = Task \/ Record
  BY DEF Submit, Sent, Task
<1>2. CASE Record
  <2>1. /\ complete' = complete \cup ({Task} \cap Actions)
        /\ UNCHANGED <<isSafe, executed, txs, nonce, crashes, lost, inFlight>>
        /\ stage = "sent" /\ stage' = "check"
    BY <1>2 DEF Record, chainVars, countVars
  <2>2. \A e \in Actions : Waits(e)' = Waits(e) /\ Open(e)' = Open(e)
    BY <2>1 DEF Waits, Pending, Open
  <2>3. NotNoted'
    BY <2>1 DEF NotNoted
  <2> QED
    BY <2>1, <2>2, <2>3 DEF OnceInv, Losses
<1>3. CASE Submit
  <2>1. /\ UNCHANGED <<isSafe, executed, nonce, crashes, lost, inFlight, complete, task>>
        /\ stage = "approved" /\ stage' = "sent" /\ Task' = Task
    BY <1>3 DEF Submit, chainVars, Task
  <2>2. PICK tx : tx.call = Task /\ (txs' = txs \/ txs' = txs \cup {tx})
    <3> DEFINE h == [nonce |-> new, call |-> Task, done |-> FALSE]
    <3>1. h.call = Task /\ (txs' = txs \/ txs' = txs \cup {h})
      BY <1>3 DEF Submit
    <3> QED
      BY <3>1
  <2>3. \A e \in Actions : Waits(e)' + Open(e)' <= Waits(e) + Open(e)
    <3> SUFFICES ASSUME NEW e \in Actions PROVE Waits(e)' + Open(e)' <= Waits(e) + Open(e)
      OBVIOUS
    <3>1. CASE e = Task
      BY <2>1, <3>1 DEF Waits, Open, OnceInv, NotNoted
    <3>2. CASE e # Task
      BY <2>1, <2>2, <3>2 DEF Waits, Open, Pending
    <3> QED
      BY <3>1, <3>2
  <2>4. NotNoted'
    BY <2>1 DEF NotNoted
  <2>5. Losses' = Losses /\ Losses \in Nat
    BY <2>1 DEF Losses, OnceInv
  <2>6. \A e \in Actions : /\ executed[e] \in Nat /\ Waits(e) \in Nat /\ Open(e) \in Nat
                            /\ Waits(e)' \in Nat /\ Open(e)' \in Nat
    BY DEF OnceInv, Waits, Open
  <2>7. \A e \in Actions : executed'[e] + Waits(e)' + Open(e)'
                               <= executed[e] + Waits(e) + Open(e) + (Losses' - Losses)
    BY <2>1, <2>3, <2>5, <2>6
  <2> QED
    BY <2>1, <2>4, <2>7, OnceKept DEF OnceInv
<1>4. CASE Sent
  <2>1. /\ UNCHANGED <<isSafe, txs, nonce, crashes, lost, complete, task>> /\ inFlight' = {}
        /\ stage = "check" /\ stage' = "sent" /\ Task' = Task
    BY <1>4 DEF Sent, Sending, Task
  <2>2. executed' = IF Task \in Actions THEN [executed EXCEPT ![Task] = @ + 1] ELSE executed
    BY <1>4 DEF Sent, Effect
  <2>3. executed' \in [Actions -> Nat]
    BY <2>2 DEF OnceInv
  <2>4. \A e \in Actions : executed'[e] + Waits(e)' + Open(e)'
                               <= executed[e] + Waits(e) + Open(e) + (Losses' - Losses)
    <3> SUFFICES ASSUME NEW e \in Actions
                 PROVE  executed'[e] + Waits(e)' + Open(e)'
                            <= executed[e] + Waits(e) + Open(e) + (Losses' - Losses)
      OBVIOUS
    <3>1. /\ Waits(e)' <= Waits(e) /\ Waits(e) \in Nat /\ Waits(e)' \in Nat
          /\ executed[e] \in Nat /\ Losses' = Losses /\ Losses \in Nat
      BY <2>1 DEF Waits, Pending, OnceInv, Losses
    <3>2. CASE e = Task
      <4>1. e \notin complete
        BY <1>4, <3>2 DEF Sent, Sending, ToDo
      <4>2. Open(e) = 1 /\ Open(e)' = 0
        BY <2>1, <3>2, <4>1 DEF Open
      <4>3. executed'[e] = executed[e] + 1
        BY <2>2, <3>2 DEF OnceInv
      <4> QED
        BY <3>1, <4>2, <4>3
    <3>3. CASE e # Task
      <4>1. Open(e)' = Open(e) /\ Open(e) \in Nat
        BY <2>1, <3>3 DEF Open
      <4>2. executed'[e] = executed[e]
        BY <2>2, <3>3 DEF OnceInv
      <4> QED
        BY <3>1, <4>1, <4>2
    <3> QED
      BY <3>2, <3>3
  <2>5. NotNoted'
    BY <2>1 DEF NotNoted
  <2> QED
    BY <2>1, <2>3, <2>4, <2>5, OnceKept DEF OnceInv
<1> QED
  BY <1>2, <1>3, <1>4

\* What is executed has waited, and as no call waits twice it does no more.
LEMMA OnceExecuted ==
    ASSUME BaseInv, OnceInv, Execute
    PROVE  OnceInv'
<1> PICK tx \in txs : /\ tx.nonce = nonce /\ ~tx.done
                      /\ Effect(tx.call)
                      /\ txs' = (txs \ {tx})
                                    \cup {[nonce |-> nonce, call |-> tx.call, done |-> TRUE]}
  BY DEF Execute
<1>1. /\ UNCHANGED <<isSafe, crashes, lost, inFlight, complete, task, stage>>
      /\ nonce' = nonce + 1 /\ nonce \in Nat
      /\ Task' = Task
  BY DEF Execute, commandVars, countVars, Task, BaseInv, Inv, TypeInv
<1>7. inFlight = {}
  BY DEF Execute, BaseInv, NoSafeNoTxs
<1>2. executed' = IF tx.call \in Actions THEN [executed EXCEPT ![tx.call] = @ + 1] ELSE executed
  BY DEF Effect
<1>3. executed' \in [Actions -> Nat]
  BY <1>2 DEF OnceInv
<1>4. \A t \in txs' : Pending(t, nonce') => t \in txs \ {tx} /\ Pending(t, nonce)
  BY <1>1 DEF Pending, BaseInv, Inv, TypeInv
<1>5. \A e \in Actions : executed'[e] + Waits(e)' + Open(e)'
                             <= executed[e] + Waits(e) + Open(e) + (Losses' - Losses)
  <2> SUFFICES ASSUME NEW e \in Actions
               PROVE  executed'[e] + Waits(e)' + Open(e)'
                          <= executed[e] + Waits(e) + Open(e) + (Losses' - Losses)
    OBVIOUS
  <2>1. /\ Open(e)' = Open(e) /\ Open(e) \in Nat
        /\ executed[e] \in Nat /\ Losses' = Losses /\ Losses \in Nat
    BY <1>1 DEF Open, OnceInv, Losses
  <2>2. CASE e = tx.call
    <3>1. Pending(tx, nonce)
      BY <1>1 DEF Pending
    <3>2. Waits(e) = 1
      BY <2>2, <3>1 DEF Waits
    <3>3. e # Other
      BY CallsAssumption DEF CallsAreDistinct, Actions
    <3>4. \A t \in txs : t.call = e /\ Pending(t, nonce) => t = tx
      BY <2>2, <3>1, <3>3 DEF BaseInv, Inv, OnePendingPerCall
    <3>5. Waits(e)' = 0
      BY <1>1, <1>4, <1>7, <3>4 DEF Waits
    <3>6. executed'[e] = executed[e] + 1
      BY <1>2, <2>2 DEF OnceInv
    <3> QED
      BY <2>1, <3>2, <3>5, <3>6
  <2>3. CASE e # tx.call
    <3>1. executed'[e] = executed[e]
      BY <1>2, <2>3 DEF OnceInv
    <3>2. Waits(e)' <= Waits(e) /\ Waits(e) \in Nat /\ Waits(e)' \in Nat
      BY <1>1, <1>4 DEF Waits
    <3> QED
      BY <2>1, <3>1, <3>2
  <2> QED
    BY <2>2, <2>3
<1>6. NotNoted'
  BY <1>1 DEF NotNoted, OnceInv
<1> QED
  BY <1>1, <1>3, <1>5, <1>6, OnceKept DEF OnceInv

\* What is mined late was in flight.
LEMMA OnceLate ==
    ASSUME BaseInv, OnceInv, Late
    PROVE  OnceInv'
<1> PICK call \in inFlight :
        executed' = IF call \in Actions THEN [executed EXCEPT ![call] = @ + 1] ELSE executed
  BY DEF Late
<1>1. /\ UNCHANGED <<isSafe, txs, nonce, crashes, lost, complete, task, stage>>
      /\ inFlight' = {} /\ Task' = Task
  BY DEF Late, Task
<1>2. txs = {}
  BY DEF BaseInv, NoSafeNoTxs
<1>3. executed' \in [Actions -> Nat]
  BY DEF OnceInv
<1>4. \A e \in Actions : executed'[e] + Waits(e)' + Open(e)'
                             <= executed[e] + Waits(e) + Open(e) + (Losses' - Losses)
  <2> SUFFICES ASSUME NEW e \in Actions
               PROVE  executed'[e] + Waits(e)' + Open(e)'
                          <= executed[e] + Waits(e) + Open(e) + (Losses' - Losses)
    OBVIOUS
  <2>1. /\ Open(e)' = Open(e) /\ Open(e) \in Nat /\ executed[e] \in Nat
        /\ Losses' = Losses /\ Losses \in Nat
    BY <1>1 DEF Open, OnceInv, Losses
  <2>2. Waits(e)' = 0 /\ Waits(e) \in Nat
    BY <1>1, <1>2 DEF Waits
  <2>3. executed'[e] <= executed[e] + Waits(e) /\ executed'[e] \in Nat
    BY DEF Waits, OnceInv
  <2> QED
    BY <2>1, <2>2, <2>3
<1>5. NotNoted'
  BY <1>1 DEF NotNoted, OnceInv
<1> QED
  BY <1>1, <1>3, <1>4, <1>5, OnceKept DEF OnceInv

\* Every step keeps the count.
LEMMA OnceStep == BaseInv /\ OnceInv /\ [Next]_vars => OnceInv'
BY StepCases, OnceQuiet, OnceHanded, OnceExecuted, OnceLate

\* Whatever fails and whatever the other signers do, an entry is executed once,
\* and once more at most for each death of the command, or each receipt that an
\* account has missed: only a command that is told nothing of an entry it has
\* handed over, or dies before it has noted so, forgets it (owner.js).
THEOREM ExecutedAgainOnlyAfterLoss == Spec => []AgainOnlyAfterLoss
<1>1. OnceInv => AgainOnlyAfterLoss
  <2> SUFFICES ASSUME OnceInv, NEW e \in Actions PROVE executed[e] <= 1 + Losses
    BY DEF AgainOnlyAfterLoss, Losses, OnceInv
  <2>1. executed[e] \in Nat /\ Losses \in Nat
    BY DEF OnceInv, Losses
  <2>2. Waits(e) \in Nat /\ Open(e) \in Nat
    BY DEF Waits, Open
  <2>3. executed[e] + Waits(e) + Open(e) <= 1 + Losses
    BY DEF OnceInv
  <2> QED
    BY <2>1, <2>2, <2>3
<1> QED
  BY <1>1, BaseInit, BaseStep, OnceInit, OnceStep, PTL DEF Spec

-----------------------------------------------------------------------------
(* OrderKept.                                                              *)

\* The entry has been handed over, at least once.
Settled(e) == \/ executed[e] > 0
              \/ e \in complete
              \/ \E tx \in txs : tx.call = e

\* What the service holds, and what the command has read of it.
ServiceKnown ==
    /\ complete \subseteq Actions
    /\ \A tx \in txs : tx.nonce \in 0..MaxNonce
    /\ \A tx \in txs : tx.done /\ tx.call \in Actions => executed[tx.call] > 0
    /\ \A tx \in staged : \E t \in txs : t.call = tx.call

\* What the command has passed has been handed over.
PassedSettled == \A k \in DOMAIN Tasks : k < task /\ Tasks[k] \in Actions => Settled(Tasks[k])

\* The nonce that the command has taken is above those of all earlier calls.
FreshNonce == stage \in {"nonce", "approved"}
                  => /\ new \in 0..MaxNonce
                     /\ ~blind => \A tx \in txs : tx.call # Other => tx.nonce < new

\* A later entry never has a lower nonce than all the calls of an earlier one.
NoncesInOrder ==
    ~blind => \A i, j \in DOMAIN Entries : \A t \in txs :
        (i < j /\ t.call = Entries[j] /\ executed[Entries[i]] = 0)
            => \/ Dropped(Entries[i])
               \/ \E u \in txs : u.call = Entries[i] /\ u.nonce <= t.nonce

\* An account has had executed what is complete, what it has a receipt of, and
\* all that comes before the entry in flight.
AccountInv ==
    ~isSafe => /\ \A e \in complete : executed[e] > 0
               /\ stage = "sent" /\ Task \in Actions => executed[Task] > 0
               /\ \A i, j \in DOMAIN Entries :
                      i < j /\ Entries[j] \in inFlight => executed[Entries[i]] > 0

OrderInv == ServiceKnown /\ PassedSettled /\ FreshNonce /\ NoncesInOrder /\ OrderKept

\* The entries are the first tasks; other signers propose nothing of them.
LEMMA EntryTasks ==
    /\ \A i \in DOMAIN Entries : /\ i \in DOMAIN Tasks /\ Tasks[i] = Entries[i]
                                 /\ Entries[i] \in Actions /\ Entries[i] # Other
    /\ \A i, j \in DOMAIN Entries : Entries[i] = Entries[j] => i = j
    /\ \A e \in Actions : e # Other /\ \E i \in DOMAIN Entries : e = Entries[i]
    /\ DOMAIN Entries \subseteq Nat
<1>1. Entries \in Seq({Entries[i] : i \in DOMAIN Entries})
      /\ Contracts \in Seq({Contracts[i] : i \in DOMAIN Contracts})
  BY CallsAssumption DEF CallsAreDistinct
<1> DEFINE T == {Entries[i] : i \in DOMAIN Entries} \cup {Contracts[i] : i \in DOMAIN Contracts}
<1>2. Entries \in Seq(T) /\ Contracts \in Seq(T)
  BY CallsAssumption DEF CallsAreDistinct
<1>3. /\ Len(Entries) \in Nat /\ Len(Contracts) \in Nat
      /\ DOMAIN Entries = 1..Len(Entries)
      /\ DOMAIN Tasks = 1..(Len(Entries) + Len(Contracts))
      /\ \A i \in 1..Len(Entries) : Tasks[i] = Entries[i]
  BY <1>2, ConcatProperties, LenProperties DEF Tasks
<1> QED
  BY <1>3, CallsAssumption DEF CallsAreDistinct, Actions

\* The highest nonce of the service.
LEMMA HighestNonce ==
    ASSUME \A tx \in txs : tx.nonce \in 0..MaxNonce, txs # {}
    PROVE  /\ Highest \in Nat
           /\ \A tx \in txs : tx.nonce <= Highest
<1> DEFINE Bounds == {n \in 0..MaxNonce : \A tx \in txs : tx.nonce <= n}
<1>1. MaxNonce \in Bounds /\ Bounds \subseteq Nat
  BY NonceAssumption
<1>2. PICK n \in Bounds : \A m \in Bounds : n <= m
  BY <1>1, LeastElement
<1>3. \E tx \in txs : tx.nonce = n
  <2> SUFFICES ASSUME \A tx \in txs : tx.nonce # n PROVE FALSE
    OBVIOUS
  <2>1. \A tx \in txs : tx.nonce \in Nat /\ tx.nonce < n
    BY NonceAssumption
  <2>2. n \in 1..MaxNonce
    BY <2>1, NonceAssumption
  <2>3. n - 1 \in Bounds
    BY <2>1, <2>2, NonceAssumption
  <2> QED
    BY <1>2, <2>2, <2>3, NonceAssumption
<1>4. \E m \in 0..MaxNonce : (\E tx \in txs : tx.nonce = m) /\ \A tx \in txs : tx.nonce <= m
  BY <1>2, <1>3
<1> QED
  BY <1>4, NonceAssumption DEF Highest

\* What has been handed over stays so.
LEMMA SettledStays ==
    ASSUME \A e \in Actions : executed[e] > 0 => executed'[e] > 0,
           complete \subseteq complete',
           \A t \in txs : \E u \in txs' : u.call = t.call,
           NEW e \in Actions, Settled(e)
    PROVE  Settled(e)'
BY DEF Settled

\* At first nothing has been handed over.
LEMMA OrderInit == Init => OrderInv /\ AccountInv
<1> SUFFICES ASSUME Init PROVE OrderInv /\ AccountInv
  OBVIOUS
<1>1. ServiceKnown /\ FreshNonce /\ NoncesInOrder
  BY DEF Init, ServiceKnown, FreshNonce, NoncesInOrder
<1>2. PassedSettled
  BY TasksDistinct DEF Init, PassedSettled
<1>3. OrderKept /\ AccountInv
  BY EntryTasks DEF Init, OrderKept, AccountInv
<1> QED
  BY <1>1, <1>2, <1>3 DEF OrderInv

\* Steps that leave the service and the chain alone keep the order.
LEMMA OrderStays ==
    ASSUME OrderInv, UNCHANGED <<executed, txs, nonce>>, complete \subseteq complete',
           complete' \subseteq Actions, blind => blind',
           staged' \in {staged, txs, {}}, isSafe' = isSafe, PassedSettled', FreshNonce'
    PROVE  OrderInv'
<1>1. ServiceKnown'
  BY DEF OrderInv, ServiceKnown
<1>2. \A e : /\ Dropped(e) => Dropped(e)'
             /\ Superseded(e) => Superseded(e)'
  BY DEF Dropped, Superseded
<1>3. NoncesInOrder'
  BY <1>2 DEF OrderInv, NoncesInOrder
<1>4. OrderKept'
  BY <1>2 DEF OrderInv, OrderKept
<1> QED
  BY <1>1, <1>3, <1>4 DEF OrderInv

\* The command goes on, stops or starts.
LEMMA OrderQuiet ==
    ASSUME BaseInv, OrderInv, Ends \/ Start \/ Skip \/ Approved \/ Record \/ Elsewhere
    PROVE  OrderInv'
<1>1. /\ UNCHANGED <<isSafe, executed, txs, nonce, blind>> /\ complete \subseteq complete'
      /\ staged' \in {staged, txs, {}}
  BY DEF Ends, Stop, Start, Skip, Approved, Record, Elsewhere, chainVars
<1>2. complete' \subseteq Actions
  BY DEF OrderInv, ServiceKnown, Ends, Start, Skip, Approved, Record, Elsewhere
<1>3. \A e \in Actions : Settled(e) => Settled(e)'
  BY <1>1 DEF Settled
<1>4. DOMAIN Tasks \subseteq Nat \ {0} /\ task \in Nat
  BY TasksDistinct DEF BaseInv, Inv, TypeInv
<1> PICK n \in Nat : n = task
  BY <1>4
<1>5. FreshNonce'
  <2>1. ASSUME stage' = "check" PROVE FreshNonce'
    BY <2>1 DEF FreshNonce
  <2>2. CASE Ends \/ Start \/ Skip \/ Record
    BY <2>1, <2>2 DEF Ends, Stop, Start, Skip, Record
  <2>3. CASE Approved \/ Elsewhere
    BY <1>1, <2>3 DEF Approved, Elsewhere, FreshNonce, OrderInv
  <2> QED
    BY <2>2, <2>3
<1>6. PassedSettled'
  <2>1. CASE Ends \/ Start
    BY <1>4, <2>1 DEF Ends, Stop, Start, PassedSettled
  <2>2. CASE Approved \/ Elsewhere
    BY <1>3, <2>2 DEF Approved, Elsewhere, PassedSettled, OrderInv
  <2>3. ASSUME task' = n + 1, Tasks[n] \in Actions => Settled(Tasks[n])' PROVE PassedSettled'
    <3> SUFFICES ASSUME NEW k \in DOMAIN Tasks, k < task', Tasks[k] \in Actions
                 PROVE  Settled(Tasks[k])'
      BY DEF PassedSettled
    <3>1. CASE k = n
      BY <2>3, <3>1
    <3>2. CASE k < n
      BY <1>3, <3>2 DEF PassedSettled, OrderInv
    <3> QED
      BY <1>4, <2>3, <3>1, <3>2
  <2>4. CASE Skip
    <3>1. Task \in Actions => Task \notin Owned
      BY CallsAssumption DEF CallsAreDistinct, Actions, Owned
    <3>2. Task \in Actions => Task \in complete \/ Existing(Task)
      BY <2>4, <3>1 DEF Skip, ToDo
    <3>3. Existing(Task) => \E tx \in txs : tx.call = Task
      BY DEF Existing, OrderInv, ServiceKnown
    <3>4. Tasks[n] \in Actions => Settled(Tasks[n])
      BY <3>2, <3>3 DEF Settled, Task
    <3> QED
      BY <1>3, <2>3, <2>4, <3>4 DEF Skip
  <2>5. CASE Record
    <3>1. Tasks[n] \in Actions => Tasks[n] \in complete'
      BY <2>5 DEF Record, Task
    <3>2. Tasks[n] \in Actions => Settled(Tasks[n])'
      BY <3>1 DEF Settled
    <3> QED
      BY <2>3, <2>5, <3>2 DEF Record
  <2> QED
    BY <2>1, <2>2, <2>4, <2>5
<1> QED
  BY <1>1, <1>2, <1>5, <1>6, OrderStays

\* The nonce is read from the last transaction of the service.
LEMMA OrderNonce ==
    ASSUME BaseInv, OrderInv, TakeNonce
    PROVE  OrderInv'
<1>1. /\ UNCHANGED <<isSafe, executed, txs, nonce, complete, staged, task>>
      /\ blind => blind'
      /\ new' \in 0..MaxNonce
      /\ ~blind' => new' = NextNonce
  BY DEF TakeNonce, chainVars
<1>2. complete' \subseteq Actions
  BY <1>1 DEF OrderInv, ServiceKnown
<1>3. FreshNonce'
  <2>1. ASSUME ~blind', NEW tx \in txs PROVE tx.nonce < new'
    <3>1. new' = Highest + 1
      BY <1>1, <2>1 DEF NextNonce
    <3>2. Highest \in Nat /\ tx.nonce <= Highest /\ tx.nonce \in Nat
      BY HighestNonce, NonceAssumption DEF OrderInv, ServiceKnown
    <3> QED
      BY <3>1, <3>2
  <2> QED
    BY <1>1, <2>1 DEF FreshNonce
<1>4. PassedSettled'
  BY <1>1 DEF OrderInv, PassedSettled, Settled
<1> QED
  BY <1>1, <1>2, <1>3, <1>4, OrderStays

\* Other signers change nothing of the entries.
LEMMA OrderProposed ==
    ASSUME BaseInv, OrderInv, Propose
    PROVE  OrderInv'
<1>1. UNCHANGED <<isSafe, executed, nonce, complete, staged, task, stage, new, blind>>
  BY DEF Propose, chainVars, commandVars
<1>2. PICK n \in nonce..NextNonce :
          /\ n <= MaxNonce
          /\ txs' = txs \cup {[nonce |-> n, call |-> Other, done |-> FALSE]}
  BY DEF Propose
<1> DEFINE h == [nonce |-> n, call |-> Other, done |-> FALSE]
<1>3. /\ txs' = txs \cup {h} /\ h.call = Other /\ h.nonce \in 0..MaxNonce
      /\ h.done = FALSE
  BY <1>2, NonceAssumption DEF BaseInv, Inv, TypeInv
<1> HIDE DEF h
<1>4. \A e \in Actions : /\ Dropped(e) => Dropped(e)'
                         /\ Superseded(e) => Superseded(e)'
                         /\ Settled(e) => Settled(e)'
  BY <1>1, <1>3, EntryTasks DEF Dropped, Superseded, Settled
<1>5. ServiceKnown'
  BY <1>1, <1>3 DEF OrderInv, ServiceKnown
<1>6. PassedSettled'
  BY <1>1, <1>4 DEF OrderInv, PassedSettled
<1>7. FreshNonce'
  BY <1>1, <1>3 DEF OrderInv, FreshNonce
<1>8. NoncesInOrder'
  <2> SUFFICES ASSUME ~blind, NEW i \in DOMAIN Entries, NEW j \in DOMAIN Entries,
                      NEW t \in txs', i < j, t.call = Entries[j], executed[Entries[i]] = 0
               PROVE  \/ Dropped(Entries[i])'
                      \/ \E u \in txs' : u.call = Entries[i] /\ u.nonce <= t.nonce
    BY <1>1 DEF NoncesInOrder
  <2>1. t \in txs /\ Entries[i] \in Actions
    BY <1>3, EntryTasks
  <2>2. \/ Dropped(Entries[i])
        \/ \E u \in txs : u.call = Entries[i] /\ u.nonce <= t.nonce
    BY <2>1 DEF OrderInv, NoncesInOrder
  <2> QED
    BY <1>3, <1>4, <2>1, <2>2
<1>9. OrderKept'
  BY <1>1, <1>4, EntryTasks DEF OrderInv, OrderKept
<1> QED
  BY <1>5, <1>6, <1>7, <1>8, <1>9 DEF OrderInv

\* A call is handed over under a nonce above those of all earlier ones, when all
\* earlier entries have been handed over.
LEMMA OrderSubmitted ==
    ASSUME BaseInv, OnceInv, OrderInv, Submit
    PROVE  OrderInv'
<1>1. /\ UNCHANGED <<isSafe, executed, nonce, complete, staged, task, new, blind>>
      /\ isSafe /\ stage = "approved" /\ stage' = "sent" /\ Task' = Task
  BY DEF Submit, chainVars, Task, BaseInv, NoSafeNoTxs
<1> DEFINE h == [nonce |-> new, call |-> Task, done |-> FALSE]
<1>2. /\ txs' = txs \/ txs' = txs \cup {h}
      /\ h.call = Task /\ h.nonce = new /\ h.done = FALSE
  BY DEF Submit
<1> HIDE DEF h
<1>3. /\ task \in DOMAIN Tasks /\ Task = Tasks[task]
      /\ Task \in Actions => Task \notin complete
  BY <1>1 DEF BaseInv, Inv, TypeInv, OnceInv, NotNoted, Task
<1>4. \A e \in Actions : /\ Dropped(e) => Dropped(e)'
                         /\ Superseded(e) => Superseded(e)'
                         /\ Settled(e) => Settled(e)'
  BY <1>1, <1>2, <1>3 DEF Dropped, Superseded, Settled
<1>5. ServiceKnown'
  <2>1. new \in 0..MaxNonce
    BY <1>1 DEF OrderInv, FreshNonce
  <2> QED
    BY <1>1, <1>2, <2>1 DEF OrderInv, ServiceKnown
<1>6. PassedSettled'
  BY <1>1, <1>4 DEF OrderInv, PassedSettled
<1>7. FreshNonce'
  BY <1>1 DEF FreshNonce
<1>8. NoncesInOrder'
  <2> SUFFICES ASSUME ~blind, NEW i \in DOMAIN Entries, NEW j \in DOMAIN Entries,
                      NEW t \in txs', i < j, t.call = Entries[j], executed[Entries[i]] = 0
               PROVE  \/ Dropped(Entries[i])'
                      \/ \E u \in txs' : u.call = Entries[i] /\ u.nonce <= t.nonce
    BY <1>1 DEF NoncesInOrder
  <2>1. CASE t \in txs
    <3>1. \/ Dropped(Entries[i])
          \/ \E u \in txs : u.call = Entries[i] /\ u.nonce <= t.nonce
      BY <2>1 DEF OrderInv, NoncesInOrder
    <3> QED
      BY <1>2, <1>4, <3>1, EntryTasks
  <2>2. CASE t = h
    <3>1. j = task
      BY <1>2, <1>3, <2>2, EntryTasks, TasksDistinct
    <3>2. Settled(Entries[i])
      BY <3>1, EntryTasks DEF OrderInv, PassedSettled
    <3>3. Entries[i] # Task
      BY <1>3, <3>1, EntryTasks, TasksDistinct
    <3>4. CASE \E u \in txs : u.call = Entries[i]
      <4>1. PICK u \in txs : u.call = Entries[i]
        BY <3>4
      <4>2. u.nonce < new /\ u.nonce \in 0..MaxNonce
        BY <1>1, <4>1, EntryTasks DEF OrderInv, FreshNonce, ServiceKnown
      <4>3. u.nonce <= new
        BY <1>1, <4>2, NonceAssumption DEF OrderInv, FreshNonce
      <4> QED
        BY <1>2, <2>2, <4>1, <4>3
    <3>5. CASE ~\E u \in txs : u.call = Entries[i]
      <4>1. Entries[i] \in complete
        BY <3>2, <3>5 DEF Settled
      <4> QED
        BY <1>1, <1>2, <3>3, <3>5, <4>1 DEF Dropped
    <3> QED
      BY <3>4, <3>5
  <2> QED
    BY <1>2, <2>1, <2>2
<1>9. OrderKept'
  BY <1>1, <1>4, EntryTasks DEF OrderInv, OrderKept
<1> QED
  BY <1>5, <1>6, <1>7, <1>8, <1>9 DEF OrderInv

\* An account sends a call when it has sent all earlier ones.
LEMMA OrderSent ==
    ASSUME BaseInv, OnceInv, OrderInv, AccountInv, Sent
    PROVE  OrderInv'
<1>1. /\ UNCHANGED <<txs, nonce, complete, staged, task, new, blind>>
      /\ isSafe' = isSafe /\ ~isSafe
      /\ stage' = "sent" /\ task \in DOMAIN Tasks /\ Task = Tasks[task]
  BY DEF Sent, Sending, Task
<1>2. txs = {}
  BY DEF Sent, Sending, BaseInv, NoSafeNoTxs
<1>3. \A e \in Actions : /\ executed[e] > 0 => executed'[e] > 0
                         /\ executed'[e] > 0 => executed[e] > 0 \/ e = Task
                         /\ executed'[e] = 0 => executed[e] = 0
  BY DEF Sent, Effect, OnceInv
<1>4. \A e \in Actions : Settled(e) => Settled(e)'
  BY <1>1, <1>3 DEF Settled
<1>5. ServiceKnown' /\ FreshNonce' /\ NoncesInOrder'
  BY <1>1, <1>2 DEF OrderInv, ServiceKnown, FreshNonce, NoncesInOrder
<1>6. PassedSettled'
  BY <1>1, <1>4 DEF OrderInv, PassedSettled
<1>7. OrderKept'
  <2> SUFFICES ASSUME ~blind, NEW i \in DOMAIN Entries, NEW j \in DOMAIN Entries, i < j,
                      executed'[Entries[j]] > 0, executed'[Entries[i]] = 0
               PROVE  Superseded(Entries[i])' \/ Dropped(Entries[i])'
    BY <1>1 DEF OrderKept
  <2>1. executed[Entries[i]] = 0
    BY <1>3, EntryTasks
  <2>2. CASE executed[Entries[j]] > 0
    <3>1. Superseded(Entries[i]) \/ Dropped(Entries[i])
      BY <2>1, <2>2 DEF OrderInv, OrderKept
    <3> QED
      BY <1>1, <3>1 DEF Superseded, Dropped
  <2>3. CASE Entries[j] = Task
    <3>1. j = task
      BY <1>1, <2>3, EntryTasks, TasksDistinct
    <3>2. Settled(Entries[i])
      BY <3>1, EntryTasks DEF OrderInv, PassedSettled
    <3> QED
      BY <1>1, <1>2, <2>1, <3>2 DEF Settled, AccountInv
  <2> QED
    BY <1>3, <2>2, <2>3, EntryTasks
<1> QED
  BY <1>5, <1>6, <1>7 DEF OrderInv

\* When a later entry is executed, the nonce of an earlier one is used up.
LEMMA OrderExecuted ==
    ASSUME BaseInv, OnceInv, OrderInv, Execute
    PROVE  OrderInv'
<1> PICK tx \in txs : /\ tx.nonce = nonce /\ ~tx.done
                      /\ Effect(tx.call)
                      /\ txs' = (txs \ {tx})
                                    \cup {[nonce |-> nonce, call |-> tx.call, done |-> TRUE]}
  BY DEF Execute
<1> DEFINE h == [nonce |-> nonce, call |-> tx.call, done |-> TRUE]
<1>1. /\ UNCHANGED <<isSafe, complete, staged, task, stage, new, blind>>
      /\ nonce' = nonce + 1
      /\ nonce \in Nat
  BY DEF Execute, commandVars, BaseInv, Inv, TypeInv
<1>2. /\ txs' = (txs \ {tx}) \cup {h}
      /\ h.call = tx.call /\ h.nonce = tx.nonce /\ h.done = TRUE
  OBVIOUS
<1> HIDE DEF h
<1>3. /\ \A e \in Actions : /\ executed[e] > 0 => executed'[e] > 0
                            /\ executed'[e] > 0 => executed[e] > 0 \/ e = tx.call
                            /\ executed'[e] = 0 => executed[e] = 0 /\ e # tx.call
      /\ tx.call \in Actions => executed'[tx.call] > 0
  BY DEF Effect, OnceInv
<1>4. /\ \A t \in txs : \E u \in txs' : u.call = t.call /\ u.nonce = t.nonce
      /\ \A u \in txs' : \E t \in txs : u.call = t.call /\ u.nonce = t.nonce
  BY <1>2
<1>5. \A e \in Actions : /\ Dropped(e) => Dropped(e)'
                         /\ Settled(e) => Settled(e)'
  BY <1>1, <1>3, <1>4 DEF Dropped, Settled
<1>6. ServiceKnown'
  BY <1>1, <1>2, <1>3 DEF OrderInv, ServiceKnown
<1>7. PassedSettled'
  BY <1>1, <1>5 DEF OrderInv, PassedSettled
<1>8. FreshNonce'
  BY <1>1, <1>4 DEF OrderInv, FreshNonce
<1>9. NoncesInOrder'
  <2> SUFFICES ASSUME ~blind, NEW i \in DOMAIN Entries, NEW j \in DOMAIN Entries,
                      NEW t \in txs', i < j, t.call = Entries[j], executed'[Entries[i]] = 0
               PROVE  \/ Dropped(Entries[i])'
                      \/ \E u \in txs' : u.call = Entries[i] /\ u.nonce <= t.nonce
    BY <1>1 DEF NoncesInOrder
  <2>1. PICK t0 \in txs : t.call = t0.call /\ t.nonce = t0.nonce
    BY <1>4
  <2>2. executed[Entries[i]] = 0
    BY <1>3, EntryTasks
  <2>3. \/ Dropped(Entries[i])
        \/ \E u \in txs : u.call = Entries[i] /\ u.nonce <= t.nonce
    <3>1. t0.call = Entries[j]
      BY <2>1
    <3>2. \/ Dropped(Entries[i])
          \/ \E u \in txs : u.call = Entries[i] /\ u.nonce <= t0.nonce
      BY <2>2, <3>1 DEF OrderInv, NoncesInOrder
    <3> QED
      BY <2>1, <3>2
  <2>4. ASSUME NEW u \in txs, u.call = Entries[i], u.nonce <= t.nonce
        PROVE  \E w \in txs' : w.call = Entries[i] /\ w.nonce <= t.nonce
    BY <1>4, <2>4
  <2> QED
    BY <1>5, <2>3, <2>4, EntryTasks
<1>10. OrderKept'
  <2> SUFFICES ASSUME ~blind, NEW i \in DOMAIN Entries, NEW j \in DOMAIN Entries, i < j,
                      executed'[Entries[j]] > 0, executed'[Entries[i]] = 0
               PROVE  Superseded(Entries[i])' \/ Dropped(Entries[i])'
    BY <1>1 DEF OrderKept
  <2>1. executed[Entries[i]] = 0 /\ Entries[i] # tx.call /\ Entries[i] \in Actions
    BY <1>3, EntryTasks
  <2>2. ASSUME NEW u \in txs, u.call = Entries[i], ~u.done, u.nonce < nonce'
        PROVE  Superseded(Entries[i])'
    <3>1. u \in txs'
      BY <1>2, <2>1, <2>2
    <3> QED
      BY <2>2, <3>1 DEF Superseded
  <2>3. CASE executed[Entries[j]] > 0
    <3>1. Superseded(Entries[i]) \/ Dropped(Entries[i])
      BY <2>1, <2>3 DEF OrderInv, OrderKept
    <3>2. ASSUME Superseded(Entries[i]) PROVE Superseded(Entries[i])'
      <4>1. PICK u \in txs : u.call = Entries[i] /\ ~u.done /\ u.nonce < nonce
        BY <3>2 DEF Superseded
      <4>2. u.nonce < nonce'
        BY <1>1, <4>1, NonceAssumption DEF OrderInv, ServiceKnown
      <4> QED
        BY <2>2, <4>1, <4>2
    <3> QED
      BY <1>5, <2>1, <3>1, <3>2
  <2>4. CASE Entries[j] = tx.call
    <3>1. \/ Dropped(Entries[i])
          \/ \E u \in txs : u.call = Entries[i] /\ u.nonce <= tx.nonce
      BY <2>1, <2>4 DEF OrderInv, NoncesInOrder
    <3>2. ASSUME NEW u \in txs, u.call = Entries[i], u.nonce <= tx.nonce
          PROVE  Superseded(Entries[i])'
      <4>1. ~u.done
        BY <2>1, <3>2 DEF OrderInv, ServiceKnown
      <4>2. u.nonce < nonce'
        BY <1>1, <3>2, NonceAssumption DEF OrderInv, ServiceKnown
      <4> QED
        BY <2>2, <3>2, <4>1, <4>2
    <3> QED
      BY <1>5, <2>1, <3>1, <3>2
  <2> QED
    BY <1>3, <2>3, <2>4, EntryTasks
<1> QED
  BY <1>6, <1>7, <1>8, <1>9, <1>10 DEF OrderInv

\* What an account has in flight comes after nothing that is not executed.
LEMMA OrderLate ==
    ASSUME BaseInv, OnceInv, OrderInv, AccountInv, Late
    PROVE  OrderInv'
<1> PICK call \in inFlight :
        executed' = IF call \in Actions THEN [executed EXCEPT ![call] = @ + 1] ELSE executed
  BY DEF Late
<1>1. /\ UNCHANGED <<txs, nonce, complete, staged, task, stage, new, blind>>
      /\ isSafe' = isSafe /\ ~isSafe
  BY DEF Late, BaseInv, NoSafeNoTxs
<1>2. txs = {}
  BY <1>1 DEF BaseInv, NoSafeNoTxs
<1>3. \A e \in Actions : /\ executed[e] > 0 => executed'[e] > 0
                         /\ executed'[e] > 0 => executed[e] > 0 \/ e = call
                         /\ executed'[e] = 0 => executed[e] = 0
  BY DEF OnceInv
<1>4. \A e \in Actions : Settled(e) => Settled(e)'
  BY <1>1, <1>3 DEF Settled
<1>5. ServiceKnown' /\ FreshNonce' /\ NoncesInOrder'
  BY <1>1, <1>2 DEF OrderInv, ServiceKnown, FreshNonce, NoncesInOrder
<1>6. PassedSettled'
  BY <1>1, <1>4 DEF OrderInv, PassedSettled
<1>7. OrderKept'
  <2> SUFFICES ASSUME ~blind, NEW i \in DOMAIN Entries, NEW j \in DOMAIN Entries, i < j,
                      executed'[Entries[j]] > 0, executed'[Entries[i]] = 0
               PROVE  Superseded(Entries[i])' \/ Dropped(Entries[i])'
    BY <1>1 DEF OrderKept
  <2>1. executed[Entries[i]] = 0
    BY <1>3, EntryTasks
  <2>2. CASE executed[Entries[j]] > 0
    <3>1. Superseded(Entries[i]) \/ Dropped(Entries[i])
      BY <2>1, <2>2 DEF OrderInv, OrderKept
    <3> QED
      BY <1>1, <3>1 DEF Superseded, Dropped
  <2>3. CASE Entries[j] = call
    BY <1>1, <2>1, <2>3 DEF AccountInv
  <2> QED
    BY <1>3, <2>2, <2>3, EntryTasks
<1> QED
  BY <1>5, <1>6, <1>7 DEF OrderInv

\* An account sends an entry when all earlier ones are executed, and notes it when
\* it is executed itself.
LEMMA AccountStep == BaseInv /\ OnceInv /\ OrderInv /\ AccountInv /\ [Next]_vars => AccountInv'
<1> SUFFICES ASSUME BaseInv, OnceInv, OrderInv, AccountInv, [Next]_vars, ~isSafe'
             PROVE  AccountInv'
  BY DEF AccountInv
<1>1. CASE ~isSafe /\ (Ends \/ Start \/ Skip \/ Record \/ Elsewhere)
  <2>1. executed' = executed /\ isSafe' = isSafe
    BY <1>1 DEF Ends, Start, Skip, Record, Elsewhere, chainVars
  <2>2. \A e \in complete' : executed[e] > 0
    BY <1>1 DEF Ends, Start, Skip, Record, Elsewhere, AccountInv
  <2>3. stage' = "sent" /\ Task' \in Actions => executed[Task'] > 0
    BY <1>1 DEF Ends, Stop, Start, Skip, Record, Elsewhere, AccountInv, Task
  <2>4. ASSUME NEW i \in DOMAIN Entries, NEW j \in DOMAIN Entries, i < j,
               Entries[j] \in inFlight'
        PROVE  executed[Entries[i]] > 0
    <3>1. CASE inFlight' = inFlight
      BY <1>1, <2>4, <3>1 DEF AccountInv
    <3>2. CASE Sending /\ inFlight' = {Task}
      <4>1. j = task
        BY <2>4, <3>2, EntryTasks, TasksDistinct DEF Sending, Task
      <4>2. Settled(Entries[i])
        BY <2>4, <4>1, EntryTasks DEF OrderInv, PassedSettled
      <4>3. txs = {}
        BY <1>1 DEF BaseInv, NoSafeNoTxs
      <4> QED
        BY <1>1, <4>2, <4>3 DEF Settled, AccountInv
    <3> QED
      BY <1>1, <3>1, <3>2 DEF Ends, Start, Skip, Record, Elsewhere
  <2> QED
    BY <2>1, <2>2, <2>3, <2>4 DEF AccountInv
<1>2. CASE Sent \/ Late
  <2>1. /\ isSafe' = isSafe /\ complete' = complete /\ inFlight' = {} /\ Task' = Task
        /\ complete \subseteq Actions
    BY <1>2 DEF Sent, Late, Task, OrderInv, ServiceKnown
  <2>2. PICK call : executed' = IF call \in Actions THEN [executed EXCEPT ![call] = @ + 1]
                                ELSE executed
    BY <1>2 DEF Sent, Late, Effect
  <2>3. \A e \in Actions : executed[e] > 0 => executed'[e] > 0
    BY <2>2 DEF OnceInv
  <2>4. stage' = "sent" /\ Task \in Actions => executed'[Task] > 0
    <3>1. CASE Sent
      BY <3>1 DEF Sent, Effect, OnceInv
    <3>2. CASE Late
      BY <2>1, <2>3, <3>2 DEF Late, AccountInv
    <3> QED
      BY <1>2, <3>1, <3>2
  <2> QED
    BY <2>1, <2>3, <2>4 DEF AccountInv
<1>3. CASE TakeNonce \/ Approved \/ Submit \/ Execute \/ Propose
  BY <1>3 DEF TakeNonce, Approved, Submit, Execute, Propose, BaseInv, NoSafeNoTxs
<1>4. CASE Ends \/ Start \/ Skip \/ Record \/ Elsewhere
  <2>1. ~isSafe
    BY <1>4 DEF Ends, Start, Skip, Record, Elsewhere
  <2> QED
    BY <1>1, <1>4, <2>1
<1> QED
  BY <1>2, <1>3, <1>4, StepCases

\* Every step keeps the order.
LEMMA OrderStep ==
    BaseInv /\ OnceInv /\ OrderInv /\ AccountInv /\ [Next]_vars => OrderInv' /\ AccountInv'
<1> SUFFICES ASSUME BaseInv, OnceInv, OrderInv, AccountInv, [Next]_vars
             PROVE  OrderInv' /\ AccountInv'
  OBVIOUS
<1>1. OrderInv'
  BY StepCases, OrderQuiet, OrderNonce, OrderProposed, OrderSubmitted, OrderSent, OrderLate,
     OrderExecuted
<1> QED
  BY <1>1, AccountStep

\* As long as the last transaction of the service could be read each time, entries
\* are executed in the order of owner-actions.json, or an earlier one that was
\* handed over has lost its nonce or never reached the service: whatever dies,
\* is run again or is proposed by others in between (owner.js, safe-utils.js).
THEOREM OrderAlwaysKept == Spec => []OrderKept
<1>1. OrderInv => OrderKept
  BY DEF OrderInv
<1> QED
  BY <1>1, BaseInit, BaseStep, OnceInit, OnceStep, OrderInit, OrderStep, PTL DEF Spec
=============================================================================
