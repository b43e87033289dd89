---------------------------- MODULE LedgerProofs ----------------------------
(***************************************************************************)
(* The bridge implements TransferLedger, for any number of chains,         *)
(* accounts and validators; it conserves what the accounts hold and have   *)
(* in flight, and its counters agree across the chains.                    *)
(***************************************************************************)
EXTENDS BridgeProofs

-----------------------------------------------------------------------------
(* The refinement mapping.                                                 *)

IsTransfer(t, c, o) ==
    c \in Chains /\ o \in 1..Len(outboundings[c]) /\ t = TransferOf(c, o)

\* The members of the three sets of transfers, and their number of them.
LEMMA Members ==
    /\ \A t : t \in Transfers(Unregistered) <=>
                  \E c, o : IsTransfer(t, c, o) /\ ~Registered(c, o)
    /\ \A t : t \in Transfers(Unclaimed) <=>
                  \E c, o : IsTransfer(t, c, o) /\ Registered(c, o) /\ ~Claimed(c, o)
    /\ \A t : t \in Transfers(Claimed) <=>
                  \E c, o : IsTransfer(t, c, o) /\ Claimed(c, o)
  BY DEF Transfers, Unregistered, Unclaimed, IsTransfer

\* The three sets of transfers after a step, by their members.
LEMMA NextMembers ==
    /\ \A t : t \in Transfers(Unregistered)' <=>
                  \E c, o : IsTransfer(t, c, o)' /\ ~Registered(c, o)'
    /\ \A t : t \in Transfers(Unclaimed)' <=>
                  \E c, o : IsTransfer(t, c, o)' /\ Registered(c, o)' /\ ~Claimed(c, o)'
    /\ \A t : t \in Transfers(Claimed)' <=>
                  \E c, o : IsTransfer(t, c, o)' /\ Claimed(c, o)'
  BY DEF Transfers, Unregistered, Unclaimed, IsTransfer

\* A registered id is the one of a request for the chain that has it, and that
\* chain has an entry of the request.
LEMMA RegisteredRequest ==
    ASSUME IndInv, NEW c \in Chains, NEW d \in Chains, NEW o,
           <<c, o>> \in srcOutboundingIdRegistered[d]
    PROVE  /\ o \in 1..Len(outboundings[c])
           /\ outboundings[c][o].destChainId = d
           /\ \E i \in 1..Len(inboundings[d]) :
                  /\ inboundings[d][i].srcChainId = c
                  /\ inboundings[d][i].srcOutboundingId = o
                  /\ inboundings[d][i].account = outboundings[c][o].account
                  /\ inboundings[d][i].amount = outboundings[c][o].amount
                  /\ inboundings[d][i].sign = outboundings[c][o].sign
<1>1. PICK i \in 1..Len(inboundings[d]) : /\ inboundings[d][i].srcChainId = c
                                          /\ inboundings[d][i].srcOutboundingId = o
  BY DEF IndInv, RelayedOnce
<1>2. FaithfulEntry(d, i)
  BY DEF IndInv, RelayedOnce
<1>3. inboundings[d][i] \in Inbounding /\ Len(outboundings[c]) \in Nat
  <2>1. inboundings[d] \in Seq(Inbounding) /\ outboundings[c] \in Seq(Outbounding)
    BY DEF IndInv, TypeOK
  <2> QED
    BY <2>1, ElementOfSeq, LenProperties
<1>4. o \in Nat \ {0}
  BY <1>1, <1>3 DEF Inbounding
<1> QED
  BY <1>1, <1>2, <1>3, <1>4 DEF FaithfulEntry

\* What is claimed at its destination is registered there.
LEMMA ClaimedRegistered ==
    ASSUME IndInv, NEW c \in Chains, NEW o \in 1..Len(outboundings[c]), Claimed(c, o)
    PROVE  Registered(c, o)
<1> DEFINE d == outboundings[c][o].destChainId
<1>1. outboundings[c][o] \in Outbounding
  BY DEF IndInv, TypeOK
<1>2. d \in Chains
  BY <1>1 DEF Outbounding
<1>3. PICK i \in 1..Len(inboundings[d]) : /\ inboundings[d][i].srcChainId = c
                                          /\ inboundings[d][i].srcOutboundingId = o
  BY DEF Claimed
<1>4. FaithfulEntry(d, i)
  BY <1>2 DEF IndInv, RelayedOnce
<1> QED
  BY <1>3, <1>4 DEF FaithfulEntry, Registered

-----------------------------------------------------------------------------
(* The steps.                                                              *)

\* What a request changes: there is one transfer more, unknown to its destination.
LEMMA SendEffect ==
    ASSUME IndInv, NEW c \in Chains, NEW a \in Accounts, NEW amount \in Amounts,
           NEW d \in Chains, NEW sign \in Signatures,
           OverchainTransfer(c, a, amount, d, sign)
    PROVE  LET n == Len(outboundings[c])
           IN  /\ n \in Nat
               /\ n < MaxOutboundings[c]
               /\ Len(outboundings'[c]) = n + 1
               /\ outboundings'[c][n + 1].account = a
               /\ outboundings'[c][n + 1].amount = amount
               /\ outboundings'[c][n + 1].destChainId = d
               /\ outboundings'[c][n + 1].sign = sign
               /\ \A o \in 1..n : outboundings'[c][o] = outboundings[c][o]
               /\ \A b \in Chains \ {c} : outboundings'[b] = outboundings[b]
               /\ UNCHANGED <<inboundings, srcOutboundingIdRegistered>>
<1> DEFINE n == Len(outboundings[c])
           out == [account |-> a, amount |-> amount, destChainId |-> d,
                   periodId |-> currentOutboundPeriodId(c), sign |-> sign]
<1>1. /\ n < MaxOutboundings[c]
      /\ outboundings' = [outboundings EXCEPT ![c] = Append(outboundings[c], out)]
      /\ UNCHANGED <<inboundings, srcOutboundingIdRegistered>>
  BY DEF OverchainTransfer, listVars
<1>2. outboundings \in [Chains -> Seq(Outbounding)] /\ n \in Nat
  <2>1. outboundings \in [Chains -> Seq(Outbounding)]
    BY DEF IndInv, TypeOK
  <2> QED
    BY <2>1, LenProperties
<1>3. outboundings'[c] = Append(outboundings[c], out)
  BY <1>1, <1>2
<1>4. /\ Len(outboundings'[c]) = n + 1
      /\ outboundings'[c][n + 1] = out
      /\ \A o \in 1..n : outboundings'[c][o] = outboundings[c][o]
  <2> HIDE DEF out
  <2> QED
    BY <1>2, <1>3
<1>5. \A b \in Chains \ {c} : outboundings'[b] = outboundings[b]
  <2> HIDE DEF out
  <2> QED
    BY <1>1, <1>2
<1> QED
  BY <1>1, <1>2, <1>4, <1>5

\* A burn is the Send of the ledger: one transfer more that is not yet arrived.
LEMMA SendStep ==
    ASSUME IndInv, NEW c \in Chains, NEW a \in Accounts, NEW amount \in Amounts,
           NEW d \in Chains, NEW sign \in Signatures,
           OverchainTransfer(c, a, amount, d, sign)
    PROVE  \E t \in Ledger!Transfer : Ledger!Send(t)
<1>0. PICK n : n = Len(outboundings[c])
  OBVIOUS
<1> DEFINE t == [src |-> c, id |-> n + 1, account |-> a, amount |-> amount, dest |-> d,
                 signed |-> Verified(a, amount, sign)]
           Inside == Transfers(Unregistered)
           Waiting == Transfers(Unclaimed)
           Done == Transfers(Claimed)
<1>1. /\ n \in Nat
      /\ n < MaxOutboundings[c]
      /\ Len(outboundings[c]) = n
      /\ Len(outboundings'[c]) = n + 1
      /\ outboundings'[c][n + 1].account = a
      /\ outboundings'[c][n + 1].amount = amount
      /\ outboundings'[c][n + 1].destChainId = d
      /\ outboundings'[c][n + 1].sign = sign
      /\ \A o \in 1..n : outboundings'[c][o] = outboundings[c][o]
      /\ \A b \in Chains \ {c} : outboundings'[b] = outboundings[b]
      /\ UNCHANGED <<inboundings, srcOutboundingIdRegistered>>
  BY <1>0, SendEffect
<1>2. ASSUME NEW b \in Chains, NEW o \in 1..Len(outboundings[b])
      PROVE  /\ o \in 1..Len(outboundings'[b])
             /\ TransferOf(b, o)' = TransferOf(b, o)
             /\ Registered(b, o)' <=> Registered(b, o)
             /\ Claimed(b, o)' <=> Claimed(b, o)
  <2>1. outboundings'[b][o] = outboundings[b][o] /\ o \in 1..Len(outboundings'[b])
    BY <1>1
  <2> QED
    BY <1>1, <2>1 DEF TransferOf, Registered, Claimed, Verified
<1>3. TransferOf(c, n + 1)' = t
  BY <1>1 DEF TransferOf, Verified
<1>4. ~Registered(c, n + 1)' /\ ~Claimed(c, n + 1)'
  <2>1. <<c, n + 1>> \notin srcOutboundingIdRegistered[d]
    BY <1>1, RegisteredRequest
  <2>2. ASSUME NEW i \in 1..Len(inboundings[d]), inboundings[d][i].srcChainId = c
        PROVE  inboundings[d][i].srcOutboundingId # n + 1
    <3>1. FaithfulEntry(d, i)
      BY DEF IndInv, RelayedOnce
    <3> QED
      BY <2>1, <2>2, <3>1 DEF FaithfulEntry
  <2> QED
    BY <1>1, <2>1, <2>2 DEF Registered, Claimed
<1>5. ASSUME NEW u, NEW b, NEW o
      PROVE  IsTransfer(u, b, o)' <=> IsTransfer(u, b, o) \/ (b = c /\ o = n + 1 /\ u = t)
  <2> HIDE DEF t
  <2>1. CASE b \in Chains \ {c}
    BY <1>1, <1>2, <2>1 DEF IsTransfer
  <2>2. CASE b = c
    BY <1>1, <1>2, <1>3, <2>2 DEF IsTransfer
  <2>3. CASE b \notin Chains
    BY <2>3 DEF IsTransfer
  <2> QED
    BY <2>1, <2>2, <2>3
<1>6. ASSUME NEW u, NEW b, NEW o, IsTransfer(u, b, o)
      PROVE  /\ Registered(b, o)' <=> Registered(b, o)
             /\ Claimed(b, o)' <=> Claimed(b, o)
  BY <1>2, <1>6 DEF IsTransfer
<1>7. /\ Transfers(Unregistered)' = Inside \cup {t}
      /\ Transfers(Unclaimed)' = Waiting
      /\ Transfers(Claimed)' = Done
  <2> HIDE DEF t
  <2>1. ASSUME NEW u
        PROVE  /\ u \in Transfers(Unregistered)' <=> u \in Inside \cup {t}
               /\ u \in Transfers(Unclaimed)' <=> u \in Waiting
               /\ u \in Transfers(Claimed)' <=> u \in Done
    BY <1>4, <1>5, <1>6, Members, NextMembers
  <2> HIDE DEF Inside, Waiting, Done
  <2> QED
    BY <2>1
<1>8. \A u \in Inside \cup Waiting \cup Done : u.src = c => u.id # n + 1
  <2> SUFFICES ASSUME NEW u \in Inside \cup Waiting \cup Done, u.src = c
               PROVE  u.id # n + 1
    OBVIOUS
  <2>1. PICK b, o : IsTransfer(u, b, o)
    BY Members
  <2> QED
    BY <1>1, <2>1 DEF IsTransfer, TransferOf
<1>9. /\ balanceOf[c][a] >= amount
      /\ balanceOf' = [balanceOf EXCEPT ![c][a] = @ - amount]
  BY DEF OverchainTransfer, CanBurn
<1>10. t \in Ledger!Transfer
  <2>1. n + 1 \in 1..MaxOutboundings[c]
    BY <1>1, BoundsAssumption
  <2>2. n + 1 \in OutboundingIds
    BY <2>1 DEF OutboundingIds
  <2> QED
    BY <2>2 DEF Ledger!Transfer, Verified
<1>11. t.src = c /\ t.id = n + 1 /\ t.account = a /\ t.amount = amount
  OBVIOUS
<1> HIDE DEF t, Inside, Waiting, Done
<1>12. Ledger!Send(t)
  BY <1>7, <1>8, <1>9, <1>11 DEF Ledger!Send, Inside, Waiting, Done
<1> QED
  BY <1>10, <1>12

\* What a claim changes: the entries in the account's list, none of them claimed
\* before, are claimed.
LEMMA ClaimEffect ==
    ASSUME IndInv, NEW d \in Chains, NEW a \in Accounts, ClaimAllBridgedAmounts(d, a),
           NEW ids, ids = accountInboundings[d][a],
           NEW total, total = SumOf(InboundAmounts(d, ids))
    PROVE  /\ ids # <<>> /\ ids \in Seq(Nat \ {0})
           /\ UNCHANGED <<outboundings, srcOutboundingIdRegistered>>
           /\ \A c \in Chains \ {d} : inboundings'[c] = inboundings[c]
           /\ Len(inboundings'[d]) = Len(inboundings[d])
           /\ \A i \in 1..Len(inboundings[d]) :
                  /\ inboundings'[d][i].srcChainId = inboundings[d][i].srcChainId
                  /\ inboundings'[d][i].srcOutboundingId
                         = inboundings[d][i].srcOutboundingId
                  /\ inboundings'[d][i].amount = inboundings[d][i].amount
                  /\ inboundings'[d][i].claimed
                         <=> inboundings[d][i].claimed \/ i \in Range(ids)
           /\ \A i \in Range(ids) :
                  /\ i \in 1..Len(inboundings[d])
                  /\ inboundings[d][i].account = a
                  /\ ~inboundings[d][i].claimed
                  /\ Verified(a, inboundings[d][i].amount, inboundings[d][i].sign)
           /\ total \in Nat
           /\ balanceOf' = [balanceOf EXCEPT ![d][a] = @ + total]
           /\ totalSupply' = [totalSupply EXCEPT ![d] = @ + total]
           /\ totalInboundAmount' = [totalInboundAmount EXCEPT ![d] = @ + total]
<1> DEFINE n == Len(inboundings[d])
           f == [i \in 1..n |->
                    IF i \in Range(ids)
                    THEN [inboundings[d][i] EXCEPT !.claimed = TRUE]
                    ELSE inboundings[d][i]]
<1>1. /\ ids # <<>>
      /\ UNCHANGED <<outboundings, srcOutboundingIdRegistered>>
      /\ inboundings' = [inboundings EXCEPT ![d] = f]
      /\ \A k \in 1..Len(ids) :
             /\ inboundings[d][ids[k]].account = a
             /\ ~inboundings[d][ids[k]].claimed
             /\ Verified(a, inboundings[d][ids[k]].amount, inboundings[d][ids[k]].sign)
      /\ balanceOf' = [balanceOf EXCEPT ![d][a] = @ + total]
      /\ totalSupply' = [totalSupply EXCEPT ![d] = @ + total]
      /\ totalInboundAmount' = [totalInboundAmount EXCEPT ![d] = @ + total]
  BY DEF ClaimAllBridgedAmounts
<1>2. inboundings \in [Chains -> Seq(Inbounding)] /\ ids \in Seq(Nat \ {0})
  BY DEF IndInv, TypeOK
<1>3. n \in Nat /\ inboundings'[d] = f
  BY <1>1, <1>2, LenProperties
<1>4. Len(f) = n /\ \A i \in 1..n : inboundings[d][i] \in Inbounding
  <2>1. \A i \in 1..n : inboundings[d][i] \in Inbounding
    BY <1>2, ElementOfSeq
  <2>2. f \in [1..n -> Inbounding]
    BY <2>1 DEF Inbounding
  <2>3. f \in Seq(Inbounding)
    BY <1>3, <2>2, SeqDef
  <2>4. DOMAIN f = 1..n /\ DOMAIN f = 1..Len(f) /\ Len(f) \in Nat
    BY <2>2, <2>3, LenProperties
  <2> QED
    BY <1>3, <2>1, <2>4
<1>5. ASSUME NEW i \in 1..n
      PROVE  /\ inboundings'[d][i].srcChainId = inboundings[d][i].srcChainId
             /\ inboundings'[d][i].srcOutboundingId = inboundings[d][i].srcOutboundingId
             /\ inboundings'[d][i].amount = inboundings[d][i].amount
             /\ inboundings'[d][i].claimed
                    <=> inboundings[d][i].claimed \/ i \in Range(ids)
  BY <1>3, <1>4 DEF Inbounding
<1>6. ASSUME NEW i \in Range(ids)
      PROVE  /\ i \in 1..n
             /\ inboundings[d][i].account = a
             /\ ~inboundings[d][i].claimed
             /\ Verified(a, inboundings[d][i].amount, inboundings[d][i].sign)
  <2>1. PICK k \in 1..Len(ids) : ids[k] = i
    BY <1>2, RangeEquality
  <2>2. i \in 1..n
    BY <2>1 DEF IndInv, InboxExact
  <2> QED
    BY <1>1, <2>1, <2>2
<1>7. total \in Nat
  <2>1. \A k \in 1..Len(ids) : ids[k] \in 1..n /\ Len(ids) \in Nat
    BY <1>2, LenProperties DEF IndInv, InboxExact
  <2>2. \A k \in 1..Len(ids) : inboundings[d][ids[k]].amount \in Nat
    BY <1>4, <2>1 DEF Inbounding
  <2>3. InboundAmounts(d, ids) \in Seq(Nat)
    BY <1>2, <2>2, LenProperties, SeqDef DEF InboundAmounts
  <2> QED
    BY <2>3, SumOfType
<1>8. \A c \in Chains \ {d} : inboundings'[c] = inboundings[c]
  <2> HIDE DEF f
  <2> QED
    BY <1>1, <1>2
<1>9. Len(inboundings'[d]) = n
  BY <1>3, <1>4
<1> HIDE DEF f
<1> QED
  BY <1>1, <1>2, <1>5, <1>6, <1>7, <1>8, <1>9

\* The entries of a list of ids are the requests their account can claim.
LEMMA InboxRequests ==
    ASSUME IndInv, NEW d \in Chains, NEW a \in Accounts,
           NEW c \in Chains, NEW o \in 1..Len(outboundings[c])
    PROVE  /\ outboundings[c][o].destChainId = d
           /\ outboundings[c][o].account = a
           /\ Registered(c, o)
           /\ ~Claimed(c, o)
           <=> \E i \in Range(accountInboundings[d][a]) :
                   /\ inboundings[d][i].srcChainId = c
                   /\ inboundings[d][i].srcOutboundingId = o
<1> DEFINE ids == accountInboundings[d][a]
<1>1. ids \in Seq(Nat \ {0})
  BY DEF IndInv, TypeOK
<1>2. ASSUME outboundings[c][o].destChainId = d, outboundings[c][o].account = a,
             Registered(c, o), ~Claimed(c, o)
      PROVE  \E i \in Range(ids) : /\ inboundings[d][i].srcChainId = c
                                   /\ inboundings[d][i].srcOutboundingId = o
  <2>1. PICK i \in 1..Len(inboundings[d]) :
            /\ inboundings[d][i].srcChainId = c
            /\ inboundings[d][i].srcOutboundingId = o
            /\ inboundings[d][i].account = a
    BY <1>2, RegisteredRequest DEF Registered
  <2>2. ~inboundings[d][i].claimed
    BY <1>2, <2>1 DEF Claimed
  <2>3. i \in Range(ids)
    BY <2>1, <2>2 DEF IndInv, InboxExact
  <2> QED
    BY <2>1, <2>3
<1>3. ASSUME NEW i \in Range(ids), inboundings[d][i].srcChainId = c,
             inboundings[d][i].srcOutboundingId = o
      PROVE  /\ outboundings[c][o].destChainId = d
             /\ outboundings[c][o].account = a
             /\ Registered(c, o)
             /\ ~Claimed(c, o)
  <2>1. PICK k \in 1..Len(ids) : ids[k] = i
    BY <1>1, RangeEquality
  <2>2. /\ i \in 1..Len(inboundings[d])
        /\ inboundings[d][i].account = a
        /\ ~inboundings[d][i].claimed
    BY <2>1 DEF IndInv, InboxExact
  <2>3. FaithfulEntry(d, i)
    BY <2>2 DEF IndInv, RelayedOnce
  <2>4. /\ outboundings[c][o].destChainId = d
        /\ outboundings[c][o].account = a
        /\ Registered(c, o)
    BY <1>3, <2>2, <2>3 DEF FaithfulEntry, Registered
  <2>5. ASSUME NEW j \in 1..Len(inboundings[d]), inboundings[d][j].srcChainId = c,
               inboundings[d][j].srcOutboundingId = o
        PROVE  ~inboundings[d][j].claimed
    <3>1. SameRequest(d, i, j)
      BY <1>3, <2>5 DEF SameRequest
    <3>2. i = j
      BY <2>2, <3>1 DEF IndInv, RelayedOnce
    <3> QED
      BY <2>2, <3>2
  <2> QED
    BY <2>4, <2>5 DEF Claimed
<1> QED
  BY <1>2, <1>3

\* The total of the ledger is a sum over a finite set.
LEMMA TotalIsSum ==
    ASSUME NEW transfers
    PROVE  Ledger!Total(transfers)
               = SumFunctionOnSet([t \in transfers |-> t.amount], transfers)
  BY DEF Ledger!Total, Ledger!MapThenSumSet, Ledger!MapThenFoldSet,
         SumFunctionOnSet, FoldFunctionOnSet, MapThenFoldSet

\* What a claim issues is what the transfers it settles carry.
LEMMA TotalOfInbox ==
    ASSUME IndInv, NEW d \in Chains, NEW a \in Accounts
    PROVE  /\ Ledger!Total(Ledger!ClaimableBy(a, d))
                  = SumOf(InboundAmounts(d, accountInboundings[d][a]))
           /\ \A t : t \in Ledger!ClaimableBy(a, d) <=>
                  \E i \in Range(accountInboundings[d][a]) :
                      t = TransferOf(inboundings[d][i].srcChainId,
                                     inboundings[d][i].srcOutboundingId)
           /\ \A i \in Range(accountInboundings[d][a]) :
                  /\ i \in 1..Len(inboundings[d])
                  /\ FaithfulEntry(d, i)
                  /\ inboundings[d][i] \in Inbounding
<1> DEFINE ids == accountInboundings[d][a]
<1>0. PICK n : n = Len(ids)
  OBVIOUS
<1> DEFINE amounts == InboundAmounts(d, ids)
           Of(i) == TransferOf(inboundings[d][i].srcChainId,
                               inboundings[d][i].srcOutboundingId)
           m == [k \in 1..n |-> Of(ids[k])]
           mine == Ledger!ClaimableBy(a, d)
           g == [t \in mine |-> t.amount]
<1>1. /\ ids \in Seq(Nat \ {0}) /\ n \in Nat
      /\ \A i : i \in Range(ids) <=> \E k \in 1..n : i = ids[k]
      /\ \A k \in 1..n : ids[k] \in 1..Len(inboundings[d])
      /\ \A j, k \in 1..n : ids[j] = ids[k] => j = k
  <2>1. ids \in Seq(Nat \ {0})
    BY DEF IndInv, TypeOK
  <2>2. /\ \A k \in 1..Len(ids) : ids[k] \in 1..Len(inboundings[d])
        /\ \A j, k \in 1..Len(ids) : ids[j] = ids[k] => j = k
    BY DEF IndInv, InboxExact
  <2> HIDE DEF ids
  <2>3. Range(ids) = {ids[k] : k \in 1..Len(ids)} /\ Len(ids) \in Nat
    BY <2>1, LenProperties, RangeEquality
  <2> QED
    BY <1>0, <2>1, <2>2, <2>3
<1>2. ASSUME NEW i \in Range(ids)
      PROVE  /\ i \in 1..Len(inboundings[d])
             /\ FaithfulEntry(d, i)
             /\ inboundings[d][i] \in Inbounding
             /\ inboundings[d][i].srcChainId \in Chains
             /\ inboundings[d][i].srcOutboundingId
                    \in 1..Len(outboundings[inboundings[d][i].srcChainId])
             /\ Of(i).amount = inboundings[d][i].amount
  <2>1. i \in 1..Len(inboundings[d])
    BY <1>1
  <2>2. FaithfulEntry(d, i)
    BY <2>1 DEF IndInv, RelayedOnce
  <2>3. inboundings[d] \in Seq(Inbounding) /\ outboundings \in [Chains -> Seq(Outbounding)]
    BY DEF IndInv, TypeOK
  <2>4. inboundings[d][i] \in Inbounding
    BY <2>1, <2>3, ElementOfSeq
  <2>5. /\ inboundings[d][i].srcChainId \in Chains
        /\ inboundings[d][i].srcOutboundingId \in Nat \ {0}
    BY <2>4 DEF Inbounding
  <2>6. Len(outboundings[inboundings[d][i].srcChainId]) \in Nat
    BY <2>3, <2>5, LenProperties
  <2> QED
    BY <2>1, <2>2, <2>4, <2>5, <2>6 DEF FaithfulEntry, TransferOf
<1>3. ASSUME NEW t
      PROVE  t \in mine <=> \E i \in Range(ids) : t = Of(i)
  <2>1. ASSUME t \in mine
        PROVE  \E i \in Range(ids) : t = Of(i)
    <3>1. PICK c, o : IsTransfer(t, c, o) /\ Registered(c, o) /\ ~Claimed(c, o)
      BY <2>1, Members DEF Ledger!ClaimableBy
    <3>2. t.account = a /\ t.dest = d
      BY <2>1 DEF Ledger!ClaimableBy
    <3>3. /\ c \in Chains /\ o \in 1..Len(outboundings[c])
          /\ outboundings[c][o].account = a /\ outboundings[c][o].destChainId = d
      BY <3>1, <3>2 DEF IsTransfer, TransferOf
    <3>4. \E i \in Range(ids) : /\ inboundings[d][i].srcChainId = c
                                /\ inboundings[d][i].srcOutboundingId = o
      BY <3>1, <3>3, InboxRequests
    <3> QED
      BY <3>1, <3>4 DEF IsTransfer
  <2>2. ASSUME NEW i \in Range(ids), t = Of(i)
        PROVE  t \in mine
    <3> DEFINE c == inboundings[d][i].srcChainId
               o == inboundings[d][i].srcOutboundingId
    <3>1. /\ outboundings[c][o].destChainId = d
          /\ outboundings[c][o].account = a
          /\ Registered(c, o)
          /\ ~Claimed(c, o)
      BY <1>2, InboxRequests
    <3>2. IsTransfer(t, c, o)
      BY <1>2, <2>2 DEF IsTransfer
    <3>3. t \in Transfers(Unclaimed)
      BY <3>1, <3>2, Members
    <3>4. t.account = a /\ t.dest = d
      BY <2>2, <3>1 DEF TransferOf
    <3> QED
      BY <3>3, <3>4 DEF Ledger!ClaimableBy
  <2> QED
    BY <2>1, <2>2
<1>4. amounts \in Seq(Nat) /\ Len(amounts) = n
  <2>1. \A k \in 1..n : inboundings[d][ids[k]].amount \in Nat
    BY <1>1, <1>2 DEF Inbounding
  <2>2. amounts \in [1..n -> Nat]
    BY <1>0, <2>1 DEF InboundAmounts
  <2>3. amounts \in Seq(Nat)
    BY <1>1, <2>2, SeqDef
  <2>4. DOMAIN amounts = 1..n /\ DOMAIN amounts = 1..Len(amounts) /\ Len(amounts) \in Nat
    BY <2>2, <2>3, LenProperties
  <2> QED
    BY <1>1, <2>3, <2>4
<1>5. SumOf(amounts) = SumFunctionOnSet(amounts, 1..n)
  BY <1>4, SumOfIsSum
<1>6. mine = {m[k] : k \in 1..n}
  <2>1. ASSUME NEW t
        PROVE  t \in mine <=> \E k \in 1..n : t = m[k]
    <3>1. \A k \in 1..n : m[k] = Of(ids[k])
      OBVIOUS
    <3> HIDE DEF mine, Of, m
    <3> QED
      BY <1>1, <1>3, <3>1
  <2> HIDE DEF mine, m
  <2> QED
    BY <2>1
<1>7. \A k \in 1..n : amounts[k] \in Int /\ g[m[k]] = amounts[k]
  <2> SUFFICES ASSUME NEW k \in 1..n
               PROVE  amounts[k] \in Int /\ g[m[k]] = amounts[k]
    OBVIOUS
  <2>1. ids[k] \in Range(ids)
    BY <1>1
  <2>2. amounts[k] = inboundings[d][ids[k]].amount /\ amounts[k] \in Nat
    BY <1>4, ElementOfSeq DEF InboundAmounts
  <2>3. m[k] \in mine /\ m[k] = Of(ids[k])
    BY <1>6
  <2>4. g[m[k]] = m[k].amount
    <3> HIDE DEF mine, m
    <3> QED
      BY <2>3
  <2>5. Of(ids[k]).amount = inboundings[d][ids[k]].amount
    BY <1>2, <2>1
  <2> HIDE DEF Of, m, g, amounts
  <2> QED
    BY <2>2, <2>3, <2>4, <2>5
<1>8. \A j, k \in 1..n : m[j] = m[k] => j = k
  <2> SUFFICES ASSUME NEW j \in 1..n, NEW k \in 1..n, m[j] = m[k]
               PROVE  j = k
    OBVIOUS
  <2>1. Of(ids[j]) = Of(ids[k])
    OBVIOUS
  <2>2. SameRequest(d, ids[j], ids[k])
    BY <2>1 DEF TransferOf, SameRequest
  <2>3. ids[j] = ids[k]
    BY <1>1, <2>2 DEF IndInv, RelayedOnce
  <2> QED
    BY <1>1, <2>3
<1>9. IsFiniteSet(1..n)
  BY <1>1, FS_Interval
<1> HIDE DEF m, g, mine, amounts
<1>10. SumFunctionOnSet(g, {m[k] : k \in 1..n}) = SumFunctionOnSet(amounts, 1..n)
  <2> DEFINE I == 1..n
  <2>1. /\ IsFiniteSet(I)
        /\ \A k \in I : amounts[k] \in Int /\ g[m[k]] = amounts[k]
        /\ \A j, k \in I : m[j] = m[k] => j = k
    BY <1>7, <1>8, <1>9
  <2> HIDE DEF I
  <2>2. SumFunctionOnSet(g, {m[k] : k \in I}) = SumFunctionOnSet(amounts, I)
    BY ONLY <2>1, SumRename
  <2> QED
    BY <2>2 DEF I
<1>11. SumFunctionOnSet(g, mine) = SumFunctionOnSet(amounts, 1..n)
  BY <1>6, <1>10
<1>12. Ledger!Total(mine) = SumOf(amounts)
  BY <1>5, <1>11, TotalIsSum DEF g
<1> QED
  BY <1>2, <1>3, <1>12 DEF mine, amounts

\* A claim is the Claim of the ledger: all that waits for the account is issued.
LEMMA ClaimStep ==
    ASSUME IndInv, NEW d \in Chains, NEW a \in Accounts, ClaimAllBridgedAmounts(d, a)
    PROVE  Ledger!Claim(a, d)
<1> DEFINE mine == Ledger!ClaimableBy(a, d)
           Inside == Transfers(Unregistered)
           Waiting == Transfers(Unclaimed)
           Done == Transfers(Claimed)
<1>0. PICK ids, total : /\ ids = accountInboundings[d][a]
                        /\ total = SumOf(InboundAmounts(d, ids))
  OBVIOUS
<1>1. /\ ids # <<>> /\ ids \in Seq(Nat \ {0})
      /\ UNCHANGED <<outboundings, srcOutboundingIdRegistered>>
      /\ \A c \in Chains \ {d} : inboundings'[c] = inboundings[c]
      /\ Len(inboundings'[d]) = Len(inboundings[d])
      /\ \A i \in 1..Len(inboundings[d]) :
             /\ inboundings'[d][i].srcChainId = inboundings[d][i].srcChainId
             /\ inboundings'[d][i].srcOutboundingId = inboundings[d][i].srcOutboundingId
             /\ inboundings'[d][i].claimed
                    <=> inboundings[d][i].claimed \/ i \in Range(ids)
      /\ \A i \in Range(ids) :
             /\ i \in 1..Len(inboundings[d])
             /\ inboundings[d][i].account = a
             /\ Verified(a, inboundings[d][i].amount, inboundings[d][i].sign)
      /\ balanceOf' = [balanceOf EXCEPT ![d][a] = @ + total]
  BY <1>0, ClaimEffect
<1>2. ASSUME NEW t, NEW c, NEW o
      PROVE  /\ IsTransfer(t, c, o)' <=> IsTransfer(t, c, o)
             /\ IsTransfer(t, c, o) => (Registered(c, o)' <=> Registered(c, o))
  BY <1>1 DEF IsTransfer, Registered, TransferOf
<1>3. ASSUME NEW t, NEW c, NEW o, IsTransfer(t, c, o)
      PROVE  Claimed(c, o)' <=>
                 \/ Claimed(c, o)
                 \/ /\ t.account = a /\ t.dest = d
                    /\ Registered(c, o)
  <2> DEFINE e == outboundings[c][o].destChainId
  <2>1. /\ c \in Chains /\ o \in 1..Len(outboundings[c])
        /\ t.dest = e /\ t.account = outboundings[c][o].account
    BY <1>3 DEF IsTransfer, TransferOf
  <2>2. outboundings[c][o] \in Outbounding
    <3>1. outboundings[c] \in Seq(Outbounding)
      BY <2>1 DEF IndInv, TypeOK
    <3> QED
      BY <2>1, <3>1, ElementOfSeq
  <2>3. e \in Chains
    BY <2>2 DEF Outbounding
  <2>4. CASE e # d
    BY <1>1, <2>1, <2>3, <2>4 DEF Claimed
  <2>5. CASE e = d
    <3>1. Claimed(c, o)' <=> \/ Claimed(c, o)
                             \/ \E i \in Range(ids) :
                                    /\ inboundings[d][i].srcChainId = c
                                    /\ inboundings[d][i].srcOutboundingId = o
      <4>1. Claimed(c, o) <=> \E i \in 1..Len(inboundings[d]) :
                                  /\ inboundings[d][i].srcChainId = c
                                  /\ inboundings[d][i].srcOutboundingId = o
                                  /\ inboundings[d][i].claimed
        BY <2>5 DEF Claimed
      <4>2. outboundings'[c][o].destChainId = d
        BY <1>1, <2>5
      <4>3. Claimed(c, o)' <=> \E i \in 1..Len(inboundings'[d]) :
                                   /\ inboundings'[d][i].srcChainId = c
                                   /\ inboundings'[d][i].srcOutboundingId = o
                                   /\ inboundings'[d][i].claimed
        BY <4>2 DEF Claimed
      <4> QED
        BY <1>1, <4>1, <4>3
    <3>2. (\E i \in Range(ids) : /\ inboundings[d][i].srcChainId = c
                                 /\ inboundings[d][i].srcOutboundingId = o)
              <=> (t.account = a /\ Registered(c, o) /\ ~Claimed(c, o))
      BY <1>0, <2>1, <2>5, InboxRequests
    <3> QED
      BY <2>1, <2>5, <3>1, <3>2
  <2> QED
    BY <2>4, <2>5
<1>4. ASSUME NEW t, NEW c, NEW o, IsTransfer(t, c, o), Claimed(c, o)
      PROVE  Registered(c, o)
  BY <1>4, ClaimedRegistered DEF IsTransfer
<1>5. ASSUME NEW t, NEW c, NEW o, NEW b, NEW p, IsTransfer(t, c, o), IsTransfer(t, b, p)
      PROVE  b = c /\ p = o
  BY <1>5 DEF IsTransfer, TransferOf
<1>6. /\ Transfers(Unregistered)' = Inside
      /\ Transfers(Unclaimed)' = Waiting \ mine
      /\ Transfers(Claimed)' = Done \cup mine
  <2>1. ASSUME NEW t
        PROVE  t \in mine <=> t \in Waiting /\ t.account = a /\ t.dest = d
    BY DEF Ledger!ClaimableBy
  <2> HIDE DEF mine
  <2>2. ASSUME NEW t
        PROVE  t \in Transfers(Unregistered)' <=> t \in Inside
    BY <1>2, Members, NextMembers
  <2>3. ASSUME NEW t
        PROVE  t \in Transfers(Unclaimed)' <=> t \in Waiting \ mine
    <3>1. ASSUME t \in Transfers(Unclaimed)' PROVE t \in Waiting \ mine
      <4>1. PICK c, o : IsTransfer(t, c, o)' /\ Registered(c, o)' /\ ~Claimed(c, o)'
        BY <3>1, NextMembers
      <4>2. IsTransfer(t, c, o) /\ Registered(c, o) /\ ~Claimed(c, o)
            /\ ~(t.account = a /\ t.dest = d)
        BY <1>2, <1>3, <4>1
      <4> QED
        BY <2>1, <4>2, Members
    <3>2. ASSUME t \in Waiting \ mine PROVE t \in Transfers(Unclaimed)'
      <4>1. PICK c, o : IsTransfer(t, c, o) /\ Registered(c, o) /\ ~Claimed(c, o)
        BY <3>2, Members
      <4>2. IsTransfer(t, c, o)' /\ Registered(c, o)' /\ ~Claimed(c, o)'
        BY <1>2, <1>3, <2>1, <3>2, <4>1
      <4> QED
        BY <4>2, NextMembers
    <3> QED
      BY <3>1, <3>2
  <2>4. ASSUME NEW t
        PROVE  t \in Transfers(Claimed)' <=> t \in Done \cup mine
    <3>1. ASSUME t \in Transfers(Claimed)' PROVE t \in Done \cup mine
      <4>1. PICK c, o : IsTransfer(t, c, o)' /\ Claimed(c, o)'
        BY <3>1, NextMembers
      <4>2. IsTransfer(t, c, o)
        BY <1>2, <4>1
      <4>3. CASE Claimed(c, o)
        BY <4>2, <4>3, Members
      <4>4. CASE ~Claimed(c, o)
        <5>1. t.account = a /\ t.dest = d /\ Registered(c, o)
          BY <1>3, <4>1, <4>2, <4>4
        <5> QED
          BY <2>1, <4>2, <4>4, <5>1, Members
      <4> QED
        BY <4>3, <4>4
    <3>2. ASSUME t \in Done PROVE t \in Transfers(Claimed)'
      BY <1>2, <1>3, <3>2, Members, NextMembers
    <3>3. ASSUME t \in mine PROVE t \in Transfers(Claimed)'
      <4>1. PICK c, o : IsTransfer(t, c, o) /\ Registered(c, o)
        BY <2>1, <3>3, Members
      <4>2. IsTransfer(t, c, o)' /\ Claimed(c, o)'
        BY <1>2, <1>3, <2>1, <3>3, <4>1
      <4> QED
        BY <4>2, NextMembers
    <3> QED
      BY <3>1, <3>2, <3>3
  <2> HIDE DEF Inside, Waiting, Done
  <2> QED
    BY <2>2, <2>3, <2>4
<1>7. /\ Ledger!Total(mine) = total
      /\ \A t : t \in mine <=>
             \E i \in Range(ids) :
                 t = TransferOf(inboundings[d][i].srcChainId,
                                inboundings[d][i].srcOutboundingId)
      /\ \A i \in Range(ids) : FaithfulEntry(d, i)
  <2> HIDE DEF mine
  <2> QED
    BY <1>0, TotalOfInbox DEF mine
<1>8. mine # {}
  <2>1. ids[1] \in Range(ids)
    BY <1>1, LenProperties, RangeEquality
  <2> HIDE DEF mine
  <2> QED
    BY <1>7, <2>1
<1>9. \A t \in mine : t.signed
  <2> SUFFICES ASSUME NEW t \in mine PROVE t.signed
    OBVIOUS
  <2>1. PICK i \in Range(ids) : t = TransferOf(inboundings[d][i].srcChainId,
                                               inboundings[d][i].srcOutboundingId)
    <3> HIDE DEF mine
    <3> QED
      BY <1>7
  <2>2. FaithfulEntry(d, i)
    BY <1>7
  <2>3. Verified(a, inboundings[d][i].amount, inboundings[d][i].sign)
        /\ inboundings[d][i].account = a
    BY <1>1
  <2> QED
    BY <2>1, <2>2, <2>3 DEF FaithfulEntry, TransferOf
<1>10. /\ mine # {}
       /\ \A t \in mine : t.signed
       /\ balanceOf' = [balanceOf EXCEPT ![d][a] = @ + Ledger!Total(mine)]
       /\ Transfers(Unclaimed)' = Transfers(Unclaimed) \ mine
       /\ Transfers(Claimed)' = Transfers(Claimed) \cup mine
       /\ UNCHANGED Transfers(Unregistered)
  <2> HIDE DEF mine
  <2> QED
    BY <1>1, <1>6, <1>7, <1>8, <1>9
<1> QED
  BY <1>10 DEF Ledger!Claim

\* The entries after a relaying call: those there were, then unclaimed ones.
LEMMA RelayEntries ==
    ASSUME IndInv, NEW v \in Validators, job[v] # NoJob, NEW d \in Chains,
           NEW ids \in SUBSET PendingFor(v, d),
           AppendInboundings(v, job[v].src, d, ids)
    PROVE  /\ \A b \in Chains \ {d} : inboundings'[b] = inboundings[b]
           /\ Len(inboundings[d]) \in Nat
           /\ Len(inboundings'[d]) \in Nat
           /\ Len(inboundings[d]) <= Len(inboundings'[d])
           /\ \A i \in 1..Len(inboundings[d]) : inboundings'[d][i] = inboundings[d][i]
           /\ \A i \in 1..Len(inboundings'[d]) :
                  i > Len(inboundings[d]) => ~inboundings'[d][i].claimed
<1>1. PICK base, new : /\ base = Len(inboundings[d])
                       /\ new = Len(Ascending(ids))
  OBVIOUS
<1>2. /\ base \in Nat /\ new \in Nat
      /\ \A b \in Chains \ {d} : inboundings'[b] = inboundings[b]
      /\ Len(inboundings'[d]) = base + new
      /\ \A i \in 1..base : inboundings'[d][i] = inboundings[d][i]
      /\ \A k \in 1..new : ~inboundings'[d][base + k].claimed
  <2>1. inboundings[d] \in Seq(Inbounding)
    BY DEF IndInv, TypeOK
  <2>2. base \in Nat
    BY <1>1, <2>1, LenProperties
  <2>3. new \in Nat
    BY <1>1, RelayFacts
  <2>4. /\ \A b \in Chains \ {d} : inboundings'[b] = inboundings[b]
        /\ Len(inboundings'[d]) = Len(inboundings[d]) + Len(Ascending(ids))
        /\ \A i \in 1..Len(inboundings[d]) : inboundings'[d][i] = inboundings[d][i]
        /\ \A k \in 1..Len(Ascending(ids)) :
               inboundings'[d][Len(inboundings[d]) + k] =
                   [account |-> outboundings[job[v].src][Ascending(ids)[k]].account,
                    amount  |-> outboundings[job[v].src][Ascending(ids)[k]].amount,
                    srcChainId       |-> job[v].src,
                    srcOutboundingId |-> Ascending(ids)[k],
                    claimed          |-> FALSE,
                    sign    |-> outboundings[job[v].src][Ascending(ids)[k]].sign]
    BY ZenonT(30), RelayEffect
  <2>5. \A k \in 1..new : ~inboundings'[d][base + k].claimed
    <3> SUFFICES ASSUME NEW k \in 1..new
                 PROVE  ~inboundings'[d][base + k].claimed
      OBVIOUS
    <3>1. inboundings'[d][Len(inboundings[d]) + k] =
              [account |-> outboundings[job[v].src][Ascending(ids)[k]].account,
               amount  |-> outboundings[job[v].src][Ascending(ids)[k]].amount,
               srcChainId       |-> job[v].src,
               srcOutboundingId |-> Ascending(ids)[k],
               claimed          |-> FALSE,
               sign    |-> outboundings[job[v].src][Ascending(ids)[k]].sign]
      BY <1>1, <2>4, Zenon
    <3>2. inboundings'[d][Len(inboundings[d]) + k].claimed = FALSE
      BY <3>1
    <3> QED
      BY <1>1, <3>2
  <2> QED
    BY <1>1, <2>2, <2>3, <2>4, <2>5
<1>3. ASSUME NEW i \in 1..(base + new), i > base
      PROVE  ~inboundings'[d][i].claimed
  <2>1. i - base \in 1..new /\ base + (i - base) = i
    BY <1>2, <1>3
  <2> QED
    BY <1>2, <2>1
<1>4. base + new \in Nat /\ base <= base + new
  BY <1>2
<1> QED
  BY <1>1, <1>2, <1>3, <1>4

\* What a relaying call changes: the requests it carries, none of them registered
\* before, are registered; none of them is claimed by that.
LEMMA RelayKnown ==
    ASSUME IndInv, NEW v \in Validators, job[v] # NoJob, NEW d \in Chains,
           NEW ids \in SUBSET PendingFor(v, d),
           AppendInboundings(v, job[v].src, d, ids)
    PROVE  /\ outboundings' = outboundings
           /\ \A c, o : Registered(c, o)' <=> \/ Registered(c, o)
                                              \/ c = job[v].src /\ o \in ids
           /\ \A o \in ids : ~Registered(job[v].src, o)
           /\ \A c \in Chains : \A o \in 1..Len(outboundings[c]) :
                  Claimed(c, o)' <=> Claimed(c, o)
<1>0. PICK src : src = job[v].src
  OBVIOUS
<1>1. /\ outboundings' = outboundings
      /\ \A o \in ids : <<src, o>> \notin srcOutboundingIdRegistered[d]
      /\ srcOutboundingIdRegistered' =
             [srcOutboundingIdRegistered EXCEPT
                 ![d] = srcOutboundingIdRegistered[d] \cup {<<src, o>> : o \in ids}]
  BY <1>0 DEF AppendInboundings, NoneRegistered
<1>2. src \in Chains /\ \A o \in ids : outboundings[src][o].destChainId = d
  <2>1. job[v].src \in Chains
    BY RelayFacts
  <2>2. \A o \in ids : outboundings[job[v].src][o].destChainId = d
    BY DEF PendingFor
  <2> QED
    BY <1>0, <2>1, <2>2
<1>3. srcOutboundingIdRegistered \in [Chains -> SUBSET (Chains \X (Nat \ {0}))]
  BY DEF IndInv, TypeOK
<1>4. ASSUME NEW c, NEW o
      PROVE  Registered(c, o)' <=> Registered(c, o) \/ (c = src /\ o \in ids)
  <2>1. PICK e : e = outboundings[c][o].destChainId
    OBVIOUS
  <2>2. Registered(c, o) <=> <<c, o>> \in srcOutboundingIdRegistered[e]
    BY <2>1 DEF Registered
  <2>3. Registered(c, o)' <=> <<c, o>> \in srcOutboundingIdRegistered'[e]
    BY <1>1, <2>1 DEF Registered
  <2>4. CASE e = d
    <3>1. srcOutboundingIdRegistered'[d]
              = srcOutboundingIdRegistered[d] \cup {<<src, p>> : p \in ids}
      BY <1>1, <1>3
    <3> QED
      BY <2>2, <2>3, <2>4, <3>1
  <2>5. CASE e # d
    <3>1. srcOutboundingIdRegistered'[e] = srcOutboundingIdRegistered[e]
      BY <1>1, <1>3, <2>5
    <3>2. ~(c = src /\ o \in ids)
      BY <1>2, <2>1, <2>5
    <3> QED
      BY <2>2, <2>3, <3>1, <3>2
  <2> QED
    BY <2>4, <2>5
<1>5. \A o \in ids : ~Registered(src, o)
  BY <1>1, <1>2 DEF Registered
<1>6. ASSUME NEW c \in Chains, NEW o \in 1..Len(outboundings[c])
      PROVE  Claimed(c, o)' <=> Claimed(c, o)
  <2>1. PICK e : e = outboundings[c][o].destChainId
    OBVIOUS
  <2>2. e \in Chains
    <3>1. outboundings[c] \in Seq(Outbounding)
      BY DEF IndInv, TypeOK
    <3>2. outboundings[c][o] \in Outbounding
      BY <3>1, ElementOfSeq
    <3> QED
      BY <2>1, <3>2 DEF Outbounding
  <2>3. Claimed(c, o) <=> \E i \in 1..Len(inboundings[e]) :
                              /\ inboundings[e][i].srcChainId = c
                              /\ inboundings[e][i].srcOutboundingId = o
                              /\ inboundings[e][i].claimed
    BY <2>1 DEF Claimed
  <2>4. Claimed(c, o)' <=> \E i \in 1..Len(inboundings'[e]) :
                               /\ inboundings'[e][i].srcChainId = c
                               /\ inboundings'[e][i].srcOutboundingId = o
                               /\ inboundings'[e][i].claimed
    BY <1>1, <2>1 DEF Claimed
  <2>5. /\ \A b \in Chains \ {d} : inboundings'[b] = inboundings[b]
        /\ Len(inboundings[d]) \in Nat
        /\ Len(inboundings'[d]) \in Nat
        /\ Len(inboundings[d]) <= Len(inboundings'[d])
        /\ \A i \in 1..Len(inboundings[d]) : inboundings'[d][i] = inboundings[d][i]
        /\ \A i \in 1..Len(inboundings'[d]) :
               i > Len(inboundings[d]) => ~inboundings'[d][i].claimed
    BY RelayEntries
  <2>6. CASE e # d
    BY <2>2, <2>3, <2>4, <2>5, <2>6
  <2>7. CASE e = d
    <3>1. 1..Len(inboundings[d]) \subseteq 1..Len(inboundings'[d])
      BY <2>5
    <3>2. ASSUME NEW i \in 1..Len(inboundings'[d]), inboundings'[d][i].claimed
          PROVE  i \in 1..Len(inboundings[d])
      BY <2>5, <3>2
    <3>3. Claimed(c, o) => Claimed(c, o)'
      BY <2>3, <2>4, <2>5, <2>7, <3>1
    <3>4. Claimed(c, o)' => Claimed(c, o)
      BY <2>3, <2>4, <2>5, <2>7, <3>2
    <3> QED
      BY <3>3, <3>4
  <2> QED
    BY <2>6, <2>7
<1> QED
  BY <1>0, <1>1, <1>4, <1>5, <1>6

\* A batch of registrations is the Arrive of the ledger.
LEMMA RelayStep ==
    ASSUME IndInv, NEW v \in Validators, NEW d \in Chains, Relay(v, d)
    PROVE  \E transfers \in SUBSET Transfers(Unregistered) : Ledger!Arrive(transfers)
<1>1. PICK ids \in SUBSET PendingFor(v, d) :
          ids # {} /\ AppendInboundings(v, job[v].src, d, ids)
  BY DEF Relay
<1>2. job[v] # NoJob
  BY DEF Relay
<1>3. PICK src : src = job[v].src
  OBVIOUS
<1> DEFINE carried == {TransferOf(src, o) : o \in ids}
           Inside == Transfers(Unregistered)
           Waiting == Transfers(Unclaimed)
           Done == Transfers(Claimed)
<1>4. /\ outboundings' = outboundings
      /\ \A c, o : Registered(c, o)' <=> Registered(c, o) \/ (c = src /\ o \in ids)
      /\ \A o \in ids : ~Registered(src, o)
      /\ \A c \in Chains : \A o \in 1..Len(outboundings[c]) :
             Claimed(c, o)' <=> Claimed(c, o)
      /\ src \in Chains
      /\ \A o \in ids : o \in 1..Len(outboundings[src])
  <2>1. /\ outboundings' = outboundings
        /\ \A c, o : Registered(c, o)' <=> \/ Registered(c, o)
                                           \/ c = job[v].src /\ o \in ids
        /\ \A o \in ids : ~Registered(job[v].src, o)
        /\ \A c \in Chains : \A o \in 1..Len(outboundings[c]) :
               Claimed(c, o)' <=> Claimed(c, o)
    BY <1>1, <1>2, RelayKnown
  <2>2. job[v].src \in Chains /\ \A o \in ids : o \in 1..Len(outboundings[job[v].src])
    BY <1>2, RelayFacts
  <2> QED
    BY <1>3, <2>1, <2>2
<1>5. ASSUME NEW t, NEW c, NEW o
      PROVE  IsTransfer(t, c, o)' <=> IsTransfer(t, c, o)
  BY <1>4 DEF IsTransfer, TransferOf
<1>6. ASSUME NEW t, NEW c, NEW o, IsTransfer(t, c, o)
      PROVE  /\ Claimed(c, o)' <=> Claimed(c, o)
             /\ t \in carried <=> c = src /\ o \in ids
             /\ Claimed(c, o) => Registered(c, o)
  <2>1. c \in Chains /\ o \in 1..Len(outboundings[c]) /\ t.src = c /\ t.id = o
    BY <1>6 DEF IsTransfer, TransferOf
  <2>2. t \in carried <=> c = src /\ o \in ids
    BY <1>6, <2>1 DEF IsTransfer, TransferOf
  <2> QED
    BY <1>4, <2>1, <2>2, ClaimedRegistered
<1>7. ASSUME NEW t \in carried
      PROVE  \E o \in ids : IsTransfer(t, src, o)
  BY <1>4 DEF IsTransfer
<1> HIDE DEF carried
<1>8. ASSUME NEW t
      PROVE  /\ t \in Transfers(Unregistered)' <=> t \in Inside \ carried
             /\ t \in Transfers(Unclaimed)' <=> t \in Waiting \cup carried
             /\ t \in Transfers(Claimed)' <=> t \in Done
             /\ t \in carried => t \in Inside
  <2>1. ASSUME t \in carried PROVE t \in Inside /\ t \in Transfers(Unclaimed)'
    <3>1. PICK o \in ids : IsTransfer(t, src, o)
      BY <1>7, <2>1
    <3>2. ~Registered(src, o) /\ Registered(src, o)' /\ ~Claimed(src, o)'
          /\ IsTransfer(t, src, o)'
      BY <1>4, <1>5, <1>6, <3>1
    <3> QED
      BY <3>1, <3>2, Members, NextMembers
  <2>2. ASSUME t \in Transfers(Unregistered)' PROVE t \in Inside \ carried
    <3>1. PICK c, o : IsTransfer(t, c, o)' /\ ~Registered(c, o)'
      BY <2>2, NextMembers
    <3>2. IsTransfer(t, c, o) /\ ~Registered(c, o) /\ t \notin carried
      BY <1>4, <1>5, <1>6, <3>1
    <3> QED
      BY <3>2, Members
  <2>3. ASSUME t \in Inside \ carried PROVE t \in Transfers(Unregistered)'
    <3>1. PICK c, o : IsTransfer(t, c, o) /\ ~Registered(c, o)
      BY <2>3, Members
    <3>2. IsTransfer(t, c, o)' /\ ~Registered(c, o)'
      BY <1>4, <1>5, <1>6, <2>3, <3>1
    <3> QED
      BY <3>2, NextMembers
  <2>4. ASSUME t \in Transfers(Unclaimed)' PROVE t \in Waiting \cup carried
    <3>1. PICK c, o : IsTransfer(t, c, o)' /\ Registered(c, o)' /\ ~Claimed(c, o)'
      BY <2>4, NextMembers
    <3>2. IsTransfer(t, c, o) /\ ~Claimed(c, o)
          /\ (Registered(c, o) \/ t \in carried)
      BY <1>4, <1>5, <1>6, <3>1
    <3> QED
      BY <3>2, Members
  <2>5. ASSUME t \in Waiting PROVE t \in Transfers(Unclaimed)'
    <3>1. PICK c, o : IsTransfer(t, c, o) /\ Registered(c, o) /\ ~Claimed(c, o)
      BY <2>5, Members
    <3>2. IsTransfer(t, c, o)' /\ Registered(c, o)' /\ ~Claimed(c, o)'
      BY <1>4, <1>5, <1>6, <3>1
    <3> QED
      BY <3>2, NextMembers
  <2>6. t \in Transfers(Claimed)' <=> t \in Done
    BY <1>5, <1>6, Members, NextMembers
  <2> HIDE DEF Inside, Waiting, Done
  <2> QED
    BY <2>1, <2>2, <2>3, <2>4, <2>5, <2>6
<1>9. /\ carried # {} /\ carried \subseteq Inside
      /\ Transfers(Unregistered)' = Inside \ carried
      /\ Transfers(Unclaimed)' = Waiting \cup carried
      /\ Transfers(Claimed)' = Done
  <2>1. carried # {}
    BY <1>1 DEF carried
  <2> HIDE DEF Inside, Waiting, Done
  <2> QED
    BY <1>8, <2>1
<1>10. UNCHANGED balanceOf
  BY <1>1 DEF AppendInboundings, tokenVars
<1>11. Ledger!Arrive(carried)
  BY <1>9, <1>10 DEF Ledger!Arrive
<1> QED
  BY <1>9, <1>11

\* Steps of which the ledger sees nothing, and neither do the balances and the
\* totals: no request is made, relayed or claimed.
Unseen ==
    UNCHANGED <<outboundings, inboundings, srcOutboundingIdRegistered,
                accountInboundings, tokenVars, totalOutboundAmount,
                totalInboundAmount, movedOut, movedIn>>

\* Every step burns, claims, registers, or is not seen by the ledger.
LEMMA LedgerCases ==
    ASSUME [Next]_vars
    PROVE  \/ \E c \in Chains, a \in Accounts, amount \in Amounts, d \in Chains,
                 sign \in Signatures : OverchainTransfer(c, a, amount, d, sign)
           \/ \E c \in Chains, a \in Accounts : ClaimAllBridgedAmounts(c, a)
           \/ \E v \in Validators, d \in Chains : Relay(v, d)
           \/ Unseen
<1>1. ASSUME NEW v \in Validators, NEW c \in Chains, PickPeriod(v, c)
      PROVE  Unseen
  BY <1>1 DEF PickPeriod, Unseen, listVars
<1>2. ASSUME NEW v \in Validators, SkipRegistered(v)
      PROVE  Unseen
  BY <1>2 DEF SkipRegistered, Unseen, listVars
<1>3. ASSUME NEW v \in Validators, AbandonPeriod(v)
      PROVE  Unseen
  BY <1>3 DEF AbandonPeriod, Unseen, listVars
<1>4. ASSUME NEW v \in Validators, Crash(v)
      PROVE  Unseen
  BY <1>4 DEF Crash, Unseen, listVars
<1>5. ASSUME NEW v \in Validators, FinishPeriod(v)
      PROVE  Unseen
  BY <1>5 DEF FinishPeriod, ProcessOutboundPeriod, Unseen, listVars
<1>6. ASSUME NEW v \in Validators, NEW c \in Chains, CloseOutboundPeriod(v, c)
      PROVE  Unseen
  BY <1>6 DEF CloseOutboundPeriod, Unseen, listVars
<1>7. ASSUME AdminCall
      PROVE  Unseen
  BY <1>7 DEF AdminCall, Unseen, listVars
<1>8. CASE Tick
  BY <1>8 DEF Tick, Unseen, listVars
<1>9. OwnerAction => AdminCall
  BY DEF OwnerAction, SetRole, SetNetworkStatus, SetNumberOfOutboundPerPeriod,
         SetPeriodDuration
<1>10. CASE UNCHANGED vars
  BY <1>10 DEF vars, Unseen, listVars
<1> QED
  BY <1>1, <1>2, <1>3, <1>4, <1>5, <1>6, <1>7, <1>8, <1>9, <1>10
  DEF Next, UserAction, ValidatorAction, ValidatorStep

\* A step that the ledger does not see leaves what the ledger is made of.
LEMMA UnseenStep ==
    ASSUME Unseen
    PROVE  UNCHANGED <<balanceOf, Transfers(Unregistered), Transfers(Unclaimed),
                       Transfers(Claimed)>>
<1>1. ASSUME NEW t, NEW c, NEW o
      PROVE  /\ IsTransfer(t, c, o)' <=> IsTransfer(t, c, o)
             /\ Registered(c, o)' <=> Registered(c, o)
             /\ Claimed(c, o)' <=> Claimed(c, o)
  BY DEF Unseen, IsTransfer, TransferOf, Registered, Claimed
<1>2. ASSUME NEW t
      PROVE  /\ t \in Transfers(Unregistered)' <=> t \in Transfers(Unregistered)
             /\ t \in Transfers(Unclaimed)' <=> t \in Transfers(Unclaimed)
             /\ t \in Transfers(Claimed)' <=> t \in Transfers(Claimed)
  BY <1>1, Members, NextMembers
<1>3. /\ Transfers(Unregistered)' = Transfers(Unregistered)
      /\ Transfers(Unclaimed)' = Transfers(Unclaimed)
      /\ Transfers(Claimed)' = Transfers(Claimed)
  BY <1>2
<1> QED
  BY <1>3 DEF Unseen, tokenVars

\* The initial states of the bridge are those of the ledger.
LEMMA LedgerInit == Init => Ledger!Init
<1> SUFFICES ASSUME Init PROVE Ledger!Init
  OBVIOUS
<1>1. balanceOf \in [Chains -> [Accounts -> Nat]]
  BY NumbersAssumption DEF Init
<1>2. \A t, c, o : ~IsTransfer(t, c, o)
  BY DEF Init, IsTransfer
<1>3. /\ Transfers(Unregistered) = {}
      /\ Transfers(Unclaimed) = {}
      /\ Transfers(Claimed) = {}
  BY <1>2, Members
<1> QED
  BY <1>1, <1>3 DEF Ledger!Init

\* Every step of the bridge is a step of the ledger or a stutter.
LEMMA LedgerStep == IndInv /\ [Next]_vars => [Ledger!Next]_(Ledger!ledgerVars)
<1> SUFFICES ASSUME IndInv, [Next]_vars
             PROVE  [Ledger!Next]_(Ledger!ledgerVars)
  OBVIOUS
<1>1. ASSUME NEW c \in Chains, NEW a \in Accounts, NEW amount \in Amounts,
             NEW d \in Chains, NEW sign \in Signatures,
             OverchainTransfer(c, a, amount, d, sign)
      PROVE  Ledger!Next
  BY <1>1, SendStep DEF Ledger!Next
<1>2. ASSUME NEW c \in Chains, NEW a \in Accounts, ClaimAllBridgedAmounts(c, a)
      PROVE  Ledger!Next
  BY <1>2, ClaimStep DEF Ledger!Next
<1>3. ASSUME NEW v \in Validators, NEW d \in Chains, Relay(v, d)
      PROVE  Ledger!Next
  BY <1>3, RelayStep DEF Ledger!Next
<1>4. CASE Unseen
  BY <1>4, UnseenStep DEF Ledger!ledgerVars
<1> QED
  BY <1>1, <1>2, <1>3, <1>4, LedgerCases

\* Whatever validators, owners and users do, in any number and in any order, the
\* bridge implements TransferLedger: each step of BridgeState and of the pynth is
\* a step of the ledger or leaves it as it is, so that a burned amount is issued
\* to its owner, at its destination, at most once.
THEOREM BridgeImplementsLedger == Spec => LedgerSpec
<1>1. Init => Ledger!Init
  BY LedgerInit
<1>2. IndInv /\ [Next]_vars => [Ledger!Next]_(Ledger!ledgerVars)
  BY LedgerStep
<1>3. Spec => []IndInv
  BY Inductive
<1> QED
  BY <1>1, <1>2, <1>3, PTL DEF Spec, LedgerSpec, Ledger!Spec

-----------------------------------------------------------------------------
(* Conservation.                                                           *)

\* What account a has in flight: its transfers that are not credited yet.
Flying(a) ==
    {t \in Transfers(Unregistered) \cup Transfers(Unclaimed) : t.account = a}

\* In flight is what is requested and not claimed.
LEMMA FlyingMembers ==
    ASSUME IndInv, NEW a \in Accounts, NEW t
    PROVE  t \in Flying(a) <=> \E c, o : /\ IsTransfer(t, c, o)
                                         /\ ~Claimed(c, o)
                                         /\ t.account = a
<1>1. t \in Flying(a) <=> /\ t.account = a
                          /\ \E c, o : /\ IsTransfer(t, c, o)
                                       /\ \/ ~Registered(c, o)
                                          \/ Registered(c, o) /\ ~Claimed(c, o)
  <2>1. t \in Flying(a) <=> /\ t.account = a
                            /\ \/ t \in Transfers(Unregistered)
                               \/ t \in Transfers(Unclaimed)
    BY DEF Flying
  <2> QED
    BY <2>1, Members
<1>2. ASSUME NEW c, NEW o, IsTransfer(t, c, o), ~Registered(c, o)
      PROVE  ~Claimed(c, o)
  BY <1>2, ClaimedRegistered DEF IsTransfer
<1> QED
  BY <1>1, <1>2

\* InFlight, a sum over the chains of sums over their requests, is the total of
\* the transfers in flight.
LEMMA FlyingTotal ==
    ASSUME IndInv, NEW a \in Accounts
    PROVE  /\ IsFiniteSet(Flying(a))
           /\ \A t \in Flying(a) : t.amount \in Nat
           /\ InFlight(a) = Ledger!Total(Flying(a))
<1> DEFINE D == [c \in Chains |-> 1..Len(outboundings[c])]
           Counted(c, o) == outboundings[c][o].account = a /\ ~Claimed(c, o)
           row(c) == [o \in 1..Len(outboundings[c]) |->
                         IF outboundings[c][o].account = a /\ ~Claimed(c, o)
                         THEN outboundings[c][o].amount ELSE 0]
           inner == [c \in Chains |-> row(c)]
           outer == [c \in Chains |-> SumOf(row(c))]
           pairs == UNION {{<<c, o>> : o \in D[c]} : c \in Chains}
           f == [p \in pairs |-> inner[p[1]][p[2]]]
           T == {p \in pairs : Counted(p[1], p[2])}
           m == [p \in T |-> TransferOf(p[1], p[2])]
           flying == Flying(a)
           g == [t \in flying |-> t.amount]
<1>1. ASSUME NEW c \in Chains
      PROVE  /\ Len(outboundings[c]) \in Nat
             /\ D[c] = 1..Len(outboundings[c])
             /\ IsFiniteSet(D[c])
             /\ \A o \in D[c] : outboundings[c][o].amount \in Nat
  <2>1. outboundings[c] \in Seq(Outbounding)
    BY DEF IndInv, TypeOK
  <2>2. Len(outboundings[c]) \in Nat
    BY <2>1, LenProperties
  <2>3. D[c] = 1..Len(outboundings[c])
    OBVIOUS
  <2>4. \A o \in 1..Len(outboundings[c]) : outboundings[c][o] \in Outbounding
    BY <2>1, ElementOfSeq
  <2>5. \A o \in D[c] : outboundings[c][o].amount \in Nat
    BY <2>3, <2>4 DEF Outbounding
  <2>6. IsFiniteSet(D[c])
    BY <2>2, <2>3, FS_Interval
  <2> QED
    BY <2>2, <2>3, <2>5, <2>6
<1>2. ASSUME NEW c \in Chains
      PROVE  /\ inner[c] = row(c)
             /\ \A o \in D[c] : row(c)[o] \in Nat
             /\ outer[c] = SumFunctionOnSet(inner[c], D[c])
  <2>1. inner[c] = row(c) /\ outer[c] = SumOf(row(c))
    OBVIOUS
  <2>2. row(c) \in [1..Len(outboundings[c]) -> Nat]
    BY <1>1
  <2> HIDE DEF row
  <2>3. row(c) \in Seq(Nat)
    BY <1>1, <2>2, SeqDef
  <2>4. Len(row(c)) = Len(outboundings[c])
    BY <1>1, <2>2, <2>3, LenProperties
  <2>5. SumOf(row(c)) = SumFunctionOnSet(row(c), 1..Len(outboundings[c]))
    BY <2>3, <2>4, SumOfIsSum
  <2> HIDE DEF inner, outer, D
  <2> QED
    BY <1>1, <2>1, <2>2, <2>5
<1>3. ASSUME NEW c \in Chains, NEW o \in D[c]
      PROVE  <<c, o>> \in pairs
  BY <1>1
<1>4. ASSUME NEW p \in pairs
      PROVE  \E c, o : c \in Chains /\ o \in D[c] /\ p = <<c, o>>
  OBVIOUS
<1>5. ASSUME NEW p \in pairs
      PROVE  /\ f[p] \in Int
             /\ p \in T => f[p] = outboundings[p[1]][p[2]].amount
             /\ p \notin T => f[p] = 0
  <2>1. PICK c, o : c \in Chains /\ o \in D[c] /\ p = <<c, o>>
    BY <1>4
  <2>2. f[p] = row(c)[o]
    BY <1>2, <2>1
  <2>3. row(c)[o] = IF Counted(c, o) THEN outboundings[c][o].amount ELSE 0
    BY <1>1, <2>1
  <2>4. p \in T <=> Counted(c, o)
    BY <2>1
  <2> HIDE DEF row, Counted, f, T
  <2> QED
    BY <1>2, <2>1, <2>2, <2>3, <2>4
<1>6. InFlight(a) = SumFunctionOnSet(outer, Chains)
  BY DEF InFlight, SumFunction
<1>7. /\ IsFiniteSet(pairs)
      /\ SumFunctionOnSet(outer, Chains) = SumFunctionOnSet(f, pairs)
  <2>1. \A c \in Chains : \A o \in D[c] : inner[c][o] \in Int /\ f[<<c, o>>] = inner[c][o]
    <3> SUFFICES ASSUME NEW c \in Chains, NEW o \in D[c]
                 PROVE  inner[c][o] \in Int /\ f[<<c, o>>] = inner[c][o]
      OBVIOUS
    <3>1. f[<<c, o>>] = inner[c][o]
      BY <1>3
    <3> HIDE DEF row, inner, f, D
    <3> QED
      BY <1>2, <3>1
  <2>2. IsFiniteSet(Chains)
    BY NumbersAssumption
  <2>3. \A c \in Chains : IsFiniteSet(D[c])
    BY <1>1
  <2>4. \A c \in Chains : outer[c] = SumFunctionOnSet(inner[c], D[c])
    BY <1>2
  <2>5. \A p : p \in pairs <=> \E c, o : c \in Chains /\ o \in D[c] /\ p = <<c, o>>
    <3> HIDE DEF D, pairs
    <3> QED
      BY <1>3, <1>4
  <2> HIDE DEF D, inner, outer, f, pairs
  <2>6. SumsOfRows(Chains, D, inner, outer, f, pairs)
    BY <2>1, <2>2, <2>3, <2>4, <2>5 DEF SumsOfRows
  <2> QED
    BY ONLY <2>6, SumPairs
<1>8. SumFunctionOnSet(f, pairs) = SumFunctionOnSet(f, T)
  <2>1. T \in SUBSET pairs
    OBVIOUS
  <2>2. /\ \A p \in T : f[p] \in Int /\ f[p] = f[p]
        /\ \A p \in pairs \ T : f[p] = 0
    BY <1>5
  <2> HIDE DEF T, pairs, f
  <2> QED
    BY ONLY <1>7, <2>1, <2>2, SumFilter
<1>9. ASSUME NEW t
      PROVE  t \in flying <=> \E p \in T : t = m[p]
  <2>1. ASSUME t \in flying PROVE \E p \in T : t = m[p]
    <3>1. PICK c, o : IsTransfer(t, c, o) /\ ~Claimed(c, o) /\ t.account = a
      BY <2>1, FlyingMembers
    <3>2. c \in Chains /\ o \in D[c] /\ t = TransferOf(c, o) /\ Counted(c, o)
      BY <1>1, <3>1 DEF IsTransfer, TransferOf
    <3>3. <<c, o>> \in T
      BY <1>3, <3>2
    <3>4. m[<<c, o>>] = TransferOf(c, o)
      BY <3>3
    <3> QED
      BY <3>2, <3>3, <3>4
  <2>2. ASSUME NEW p \in T, t = m[p] PROVE t \in flying
    <3>1. PICK c, o : c \in Chains /\ o \in D[c] /\ p = <<c, o>>
      BY <1>4
    <3>2. t = TransferOf(c, o) /\ Counted(c, o)
      BY <2>2, <3>1
    <3>3. IsTransfer(t, c, o) /\ ~Claimed(c, o) /\ t.account = a
      BY <1>1, <3>1, <3>2 DEF IsTransfer, TransferOf
    <3> QED
      BY <3>3, FlyingMembers
  <2> QED
    BY <2>1, <2>2
<1>10. flying = {m[p] : p \in T}
  <2> HIDE DEF flying, m, T
  <2> QED
    BY <1>9
<1>11. ASSUME NEW p \in T
       PROVE  /\ m[p] \in flying
              /\ m[p].src = p[1] /\ m[p].id = p[2]
              /\ m[p].amount \in Nat
              /\ f[p] \in Int /\ g[m[p]] = f[p]
  <2>1. p \in pairs
    OBVIOUS
  <2>2. m[p] = TransferOf(p[1], p[2])
    OBVIOUS
  <2>3. m[p] \in flying
    BY <1>10
  <2>4. PICK c, o : c \in Chains /\ o \in D[c] /\ p = <<c, o>>
    BY <1>4, <2>1
  <2>5. g[m[p]] = m[p].amount
    <3> HIDE DEF m, flying
    <3> QED
      BY <2>3
  <2>6. /\ m[p].src = p[1] /\ m[p].id = p[2]
        /\ m[p].amount = outboundings[p[1]][p[2]].amount
    BY <2>2 DEF TransferOf
  <2>7. f[p] \in Int /\ f[p] = outboundings[p[1]][p[2]].amount
    BY <1>5
  <2>8. outboundings[p[1]][p[2]].amount \in Nat
    BY <1>1, <2>4
  <2> HIDE DEF m, f, g, flying
  <2> QED
    BY <2>3, <2>5, <2>6, <2>7, <2>8
<1>12. \A p, q \in T : m[p] = m[q] => p = q
  <2> SUFFICES ASSUME NEW p \in T, NEW q \in T, m[p] = m[q]
               PROVE  p = q
    OBVIOUS
  <2>1. p[1] = q[1] /\ p[2] = q[2]
    <3>1. m[p].src = p[1] /\ m[p].id = p[2]
      BY <1>11
    <3>2. m[q].src = q[1] /\ m[q].id = q[2]
      BY <1>11
    <3> HIDE DEF m
    <3> QED
      BY <3>1, <3>2
  <2>2. p \in pairs /\ q \in pairs
    OBVIOUS
  <2>3. PICK c, o : c \in Chains /\ o \in D[c] /\ p = <<c, o>>
    BY <1>4, <2>2
  <2>4. PICK b, i : b \in Chains /\ i \in D[b] /\ q = <<b, i>>
    BY <1>4, <2>2
  <2> QED
    BY <2>1, <2>3, <2>4
<1>13. IsFiniteSet(T)
  <2>1. T \in SUBSET pairs
    OBVIOUS
  <2> HIDE DEF T, pairs
  <2> QED
    BY <1>7, <2>1, FS_Subset
<1>14. /\ IsFiniteSet({m[p] : p \in T})
       /\ SumFunctionOnSet(g, {m[p] : p \in T}) = SumFunctionOnSet(f, T)
  <2>1. \A p \in T : f[p] \in Int /\ g[m[p]] = f[p]
    BY <1>11
  <2> HIDE DEF T, m, f, g
  <2> QED
    BY ONLY <1>12, <1>13, <2>1, SumRename
<1>15. \A t \in flying : t.amount \in Nat
  <2> SUFFICES ASSUME NEW t \in flying PROVE t.amount \in Nat
    OBVIOUS
  <2>1. PICK p \in T : t = m[p]
    BY <1>9
  <2>2. m[p].amount \in Nat
    BY <1>11
  <2> HIDE DEF m
  <2> QED
    BY <2>1, <2>2
<1>16. Ledger!Total(flying) = SumFunctionOnSet(g, flying)
  BY TotalIsSum
<1> HIDE DEF flying, m, T, g, f, pairs, outer
<1>17. /\ IsFiniteSet(flying)
       /\ SumFunctionOnSet(g, flying) = SumFunctionOnSet(f, T)
  BY <1>10, <1>14, Zenon
<1>18. InFlight(a) = Ledger!Total(flying)
  BY <1>6, <1>7, <1>8, <1>16, <1>17
<1> QED
  BY <1>15, <1>17, <1>18 DEF flying

\* What account a holds on all the chains.
Held(w, a) == SumFunction([c \in Chains |-> w[c][a]])

\* From balances w to balances x, only the one of a on c has changed.
OneBalance(w, x, c, a) ==
    /\ w \in [Chains -> [Accounts -> Nat]]
    /\ x \in [Chains -> [Accounts -> Nat]]
    /\ c \in Chains
    /\ a \in Accounts
    /\ \A e \in Chains : \A b \in Accounts : e # c \/ b # a => x[e][b] = w[e][b]

\* One balance that changes changes the sum of its row and of its column.
LEMMA BalanceChange ==
    ASSUME NEW w, NEW x, NEW c, NEW a, OneBalance(w, x, c, a)
    PROVE  /\ \A b \in Accounts : Held(w, b) \in Int
           /\ Held(x, a) = Held(w, a) + (x[c][a] - w[c][a])
           /\ \A b \in Accounts \ {a} : Held(x, b) = Held(w, b)
           /\ SumFunction(w[c]) \in Int
           /\ SumFunction(x[c]) = SumFunction(w[c]) + (x[c][a] - w[c][a])
           /\ \A e \in Chains \ {c} : x[e] = w[e]
<1> USE NumbersAssumption DEF OneBalance
<1> DEFINE k == x[c][a] - w[c][a]
<1>0. k \in Int
  OBVIOUS
<1>1. ASSUME NEW b \in Accounts
      PROVE  /\ Held(w, b) \in Int
             /\ b = a => Held(x, b) = Held(w, b) + k
             /\ b # a => Held(x, b) = Held(w, b)
  <2> DEFINE f == [e \in Chains |-> w[e][b]]
             g == [e \in Chains |-> x[e][b]]
  <2>1. /\ \A e \in Chains : f[e] \in Int /\ g[e] \in Int
        /\ \A e \in Chains : e # c => g[e] = f[e]
        /\ g[c] - f[c] = IF b = a THEN k ELSE 0
    OBVIOUS
  <2>2. /\ Held(w, b) = SumFunctionOnSet(f, Chains)
        /\ Held(x, b) = SumFunctionOnSet(g, Chains)
    BY DEF Held, SumFunction
  <2>3. /\ IsFiniteSet(Chains) /\ f[c] \in Int /\ g[c] \in Int
        /\ \A e \in Chains : e # c => f[e] \in Int /\ g[e] = f[e]
    BY <2>1
  <2> HIDE DEF f, g, k
  <2>4. /\ SumFunctionOnSet(f, Chains) \in Int
        /\ SumFunctionOnSet(g, Chains) = SumFunctionOnSet(f, Chains) + (g[c] - f[c])
    BY <2>3, SumChange
  <2> QED
    BY <1>0, <2>1, <2>2, <2>4
<1>2. /\ SumFunction(w[c]) \in Int
      /\ SumFunction(x[c]) = SumFunction(w[c]) + k
  <2> DEFINE f == w[c]
             g == x[c]
  <2>1. /\ IsFiniteSet(Accounts) /\ f[a] \in Int /\ g[a] \in Int
        /\ \A b \in Accounts : b # a => f[b] \in Int /\ g[b] = f[b]
        /\ g[a] - f[a] = k
    OBVIOUS
  <2>2. /\ SumFunction(f) = SumFunctionOnSet(f, Accounts)
        /\ SumFunction(g) = SumFunctionOnSet(g, Accounts)
    BY DEF SumFunction
  <2> HIDE DEF f, g, k
  <2>3. /\ SumFunctionOnSet(f, Accounts) \in Int
        /\ SumFunctionOnSet(g, Accounts) = SumFunctionOnSet(f, Accounts) + (g[a] - f[a])
    BY <2>1, SumChange
  <2>4. SumFunction(f) \in Int /\ SumFunction(g) = SumFunction(f) + k
    BY <1>0, <2>1, <2>2, <2>3
  <2> QED
    BY <2>4 DEF f, g
<1>3. \A e \in Chains \ {c} : x[e] = w[e]
  OBVIOUS
<1> QED
  BY <1>1, <1>2, <1>3

\* The total of a set of transfers, and what one or several of them add to it.
LEMMA TotalAdd ==
    ASSUME NEW U, IsFiniteSet(U), \A u \in U : u.amount \in Nat,
           NEW t, t \notin U, t.amount \in Nat
    PROVE  /\ Ledger!Total(U) \in Int
           /\ Ledger!Total(U \cup {t}) = Ledger!Total(U) + t.amount
<1> DEFINE V == U \cup {t}
           f == [u \in U |-> u.amount]
           g == [u \in V |-> u.amount]
<1>1. /\ \A u \in U : f[u] \in Int /\ g[u] = f[u]
      /\ \A u \in U : g[u] \in Int
      /\ g[t] \in Int /\ g[t] = t.amount
  OBVIOUS
<1>2. Ledger!Total(U) = SumFunctionOnSet(f, U) /\ Ledger!Total(V) = SumFunctionOnSet(g, V)
  BY TotalIsSum
<1> HIDE DEF f, g
<1>3. SumFunctionOnSet(g, U) = SumFunctionOnSet(f, U) /\ SumFunctionOnSet(f, U) \in Int
  BY <1>1, SumSame, SumType
<1>4. SumFunctionOnSet(g, U \cup {t}) = SumFunctionOnSet(g, U) + g[t]
  BY ONLY <1>1, SumAdd, IsFiniteSet(U), t \notin U
<1> QED
  BY <1>1, <1>2, <1>3, <1>4

\* The total of a set is that of one part and that of the rest.
LEMMA TotalSplit ==
    ASSUME NEW U, IsFiniteSet(U), \A u \in U : u.amount \in Nat, NEW T \in SUBSET U
    PROVE  /\ Ledger!Total(T) \in Int
           /\ Ledger!Total(U \ T) \in Int
           /\ Ledger!Total(U) = Ledger!Total(U \ T) + Ledger!Total(T)
<1> DEFINE R == U \ T
           f == [u \in U |-> u.amount]
           g == [u \in T |-> u.amount]
           h == [u \in R |-> u.amount]
<1>1. /\ \A u \in R \cup T : f[u] \in Int
      /\ \A u \in T : g[u] \in Int /\ f[u] = g[u]
      /\ \A u \in R : h[u] \in Int /\ f[u] = h[u]
      /\ R \cup T = U
      /\ R \cap T = {}
  OBVIOUS
<1>2. IsFiniteSet(R) /\ IsFiniteSet(T)
  BY FS_Subset
<1>3. /\ Ledger!Total(U) = SumFunctionOnSet(f, U)
      /\ Ledger!Total(T) = SumFunctionOnSet(g, T)
      /\ Ledger!Total(R) = SumFunctionOnSet(h, R)
  BY TotalIsSum
<1> HIDE DEF f, g, h, R
<1>4. /\ SumFunctionOnSet(f, T) = SumFunctionOnSet(g, T)
      /\ SumFunctionOnSet(g, T) \in Int
      /\ SumFunctionOnSet(f, R) = SumFunctionOnSet(h, R)
      /\ SumFunctionOnSet(h, R) \in Int
  BY <1>1, <1>2, SumSame, SumType
<1>5. SumFunctionOnSet(f, R \cup T) = SumFunctionOnSet(f, R) + SumFunctionOnSet(f, T)
  BY ONLY <1>1, <1>2, SumUnion
<1>6. SumFunctionOnSet(f, R \cup T) = SumFunctionOnSet(f, U)
  BY <1>1, Zenon
<1>7. /\ Ledger!Total(T) \in Int
      /\ Ledger!Total(R) \in Int
      /\ Ledger!Total(U) = Ledger!Total(R) + Ledger!Total(T)
  BY <1>3, <1>4, <1>5, <1>6
<1> QED
  BY <1>7 DEF R

-----------------------------------------------------------------------------

\* What account a holds on all the chains and has in flight.
Wealth(a) == Held(balanceOf, a) + Ledger!Total(Flying(a))

\* The amounts in flight to an account are the total of its transfers in flight.
LEMMA FlyingAll ==
    IndInv => \A a \in Accounts : /\ IsFiniteSet(Flying(a))
                                  /\ \A t \in Flying(a) : t.amount \in Nat
                                  /\ InFlight(a) = Ledger!Total(Flying(a))
  BY FlyingTotal

\* The transfers in flight after a step.
LEMMA FlyingNext ==
    ASSUME NEW a
    PROVE  Flying(a)' = {t \in Transfers(Unregistered)' \cup Transfers(Unclaimed)' :
                            t.account = a}
  BY DEF Flying

\* A transfer that leaves a wallet is in flight.
LEMMA SendWealth ==
    ASSUME IndInv, IndInv', NEW t \in Ledger!Transfer, Ledger!Send(t), NEW a \in Accounts
    PROVE  Wealth(a)' = Wealth(a)
<1>1. /\ t.src \in Chains /\ t.account \in Accounts /\ t.amount \in Nat
  BY NumbersAssumption DEF Ledger!Transfer
<1>2. /\ balanceOf[t.src][t.account] >= t.amount
      /\ balanceOf' = [balanceOf EXCEPT ![t.src][t.account]
                                            = balanceOf[t.src][t.account] - t.amount]
      /\ Transfers(Unregistered)' = Transfers(Unregistered) \cup {t}
      /\ Transfers(Unclaimed)' = Transfers(Unclaimed)
      /\ \A u \in Transfers(Unregistered) \cup Transfers(Unclaimed) :
             u.src = t.src => u.id # t.id
  BY DEF Ledger!Send
<1>3. balanceOf \in [Chains -> [Accounts -> Nat]] /\ balanceOf' \in [Chains -> [Accounts -> Nat]]
  BY DEF IndInv, TypeOK
<1>4. t \notin Flying(a)
  BY <1>2 DEF Flying
<1>5. IsFiniteSet(Flying(a)) /\ \A u \in Flying(a) : u.amount \in Nat
  BY FlyingAll
<1>6. /\ Held(balanceOf, a) \in Int
      /\ t.account = a => Held(balanceOf', a) = Held(balanceOf, a) - t.amount
      /\ t.account # a => Held(balanceOf', a) = Held(balanceOf, a)
  <2>1. /\ balanceOf'[t.src][t.account] - balanceOf[t.src][t.account] = 0 - t.amount
        /\ OneBalance(balanceOf, balanceOf', t.src, t.account)
    BY <1>1, <1>2, <1>3 DEF OneBalance
  <2>2. /\ \A b \in Accounts : Held(balanceOf, b) \in Int
        /\ Held(balanceOf', t.account)
               = Held(balanceOf, t.account)
                     + (balanceOf'[t.src][t.account] - balanceOf[t.src][t.account])
        /\ \A b \in Accounts \ {t.account} : Held(balanceOf', b) = Held(balanceOf, b)
    BY <1>1, <1>3, <2>1, BalanceChange
  <2> QED
    BY <1>1, <2>1, <2>2
<1>7. CASE t.account = a
  <2>1. Flying(a)' = Flying(a) \cup {t}
    BY <1>2, <1>7, FlyingNext DEF Flying
  <2>2. /\ Ledger!Total(Flying(a)) \in Int
        /\ Ledger!Total(Flying(a) \cup {t}) = Ledger!Total(Flying(a)) + t.amount
    BY <1>1, <1>4, <1>5, TotalAdd
  <2>3. Wealth(a)' = Held(balanceOf', a) + Ledger!Total(Flying(a) \cup {t})
    BY <2>1 DEF Wealth
  <2> QED
    BY <1>1, <1>6, <1>7, <2>2, <2>3 DEF Wealth
<1>8. CASE t.account # a
  <2>1. Flying(a)' = Flying(a)
    BY <1>2, <1>8, FlyingNext DEF Flying
  <2>2. Wealth(a)' = Held(balanceOf', a) + Ledger!Total(Flying(a))
    BY <2>1 DEF Wealth
  <2> QED
    BY <1>6, <1>8, <2>2 DEF Wealth
<1> QED
  BY <1>7, <1>8

\* A transfer that becomes known to its destination is in flight as before.
LEMMA ArriveWealth ==
    ASSUME NEW transfers, Ledger!Arrive(transfers), NEW a \in Accounts
    PROVE  Wealth(a)' = Wealth(a)
<1>1. /\ transfers \subseteq Transfers(Unregistered)
      /\ Transfers(Unregistered)' = Transfers(Unregistered) \ transfers
      /\ Transfers(Unclaimed)' = Transfers(Unclaimed) \cup transfers
      /\ balanceOf' = balanceOf
  BY DEF Ledger!Arrive
<1>2. Flying(a)' = Flying(a)
  BY <1>1, FlyingNext DEF Flying
<1> QED
  BY <1>1, <1>2 DEF Wealth

\* A step that the ledger does not see changes no wealth.
LEMMA UnseenWealth ==
    ASSUME Unseen, NEW a \in Accounts
    PROVE  Wealth(a)' = Wealth(a)
<1>1. /\ Transfers(Unregistered)' = Transfers(Unregistered)
      /\ Transfers(Unclaimed)' = Transfers(Unclaimed)
      /\ balanceOf' = balanceOf
  BY UnseenStep
<1>2. Flying(a)' = Flying(a)
  BY <1>1, FlyingNext DEF Flying
<1> QED
  BY <1>1, <1>2 DEF Wealth

\* What is claimed is no longer in flight, and is held.
LEMMA ClaimWealth ==
    ASSUME IndInv, IndInv', NEW b \in Accounts, NEW d \in Chains,
           Ledger!Claim(b, d), NEW a \in Accounts
    PROVE  Wealth(a)' = Wealth(a)
<1>0. PICK mine : mine = Ledger!ClaimableBy(b, d)
  OBVIOUS
<1>1. /\ balanceOf' = [balanceOf EXCEPT ![d][b] = balanceOf[d][b] + Ledger!Total(mine)]
      /\ Transfers(Unregistered)' = Transfers(Unregistered)
      /\ Transfers(Unclaimed)' = Transfers(Unclaimed) \ mine
  BY <1>0 DEF Ledger!Claim
<1>2. /\ balanceOf \in [Chains -> [Accounts -> Nat]]
      /\ balanceOf' \in [Chains -> [Accounts -> Nat]]
  BY DEF IndInv, TypeOK
<1>3. mine \subseteq Flying(b) /\ \A t \in mine : t.account = b
  BY <1>0 DEF Flying, Ledger!ClaimableBy
<1>4. mine \cap Transfers(Unregistered) = {}
  <2> SUFFICES ASSUME NEW t \in mine, t \in Transfers(Unregistered) PROVE FALSE
    OBVIOUS
  <2>1. PICK c, o : IsTransfer(t, c, o) /\ ~Registered(c, o)
    BY Members
  <2>2. t \in Transfers(Unclaimed)
    BY <1>0 DEF Ledger!ClaimableBy
  <2>3. PICK e, p : IsTransfer(t, e, p) /\ Registered(e, p)
    BY <2>2, Members
  <2>4. c = e /\ o = p
    BY <2>1, <2>3 DEF IsTransfer, TransferOf
  <2> QED
    BY <2>1, <2>3, <2>4
<1>5. /\ Ledger!Total(mine) \in Int
      /\ Ledger!Total(Flying(b) \ mine) \in Int
      /\ Ledger!Total(Flying(b)) = Ledger!Total(Flying(b) \ mine) + Ledger!Total(mine)
  <2>1. IsFiniteSet(Flying(b)) /\ \A u \in Flying(b) : u.amount \in Nat
    BY FlyingAll
  <2> QED
    BY <1>3, <2>1, TotalSplit
<1>6. /\ Held(balanceOf, a) \in Int
      /\ b = a => Held(balanceOf', a) = Held(balanceOf, a) + Ledger!Total(mine)
      /\ b # a => Held(balanceOf', a) = Held(balanceOf, a)
  <2>1. /\ balanceOf'[d][b] - balanceOf[d][b] = Ledger!Total(mine)
        /\ OneBalance(balanceOf, balanceOf', d, b)
    BY <1>1, <1>2, <1>5 DEF OneBalance
  <2>2. /\ \A e \in Accounts : Held(balanceOf, e) \in Int
        /\ Held(balanceOf', b)
               = Held(balanceOf, b) + (balanceOf'[d][b] - balanceOf[d][b])
        /\ \A e \in Accounts \ {b} : Held(balanceOf', e) = Held(balanceOf, e)
    BY <2>1, BalanceChange
  <2> QED
    BY <2>1, <2>2
<1>7. CASE b = a
  <2>1. Flying(a)' = Flying(a) \ mine
    BY <1>1, <1>3, <1>4, <1>7, FlyingNext DEF Flying
  <2>2. Wealth(a)' = Held(balanceOf', a) + Ledger!Total(Flying(a) \ mine)
    BY <2>1 DEF Wealth
  <2> QED
    BY <1>5, <1>6, <1>7, <2>2 DEF Wealth
<1>8. CASE b # a
  <2>1. Flying(a)' = Flying(a)
    BY <1>1, <1>3, <1>8, FlyingNext DEF Flying
  <2>2. Wealth(a)' = Held(balanceOf', a) + Ledger!Total(Flying(a))
    BY <2>1 DEF Wealth
  <2> QED
    BY <1>6, <1>8, <2>2 DEF Wealth
<1> QED
  BY <1>7, <1>8

\* Every step of the bridge keeps what an account holds and has in flight.
LEMMA WealthStep ==
    ASSUME IndInv, IndInv', [Next]_vars, NEW a \in Accounts
    PROVE  Wealth(a)' = Wealth(a)
<1>1. ASSUME NEW c \in Chains, NEW b \in Accounts, NEW amount \in Amounts,
             NEW d \in Chains, NEW sign \in Signatures,
             OverchainTransfer(c, b, amount, d, sign)
      PROVE  Wealth(a)' = Wealth(a)
  BY <1>1, SendStep, SendWealth
<1>2. ASSUME NEW d \in Chains, NEW b \in Accounts, ClaimAllBridgedAmounts(d, b)
      PROVE  Wealth(a)' = Wealth(a)
  BY <1>2, ClaimStep, ClaimWealth
<1>3. ASSUME NEW v \in Validators, NEW d \in Chains, Relay(v, d)
      PROVE  Wealth(a)' = Wealth(a)
  BY <1>3, RelayStep, ArriveWealth
<1>4. CASE Unseen
  BY <1>4, UnseenWealth
<1> QED
  BY <1>1, <1>2, <1>3, <1>4, LedgerCases

\* The supply of every chain is what its accounts hold.
SuppliesExact == \A c \in Chains : totalSupply[c] = SumFunction(balanceOf[c])

\* A supply changes with the balances of its chain, and by as much.
LEMMA SuppliesStep ==
    ASSUME IndInv, IndInv', [Next]_vars, SuppliesExact
    PROVE  SuppliesExact'
<1> SUFFICES ASSUME NEW e \in Chains
             PROVE  totalSupply'[e] = SumFunction(balanceOf'[e])
  BY DEF SuppliesExact
<1>0. /\ balanceOf \in [Chains -> [Accounts -> Nat]]
      /\ balanceOf' \in [Chains -> [Accounts -> Nat]]
      /\ totalSupply \in [Chains -> Nat]
      /\ totalSupply[e] = SumFunction(balanceOf[e])
  BY DEF IndInv, TypeOK, SuppliesExact
<1>1. ASSUME NEW c \in Chains, NEW a \in Accounts, NEW k \in Int,
             totalSupply' = [totalSupply EXCEPT ![c] = totalSupply[c] + k],
             balanceOf' = [balanceOf EXCEPT ![c][a] = balanceOf[c][a] + k]
      PROVE  totalSupply'[e] = SumFunction(balanceOf'[e])
  <2>1. /\ balanceOf'[c][a] - balanceOf[c][a] = k
        /\ OneBalance(balanceOf, balanceOf', c, a)
    BY <1>0, <1>1 DEF OneBalance
  <2>2. /\ SumFunction(balanceOf[c]) \in Int
        /\ SumFunction(balanceOf'[c])
               = SumFunction(balanceOf[c]) + (balanceOf'[c][a] - balanceOf[c][a])
        /\ \A b \in Chains \ {c} : balanceOf'[b] = balanceOf[b]
    BY <2>1, BalanceChange
  <2>3. CASE e = c
    BY <1>0, <1>1, <2>1, <2>2, <2>3
  <2>4. CASE e # c
    BY <1>0, <1>1, <2>2, <2>4
  <2> QED
    BY <2>3, <2>4
<1>2. ASSUME NEW c \in Chains, NEW a \in Accounts, NEW amount \in Amounts,
             NEW d \in Chains, NEW sign \in Signatures,
             OverchainTransfer(c, a, amount, d, sign)
      PROVE  totalSupply'[e] = SumFunction(balanceOf'[e])
  <2>1. /\ balanceOf' = [balanceOf EXCEPT ![c][a] = balanceOf[c][a] - amount]
        /\ totalSupply' = [totalSupply EXCEPT ![c] = totalSupply[c] - amount]
    BY <1>2 DEF OverchainTransfer
  <2>2. /\ balanceOf[c][a] - amount = balanceOf[c][a] + (0 - amount)
        /\ totalSupply[c] - amount = totalSupply[c] + (0 - amount)
        /\ 0 - amount \in Int
    BY <1>0, NumbersAssumption
  <2> QED
    BY <1>1, <2>1, <2>2
<1>3. ASSUME NEW c \in Chains, NEW a \in Accounts, ClaimAllBridgedAmounts(c, a)
      PROVE  totalSupply'[e] = SumFunction(balanceOf'[e])
  <2>1. PICK ids, total : /\ ids = accountInboundings[c][a]
                          /\ total = SumOf(InboundAmounts(c, ids))
    OBVIOUS
  <2>2. /\ balanceOf' = [balanceOf EXCEPT ![c][a] = balanceOf[c][a] + total]
        /\ totalSupply' = [totalSupply EXCEPT ![c] = totalSupply[c] + total]
        /\ total \in Int
    BY <1>3, <2>1, ClaimEffect
  <2> QED
    BY <1>1, <2>2
<1>4. ASSUME NEW v \in Validators, NEW d \in Chains, Relay(v, d)
      PROVE  totalSupply'[e] = SumFunction(balanceOf'[e])
  BY <1>0, <1>4 DEF Relay, AppendInboundings, tokenVars
<1>5. CASE Unseen
  BY <1>0, <1>5 DEF Unseen, tokenVars
<1> QED
  BY <1>2, <1>3, <1>4, <1>5, LedgerCases

\* SupplyConserved, in the terms of the lemmas.
Conserved ==
    /\ \A a \in Accounts : Wealth(a) = InitialBalance * Cardinality(Chains)
    /\ SuppliesExact

\* The strengthened conservation law says what the run checks.
LEMMA ConservedMeans == IndInv => (Conserved <=> SupplyConserved)
  BY FlyingAll DEF Conserved, SuppliesExact, SupplyConserved, Wealth, Held

\* Conservation holds at the start.
LEMMA ConservedInit == Init => Conserved
<1> SUFFICES ASSUME Init PROVE Conserved
  OBVIOUS
<1> USE NumbersAssumption
<1>1. ASSUME NEW a \in Accounts
      PROVE  Wealth(a) = InitialBalance * Cardinality(Chains)
  <2>1. Flying(a) = {}
    <3>1. \A t, c, o : ~IsTransfer(t, c, o)
      BY DEF Init, IsTransfer
    <3>2. Transfers(Unregistered) = {} /\ Transfers(Unclaimed) = {}
      BY <3>1, Members
    <3> QED
      BY <3>2 DEF Flying
  <2>2. Ledger!Total(Flying(a)) = 0
    BY <2>1, TotalIsSum, SumEmpty
  <2> DEFINE f == [c \in Chains |-> balanceOf[c][a]]
  <2>3. \A c \in Chains : f[c] = InitialBalance
    BY DEF Init
  <2>4. Held(balanceOf, a) = SumFunctionOnSet(f, Chains)
    BY DEF Held, SumFunction
  <2> HIDE DEF f
  <2>5. SumFunctionOnSet(f, Chains) = InitialBalance * Cardinality(Chains)
    BY <2>3, SumConstant
  <2>6. InitialBalance * Cardinality(Chains) \in Int
    BY FS_CardinalityType
  <2> QED
    BY <2>2, <2>4, <2>5, <2>6 DEF Wealth
<1>2. ASSUME NEW c \in Chains
      PROVE  totalSupply[c] = SumFunction(balanceOf[c])
  <2> DEFINE f == [a \in Accounts |-> InitialBalance]
  <2>1. balanceOf[c] = f /\ totalSupply[c] = InitialBalance * Cardinality(Accounts)
    BY <1>2 DEF Init
  <2>2. SumFunction(f) = SumFunctionOnSet(f, Accounts)
    BY DEF SumFunction
  <2>3. \A a \in Accounts : f[a] = InitialBalance
    OBVIOUS
  <2> HIDE DEF f
  <2>4. SumFunctionOnSet(f, Accounts) = InitialBalance * Cardinality(Accounts)
    BY <2>3, SumConstant
  <2> QED
    BY <2>1, <2>2, <2>4
<1> QED
  BY <1>1, <1>2 DEF Conserved, SuppliesExact

\* Every step of the bridge keeps conservation.
LEMMA ConservedStep == IndInv /\ IndInv' /\ Conserved /\ [Next]_vars => Conserved'
<1> SUFFICES ASSUME IndInv, IndInv', Conserved, [Next]_vars PROVE Conserved'
  OBVIOUS
<1>1. \A a \in Accounts : Wealth(a)' = InitialBalance * Cardinality(Chains)
  BY WealthStep DEF Conserved
<1>2. SuppliesExact'
  BY SuppliesStep DEF Conserved
<1> QED
  BY <1>1, <1>2 DEF Conserved

\* No pynth is created or lost by the bridge, however many chains, accounts and
\* validators there are: what an account holds on all the chains, with what it
\* burned and has not been issued yet, is what it started with, and totalSupply
\* of a chain is the sum of its balances.
THEOREM SupplyAlwaysConserved == Spec => []SupplyConserved
<1>1. Spec => []IndInv
  BY Inductive
<1>2. Init => Conserved
  BY ConservedInit
<1>3. IndInv /\ IndInv' /\ Conserved /\ [Next]_vars => Conserved'
  BY ConservedStep
<1>4. IndInv => (Conserved <=> SupplyConserved)
  BY ConservedMeans
<1> QED
  BY <1>1, <1>2, <1>3, <1>4, PTL DEF Spec

-----------------------------------------------------------------------------
(* Sums over sequences.                                                    *)

\* r is s with the numbers at the positions ids, which are the amounts, zeroed.
Zeroed(s, r, ids, amounts) ==
    /\ s \in Seq(Nat) /\ r \in Seq(Nat) /\ Len(r) = Len(s)
    /\ amounts \in Seq(Nat)
    /\ \A k \in 1..Len(amounts) : /\ ids[k] \in 1..Len(s)
                                  /\ s[ids[k]] = amounts[k]
                                  /\ r[ids[k]] = 0
    /\ \A j, k \in 1..Len(amounts) : ids[j] = ids[k] => j = k
    /\ \A i \in 1..Len(s) :
           (\A k \in 1..Len(amounts) : i # ids[k]) => r[i] = s[i]

\* Setting some entries of a row to zero lowers its sum by those entries.
LEMMA SumOfZeroed ==
    ASSUME NEW s, NEW r, NEW ids, NEW amounts, Zeroed(s, r, ids, amounts)
    PROVE  /\ SumOf(s) \in Nat /\ SumOf(r) \in Nat /\ SumOf(amounts) \in Nat
           /\ SumOf(s) = SumOf(r) + SumOf(amounts)
<1> USE DEF Zeroed
<1> DEFINE I == 1..Len(s)
           K == 1..Len(amounts)
           T == {ids[k] : k \in K}
           R == I \ T
<1>1. /\ Len(s) \in Nat /\ Len(amounts) \in Nat
      /\ \A i \in I : s[i] \in Nat /\ r[i] \in Nat
      /\ \A k \in K : amounts[k] \in Nat
  <2>1. Len(s) \in Nat /\ Len(amounts) \in Nat
    BY LenProperties
  <2>2. \A i \in 1..Len(s) : s[i] \in Nat
    BY ElementOfSeq
  <2>3. \A i \in 1..Len(r) : r[i] \in Nat
    BY ElementOfSeq
  <2>4. \A k \in 1..Len(amounts) : amounts[k] \in Nat
    BY ElementOfSeq
  <2> QED
    BY <2>1, <2>2, <2>3, <2>4
<1>2. /\ SumOf(s) = SumFunctionOnSet(s, I)
      /\ SumOf(r) = SumFunctionOnSet(r, I)
      /\ SumOf(amounts) = SumFunctionOnSet(amounts, K)
      /\ SumOf(s) \in Nat /\ SumOf(r) \in Nat /\ SumOf(amounts) \in Nat
  BY SumOfIsSum, SumOfType
<1>3. IsFiniteSet(I) /\ IsFiniteSet(K)
  BY <1>1, FS_Interval
<1>4. /\ \A k \in K : amounts[k] \in Int /\ s[ids[k]] = amounts[k]
      /\ \A j, k \in K : ids[j] = ids[k] => j = k
  BY <1>1
<1>5. /\ T \in SUBSET I
      /\ R \cup T = I /\ R \cap T = {} /\ R \in SUBSET I /\ I \ R = T
  OBVIOUS
<1>6. /\ \A i \in R \cup T : s[i] \in Int
      /\ \A i \in R : s[i] \in Int /\ r[i] = s[i]
      /\ \A i \in I \ R : r[i] = 0
  <2>1. \A i \in R : r[i] = s[i]
    OBVIOUS
  <2>2. \A i \in T : r[i] = 0
    OBVIOUS
  <2>3. \A i \in I : s[i] \in Int
    BY <1>1
  <2> HIDE DEF I, R, T
  <2> QED
    BY <1>5, <2>1, <2>2, <2>3
<1> HIDE DEF I, K, R
<1>7. /\ IsFiniteSet(T)
      /\ SumFunctionOnSet(s, T) = SumFunctionOnSet(amounts, K)
  BY ONLY <1>3, <1>4, SumRename DEF T
<1> HIDE DEF T
<1>8. IsFiniteSet(R)
  BY <1>3, <1>5, FS_Subset
<1>9. SumFunctionOnSet(s, R \cup T) = SumFunctionOnSet(s, R) + SumFunctionOnSet(s, T)
  BY ONLY <1>5, <1>6, <1>7, <1>8, SumUnion
<1>10. SumFunctionOnSet(s, R \cup T) = SumFunctionOnSet(s, I)
  BY <1>5, Zenon
<1>11. SumFunctionOnSet(r, I) = SumFunctionOnSet(s, R)
  BY ONLY <1>3, <1>5, <1>6, SumFilter
<1> QED
  BY <1>2, <1>7, <1>9, <1>10, <1>11

\* r is s with numbers added at its end, the last of which are zeroes.
LEMMA SumOfLonger ==
    ASSUME NEW s \in Seq(Nat), NEW r \in Seq(Nat), Len(s) <= Len(r),
           \A i \in 1..Len(s) : r[i] = s[i],
           \A i \in 1..Len(r) : i > Len(s) => r[i] = 0
    PROVE  SumOf(r) = SumOf(s)
<1> DEFINE I == 1..Len(r)
           T == 1..Len(s)
<1>1. Len(s) \in Nat /\ Len(r) \in Nat
  BY LenProperties
<1>2. \A i \in T : s[i] \in Nat
  BY ElementOfSeq
<1>3. /\ IsFiniteSet(I)
      /\ T \in SUBSET I
      /\ \A i \in T : s[i] \in Int /\ r[i] = s[i]
      /\ \A i \in I \ T : r[i] = 0
  <2>1. IsFiniteSet(I)
    BY <1>1, FS_Interval
  <2>2. T \in SUBSET I /\ \A i \in I \ T : i > Len(s)
    BY <1>1
  <2>3. \A i \in I \ T : r[i] = 0
    BY <2>2
  <2> QED
    BY <1>2, <2>1, <2>2, <2>3
<1>4. SumOf(s) = SumFunctionOnSet(s, T) /\ SumOf(r) = SumFunctionOnSet(r, I)
  BY SumOfIsSum
<1> HIDE DEF I, T
<1>5. SumFunctionOnSet(r, I) = SumFunctionOnSet(s, T)
  BY ONLY <1>3, SumFilter
<1> QED
  BY <1>4, <1>5

-----------------------------------------------------------------------------
(* The counters.                                                           *)

\* The amounts of the requests of c for d that d does not have, 0 for the others.
Missing(c, d) ==
    [o \in 1..Len(outboundings[c]) |->
        IF /\ outboundings[c][o].destChainId = d
           /\ <<c, o>> \notin srcOutboundingIdRegistered[d]
        THEN outboundings[c][o].amount ELSE 0]

\* The amounts of the claimed entries of c, 0 for the others.
Credited(c) ==
    [i \in 1..Len(inboundings[c]) |->
        IF inboundings[c][i].claimed THEN inboundings[c][i].amount ELSE 0]

RowsTyped ==
    \A c \in Chains :
        /\ Len(outboundings[c]) \in Nat
        /\ Len(inboundings[c]) \in Nat
        /\ \A d \in Chains : /\ Missing(c, d) \in Seq(Nat)
                             /\ Len(Missing(c, d)) = Len(outboundings[c])
        /\ Credited(c) \in Seq(Nat)
        /\ Len(Credited(c)) = Len(inboundings[c])

\* The rows of amounts are as long as the lists they are read from.
LEMMA RowTypes == IndInv => RowsTyped
<1> SUFFICES ASSUME IndInv, NEW c \in Chains
             PROVE  /\ Len(outboundings[c]) \in Nat
                    /\ Len(inboundings[c]) \in Nat
                    /\ \A d \in Chains : /\ Missing(c, d) \in Seq(Nat)
                                         /\ Len(Missing(c, d)) = Len(outboundings[c])
                    /\ Credited(c) \in Seq(Nat)
                    /\ Len(Credited(c)) = Len(inboundings[c])
  BY DEF RowsTyped
<1>1. outboundings[c] \in Seq(Outbounding) /\ inboundings[c] \in Seq(Inbounding)
  BY DEF IndInv, TypeOK
<1>2. Len(outboundings[c]) \in Nat /\ Len(inboundings[c]) \in Nat
  BY <1>1, LenProperties
<1>3. \A o \in 1..Len(outboundings[c]) : outboundings[c][o].amount \in Nat
  <2>1. \A o \in 1..Len(outboundings[c]) : outboundings[c][o] \in Outbounding
    BY <1>1, ElementOfSeq
  <2> QED
    BY <2>1 DEF Outbounding
<1>4. \A i \in 1..Len(inboundings[c]) : inboundings[c][i].amount \in Nat
  <2>1. \A i \in 1..Len(inboundings[c]) : inboundings[c][i] \in Inbounding
    BY <1>1, ElementOfSeq
  <2> QED
    BY <2>1 DEF Inbounding
<1>5. ASSUME NEW d \in Chains
      PROVE  Missing(c, d) \in Seq(Nat) /\ Len(Missing(c, d)) = Len(outboundings[c])
  <2>1. Missing(c, d) \in [1..Len(outboundings[c]) -> Nat]
    BY <1>3 DEF Missing
  <2>2. Missing(c, d) \in Seq(Nat)
    BY <1>2, <2>1, SeqDef
  <2> QED
    BY <1>2, <2>1, <2>2, LenProperties
<1>6. Credited(c) \in Seq(Nat) /\ Len(Credited(c)) = Len(inboundings[c])
  <2>1. Credited(c) \in [1..Len(inboundings[c]) -> Nat]
    BY <1>4 DEF Credited
  <2>2. Credited(c) \in Seq(Nat)
    BY <1>2, <2>1, SeqDef
  <2> QED
    BY <1>2, <2>1, <2>2, LenProperties
<1> QED
  BY <1>2, <1>5, <1>6

\* The same of the rows after a step.
LEMMA NextRowTypes ==
    IndInv' => \A c \in Chains :
                  /\ Len(outboundings'[c]) \in Nat
                  /\ Len(inboundings'[c]) \in Nat
                  /\ \A d \in Chains : /\ Missing(c, d)' \in Seq(Nat)
                                       /\ Len(Missing(c, d)') = Len(outboundings'[c])
                  /\ Credited(c)' \in Seq(Nat)
                  /\ Len(Credited(c)') = Len(inboundings'[c])
<1>1. IndInv' => RowsTyped'
  BY RowTypes, PTL
<1> QED
  BY <1>1 DEF RowsTyped

\* MovedAmountsAgree, in the terms of the lemmas.
CountersAgree ==
    \A c \in Chains :
        /\ \A d \in Chains : movedOut[c][d] - movedIn[d][c] = SumOf(Missing(c, d))
        /\ totalOutboundAmount[c] = SumFunction(movedOut[c])
        /\ totalInboundAmount[c] = SumOf(Credited(c))

\* The counters agree with the rows exactly when the invariant of the run holds.
LEMMA CountersMean == CountersAgree <=> MovedAmountsAgree
  BY DEF CountersAgree, MovedAmountsAgree, Missing, Credited

\* One number that changes changes the sum.
LEMMA RowChange ==
    ASSUME NEW S, IsFiniteSet(S), NEW f \in [S -> Nat], NEW g \in [S -> Nat],
           NEW x \in S, \A y \in S : y # x => g[y] = f[y]
    PROVE  /\ SumFunction(f) \in Int
           /\ SumFunction(g) = SumFunction(f) + (g[x] - f[x])
<1>1. /\ f[x] \in Int /\ g[x] \in Int
      /\ \A y \in S : y # x => f[y] \in Int /\ g[y] = f[y]
  OBVIOUS
<1>2. SumFunction(f) = SumFunctionOnSet(f, S) /\ SumFunction(g) = SumFunctionOnSet(g, S)
  BY DEF SumFunction
<1>3. /\ SumFunctionOnSet(f, S) \in Int
      /\ SumFunctionOnSet(g, S) = SumFunctionOnSet(f, S) + (g[x] - f[x])
  BY <1>1, SumChange
<1> QED
  BY <1>2, <1>3

\* What a request adds to the requests its destination misses.
LEMMA SendMissing ==
    ASSUME IndInv, IndInv', NEW c \in Chains, NEW a \in Accounts,
           NEW amount \in Amounts, NEW d \in Chains, NEW sign \in Signatures,
           OverchainTransfer(c, a, amount, d, sign), NEW e \in Chains, NEW b \in Chains
    PROVE  /\ SumOf(Missing(e, b)) \in Nat
           /\ SumOf(Missing(e, b)') = SumOf(Missing(e, b))
                  + IF e = c /\ b = d THEN amount ELSE 0
<1>0. PICK n : n = Len(outboundings[c])
  OBVIOUS
<1>1. /\ n \in Nat
      /\ Len(outboundings'[c]) = n + 1
      /\ outboundings'[c][n + 1].amount = amount
      /\ outboundings'[c][n + 1].destChainId = d
      /\ \A o \in 1..n : outboundings'[c][o] = outboundings[c][o]
      /\ \A i \in Chains \ {c} : outboundings'[i] = outboundings[i]
      /\ srcOutboundingIdRegistered' = srcOutboundingIdRegistered
  BY <1>0, SendEffect
<1>2. /\ Missing(e, b) \in Seq(Nat)
      /\ Len(Missing(e, b)) = Len(outboundings[e])
      /\ Missing(e, b)' \in Seq(Nat)
      /\ Len(Missing(e, b)') = Len(outboundings'[e])
  BY RowTypes, NextRowTypes DEF RowsTyped
<1>3. SumOf(Missing(e, b)) \in Nat
  BY <1>2, SumOfType
<1>4. CASE e # c
  <2>1. Missing(e, b)' = Missing(e, b)
    BY <1>1, <1>4 DEF Missing
  <2> QED
    BY <1>3, <1>4, <2>1
<1>5. CASE e = c
  <2>1. PICK s, r : s = Missing(c, b) /\ r = Missing(c, b)'
    OBVIOUS
  <2>2. \A i \in 1..n : r[i] = s[i]
    BY <1>0, <1>1, <2>1 DEF Missing
  <2>3. <<c, n + 1>> \notin srcOutboundingIdRegistered[b]
    BY <1>0, <1>1, RegisteredRequest
  <2>4. r[n + 1] = IF b = d THEN amount ELSE 0
    <3>1. n + 1 \in 1..Len(outboundings'[c])
      BY <1>1
    <3>2. r[n + 1] = IF /\ outboundings'[c][n + 1].destChainId = b
                        /\ <<c, n + 1>> \notin srcOutboundingIdRegistered'[b]
                     THEN outboundings'[c][n + 1].amount ELSE 0
      BY <2>1, <3>1 DEF Missing
    <3> QED
      BY <1>1, <2>3, <3>2
  <2>5. /\ s \in Seq(Nat) /\ r \in Seq(Nat) /\ Len(s) = n /\ Len(r) = Len(s) + 1
    BY <1>0, <1>1, <1>2, <1>5, <2>1
  <2>6. SumOf(s) \in Nat /\ SumOf(r) = SumOf(s) + r[Len(s) + 1]
    BY <2>2, <2>5, SumOfOneMore
  <2> QED
    BY <1>5, <2>1, <2>4, <2>5, <2>6
<1> QED
  BY <1>3, <1>4, <1>5

\* The counters are natural numbers.
LEMMA CounterTypes ==
    ASSUME IndInv
    PROVE  /\ \A c \in Chains : /\ totalOutboundAmount[c] \in Nat
                                /\ totalInboundAmount[c] \in Nat
                                /\ movedOut[c] \in [Chains -> Nat]
                                /\ movedIn[c] \in [Chains -> Nat]
                                /\ \A d \in Chains : /\ movedOut[c][d] \in Nat
                                                     /\ movedIn[c][d] \in Nat
           /\ movedOut \in [Chains -> [Chains -> Nat]]
           /\ movedIn \in [Chains -> [Chains -> Nat]]
           /\ totalOutboundAmount \in [Chains -> Nat]
           /\ totalInboundAmount \in [Chains -> Nat]
  BY DEF IndInv, TypeOK

\* A burn raises the counters of its chain by the amount it appends to the rows.
LEMMA SendCounters ==
    ASSUME IndInv, IndInv', CountersAgree, NEW c \in Chains, NEW a \in Accounts,
           NEW amount \in Amounts, NEW d \in Chains, NEW sign \in Signatures,
           OverchainTransfer(c, a, amount, d, sign)
    PROVE  CountersAgree'
<1>0. amount \in Nat
  BY NumbersAssumption
<1>1. /\ totalOutboundAmount' = [totalOutboundAmount EXCEPT ![c] = @ + amount]
      /\ movedOut' = [movedOut EXCEPT ![c][d] = @ + amount]
      /\ UNCHANGED <<inboundings, totalInboundAmount, movedIn>>
  BY DEF OverchainTransfer, listVars
<1>2. ASSUME NEW e \in Chains, NEW b \in Chains
      PROVE  movedOut'[e][b] - movedIn'[b][e] = SumOf(Missing(e, b)')
  <2>1. /\ SumOf(Missing(e, b)) \in Nat
        /\ SumOf(Missing(e, b)') = SumOf(Missing(e, b))
               + IF e = c /\ b = d THEN amount ELSE 0
    BY SendMissing
  <2>2. movedOut[e][b] - movedIn[b][e] = SumOf(Missing(e, b))
    BY DEF CountersAgree
  <2>3. movedOut'[e][b] = movedOut[e][b] + IF e = c /\ b = d THEN amount ELSE 0
    BY <1>0, <1>1, CounterTypes
  <2>4. movedOut[e][b] \in Nat /\ movedIn[b][e] \in Nat
    BY CounterTypes
  <2> QED
    BY <1>0, <1>1, <2>1, <2>2, <2>3, <2>4
<1>3. ASSUME NEW e \in Chains
      PROVE  totalOutboundAmount'[e] = SumFunction(movedOut'[e])
  <2>1. totalOutboundAmount[e] = SumFunction(movedOut[e])
    BY DEF CountersAgree
  <2>2. CASE e # c
    BY <1>1, <2>1, <2>2, CounterTypes
  <2>3. CASE e = c
    <3>1. PICK f, g : f = movedOut[c] /\ g = movedOut'[c]
      OBVIOUS
    <3>2. /\ f \in [Chains -> Nat] /\ g \in [Chains -> Nat]
          /\ g[d] = f[d] + amount /\ f[d] \in Nat
          /\ \A b \in Chains : b # d => g[b] = f[b]
      BY <1>0, <1>1, <3>1, CounterTypes
    <3>3. SumFunction(f) \in Int /\ SumFunction(g) = SumFunction(f) + (g[d] - f[d])
      BY <3>2, RowChange, NumbersAssumption
    <3>4. totalOutboundAmount'[c] = totalOutboundAmount[c] + amount
      BY <1>1, CounterTypes
    <3> QED
      BY <1>0, <2>1, <2>3, <3>1, <3>2, <3>3, <3>4
  <2> QED
    BY <2>2, <2>3
<1>4. ASSUME NEW e \in Chains
      PROVE  totalInboundAmount'[e] = SumOf(Credited(e)')
  <2>1. Credited(e)' = Credited(e)
    BY <1>1 DEF Credited
  <2> QED
    BY <1>1, <2>1 DEF CountersAgree
<1> QED
  BY <1>2, <1>3, <1>4 DEF CountersAgree

\* A claim changes what is credited on its chain by what it issues.
LEMMA ClaimCounters ==
    ASSUME IndInv, IndInv', CountersAgree, NEW d \in Chains, NEW a \in Accounts,
           ClaimAllBridgedAmounts(d, a)
    PROVE  CountersAgree'
<1>0. PICK ids, amounts, total :
          /\ ids = accountInboundings[d][a]
          /\ amounts = InboundAmounts(d, ids)
          /\ total = SumOf(amounts)
  OBVIOUS
<1>1. /\ ids \in Seq(Nat \ {0})
      /\ UNCHANGED <<outboundings, srcOutboundingIdRegistered>>
      /\ \A c \in Chains \ {d} : inboundings'[c] = inboundings[c]
      /\ Len(inboundings'[d]) = Len(inboundings[d])
      /\ \A i \in 1..Len(inboundings[d]) :
             /\ inboundings'[d][i].amount = inboundings[d][i].amount
             /\ inboundings'[d][i].claimed
                    <=> inboundings[d][i].claimed \/ i \in Range(ids)
      /\ \A i \in Range(ids) : i \in 1..Len(inboundings[d]) /\ ~inboundings[d][i].claimed
      /\ total \in Nat
      /\ totalInboundAmount' = [totalInboundAmount EXCEPT ![d] = @ + total]
  BY <1>0, ClaimEffect
<1>2. UNCHANGED <<movedOut, movedIn, totalOutboundAmount>>
  BY DEF ClaimAllBridgedAmounts
<1>3. PICK s, r : s = Credited(d)' /\ r = Credited(d)
  OBVIOUS
<1>4. /\ s \in Seq(Nat) /\ r \in Seq(Nat)
      /\ Len(r) = Len(s) /\ Len(s) = Len(inboundings[d])
  BY <1>1, <1>3, RowTypes, NextRowTypes DEF RowsTyped
<1>5. /\ \A i : i \in Range(ids) <=> \E k \in 1..Len(ids) : i = ids[k]
      /\ \A j, k \in 1..Len(ids) : ids[j] = ids[k] => j = k
      /\ Len(ids) \in Nat
  <2>1. \A j, k \in 1..Len(ids) : ids[j] = ids[k] => j = k
    BY <1>0 DEF IndInv, InboxExact
  <2>2. Range(ids) = {ids[k] : k \in 1..Len(ids)} /\ Len(ids) \in Nat
    BY <1>1, LenProperties, RangeEquality
  <2> QED
    BY <2>1, <2>2
<1>6. ASSUME NEW i \in 1..Len(inboundings[d])
      PROVE  /\ i \notin Range(ids) => r[i] = s[i]
             /\ i \in Range(ids) => s[i] = inboundings[d][i].amount /\ r[i] = 0
  BY <1>1, <1>3 DEF Credited
<1>7. amounts = [k \in 1..Len(ids) |-> inboundings[d][ids[k]].amount]
  BY <1>0 DEF InboundAmounts
<1>8. amounts \in Seq(Nat) /\ Len(amounts) = Len(ids)
  <2>1. \A k \in 1..Len(ids) : inboundings[d][ids[k]].amount = s[ids[k]]
    BY <1>1, <1>5, <1>6
  <2>2. \A k \in 1..Len(ids) : s[ids[k]] \in Nat
    BY <1>1, <1>4, <1>5, ElementOfSeq
  <2>3. amounts \in [1..Len(ids) -> Nat]
    BY <1>7, <2>1, <2>2
  <2>4. amounts \in Seq(Nat)
    BY <1>5, <2>3, SeqDef
  <2> QED
    BY <1>5, <2>3, <2>4, LenProperties
<1>9. Zeroed(s, r, ids, amounts)
  <2>1. \A k \in 1..Len(amounts) : /\ ids[k] \in 1..Len(s)
                                   /\ s[ids[k]] = amounts[k]
                                   /\ r[ids[k]] = 0
    BY <1>1, <1>4, <1>5, <1>6, <1>7, <1>8
  <2>2. \A i \in 1..Len(s) : (\A k \in 1..Len(amounts) : i # ids[k]) => r[i] = s[i]
    BY <1>4, <1>5, <1>6, <1>8
  <2> QED
    BY <1>4, <1>5, <1>8, <2>1, <2>2 DEF Zeroed
<1>10. SumOf(r) \in Nat /\ SumOf(s) = SumOf(r) + total
  BY <1>0, <1>9, SumOfZeroed
<1>11. ASSUME NEW e \in Chains
       PROVE  totalInboundAmount'[e] = SumOf(Credited(e)')
  <2>1. totalInboundAmount[e] = SumOf(Credited(e))
    BY DEF CountersAgree
  <2>2. CASE e # d
    <3>1. Credited(e)' = Credited(e)
      BY <1>1, <2>2 DEF Credited
    <3> QED
      BY <1>1, <2>1, <2>2, <3>1, CounterTypes
  <2>3. CASE e = d
    <3>1. totalInboundAmount'[d] = totalInboundAmount[d] + total
      BY <1>1, CounterTypes
    <3> QED
      BY <1>3, <1>10, <2>1, <2>3, <3>1
  <2> QED
    BY <2>2, <2>3
<1>12. \A c, b \in Chains : Missing(c, b)' = Missing(c, b)
  BY <1>1 DEF Missing
<1> QED
  BY <1>2, <1>11, <1>12 DEF CountersAgree

\* A relaying call records, as moved into its chain, the amounts of the requests
\* its chain misses no more.
LEMMA RelayCounters ==
    ASSUME IndInv, IndInv', CountersAgree, NEW v \in Validators, NEW d \in Chains,
           Relay(v, d)
    PROVE  CountersAgree'
<1>0. job[v] # NoJob
  BY DEF Relay
<1>1. PICK ids \in SUBSET PendingFor(v, d) : AppendInboundings(v, job[v].src, d, ids)
  BY DEF Relay
<1>2. PICK src, batch, amounts : /\ src = job[v].src
                                 /\ batch = Ascending(ids)
                                 /\ amounts = BatchAmounts(src, batch)
  OBVIOUS
<1>3. /\ \A o \in ids : <<src, o>> \notin srcOutboundingIdRegistered[d]
      /\ srcOutboundingIdRegistered' =
             [srcOutboundingIdRegistered EXCEPT
                 ![d] = srcOutboundingIdRegistered[d] \cup {<<src, o>> : o \in ids}]
      /\ movedIn' = [movedIn EXCEPT ![d][src] = @ + SumOf(amounts)]
      /\ UNCHANGED <<outboundings, totalOutboundAmount, totalInboundAmount, movedOut>>
  BY <1>1, <1>2 DEF AppendInboundings, NoneRegistered
<1>4. /\ src \in Chains
      /\ Len(batch) \in Nat
      /\ \A j, k \in 1..Len(batch) : batch[j] = batch[k] => j = k
      /\ \A k \in 1..Len(batch) : batch[k] \in ids
      /\ \A o \in ids : \E k \in 1..Len(batch) : batch[k] = o
  <2>1. /\ job[v].src \in Chains
        /\ Len(Ascending(ids)) \in Nat
        /\ \A j, k \in 1..Len(Ascending(ids)) :
               Ascending(ids)[j] = Ascending(ids)[k] => j = k
    BY <1>0, RelayFacts
  <2>2. /\ \A k \in 1..Len(Ascending(ids)) : Ascending(ids)[k] \in ids
        /\ \A o \in ids : \E k \in 1..Len(Ascending(ids)) : Ascending(ids)[k] = o
    BY <1>0, RelayFacts
  <2> QED
    BY <1>2, <2>1, <2>2
<1>5. \A o \in ids : o \in 1..Len(outboundings[src]) /\ outboundings[src][o].destChainId = d
  <2>1. \A o \in ids : o \in 1..Len(outboundings[job[v].src])
    BY <1>0, RelayFacts
  <2>2. \A o \in ids : outboundings[job[v].src][o].destChainId = d
    BY DEF PendingFor
  <2> QED
    BY <1>2, <2>1, <2>2
<1>6. ASSUME NEW e, NEW o, NEW b \in Chains
      PROVE  <<e, o>> \in srcOutboundingIdRegistered'[b]
                 <=> \/ <<e, o>> \in srcOutboundingIdRegistered[b]
                     \/ b = d /\ e = src /\ o \in ids
  <2>1. srcOutboundingIdRegistered \in [Chains -> SUBSET (Chains \X (Nat \ {0}))]
    BY DEF IndInv, TypeOK
  <2>2. CASE b = d
    <3>1. srcOutboundingIdRegistered'[d]
              = srcOutboundingIdRegistered[d] \cup {<<src, p>> : p \in ids}
      BY <1>3, <2>1
    <3> QED
      BY <2>2, <3>1
  <2>3. CASE b # d
    BY <1>3, <2>1, <2>3
  <2> QED
    BY <2>2, <2>3
<1>7. PICK s, r : s = Missing(src, d) /\ r = Missing(src, d)'
  OBVIOUS
<1>8. /\ s \in Seq(Nat) /\ r \in Seq(Nat) /\ Len(r) = Len(s)
      /\ Len(s) = Len(outboundings[src])
  BY <1>3, <1>4, <1>7, RowTypes, NextRowTypes DEF RowsTyped
<1>9. ASSUME NEW o \in 1..Len(outboundings[src])
      PROVE  /\ o \notin ids => r[o] = s[o]
             /\ o \in ids => s[o] = outboundings[src][o].amount /\ r[o] = 0
  <2>1. s[o] = IF /\ outboundings[src][o].destChainId = d
                  /\ <<src, o>> \notin srcOutboundingIdRegistered[d]
               THEN outboundings[src][o].amount ELSE 0
    BY <1>7 DEF Missing
  <2>2. r[o] = IF /\ outboundings[src][o].destChainId = d
                  /\ <<src, o>> \notin srcOutboundingIdRegistered'[d]
               THEN outboundings[src][o].amount ELSE 0
    BY <1>3, <1>7 DEF Missing
  <2> QED
    BY <1>3, <1>5, <1>6, <2>1, <2>2
<1>10. amounts = [k \in 1..Len(batch) |-> outboundings[src][batch[k]].amount]
  BY <1>2 DEF BatchAmounts
<1>11. amounts \in Seq(Nat) /\ Len(amounts) = Len(batch)
  <2>1. \A k \in 1..Len(batch) : outboundings[src][batch[k]].amount = s[batch[k]]
    BY <1>4, <1>5, <1>9
  <2>2. \A k \in 1..Len(batch) : s[batch[k]] \in Nat
    BY <1>4, <1>5, <1>8, ElementOfSeq
  <2>3. amounts \in [1..Len(batch) -> Nat]
    BY <1>10, <2>1, <2>2
  <2>4. amounts \in Seq(Nat)
    BY <1>4, <2>3, SeqDef
  <2> QED
    BY <1>4, <2>3, <2>4, LenProperties
<1>12. Zeroed(s, r, batch, amounts)
  <2>1. \A k \in 1..Len(amounts) : /\ batch[k] \in 1..Len(s)
                                   /\ s[batch[k]] = amounts[k]
                                   /\ r[batch[k]] = 0
    BY <1>4, <1>5, <1>8, <1>9, <1>10, <1>11
  <2>2. \A i \in 1..Len(s) : (\A k \in 1..Len(amounts) : i # batch[k]) => r[i] = s[i]
    BY <1>4, <1>8, <1>9, <1>11
  <2> QED
    BY <1>4, <1>8, <1>11, <2>1, <2>2 DEF Zeroed
<1>13. /\ SumOf(r) \in Nat /\ SumOf(amounts) \in Nat
       /\ SumOf(s) = SumOf(r) + SumOf(amounts)
  BY <1>12, SumOfZeroed
<1>14. ASSUME NEW c \in Chains, NEW b \in Chains
       PROVE  movedOut'[c][b] - movedIn'[b][c] = SumOf(Missing(c, b)')
  <2>1. /\ movedOut[c][b] - movedIn[b][c] = SumOf(Missing(c, b))
        /\ movedOut[c][b] \in Nat /\ movedIn[b][c] \in Nat
    BY CounterTypes DEF CountersAgree
  <2>2. CASE c = src /\ b = d
    <3>1. movedIn'[d][src] = movedIn[d][src] + SumOf(amounts)
      BY <1>3, <1>4, CounterTypes
    <3> QED
      BY <1>3, <1>7, <1>13, <2>1, <2>2, <3>1
  <2>3. CASE ~(c = src /\ b = d)
    <3>1. Missing(c, b)' = Missing(c, b)
      BY <1>3, <1>6, <2>3 DEF Missing
    <3>2. movedIn'[b][c] = movedIn[b][c]
      BY <1>3, <1>4, <2>3, CounterTypes
    <3> QED
      BY <1>3, <2>1, <3>1, <3>2
  <2> QED
    BY <2>2, <2>3
<1>15. ASSUME NEW c \in Chains
       PROVE  totalInboundAmount'[c] = SumOf(Credited(c)')
  <2>1. totalInboundAmount[c] = SumOf(Credited(c))
    BY DEF CountersAgree
  <2>2. /\ \A b \in Chains \ {d} : inboundings'[b] = inboundings[b]
        /\ Len(inboundings[d]) \in Nat
        /\ Len(inboundings'[d]) \in Nat
        /\ Len(inboundings[d]) <= Len(inboundings'[d])
        /\ \A i \in 1..Len(inboundings[d]) : inboundings'[d][i] = inboundings[d][i]
        /\ \A i \in 1..Len(inboundings'[d]) :
               i > Len(inboundings[d]) => ~inboundings'[d][i].claimed
    BY <1>0, <1>1, RelayEntries
  <2>3. CASE c # d
    <3>1. Credited(c)' = Credited(c)
      BY <2>2, <2>3 DEF Credited
    <3> QED
      BY <1>3, <2>1, <3>1
  <2>4. CASE c = d
    <3>1. PICK old, new : old = Credited(d) /\ new = Credited(d)'
      OBVIOUS
    <3>2. /\ old \in Seq(Nat) /\ new \in Seq(Nat)
          /\ Len(old) = Len(inboundings[d]) /\ Len(new) = Len(inboundings'[d])
      BY <3>1, RowTypes, NextRowTypes DEF RowsTyped
    <3>3. 1..Len(inboundings[d]) \subseteq 1..Len(inboundings'[d])
      BY <2>2
    <3>4. \A i \in 1..Len(old) : new[i] = old[i]
      BY <2>2, <3>1, <3>2, <3>3 DEF Credited
    <3>5. \A i \in 1..Len(new) : i > Len(old) => new[i] = 0
      BY <2>2, <3>1, <3>2 DEF Credited
    <3>6. SumOf(new) = SumOf(old)
      BY <2>2, <3>2, <3>4, <3>5, SumOfLonger
    <3> QED
      BY <1>3, <2>1, <2>4, <3>1, <3>6
  <2> QED
    BY <2>3, <2>4
<1>16. ASSUME NEW c \in Chains
       PROVE  totalOutboundAmount'[c] = SumFunction(movedOut'[c])
  BY <1>3 DEF CountersAgree
<1> QED
  BY <1>14, <1>15, <1>16 DEF CountersAgree

\* Every step of the bridge keeps the counters in agreement with the rows.
LEMMA CountersStep == IndInv /\ IndInv' /\ CountersAgree /\ [Next]_vars => CountersAgree'
<1> SUFFICES ASSUME IndInv, IndInv', CountersAgree, [Next]_vars PROVE CountersAgree'
  OBVIOUS
<1>1. CASE Unseen
  BY <1>1 DEF Unseen, CountersAgree, Missing, Credited
<1> QED
  BY <1>1, LedgerCases, SendCounters, ClaimCounters, RelayCounters

\* All counters and rows are empty at the start.
LEMMA CountersInit == Init => CountersAgree
<1> SUFFICES ASSUME Init PROVE CountersAgree
  OBVIOUS
<1>1. \A c, d \in Chains : /\ movedOut[c][d] = 0 /\ movedIn[d][c] = 0
                           /\ Missing(c, d) = <<>>
  BY DEF Init, Missing
<1>2. \A c \in Chains : /\ Credited(c) = <<>>
                        /\ totalInboundAmount[c] = 0 /\ totalOutboundAmount[c] = 0
  BY DEF Init, Credited
<1>3. SumOf(<<>>) = 0
  <2>1. <<>> \in Seq(Nat) /\ 1..Len(<<>>) = {}
    OBVIOUS
  <2> QED
    BY <2>1, SumOfIsSum, SumEmpty
<1>4. ASSUME NEW c \in Chains
      PROVE  SumFunction(movedOut[c]) = 0
  <2> DEFINE f == movedOut[c]
  <2>1. \A d \in Chains : f[d] = 0
    BY <1>1
  <2>2. SumFunction(f) = SumFunctionOnSet(f, Chains)
    BY DEF SumFunction, Init
  <2> HIDE DEF f
  <2>3. SumFunctionOnSet(f, Chains) = 0
    BY <2>1, SumZero, NumbersAssumption
  <2> QED
    BY <2>2, <2>3 DEF f
<1> QED
  BY <1>1, <1>2, <1>3, <1>4 DEF CountersAgree

\* The counters of BridgeState agree across the chains in every state: what a
\* chain has sent to another and the other has recorded differ by the requests no
\* validator has relayed yet, and the totals are the sums of the requests made
\* and of those claimed.
THEOREM MovedAmountsAlwaysAgree == Spec => []MovedAmountsAgree
<1>1. Spec => []IndInv
  BY Inductive
<1>2. Init => CountersAgree
  BY CountersInit
<1>3. IndInv /\ IndInv' /\ CountersAgree /\ [Next]_vars => CountersAgree'
  BY CountersStep
<1>4. CountersAgree <=> MovedAmountsAgree
  BY CountersMean
<1> QED
  BY <1>1, <1>2, <1>3, <1>4, PTL DEF Spec
=============================================================================
