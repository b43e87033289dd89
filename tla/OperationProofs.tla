-------------------------- MODULE OperationProofs --------------------------
(***************************************************************************)
(* The safety properties of Operations, for any number of holders, markets,*)
(* borrowers, failures and deaths.                                         *)
(*                                                                         *)
(* Nobody is left with a pynth that the Issuer has dropped: only a removal *)
(* takes a pynth out of the Issuer, which looks at the supply then and not *)
(* when the command did, and a holder gets one by an exchange, which needs *)
(* the Issuer, or from another holder.                                     *)
(*                                                                         *)
(* Markets are listed and counted by the manager that owns them: the lists *)
(* are finite, a market that no manager owns is on none, and what moves    *)
(* with a chunk is the sum of its deposits.                                *)
(*                                                                         *)
(* Shorts can be closed.  The property alone is not inductive: when the    *)
(* link changes, what makes it hold for a borrower without shorts is that  *)
(* no other contract has anything of him enrolled, and what makes it hold  *)
(* for the contract is that the command links, or leaves to the owner,     *)
(* only what it has recorded and made ready.                               *)
(***************************************************************************)
EXTENDS Operations, ListProofs

-----------------------------------------------------------------------------
(* NobodyStranded.                                                         *)

\* Whoever holds something holds a pynth that the Issuer knows.
PynthInv == held \subseteq P!Pairs /\ P!NobodyStranded

\* Steps that drop no pynth and give nobody one keep the invariant.
LEMMA QuietKeeps == PynthInv /\ held' \subseteq held /\ issued' = issued => PynthInv'
BY DEF PynthInv, P!NobodyStranded

\* At first the Issuer knows every pynth.
LEMMA PynthsInit == P!Init => PynthInv
BY DEF P!Init, PynthInv, P!NobodyStranded, P!Pairs

\* A pynth is dropped when nobody holds it.
LEMMA RemovalKeeps ==
    ASSUME NEW k \in Keys, P!CanRemove(k), PynthInv, issued' = issued \ {k}, held' = held
    PROVE  PynthInv'
<1>1. \A p \in held : p[2] # k
  <2> SUFFICES ASSUME NEW p \in held, p[2] = k PROVE FALSE
    OBVIOUS
  <2>1. p \in Holders \X Keys
    BY DEF PynthInv, P!Pairs
  <2>2. p = <<p[1], k>> /\ p[1] \in Holders
    BY <2>1
  <2> QED
    BY <2>2 DEF P!CanRemove, P!Empty
<1> QED
  BY <1>1 DEF PynthInv, P!NobodyStranded

\* People exchange only into what the Issuer knows, and pass on what they hold.
LEMMA PeopleKeep == PynthInv /\ P!People => PynthInv'
<1> SUFFICES ASSUME PynthInv, NEW p \in P!Pairs, NEW to \in {{}} \cup {{<<h, p[2]>>} : h \in Holders},
                    P!Exchange(p) \/ P!EndWaiting(p) \/ P!Sell(p) \/ P!Transfer(p, to)
             PROVE  PynthInv'
  BY DEF P!People
<1>1. CASE P!Exchange(p)
  BY <1>1 DEF P!Exchange, P!Active, PynthInv, P!NobodyStranded
<1>2. CASE P!EndWaiting(p)
  BY <1>2, QuietKeeps DEF P!EndWaiting
<1>3. CASE P!Sell(p)
  BY <1>3, QuietKeeps DEF P!Sell, P!ExchangeAll
<1>4. CASE P!Transfer(p, to)
  <2>1. p \in held /\ held' \subseteq held \cup to /\ issued' = issued
    BY <1>4 DEF P!Transfer
  <2>2. \A q \in to : q \in P!Pairs /\ q[2] = p[2]
    BY DEF P!Pairs
  <2> QED
    BY <2>1, <2>2 DEF PynthInv, P!NobodyStranded
<1> QED
  BY <1>1, <1>2, <1>3, <1>4

\* Prices and suspensions change neither the holders nor the Issuer.
LEMMA TroublesKeep == PynthInv /\ P!Troubles => PynthInv'
BY QuietKeeps DEF P!Troubles, P!Trouble, P!suspendPynthWithInvalidRate

\* remove-pynths.js drops a pynth only by a call that finds it empty.
LEMMA RemoveKeeps ==
    ASSUME PynthInv, NEW k \in Keys,
           P!CheckPynth(k) \/ P!SendRemoval(k) \/ P!ForgetTargets(k) \/ P!ForgetPynth(k)
    PROVE  PynthInv'
<1>1. CASE P!CheckPynth(k) \/ P!ForgetTargets(k) \/ P!ForgetPynth(k)
  BY <1>1, QuietKeeps DEF P!CheckPynth, P!ForgetTargets, P!ForgetPynth, P!userVars
<1>2. CASE P!SendRemoval(k)
  <2>1. CASE P!CanRemove(k) /\ issued' = issued \ {k}
    BY <1>2, <2>1, RemovalKeeps DEF P!SendRemoval, P!userVars
  <2>2. CASE UNCHANGED issued
    BY <1>2, <2>2, QuietKeeps DEF P!SendRemoval, P!userVars
  <2> QED
    BY <1>2, <2>1, <2>2 DEF P!SendRemoval
<1> QED
  BY <1>1, <1>2

\* purge-pynths.js takes pynths from holders and gives none.
LEMMA PurgeKeeps ==
    ASSUME PynthInv, NEW k \in Keys, P!ReadHolders(k) \/ P!Purge(k)
    PROVE  PynthInv'
<1>1. CASE P!ReadHolders(k)
  BY <1>1, QuietKeeps DEF P!ReadHolders, P!userVars
<1>2. CASE P!Purge(k)
  BY <1>2, QuietKeeps DEF P!Purge, P!ExchangeAll
<1> QED
  BY <1>1, <1>2

\* settle.js changes neither the holders nor the Issuer.
LEMMA SettleKeeps ==
    ASSUME PynthInv, \/ \E p \in P!Pairs : P!Pass(p) \/ P!Send(p) \/ P!Await(p)
                \/ P!EndSettle \/ P!Mine
    PROVE  PynthInv'
BY QuietKeeps DEF P!Pass, P!Send, P!Await, P!EndSettle, P!Mine, P!userVars

\* The owner sends what was left to it, which finds the same or reverts.
LEMMA OwnerKeeps ==
    ASSUME PynthInv, NEW a \in actions, a.key \in Keys, P!OwnerActs(a)
    PROVE  PynthInv'
<1>1. CASE P!CanRemove(a.key) /\ issued' = issued \ {a.key} /\ UNCHANGED held
  BY <1>1, RemovalKeeps
<1>2. CASE P!ExchangeAll(a.key, P!Having(a.key, a.batch)) /\ UNCHANGED issued
  BY <1>2, QuietKeeps DEF P!ExchangeAll
<1> QED
  BY <1>1, <1>2 DEF P!OwnerActs

\* What is left to the owner is about pynths that there are.
KnownCalls == \A a \in actions : a.key \in Keys

\* Calls that wait for the owner are for pynths of the system.
LEMMA CallsStayKnown == KnownCalls /\ P!Next => KnownCalls'
<1> SUFFICES ASSUME KnownCalls PROVE P!Next => KnownCalls'
  OBVIOUS
<1> USE DEF KnownCalls
<1>1. ASSUME NEW k \in Keys, P!SendRemoval(k) \/ P!Purge(k) PROVE KnownCalls'
  <2>1. CASE UNCHANGED actions
    BY <2>1
  <2>2. ASSUME NEW call, NEW part,
               actions' = actions \cup {[call |-> call, key |-> k, batch |-> part]}
        PROVE  KnownCalls'
    BY <2>2
  <2>3. CASE P!SendRemoval(k)
    BY <2>1, <2>2, <2>3 DEF P!SendRemoval
  <2>4. CASE P!Purge(k)
    BY <2>1, <2>2, <2>4 DEF P!Purge
  <2> QED
    BY <1>1, <2>3, <2>4
<1>2. ASSUME NEW k \in Keys,
             P!CheckPynth(k) \/ P!ForgetTargets(k) \/ P!ForgetPynth(k) \/ P!ReadHolders(k)
      PROVE  KnownCalls'
  BY <1>2 DEF P!CheckPynth, P!ForgetTargets, P!ForgetPynth, P!ReadHolders, P!fileVars
<1>3. P!Starts \/ P!EndPurge \/ P!EndSettle \/ P!Mine \/ P!Die => KnownCalls'
  BY DEF P!Starts, P!StartRemove, P!StartPurge, P!StartSettle, P!EndPurge, P!EndSettle,
         P!Mine, P!Die, P!fileVars
<1>4. ASSUME NEW p \in P!Pairs, P!Pass(p) \/ P!Send(p) \/ P!Await(p) PROVE KnownCalls'
  BY <1>4 DEF P!Pass, P!Send, P!Await, P!fileVars
<1>5. P!People \/ P!Troubles => KnownCalls'
  <2>1. ASSUME NEW p, NEW to,
               P!Exchange(p) \/ P!EndWaiting(p) \/ P!Sell(p) \/ P!Transfer(p, to)
        PROVE  KnownCalls'
    BY <2>1 DEF P!Exchange, P!EndWaiting, P!Sell, P!Transfer, P!fileVars
  <2>2. ASSUME NEW k, P!Trouble(k) \/ P!suspendPynthWithInvalidRate(k) PROVE KnownCalls'
    BY <2>2 DEF P!Trouble, P!suspendPynthWithInvalidRate, P!fileVars
  <2> QED
    BY <2>1, <2>2 DEF P!People, P!Troubles
<1>6. ASSUME NEW a \in actions, P!OwnerActs(a) PROVE KnownCalls'
  BY <1>6 DEF P!OwnerActs
<1> QED
  BY <1>1, <1>2, <1>3, <1>4, <1>5, <1>6 DEF P!Next, P!Steps

\* So every step keeps the invariant.
LEMMA StepKeeps == PynthInv /\ KnownCalls /\ P!Next => PynthInv'
<1> SUFFICES ASSUME PynthInv, KnownCalls PROVE P!Next => PynthInv'
  OBVIOUS
<1>1. P!Starts \/ P!EndPurge \/ P!Die => PynthInv'
  BY QuietKeeps DEF P!Starts, P!StartRemove, P!StartPurge, P!StartSettle, P!EndPurge, P!Die,
                    P!userVars
<1>2. P!Steps => PynthInv'
  BY <1>1, RemoveKeeps, PurgeKeeps, SettleKeeps DEF P!Steps
<1>3. ASSUME NEW a \in actions, P!OwnerActs(a) PROVE PynthInv'
  BY <1>3, OwnerKeeps DEF KnownCalls
<1> QED
  BY <1>1, <1>2, <1>3, PeopleKeep, TroublesKeep, SettleKeeps DEF P!Next

\* What happens to markets, bridges and rewards leaves the pynths alone.
LEMMA PynthsStep == PynthInv /\ KnownCalls /\ [Next]_vars => PynthInv' /\ KnownCalls'
<1> SUFFICES ASSUME PynthInv, KnownCalls PROVE [Next]_vars => PynthInv' /\ KnownCalls'
  OBVIOUS
<1>1. OnPynths(P!Next) => PynthInv' /\ KnownCalls'
  BY StepKeeps, CallsStayKnown DEF OnPynths, On
<1>2. UNCHANGED pynthVars => PynthInv' /\ KnownCalls'
  BY QuietKeeps DEF pynthVars, KnownCalls
<1> QED
  BY <1>1, <1>2 DEF Next, OnMarkets, OnBridges, OnRewards, On, vars

\* No holder is ever left with a pynth that the Issuer has dropped: neither the
\* commands, nor a removal that the owner sends later, nor a death in between
\* can drop one that somebody has come to hold (remove-pynths.js, Issuer.sol).
THEOREM NobodyIsStranded == Spec => []NobodyStranded
<1>1. Init => PynthInv /\ KnownCalls
  BY PynthsInit DEF Init, P!Init, KnownCalls
<1>2. PynthInv => NobodyStranded
  BY DEF PynthInv, NobodyStranded
<1> QED
  BY <1>1, <1>2, PynthsStep, PTL DEF Spec

-----------------------------------------------------------------------------
(* MarketsCounted.                                                         *)

\* Each manager lists finitely many markets.
MarketTypes ==
    /\ manager \in [Markets -> M!Managers \cup {"none"}]
    /\ active \in [M!Managers -> SUBSET Markets]
    /\ matured \in [M!Managers -> SUBSET Markets]
    /\ deposited \in [Markets -> Nat]
    /\ totalDeposited \in [M!Managers -> Int]
    /\ \A g \in M!Managers : IsFiniteSet(M!Known(g))

\* Only what has been created is owned.
OnlyPastOwned == \A m \in Markets : manager[m] # "none" => m \in past

MarketInv == MarketTypes /\ OnlyPastOwned /\ M!MarketsCounted

\* What a manager counts is a sum over a finite set.
LEMMA DepositsAreSum ==
    ASSUME NEW markets
    PROVE  M!Deposits(markets) = SumFunctionOnSet(deposited, markets)
BY DEF M!Deposits, M!MapThenSumSet, M!MapThenFoldSet,
       SumFunctionOnSet, FoldFunctionOnSet, MapThenFoldSet

\* The invariant of the next state, from sums.
LEMMA NextCounted ==
    ASSUME MarketTypes',
           \A g \in M!Managers :
               /\ M!Known(g)' = {m \in Markets : manager'[m] = g}
               /\ active'[g] \cap matured'[g] = {}
               /\ totalDeposited'[g] = SumFunctionOnSet(deposited', M!Known(g)')
    PROVE  M!MarketsCounted'
<1>1. ASSUME NEW g \in M!Managers
      PROVE  M!Deposits(M!Known(g))' = SumFunctionOnSet(deposited', M!Known(g)')
  BY DEF M!Deposits, M!MapThenSumSet, M!MapThenFoldSet,
         SumFunctionOnSet, FoldFunctionOnSet, MapThenFoldSet
<1> QED
  BY <1>1 DEF M!MarketsCounted

\* The invariant, read as sums.
LEMMA CountedSums ==
    ASSUME MarketInv
    PROVE  \A g \in M!Managers :
               /\ M!Known(g) = {m \in Markets : manager[m] = g}
               /\ M!Known(g) = active[g] \cup matured[g]
               /\ IsFiniteSet(M!Known(g)) /\ M!Known(g) \subseteq Markets
               /\ active[g] \cap matured[g] = {}
               /\ totalDeposited[g] = SumFunctionOnSet(deposited, M!Known(g))
               /\ \A m \in M!Known(g) : deposited[m] \in Int
BY DepositsAreSum DEF MarketInv, MarketTypes, M!MarketsCounted, M!Known

\* At first there is no market.
LEMMA MarketsInit == M!Init => MarketInv
<1> SUFFICES ASSUME M!Init PROVE MarketInv
  OBVIOUS
<1>1. \A g \in M!Managers : M!Known(g) = {} /\ active[g] = {} /\ matured[g] = {}
  BY DEF M!Init, M!Known
<1>2. \A m \in Markets : manager[m] = "none"
  BY DEF M!Init
<1>3. \A g \in M!Managers : totalDeposited[g] = M!Deposits({})
  BY DepositsAreSum, SumEmpty DEF M!Init
<1>4. MarketTypes
  BY <1>1, FS_EmptySet DEF M!Init, MarketTypes
<1>5. "none" \notin M!Managers
  BY DEF M!Managers
<1> QED
  BY <1>1, <1>2, <1>3, <1>4, <1>5 DEF MarketInv, OnlyPastOwned, M!MarketsCounted

\* What the invariant is about.
marketState == <<manager, active, matured, deposited, totalDeposited, past>>

\* Steps that leave the markets alone keep the invariant.
LEMMA MarketsStutter == MarketInv /\ UNCHANGED marketState => MarketInv'
<1> SUFFICES ASSUME MarketInv, UNCHANGED marketState PROVE MarketInv'
  OBVIOUS
<1>1. \A g \in M!Managers : M!Known(g)' = M!Known(g)
  BY DEF marketState, M!Known
<1>2. MarketTypes' /\ OnlyPastOwned'
  BY <1>1 DEF marketState, MarketInv, MarketTypes, OnlyPastOwned
<1>3. M!MarketsCounted'
  BY <1>1, <1>2, CountedSums, NextCounted DEF marketState
<1> QED
  BY <1>2, <1>3 DEF MarketInv

\* A new market is active and is counted by the manager that made it.
LEMMA CreateCounted ==
    ASSUME MarketInv, NEW g \in M!Managers, NEW m \in Markets, M!createMarket(g, m)
    PROVE  MarketInv'
<1>1. /\ m \notin past /\ past' = past \cup {m}
      /\ manager' = [manager EXCEPT ![m] = g]
      /\ active' = [active EXCEPT ![g] = @ \cup {m}]
      /\ deposited' = [deposited EXCEPT ![m] = 1]
      /\ totalDeposited' = [totalDeposited EXCEPT ![g] = @ + 1]
      /\ matured' = matured
  BY DEF M!createMarket
<1>2. /\ manager[m] = "none" /\ "none" \notin M!Managers
      /\ \A h \in M!Managers : m \notin M!Known(h)
  BY <1>1, CountedSums DEF MarketInv, OnlyPastOwned, MarketTypes, M!Managers
<1>3. \A h \in M!Managers : M!Known(h)' = IF h = g THEN M!Known(h) \cup {m} ELSE M!Known(h)
  BY <1>1 DEF M!Known, MarketInv, MarketTypes
<1>4. MarketTypes'
  <2>1. \A h \in M!Managers : IsFiniteSet(M!Known(h)')
    BY <1>3, CountedSums, FS_AddElement
  <2>2. /\ manager' \in [Markets -> M!Managers \cup {"none"}]
        /\ active' \in [M!Managers -> SUBSET Markets]
        /\ deposited' \in [Markets -> Nat]
        /\ totalDeposited' \in [M!Managers -> Int]
    BY <1>1 DEF MarketInv, MarketTypes
  <2> QED
    BY <1>1, <2>1, <2>2 DEF MarketInv, MarketTypes
<1>5. OnlyPastOwned'
  BY <1>1 DEF MarketInv, OnlyPastOwned, MarketTypes
<1>6. ASSUME NEW h \in M!Managers
      PROVE  /\ M!Known(h)' = {x \in Markets : manager'[x] = h}
             /\ active'[h] \cap matured'[h] = {}
  BY <1>1, <1>2, <1>3, CountedSums DEF MarketInv, MarketTypes
<1>7. ASSUME NEW h \in M!Managers
      PROVE  totalDeposited'[h] = SumFunctionOnSet(deposited', M!Known(h)')
  <2>1. \A x \in M!Known(h) : deposited'[x] = deposited[x]
    BY <1>1, <1>2 DEF MarketInv, MarketTypes
  <2>2. /\ SumFunctionOnSet(deposited', M!Known(h)) = SumFunctionOnSet(deposited, M!Known(h))
        /\ \A x \in M!Known(h) : deposited'[x] \in Int
    BY <2>1, CountedSums, SumSame
  <2>3. CASE h # g
    BY <1>1, <1>3, <2>2, <2>3, CountedSums DEF MarketInv, MarketTypes
  <2>4. CASE h = g
    <3>1. deposited'[m] = 1 /\ m \notin M!Known(h) /\ IsFiniteSet(M!Known(h))
      BY <1>1, <1>2, CountedSums DEF MarketInv, MarketTypes
    <3>2. SumFunctionOnSet(deposited', M!Known(h) \cup {m})
              = SumFunctionOnSet(deposited', M!Known(h)) + 1
      BY <2>2, <3>1, SumAdd
    <3>3. totalDeposited'[h] = SumFunctionOnSet(deposited, M!Known(h)) + 1
      BY <1>1, <2>4, CountedSums DEF MarketInv, MarketTypes
    <3> QED
      BY <1>3, <2>2, <2>4, <3>2, <3>3
  <2> QED
    BY <2>3, <2>4
<1> QED
  BY <1>4, <1>5, <1>6, <1>7, NextCounted DEF MarketInv

\* A bid is counted by the manager that owns the market.
LEMMA BidCounted ==
    ASSUME MarketInv, NEW m \in Markets, M!bid(m)
    PROVE  MarketInv'
<1>1. PICK g \in M!Managers :
          /\ manager[m] = g
          /\ deposited' = [deposited EXCEPT ![m] = @ + 1]
          /\ totalDeposited' = [totalDeposited EXCEPT ![g] = @ + 1]
          /\ UNCHANGED <<manager, active, matured, past>>
  BY DEF M!bid
<1>2. \A h \in M!Managers : M!Known(h)' = M!Known(h)
  BY <1>1 DEF M!Known
<1>3. MarketTypes' /\ OnlyPastOwned'
  BY <1>1, <1>2 DEF MarketInv, MarketTypes, OnlyPastOwned
<1>4. m \in M!Known(g)
  BY <1>1, CountedSums
<1>5. ASSUME NEW h \in M!Managers
      PROVE  totalDeposited'[h] = SumFunctionOnSet(deposited', M!Known(h)')
  <2>1. CASE h # g
    <3>1. \A x \in M!Known(h) : deposited'[x] = deposited[x]
      BY <1>1, <2>1, CountedSums DEF MarketInv, MarketTypes
    <3>2. SumFunctionOnSet(deposited', M!Known(h)) = SumFunctionOnSet(deposited, M!Known(h))
      BY <3>1, CountedSums, SumSame
    <3> QED
      BY <1>1, <1>2, <2>1, <3>2, CountedSums DEF MarketInv, MarketTypes
  <2>2. CASE h = g
    <3>1. /\ deposited[m] \in Int /\ deposited'[m] = deposited[m] + 1
          /\ \A x \in M!Known(h) : x # m => deposited'[x] = deposited[x]
      BY <1>1 DEF MarketInv, MarketTypes
    <3>2. SumFunctionOnSet(deposited', M!Known(h))
              = SumFunctionOnSet(deposited, M!Known(h)) + (deposited'[m] - deposited[m])
      BY <1>4, <2>2, <3>1, CountedSums, SumChange
    <3> QED
      BY <1>1, <1>2, <2>2, <3>1, <3>2, CountedSums DEF MarketInv, MarketTypes
  <2> QED
    BY <2>1, <2>2
<1> QED
  BY <1>1, <1>2, <1>3, <1>5, CountedSums, NextCounted DEF MarketInv

\* A market that is resolved goes from one list of its manager to the other.
LEMMA ResolveCounted ==
    ASSUME MarketInv, NEW m \in Markets, M!resolveMarket(m)
    PROVE  MarketInv'
<1>1. PICK g \in M!Managers :
          /\ manager[m] = g /\ m \in active[g]
          /\ active' = [active EXCEPT ![g] = @ \ {m}]
          /\ matured' = [matured EXCEPT ![g] = @ \cup {m}]
          /\ UNCHANGED <<manager, deposited, totalDeposited, past>>
  BY DEF M!resolveMarket
<1>2. \A h \in M!Managers : M!Known(h)' = M!Known(h)
  BY <1>1 DEF M!Known, MarketInv, MarketTypes
<1>3. MarketTypes' /\ OnlyPastOwned'
  BY <1>1, <1>2 DEF MarketInv, MarketTypes, OnlyPastOwned
<1>4. \A h \in M!Managers : active'[h] \cap matured'[h] = {}
  BY <1>1, CountedSums DEF MarketInv, MarketTypes
<1> QED
  BY <1>1, <1>2, <1>3, <1>4, CountedSums, NextCounted DEF MarketInv

\* A market that ends is forgotten with its deposits.
LEMMA EndCounted ==
    ASSUME MarketInv, NEW m \in Markets, M!endMarket(m)
    PROVE  MarketInv'
<1>1. PICK g \in M!Managers :
          /\ manager[m] = g /\ m \in M!Known(g)
          /\ active' = [active EXCEPT ![g] = @ \ {m}]
          /\ matured' = [matured EXCEPT ![g] = @ \ {m}]
          /\ manager' = [manager EXCEPT ![m] = "none"]
          /\ deposited' = [deposited EXCEPT ![m] = 0]
          /\ totalDeposited' = [totalDeposited EXCEPT ![g] = @ - deposited[m]]
          /\ past' = past
  BY DEF M!endMarket
<1>2. \A h \in M!Managers : M!Known(h)' = IF h = g THEN M!Known(h) \ {m} ELSE M!Known(h)
  BY <1>1 DEF M!Known, MarketInv, MarketTypes
<1>3. MarketTypes'
  BY <1>1, <1>2, FS_Subset DEF MarketInv, MarketTypes
<1>4. OnlyPastOwned'
  BY <1>1 DEF MarketInv, MarketTypes, OnlyPastOwned
<1>5. ASSUME NEW h \in M!Managers
      PROVE  /\ M!Known(h)' = {x \in Markets : manager'[x] = h}
             /\ active'[h] \cap matured'[h] = {}
  <2>1. "none" \notin M!Managers
    BY DEF M!Managers
  <2> QED
    BY <1>1, <1>2, <2>1, CountedSums DEF MarketInv, MarketTypes
<1>6. ASSUME NEW h \in M!Managers
      PROVE  totalDeposited'[h] = SumFunctionOnSet(deposited', M!Known(h)')
  <2>1. \A x \in M!Known(h) : x # m => deposited'[x] = deposited[x]
    BY <1>1 DEF MarketInv, MarketTypes
  <2>2. CASE h # g
    <3>1. m \notin M!Known(h)
      BY <1>1, <2>2, CountedSums
    <3>2. SumFunctionOnSet(deposited', M!Known(h)) = SumFunctionOnSet(deposited, M!Known(h))
      BY <2>1, <3>1, CountedSums, SumSame
    <3> QED
      BY <1>1, <1>2, <2>2, <3>2, CountedSums DEF MarketInv, MarketTypes
  <2>3. CASE h = g
    <3> DEFINE rest == M!Known(h) \ {m}
    <3>1. /\ SumFunctionOnSet(deposited, M!Known(h))
                 = deposited[m] + SumFunctionOnSet(deposited, rest)
          /\ SumFunctionOnSet(deposited, rest) \in Int
          /\ deposited[m] \in Int
      BY <1>1, <2>3, CountedSums, SumTake
    <3>2. IsFiniteSet(rest) /\ \A x \in rest : deposited[x] \in Int /\ deposited'[x] = deposited[x]
      BY <2>1, CountedSums, FS_Subset
    <3>3. SumFunctionOnSet(deposited', rest) = SumFunctionOnSet(deposited, rest)
      BY <3>2, SumSame
    <3>4. M!Known(h)' = rest
      BY <1>2, <2>3
    <3>5. totalDeposited'[h] = totalDeposited[h] - deposited[m]
      BY <1>1, <2>3 DEF MarketInv, MarketTypes
    <3>6. totalDeposited[h] = SumFunctionOnSet(deposited, M!Known(h))
      BY CountedSums
    <3> HIDE DEF rest
    <3> QED
      BY <3>1, <3>3, <3>4, <3>5, <3>6
  <2> QED
    BY <2>2, <2>3
<1> QED
  BY <1>3, <1>4, <1>5, <1>6, NextCounted DEF MarketInv

\* Markets whose list of the source is the one given move with their deposits.
LEMMA MoveCounted ==
    ASSUME MarketInv, NEW chunk, chunk \subseteq M!Known("source"),
           chunk \cap M!Known("target") = {},
           M!receiveMarkets(chunk), UNCHANGED <<deposited, past>>,
           \/ /\ chunk \subseteq active["source"]
              /\ active' = M!Moved(active, chunk) /\ matured' = matured
           \/ /\ chunk \subseteq matured["source"]
              /\ matured' = M!Moved(matured, chunk) /\ active' = active
    PROVE  MarketInv'
<1> DEFINE left == M!Known("source") \ chunk
           taken == M!Known("target") \cup chunk
<1>0. M!Managers = {"source", "target"} /\ "source" # "target"
  BY DEF M!Managers
<1>1. /\ manager' = [m \in Markets |-> IF m \in chunk THEN "target" ELSE manager[m]]
      /\ totalDeposited' = [totalDeposited EXCEPT
                               !["source"] = @ - SumFunctionOnSet(deposited, chunk),
                               !["target"] = @ + SumFunctionOnSet(deposited, chunk)]
  BY DepositsAreSum DEF M!receiveMarkets
<1>2. /\ M!Known("source")' = left /\ M!Known("target")' = taken
      /\ active'["source"] \cap matured'["source"] = {}
      /\ active'["target"] \cap matured'["target"] = {}
      /\ active' \in [M!Managers -> SUBSET Markets]
      /\ matured' \in [M!Managers -> SUBSET Markets]
  BY <1>0, CountedSums DEF M!Moved, M!Known, MarketInv, MarketTypes
<1>3. /\ IsFiniteSet(chunk) /\ IsFiniteSet(left) /\ IsFiniteSet(taken)
      /\ IsFiniteSet(M!Known("target")) /\ chunk \subseteq Markets
      /\ left \subseteq Markets
      /\ \A m \in Markets : deposited[m] \in Int
  <2>1. /\ IsFiniteSet(M!Known("source")) /\ IsFiniteSet(M!Known("target"))
        /\ M!Known("source") \subseteq Markets
    BY <1>0, CountedSums
  <2>2. \A m \in Markets : deposited[m] \in Int
    BY DEF MarketInv, MarketTypes
  <2> QED
    BY <2>1, <2>2, FS_Subset, FS_Union
<1>4. SumFunctionOnSet(deposited, M!Known("source"))
          = SumFunctionOnSet(deposited, left) + SumFunctionOnSet(deposited, chunk)
  <2>1. left \cup chunk = M!Known("source") /\ left \cap chunk = {}
    OBVIOUS
  <2>2. \A m \in left \cup chunk : deposited[m] \in Int
    BY <1>3
  <2> HIDE DEF left
  <2>3. SumFunctionOnSet(deposited, left \cup chunk)
            = SumFunctionOnSet(deposited, left) + SumFunctionOnSet(deposited, chunk)
    BY <1>3, <2>1, <2>2, SumUnion
  <2> QED
    BY <2>1, <2>3
<1>5. SumFunctionOnSet(deposited, taken)
          = SumFunctionOnSet(deposited, M!Known("target")) + SumFunctionOnSet(deposited, chunk)
  <2>1. \A m \in M!Known("target") \cup chunk : deposited[m] \in Int
    BY <1>0, <1>3, CountedSums
  <2>2. M!Known("target") \cap chunk = {}
    OBVIOUS
  <2> QED
    BY <1>3, <2>1, <2>2, SumUnion
<1>6. /\ SumFunctionOnSet(deposited, chunk) \in Int
      /\ SumFunctionOnSet(deposited, left) \in Int
  BY <1>3, SumType
<1>7. /\ totalDeposited["source"] = SumFunctionOnSet(deposited, M!Known("source"))
      /\ totalDeposited["target"] = SumFunctionOnSet(deposited, M!Known("target"))
      /\ totalDeposited \in [M!Managers -> Int]
  BY <1>0, CountedSums DEF MarketInv, MarketTypes
<1>8. /\ M!Known("source") = {m \in Markets : manager[m] = "source"}
      /\ M!Known("target") = {m \in Markets : manager[m] = "target"}
  BY <1>0, CountedSums
<1> HIDE DEF left, taken
<1>9. /\ totalDeposited'["source"] = SumFunctionOnSet(deposited, left)
      /\ totalDeposited'["target"] = SumFunctionOnSet(deposited, taken)
      /\ totalDeposited' \in [M!Managers -> Int]
  BY <1>0, <1>1, <1>4, <1>5, <1>6, <1>7
<1>10. /\ left = {m \in Markets : manager'[m] = "source"}
       /\ taken = {m \in Markets : manager'[m] = "target"}
  BY <1>1, <1>3, <1>8 DEF left, taken
<1>11. MarketTypes'
  <2>1. manager' \in [Markets -> M!Managers \cup {"none"}]
    BY <1>0, <1>1 DEF MarketInv, MarketTypes
  <2>2. \A g \in M!Managers : IsFiniteSet(M!Known(g)')
    BY <1>0, <1>2, <1>3
  <2> QED
    BY <1>2, <1>9, <2>1, <2>2 DEF MarketInv, MarketTypes
<1>12. OnlyPastOwned'
  BY <1>1, <1>8 DEF MarketInv, OnlyPastOwned
<1>13. \A g \in M!Managers :
           /\ M!Known(g)' = {m \in Markets : manager'[m] = g}
           /\ active'[g] \cap matured'[g] = {}
           /\ totalDeposited'[g] = SumFunctionOnSet(deposited', M!Known(g)')
  BY <1>0, <1>2, <1>9, <1>10
<1> QED
  BY <1>11, <1>12, <1>13, NextCounted DEF MarketInv

\* The command moves whole chunks of one list, or nothing.
LEMMA CommandCounted ==
    ASSUME MarketInv, M!Command \/ M!Die
    PROVE  MarketInv'
<1>1. CASE UNCHANGED M!marketVars
  BY <1>1, MarketsStutter DEF M!marketVars, marketState
<1>2. ASSUME NEW chunk, M!CanMigrate(active, chunk), active' = M!Moved(active, chunk),
             M!receiveMarkets(chunk), UNCHANGED <<matured, deposited, past>>
      PROVE  MarketInv'
  BY <1>2, MoveCounted DEF M!CanMigrate, M!Known
<1>3. ASSUME NEW chunk, M!CanMigrate(matured, chunk), matured' = M!Moved(matured, chunk),
             M!receiveMarkets(chunk), UNCHANGED <<active, deposited, past>>
      PROVE  MarketInv'
  BY <1>3, MoveCounted DEF M!CanMigrate, M!Known
<1>4. M!MigrateActive => MarketInv'
  BY <1>1, <1>2 DEF M!MigrateActive
<1>5. M!MigrateMatured => MarketInv'
  BY <1>1, <1>3 DEF M!MigrateMatured
<1>6. M!ReadMarkets \/ M!ReadMatured \/ M!setMigratingManager \/ M!Finish \/ M!Die
          => UNCHANGED M!marketVars
  BY DEF M!ReadMarkets, M!ReadMatured, M!setMigratingManager, M!Finish, M!Die
<1> QED
  BY <1>1, <1>4, <1>5, <1>6 DEF M!Command

\* What happens to pynths, bridges and rewards leaves the markets alone.
LEMMA MarketsStep == MarketInv /\ [Next]_vars => MarketInv'
<1> SUFFICES ASSUME MarketInv PROVE [Next]_vars => MarketInv'
  OBVIOUS
<1>1. OnMarkets(M!Next) => MarketInv'
  BY CommandCounted, CreateCounted, BidCounted, ResolveCounted, EndCounted
     DEF OnMarkets, On, M!Next, M!People
<1>2. UNCHANGED marketVars => MarketInv'
  BY MarketsStutter DEF marketVars, marketState
<1> QED
  BY <1>1, <1>2 DEF Next, OnPynths, OnBridges, OnRewards, On, vars

\* However people create, bid in, resolve and end markets while a migration moves
\* them in chunks or dies, a market is on one list of the manager that owns it
\* and on no other, and each manager counts the deposits of its own markets
\* (BinaryOptionMarketManager.sol, migrate-binary-option-markets.js).
THEOREM MarketsAlwaysCounted == Spec => []MarketsCounted
<1>1. Init => MarketInv
  BY MarketsInit DEF Init
<1>2. MarketInv => MarketsCounted
  BY DEF MarketInv, MarketsCounted
<1> QED
  BY <1>1, <1>2, MarketsStep, PTL DEF Spec

-----------------------------------------------------------------------------
(* ShortsCanClose.                                                         *)

ShortTypes ==
    /\ deployed \in 0..MaxRewards /\ recorded \in 0..deployed
    /\ shortingRewards \in 0..MaxRewards
    /\ work \in {"idle", "record", "rebuild", "link"}
    /\ shorts \in [Borrowers -> Nat]
    /\ balances \in [S!Rewards -> [Borrowers -> Nat]]

\* How far the command is, and what the owner was left.
LinksAreReady ==
    /\ ready \subseteq S!Rewards
    /\ work \in {"rebuild", "link"} => recorded = deployed
    /\ work # "idle" => deployed > 0
    /\ work = "link" => deployed \in ready
    /\ \A c \in ownerActions : c \in ready /\ c <= recorded

\* Nothing is enrolled at a contract that is not linked, but for those whose
\* shorts were open when the link changed.
EnrolledAtLinked ==
    \A b \in Borrowers \ crossed : \A c \in S!Rewards :
        c # shortingRewards => balances[c][b] = 0

ShortInv == ShortTypes /\ LinksAreReady /\ EnrolledAtLinked /\ S!ShortsCanClose

\* At first nothing is linked.
LEMMA ShortsInit == S!Init => ShortInv
BY RewardsAssumption
   DEF S!Init, ShortInv, ShortTypes, LinksAreReady, EnrolledAtLinked, S!ShortsCanClose, S!Rewards

\* What the invariant is about.
rewardState == <<deployed, recorded, ready, shortingRewards, work, ownerActions, shorts,
                 balances, crossed>>

LEMMA ShortsStutter == ShortInv /\ UNCHANGED rewardState => ShortInv'
BY DEF rewardState, ShortInv, ShortTypes, LinksAreReady, EnrolledAtLinked, S!ShortsCanClose

\* A contract that is ready and recorded can be linked: who has no shorts then has
\* nothing enrolled anywhere.
LEMMA LinkKeeps ==
    ASSUME ShortInv, NEW c \in ready, c <= recorded, S!addRewardsContracts(c),
           UNCHANGED <<deployed, recorded, ready, shorts, balances>>
    PROVE  (shortingRewards \in 0..MaxRewards /\ EnrolledAtLinked /\ S!ShortsCanClose)'
<1>1. c \in S!Rewards /\ c \in 1..MaxRewards
  BY DEF ShortInv, LinksAreReady, S!Rewards
<1>2. ASSUME NEW b \in Borrowers \ crossed', NEW d \in S!Rewards
      PROVE  balances[d][b] = 0 /\ shorts[b] = 0
  <2>1. b \in Borrowers \ crossed /\ shorts[b] = 0
    BY <1>2 DEF S!addRewardsContracts, ShortInv, ShortTypes
  <2>2. CASE d = shortingRewards
    <3>1. shortingRewards # 0
      BY <2>2, RewardsAssumption DEF S!Rewards
    <3> QED
      BY <2>1, <2>2, <3>1 DEF ShortInv, S!ShortsCanClose
  <2>3. CASE d # shortingRewards
    BY <2>1, <2>3 DEF ShortInv, EnrolledAtLinked
  <2> QED
    BY <2>1, <2>2, <2>3
<1>3. shortingRewards' = c /\ shorts' = shorts /\ balances' = balances
      /\ recorded' = recorded /\ ready' = ready
  BY DEF S!addRewardsContracts
<1>4. EnrolledAtLinked'
  BY <1>2, <1>3 DEF EnrolledAtLinked, S!Rewards
<1>5. S!ShortsCanClose'
  <2> SUFFICES ASSUME NEW b \in Borrowers \ crossed'
               PROVE  balances[c][b] = shorts[b]
    BY <1>3 DEF S!ShortsCanClose
  <2> QED
    BY <1>1, <1>2
<1> QED
  BY <1>1, <1>3, <1>4, <1>5

\* A short is opened and enrolled, or closed and withdrawn, in one call.
LEMMA ShortKeeps ==
    ASSUME ShortInv, NEW b \in Borrowers, S!Open(b) \/ S!Close(b)
    PROVE  ShortInv'
<1> USE RewardsAssumption
<1>1. UNCHANGED <<deployed, recorded, ready, shortingRewards, work, ownerActions, crossed>>
  BY DEF S!Open, S!Close, S!linkVars
<1>2. LinksAreReady'
  BY <1>1 DEF ShortInv, LinksAreReady
<1>3. PICK x \in Int :
          /\ shorts[b] + x \in Nat
          /\ shorts' = [shorts EXCEPT ![b] = @ + x]
          /\ balances' = [c \in S!Rewards |-> IF c = shortingRewards
                                              THEN [balances[c] EXCEPT ![b] = @ + x]
                                              ELSE balances[c]]
          /\ shortingRewards # 0 => balances[shortingRewards][b] + x \in Nat
  <2>1. shorts[b] \in Nat
    BY DEF ShortInv, ShortTypes
  <2>2. shortingRewards # 0 => balances[shortingRewards][b] \in Nat
    BY DEF ShortInv, ShortTypes, S!Rewards
  <2>3. CASE S!Open(b)
    <3> WITNESS 1 \in Int
    <3> QED
      BY <2>1, <2>2, <2>3 DEF S!Open
  <2>4. CASE S!Close(b)
    <3> WITNESS -1 \in Int
    <3>1. \A n \in Nat : n + (-1) = n - 1
      OBVIOUS
    <3>2. shorts[b] - 1 = shorts[b] + (-1) /\ shorts[b] + (-1) \in Nat
      BY <2>1, <2>4 DEF S!Close
    <3>3. shortingRewards # 0 => /\ balances[shortingRewards][b] + (-1) \in Nat
                                 /\ balances[shortingRewards][b] - 1
                                        = balances[shortingRewards][b] + (-1)
      BY <2>2, <2>4 DEF S!Close
    <3>4. \A c \in S!Rewards : c = shortingRewards => shortingRewards # 0
      BY DEF S!Rewards
    <3>5. balances' = [c \in S!Rewards |-> IF c = shortingRewards
                                           THEN [balances[c] EXCEPT ![b] = @ + (-1)]
                                           ELSE balances[c]]
      BY <2>4, <3>3, <3>4 DEF S!Close
    <3> QED
      BY <2>4, <3>2, <3>3, <3>5 DEF S!Close
  <2> QED
    BY <2>3, <2>4
<1>4. ShortTypes'
  <2>1. shorts' \in [Borrowers -> Nat]
    BY <1>3 DEF ShortInv, ShortTypes
  <2>2. balances' \in [S!Rewards -> [Borrowers -> Nat]]
    BY <1>3 DEF ShortInv, ShortTypes, S!Rewards
  <2> QED
    BY <1>1, <2>1, <2>2 DEF ShortInv, ShortTypes
<1>5. EnrolledAtLinked'
  BY <1>1, <1>3 DEF ShortInv, EnrolledAtLinked, ShortTypes
<1>6. S!ShortsCanClose'
  BY <1>1, <1>3 DEF ShortInv, S!ShortsCanClose, ShortTypes, S!Rewards
<1> QED
  BY <1>2, <1>4, <1>5, <1>6 DEF ShortInv

\* The command, the owner and a death: only the link touches what is enrolled.
LEMMA RewardsKeep ==
    ASSUME ShortInv, S!Command \/ S!Die \/ S!OwnerLinks
    PROVE  ShortInv'
<1> USE RewardsAssumption
<1>1. CASE S!deployContract
  BY <1>1 DEF S!deployContract, ShortInv, ShortTypes, LinksAreReady, EnrolledAtLinked,
              S!ShortsCanClose, S!linkVars, S!shortVars, S!Rewards
<1>2. CASE S!Record
  <2>1. /\ recorded' = deployed /\ work' = "rebuild" /\ work = "record"
        /\ UNCHANGED <<deployed, ready, shortingRewards, crossed, ownerActions, shorts, balances>>
    BY <1>2 DEF S!Record, S!linkVars, S!shortVars
  <2>2. deployed \in Nat /\ recorded \in Nat /\ recorded <= deployed
        /\ shortingRewards \in Nat
    BY DEF ShortInv, ShortTypes
  <2>3. ShortTypes' /\ EnrolledAtLinked'
    BY <2>1, <2>2 DEF ShortInv, ShortTypes, EnrolledAtLinked
  <2>4. LinksAreReady'
    <3>1. \A c \in ownerActions : c \in ready /\ c <= recorded
      BY DEF ShortInv, LinksAreReady
    <3>2. ready \subseteq Nat
      BY DEF ShortInv, LinksAreReady, S!Rewards
    <3>3. \A c \in ownerActions : c \in ready /\ c <= deployed
      <4> SUFFICES ASSUME NEW c \in ownerActions PROVE c \in ready /\ c <= deployed
        OBVIOUS
      <4>1. c \in ready /\ c \in Nat /\ c <= recorded
        BY <3>1, <3>2
      <4> QED
        BY <2>2, <4>1
    <3>4. ownerActions' = ownerActions /\ ready' = ready /\ deployed' = deployed
      BY <2>1
    <3>5. \A c \in ownerActions' : c \in ready' /\ c <= recorded'
      BY <2>1, <3>3, <3>4
    <3> QED
      BY <2>1, <3>5 DEF ShortInv, LinksAreReady
  <2>5. S!ShortsCanClose'
    BY <2>1, <2>2 DEF ShortInv, S!ShortsCanClose
  <2> QED
    BY <2>3, <2>4, <2>5 DEF ShortInv
<1>3. CASE S!rebuildCache
  BY <1>3 DEF S!rebuildCache, ShortInv, ShortTypes, LinksAreReady, EnrolledAtLinked,
              S!ShortsCanClose, S!linkVars, S!shortVars, S!Rewards
<1>4. CASE S!Die
  BY <1>4 DEF S!Die, ShortInv, ShortTypes, LinksAreReady, EnrolledAtLinked,
              S!ShortsCanClose, S!linkVars, S!shortVars, S!Rewards
<1>5. CASE S!Link
  <2>1. deployed \in ready /\ recorded = deployed /\ deployed \in Nat
    BY <1>5 DEF S!Link, ShortInv, LinksAreReady, ShortTypes
  <2>2. UNCHANGED <<deployed, recorded, ready, shorts, balances>> /\ work' = "idle"
    BY <1>5 DEF S!Link, S!shortVars
  <2>3. CASE S!addRewardsContracts(deployed) /\ UNCHANGED ownerActions
    <3>1. (shortingRewards \in 0..MaxRewards /\ EnrolledAtLinked /\ S!ShortsCanClose)'
      BY <2>1, <2>2, <2>3, LinkKeeps
    <3> QED
      BY <2>2, <2>3, <3>1 DEF ShortInv, ShortTypes, LinksAreReady
  <2>4. CASE ownerActions' = ownerActions \cup {deployed} /\ UNCHANGED S!linkVars
    BY <2>1, <2>2, <2>4 DEF ShortInv, ShortTypes, LinksAreReady, EnrolledAtLinked,
                            S!ShortsCanClose, S!linkVars
  <2> QED
    BY <1>5, <2>3, <2>4 DEF S!Link
<1>6. CASE S!OwnerLinks
  <2>1. PICK c \in ownerActions : /\ S!addRewardsContracts(c)
                                  /\ ownerActions' = ownerActions \ {c}
    BY <1>6 DEF S!OwnerLinks
  <2>2. UNCHANGED <<deployed, recorded, ready, shorts, balances, work>>
    BY <1>6 DEF S!OwnerLinks, S!shortVars
  <2>3. c \in ready /\ c <= recorded
    BY DEF ShortInv, LinksAreReady
  <2>4. (shortingRewards \in 0..MaxRewards /\ EnrolledAtLinked /\ S!ShortsCanClose)'
    BY <2>1, <2>2, <2>3, LinkKeeps
  <2> QED
    BY <2>1, <2>2, <2>4 DEF ShortInv, ShortTypes, LinksAreReady
<1> QED
  BY <1>1, <1>2, <1>3, <1>4, <1>5, <1>6 DEF S!Command

\* What happens to pynths, markets and bridges leaves the rewards alone.
LEMMA ShortsStep == ShortInv /\ [Next]_vars => ShortInv'
<1> SUFFICES ASSUME ShortInv PROVE [Next]_vars => ShortInv'
  OBVIOUS
<1>1. OnRewards(S!Next) => ShortInv'
  BY ShortKeeps, RewardsKeep DEF OnRewards, On, S!Next
<1>2. UNCHANGED rewardVars => ShortInv'
  BY ShortsStutter DEF rewardVars, rewardState
<1> QED
  BY <1>1, <1>2 DEF Next, OnPynths, OnMarkets, OnBridges, On, vars

\* Whatever dies, whenever the owner links what was left to it and whoever opens
\* and closes shorts meanwhile: a linked contract takes the calls of
\* CollateralShort and has enrolled the shorts that were opened at it
\* (deploy-shorting-rewards.js, Collateral.sol).
THEOREM ShortsAlwaysClose == Spec => []ShortsCanClose
<1>1. Init => ShortInv
  BY ShortsInit DEF Init
<1>2. ShortInv => ShortsCanClose
  BY DEF ShortInv, ShortsCanClose
<1> QED
  BY <1>1, <1>2, ShortsStep, PTL DEF Spec
=============================================================================
