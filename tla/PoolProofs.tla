----------------------------- MODULE PoolProofs -----------------------------
(***************************************************************************)
(* Proofs about DebtPool, for any number of accounts and pynths, any       *)
(* prices and amounts, and any precision that is a multiple of ten units.  *)
(***************************************************************************)
EXTENDS DebtPool, ExchangerProofs

-----------------------------------------------------------------------------
(* High precision.                                                         *)

\* The high precision is a multiple of the low one, by ten or more.
LEMMA PreciseUnits ==
    \E q \in Nat \ {0} : /\ PreciseUnit = 10 * (Unit * q)
                         /\ PreciseUnit \div 10 = Unit * q
                         /\ Unit * q \in Nat \ {0}
                         /\ PrecisionFactor = 10 * q
                         /\ PrecisionFactor \div 10 = q
<1> DEFINE d == 10 * Unit
<1>1. Unit \in Nat \ {0} /\ d \in Nat \ {0} /\ PreciseUnit \in Nat \ {0}
      /\ PreciseUnit % d = 0
  BY UnitAssumption, PreciseUnitAssumption
<1> HIDE DEF d
<1>2. PICK q \in Nat : PreciseUnit = d * q
  <2>1. PreciseUnit \div d \in Nat
    BY <1>1
  <2>2. PreciseUnit = d * (PreciseUnit \div d)
    BY <1>1
  <2> QED
    BY <2>1, <2>2
<1>3. q # 0
  BY <1>1, <1>2
<1>4. d * q = 10 * (Unit * q) /\ d * q = Unit * (10 * q)
  BY <1>1 DEF d
<1>5. Unit * q \in Nat \ {0}
  BY <1>1, <1>2, <1>4
<1>6. PreciseUnit \div 10 = Unit * q
  BY <1>2, <1>4, <1>5
<1>7. (Unit * (10 * q)) \div Unit = 10 * q
  <2> DEFINE n == 10 * q
  <2>1. n \in Nat
    OBVIOUS
  <2> HIDE DEF n
  <2>2. (Unit * n) \div Unit = n
    BY <1>1, <2>1
  <2> QED
    BY <2>2 DEF n
<1>8. (10 * q) \div 10 = q
  OBVIOUS
<1> QED
  BY <1>2, <1>3, <1>4, <1>5, <1>6, <1>7, <1>8 DEF PrecisionFactor

\* What is within half of u of a multiple of u, and itself one, is that multiple.
LEMMA RoundsToExact ==
    ASSUME NEW u \in Nat \ {0}, NEW z \in Nat, NEW x \in Nat,
           2 * (u * z) - 2 * (u * x) \in -u..u
    PROVE  z = x
<1>1. u * (z - x) = u * z - u * x /\ u * (z - x) \in Int
      /\ u * z \in Nat /\ u * x \in Nat
  OBVIOUS
<1>2. CASE z - x >= 1
  <2>1. u * (z - x) >= u
    BY <1>2
  <2> QED
    BY <1>1, <2>1
<1>3. CASE z - x <= -1
  <2>1. u * (z - x) <= -u
    BY <1>3
  <2> QED
    BY <1>1, <2>1
<1> QED
  BY <1>2, <1>3

\* A product is rounded by at most half of a precise unit.
LEMMA PreciseProduct ==
    ASSUME NEW x \in Nat, NEW y \in Nat
    PROVE  /\ MultiplyPrecise(x, y) \in Nat
           /\ 2 * (PreciseUnit * MultiplyPrecise(x, y)) - 2 * (x * y)
                  \in -PreciseUnit..PreciseUnit
<1> DEFINE u == PreciseUnit \div 10
           p == x * y
           q == (p \div u + 5) \div 10
<1>1. u \in Nat \ {0} /\ PreciseUnit = 10 * u
  BY PreciseUnits
<1>2. p \in Nat
  BY ProductType
<1>3. MultiplyPrecise(x, y) = q
  BY DEF MultiplyPrecise, MultiplyRound
<1> HIDE DEF u, p
<1>4. /\ q \in Nat
      /\ 10 * (u * q) <= p + 5 * u
      /\ p + 5 * u < 10 * (u * q) + 10 * u
  BY <1>1, <1>2, RoundedQuotient
<1> HIDE DEF q
<1>5. u * q \in Nat /\ PreciseUnit * q = 10 * (u * q)
  BY <1>1, <1>4, ProductType
<1>6. 2 * (PreciseUnit * q) - 2 * p \in -PreciseUnit..PreciseUnit
  BY <1>1, <1>2, <1>4, <1>5
<1> QED
  BY <1>3, <1>4, <1>6 DEF p

\* A quotient is rounded by at most half of the divisor.
LEMMA PreciseQuotient ==
    ASSUME NEW x \in Nat, NEW y \in Nat \ {0}
    PROVE  /\ DividePrecise(x, y) \in Nat
           /\ 2 * (y * DividePrecise(x, y)) - 2 * (x * PreciseUnit) \in -y..y
<1> DEFINE p == x * (PreciseUnit * 10)
           q == (p \div y + 5) \div 10
<1>1. PreciseUnit \in Nat /\ x * PreciseUnit \in Nat /\ p = 10 * (x * PreciseUnit)
  BY PreciseUnitAssumption, ProductType
<1>2. p \in Nat
  BY <1>1
<1>3. DividePrecise(x, y) = q
  BY DEF DividePrecise, DivideRound
<1> HIDE DEF p
<1>4. /\ q \in Nat
      /\ 10 * (y * q) <= p + 5 * y
      /\ p + 5 * y < 10 * (y * q) + 10 * y
  BY <1>2, RoundedQuotient
<1> HIDE DEF q
<1>5. y * q \in Nat
  BY <1>4, ProductType
<1>6. 2 * (y * q) - 2 * (x * PreciseUnit) \in -y..y
  BY <1>1, <1>4, <1>5
<1> QED
  BY <1>3, <1>4, <1>6

\* The way back to the low precision rounds by at most half of the factor.
LEMMA PreciseBack ==
    ASSUME NEW x \in Nat
    PROVE  /\ PrecisionFactor \in Nat \ {0}
           /\ ToPrecise(x) \in Nat
           /\ FromPrecise(x) \in Nat
           /\ 2 * (PrecisionFactor * FromPrecise(x)) - 2 * x
                  \in -PrecisionFactor..PrecisionFactor
<1> DEFINE u == PrecisionFactor \div 10
           q == (x \div u + 5) \div 10
<1>1. u \in Nat \ {0} /\ PrecisionFactor = 10 * u
  BY PreciseUnits
<1>2. FromPrecise(x) = q
  BY DEF FromPrecise
<1> HIDE DEF u
<1>3. /\ q \in Nat
      /\ 10 * (u * q) <= x + 5 * u
      /\ x + 5 * u < 10 * (u * q) + 10 * u
  BY <1>1, RoundedQuotient
<1> HIDE DEF q
<1>4. u * q \in Nat /\ PrecisionFactor * q = 10 * (u * q)
  BY <1>1, <1>3, ProductType
<1>5. 2 * (PrecisionFactor * q) - 2 * x \in -PrecisionFactor..PrecisionFactor
  BY <1>1, <1>3, <1>4
<1>6. ToPrecise(x) \in Nat
  BY <1>1, ProductType DEF ToPrecise
<1> QED
  BY <1>1, <1>2, <1>3, <1>5, <1>6

\* Where nothing is lost: the way there and back, a multiplication by one, the
\* quotient of a number and itself.
LEMMA PreciseExact ==
    ASSUME NEW x \in Nat
    PROVE  /\ FromPrecise(ToPrecise(x)) = x
           /\ MultiplyPrecise(x, PreciseUnit) = x
           /\ MultiplyPrecise(PreciseUnit, x) = x
           /\ x # 0 => DividePrecise(x, x) = PreciseUnit
<1>1. PreciseUnit \in Nat \ {0}
  BY PreciseUnitAssumption
<1>2. FromPrecise(ToPrecise(x)) = x
  <2>1. PrecisionFactor \in Nat \ {0} /\ ToPrecise(x) \in Nat
    BY PreciseBack
  <2>2. ToPrecise(x) = PrecisionFactor * x
    BY <2>1 DEF ToPrecise
  <2>3. /\ FromPrecise(ToPrecise(x)) \in Nat
        /\ 2 * (PrecisionFactor * FromPrecise(ToPrecise(x))) - 2 * (PrecisionFactor * x)
               \in -PrecisionFactor..PrecisionFactor
    BY <2>1, <2>2, PreciseBack
  <2> QED
    BY <2>1, <2>3, RoundsToExact
<1>3. x * PreciseUnit = PreciseUnit * x
  BY <1>1
<1>4. MultiplyPrecise(x, PreciseUnit) = x
  BY <1>1, <1>3, PreciseProduct, RoundsToExact
<1>5. MultiplyPrecise(PreciseUnit, x) = x
  BY <1>1, <1>3, PreciseProduct, RoundsToExact
<1>6. ASSUME x # 0 PROVE DividePrecise(x, x) = PreciseUnit
  BY <1>1, <1>6, PreciseQuotient, RoundsToExact
<1> QED
  BY <1>2, <1>4, <1>5, <1>6

\* A share of the whole is no more than one.
LEMMA ShareWithinOne ==
    ASSUME NEW x \in Nat, NEW y \in Nat \ {0}, x <= y
    PROVE  PreciseUnit - DividePrecise(x, y) \in Nat
<1> DEFINE q == DividePrecise(x, y)
<1>1. /\ PreciseUnit \in Nat
      /\ q \in Nat
      /\ 2 * (y * q) - 2 * (x * PreciseUnit) \in -y..y
  BY PreciseUnitAssumption, PreciseQuotient
<1> HIDE DEF q
<1>2. x * PreciseUnit <= y * PreciseUnit
      /\ x * PreciseUnit \in Nat /\ y * PreciseUnit \in Nat /\ y * q \in Nat
  BY <1>1
<1>3. ASSUME q > PreciseUnit PROVE FALSE
  <2>1. y * q = y * PreciseUnit + y * (q - PreciseUnit)
    BY <1>1
  <2>2. y * (q - PreciseUnit) \in Nat /\ y * (q - PreciseUnit) >= y
    BY <1>1, <1>3
  <2> QED
    BY <1>1, <1>2, <2>1, <2>2
<1>4. PreciseUnit - q \in Nat
  BY <1>1, <1>3
<1> QED
  BY <1>4 DEF q

-----------------------------------------------------------------------------
(* What the network and an account owe, and the register.                  *)

IssuanceEntry == [initialDebtOwnership : Nat, debtEntryIndex : Nat \ {0}]

RegisterTyped ==
    /\ issuanceData \in [Accounts -> IssuanceEntry]
    /\ debtLedger \in Seq(Nat)
    /\ totalIssuerCount \in Nat
    /\ lastIssueEvent \in [Accounts -> Nat]
    /\ selfIssuedDebt \in Nat

NetworksTyped ==
    /\ crossIssuedDebt \in Nat
    /\ crossActiveDebt \in Nat
    /\ outboundSum \in Nat
    /\ totalOutbound \in Nat
    /\ totalInbound \in Nat

\* Whoever has a share of the debt has an entry in the ledger.
EntriesExist ==
    \A a \in Accounts :
        issuanceData[a].initialDebtOwnership # 0 =>
            issuanceData[a].debtEntryIndex <= Len(debtLedger)

DebtsKnown ==
    /\ CacheTyped
    /\ RegisterTyped
    /\ NetworksTyped
    /\ EntriesExist
    /\ LocalDebt >= 0

\* The debt of the network is a natural number.
LEMMA ActiveDebtType == DebtsKnown => ActiveDebt \in Nat
<1> SUFFICES ASSUME DebtsKnown PROVE ActiveDebt \in Nat
  OBVIOUS
<1>1. LocalDebt \in Nat
  <2>1. InboundAmount \in Nat
    BY DEF DebtsKnown, NetworksTyped, InboundAmount
  <2> QED
    BY <2>1 DEF DebtsKnown, NetworksTyped, CacheTyped, LocalDebt
<1>2. NetworkShare \in Nat
  <2> DEFINE total == selfIssuedDebt + crossIssuedDebt
  <2>1. selfIssuedDebt \in Nat /\ total \in Nat
    BY DEF DebtsKnown, RegisterTyped, NetworksTyped
  <2>2. CASE total = 0
    BY <2>2, PreciseUnitAssumption DEF NetworkShare
  <2>3. CASE total # 0
    <3>1. PrecisionFactor \in Nat \ {0}
      BY PreciseUnits
    <3> HIDE DEF total
    <3>2. ToPrecise(total) \in Nat \ {0} /\ ToPrecise(selfIssuedDebt) \in Nat
      BY <2>1, <2>3, <3>1 DEF ToPrecise
    <3>3. DividePrecise(ToPrecise(selfIssuedDebt), ToPrecise(total)) \in Nat
      BY <3>2, PreciseQuotient
    <3> QED
      BY <2>3, <3>3 DEF NetworkShare, total
  <2> QED
    BY <2>2, <2>3
<1>3. ToPrecise(LocalDebt + crossActiveDebt) \in Nat
  <2>1. LocalDebt + crossActiveDebt \in Nat
    BY <1>1 DEF DebtsKnown, NetworksTyped
  <2> QED
    BY <2>1, PreciseBack
<1>4. MultiplyPrecise(ToPrecise(LocalDebt + crossActiveDebt), NetworkShare) \in Nat
  BY <1>2, <1>3, PreciseProduct
<1> QED
  BY <1>4, PreciseBack DEF ActiveDebt

\* What an account owes is a natural number.
LEMMA DebtBalanceType ==
    ASSUME DebtsKnown, NEW a \in Accounts
    PROVE  DebtBalanceOf(a) \in Nat
<1> DEFINE data       == issuanceData[a]
           systemDebt == debtLedger[data.debtEntryIndex]
           ratio      == DividePrecise(LastDebtLedgerEntry, systemDebt)
           ownership  == MultiplyPrecise(ratio, data.initialDebtOwnership)
           debt       == FromPrecise(MultiplyPrecise(ToPrecise(ActiveDebt), ownership))
<1>1. data \in IssuanceEntry /\ debtLedger \in Seq(Nat)
  BY DEF DebtsKnown, RegisterTyped
<1>2. data.initialDebtOwnership \in Nat /\ data.debtEntryIndex \in Nat \ {0}
  BY <1>1 DEF IssuanceEntry
<1>3. LastDebtLedgerEntry \in Nat
  BY <1>1 DEF LastDebtLedgerEntry
<1>4. ASSUME data.initialDebtOwnership # 0, systemDebt # 0 PROVE debt \in Nat
  <2>1. data.debtEntryIndex \in 1..Len(debtLedger)
    BY <1>1, <1>2, <1>4 DEF DebtsKnown, EntriesExist
  <2>2. systemDebt \in Nat \ {0}
    BY <1>1, <1>4, <2>1
  <2> HIDE DEF systemDebt
  <2>3. ratio \in Nat
    BY <1>3, <2>2, PreciseQuotient
  <2> HIDE DEF ratio
  <2>4. ownership \in Nat
    BY <1>2, <2>3, PreciseProduct
  <2> HIDE DEF ownership
  <2>5. ToPrecise(ActiveDebt) \in Nat
    BY ActiveDebtType, PreciseBack
  <2>6. MultiplyPrecise(ToPrecise(ActiveDebt), ownership) \in Nat
    BY <2>4, <2>5, PreciseProduct
  <2> QED
    BY <2>6, PreciseBack
<1>5. DebtBalanceOf(a) = IF data.initialDebtOwnership = 0 \/ systemDebt = 0 THEN 0
                         ELSE debt
  BY DEF DebtBalanceOf
<1> HIDE DEF data, systemDebt, debt
<1> QED
  BY <1>4, <1>5

\* What an account may issue is a natural number, and with what it owes already no
\* more than its maximum.
LEMMA IssuableTypes ==
    ASSUME DebtsKnown, NEW a \in Accounts
    PROVE  /\ MaxIssuablePynths(a) \in Nat
           /\ RemainingIssuablePynths(a) \in Nat
           /\ RemainingIssuablePynths(a) > 0 =>
                  DebtBalanceOf(a) + RemainingIssuablePynths(a) = MaxIssuablePynths(a)
<1>1. CollateralValue[a] \in Nat /\ IssuanceRatio \in Nat
  BY DebtsAssumption
<1>2. ToPrecise(CollateralValue[a]) \in Nat /\ ToPrecise(IssuanceRatio) \in Nat
  BY <1>1, PreciseBack
<1>3. MultiplyPrecise(ToPrecise(CollateralValue[a]), ToPrecise(IssuanceRatio)) \in Nat
  BY <1>2, PreciseProduct
<1>4. MaxIssuablePynths(a) \in Nat
  BY <1>3, PreciseBack DEF MaxIssuablePynths
<1>5. DebtBalanceOf(a) \in Nat
  BY DebtBalanceType
<1> QED
  BY <1>4, <1>5 DEF RemainingIssuablePynths

\* A new entry of an account, and one more of the ledger.
LEMMA EntryAdded ==
    ASSUME RegisterTyped, EntriesExist, NEW a \in Accounts,
           NEW ownership \in Nat, NEW factor \in Nat,
           issuanceData' = IssuanceDataWith(a, ownership),
           debtLedger' = Append(debtLedger, factor)
    PROVE  /\ issuanceData' \in [Accounts -> IssuanceEntry]
           /\ debtLedger' \in Seq(Nat)
           /\ EntriesExist'
           /\ issuanceData'[a] = [initialDebtOwnership |-> ownership,
                                  debtEntryIndex |-> Len(debtLedger) + 1]
           /\ \A b \in Accounts \ {a} : issuanceData'[b] = issuanceData[b]
           /\ Len(debtLedger') = Len(debtLedger) + 1
           /\ debtLedger'[Len(debtLedger) + 1] = factor
<1> DEFINE entry == [initialDebtOwnership |-> ownership,
                     debtEntryIndex |-> Len(debtLedger) + 1]
<1>1. debtLedger \in Seq(Nat) /\ issuanceData \in [Accounts -> IssuanceEntry]
  BY DEF RegisterTyped
<1>2. entry \in IssuanceEntry /\ entry.debtEntryIndex = Len(debtLedger) + 1
  BY <1>1 DEF IssuanceEntry
<1>3. issuanceData' = [issuanceData EXCEPT ![a] = entry]
  BY DEF IssuanceDataWith
<1>4. /\ debtLedger' \in Seq(Nat)
      /\ Len(debtLedger') = Len(debtLedger) + 1
      /\ debtLedger'[Len(debtLedger) + 1] = factor
  BY <1>1
<1> HIDE DEF entry
<1>5. /\ issuanceData' \in [Accounts -> IssuanceEntry]
      /\ issuanceData'[a] = entry
      /\ \A b \in Accounts \ {a} : issuanceData'[b] = issuanceData[b]
  BY <1>1, <1>2, <1>3
<1>6. EntriesExist'
  <2> SUFFICES ASSUME NEW b \in Accounts, issuanceData'[b].initialDebtOwnership # 0
               PROVE  issuanceData'[b].debtEntryIndex <= Len(debtLedger')
    BY DEF EntriesExist
  <2>1. CASE b = a
    BY <1>1, <1>2, <1>4, <1>5, <2>1
  <2>2. CASE b # a
    <3>1. issuanceData[b].debtEntryIndex <= Len(debtLedger)
      BY <1>5, <2>2 DEF EntriesExist
    <3>2. issuanceData[b].debtEntryIndex \in Nat /\ Len(debtLedger) \in Nat
      BY <1>1 DEF IssuanceEntry
    <3> QED
      BY <1>4, <1>5, <2>2, <3>1, <3>2
  <2> QED
    BY <2>1, <2>2
<1> QED
  BY <1>4, <1>5, <1>6 DEF entry

\* _addToDebtRegister keeps the register typed: the others keep a share of the
\* debt that is not below zero.
LEMMA AddKeepsRegister ==
    ASSUME RegisterTyped, EntriesExist, NEW a \in Accounts, NEW amount \in Nat,
           NEW existing \in Nat, NEW total \in Nat,
           AddToDebtRegister(a, amount, existing, total),
           NEW time \in Nat,
           lastIssueEvent' = [lastIssueEvent EXCEPT ![a] = time]
    PROVE  RegisterTyped' /\ EntriesExist'
<1> DEFINE newTotal  == amount + total
           delta     == PreciseUnit - DividePrecise(amount, newTotal)
           ownership == DividePrecise(amount + existing, newTotal)
           factor    == IF LastDebtLedgerEntry # 0
                        THEN MultiplyPrecise(LastDebtLedgerEntry, delta)
                        ELSE PreciseUnit
<1>1. /\ newTotal > 0
      /\ issuanceData' = IssuanceDataWith(a, ownership)
      /\ totalIssuerCount' = totalIssuerCount + (IF existing > 0 THEN 0 ELSE 1)
      /\ selfIssuedDebt' = selfIssuedDebt + amount
      /\ debtLedger' = Append(debtLedger, factor)
  BY DEF AddToDebtRegister
<1>2. newTotal \in Nat \ {0} /\ amount <= newTotal
  BY <1>1
<1>3. LastDebtLedgerEntry \in Nat /\ PreciseUnit \in Nat
  BY PreciseUnitAssumption DEF RegisterTyped, LastDebtLedgerEntry
<1> HIDE DEF newTotal
<1>4. delta \in Nat
  BY <1>2, ShareWithinOne
<1>5. ownership \in Nat
  <2>1. amount + existing \in Nat
    OBVIOUS
  <2> QED
    BY <1>2, <2>1, PreciseQuotient
<1> HIDE DEF delta, ownership
<1>6. factor \in Nat
  BY <1>3, <1>4, PreciseProduct
<1> HIDE DEF factor
<1>7. /\ issuanceData' \in [Accounts -> IssuanceEntry]
      /\ debtLedger' \in Seq(Nat)
      /\ EntriesExist'
  BY <1>1, <1>5, <1>6, EntryAdded
<1>8. /\ totalIssuerCount' \in Nat /\ selfIssuedDebt' \in Nat
      /\ lastIssueEvent' \in [Accounts -> Nat]
  BY <1>1 DEF RegisterTyped
<1> QED
  BY <1>7, <1>8 DEF RegisterTyped

\* _removeFromDebtRegister does as well.
LEMMA RemoveKeepsRegister ==
    ASSUME RegisterTyped, EntriesExist, NEW a \in Accounts, NEW amount \in Nat,
           NEW existing \in Nat, NEW total \in Nat,
           RemoveFromDebtRegister(a, amount, existing, total),
           UNCHANGED lastIssueEvent
    PROVE  RegisterTyped' /\ EntriesExist'
<1> DEFINE newTotal  == total - amount
           delta     == IF newTotal > 0
                        THEN PreciseUnit + DividePrecise(amount, newTotal) ELSE 0
           ownership == IF amount = existing THEN 0
                        ELSE DividePrecise(existing - amount, newTotal)
           factor    == MultiplyPrecise(LastDebtLedgerEntry, delta)
<1>1. /\ CanRemoveDebt(amount, existing, total)
      /\ issuanceData' = IssuanceDataWith(a, ownership)
      /\ totalIssuerCount' = totalIssuerCount - (IF amount = existing THEN 1 ELSE 0)
      /\ selfIssuedDebt' = selfIssuedDebt - amount
      /\ debtLedger' = Append(debtLedger, factor)
  BY DEF RemoveFromDebtRegister
<1>2. /\ newTotal \in Nat
      /\ amount # existing => newTotal # 0
      /\ existing - amount \in Nat
      /\ amount <= selfIssuedDebt
      /\ amount = existing => totalIssuerCount > 0
  BY <1>1 DEF CanRemoveDebt
<1>3. LastDebtLedgerEntry \in Nat /\ PreciseUnit \in Nat
  BY PreciseUnitAssumption DEF RegisterTyped, LastDebtLedgerEntry
<1> HIDE DEF newTotal
<1>4. delta \in Nat
  BY <1>2, <1>3, PreciseQuotient
<1>5. ownership \in Nat
  <2>1. CASE amount = existing
    BY <2>1
  <2>2. CASE amount # existing
    <3>1. newTotal \in Nat \ {0} /\ existing - amount \in Nat
      BY <1>2, <2>2
    <3>2. DividePrecise(existing - amount, newTotal) \in Nat
      BY <3>1, PreciseQuotient
    <3> QED
      BY <2>2, <3>2
  <2> QED
    BY <2>1, <2>2
<1> HIDE DEF delta, ownership
<1>6. factor \in Nat
  BY <1>3, <1>4, PreciseProduct
<1> HIDE DEF factor
<1>7. /\ issuanceData' \in [Accounts -> IssuanceEntry]
      /\ debtLedger' \in Seq(Nat)
      /\ EntriesExist'
  BY <1>1, <1>5, <1>6, EntryAdded
<1>8. /\ totalIssuerCount' \in Nat /\ selfIssuedDebt' \in Nat
      /\ lastIssueEvent' \in [Accounts -> Nat]
  BY <1>1, <1>2 DEF RegisterTyped
<1> QED
  BY <1>7, <1>8 DEF RegisterTyped

-----------------------------------------------------------------------------
(* Every call keeps the invariant.                                         *)

PoolInv ==
    /\ CacheInv
    /\ DollarFixed
    /\ RegisterTyped
    /\ NetworksTyped
    /\ EntriesExist

\* In the states of the invariant the debts are known when the debt of the
\* network can be read.
LEMMA InvariantKnowsDebts == PoolInv /\ DebtReadable => DebtsKnown
BY TypeOKParts DEF PoolInv, CacheInv, DebtReadable, DebtsKnown

\* The debt of the network is changed by the balances of pUSD and by nothing else
\* of the pynths: the part of the cache for pUSD follows.
DollarsMoved ==
    /\ UNCHANGED <<priceVars, lastExchangeRate, pynthSuspension, feesToDistribute,
                   cacheInvalid>>
    /\ UpdateCache({pUSD})

\* Such a step keeps what is known of the pynths.
LEMMA DollarsMovedKept ==
    ASSUME CacheInv, DollarFixed, DollarsMoved, HoldingsTyped'
    PROVE  CacheInv' /\ DollarFixed'
<1>1. TypeOK /\ PricesInv
  BY DEF CacheInv
<1>2. PricesInv'
  BY <1>1, PricesInvUnchanged DEF DollarsMoved
<1>3. OthersTyped /\ UNCHANGED cacheTimestamp
  BY <1>1, TypeOKParts DEF DollarsMoved, UpdateCache
<1>4. OthersTyped'
  BY <1>3 DEF OthersTyped, DollarsMoved
<1>5. {pUSD} \in SUBSET Keys
  BY KeysAssumption
<1>6. CacheStep
  BY <1>5 DEF CacheStep, DollarsMoved
<1>7. CacheInv'
  BY <1>2, <1>4, <1>6, CacheStepKeepsInv
<1>8. DollarFixed'
  BY DEF DollarFixed, DollarsMoved, priceVars
<1> QED
  BY <1>7, <1>8

\* The balance of one account in pUSD becomes another number.
LEMMA DollarBalances ==
    ASSUME NEW balances \in [Keys -> [Holders -> Nat]], NEW a \in Accounts,
           NEW x \in Nat
    PROVE  [balances EXCEPT ![pUSD][a] = x] \in [Keys -> [Holders -> Nat]]
BY KeysAssumption DEF Holders

\* _issuePynths
LEMMA InternalIssueKept ==
    ASSUME PoolInv, DebtsKnown, NEW a \in Accounts, NEW amount \in Nat,
           DebtCall, InternalIssue(a, amount)
    PROVE  PoolInv'
<1>1. /\ CacheInv /\ DollarFixed /\ RegisterTyped /\ NetworksTyped /\ EntriesExist
      /\ TypeOK /\ HoldingsTyped
  BY TypeOKParts DEF PoolInv, CacheInv
<1>2. now \in Nat
  BY <1>1 DEF TypeOK, PricesTypeOK
<1>3. /\ AddToDebtRegister(a, amount, DebtBalanceOf(a), ActiveDebt)
      /\ lastIssueEvent' = [lastIssueEvent EXCEPT ![a] = now]
      /\ balanceOf' = [balanceOf EXCEPT ![pUSD][a] = @ + amount]
      /\ UNCHANGED exchanges
  BY DEF InternalIssue
<1>4. DebtBalanceOf(a) \in Nat /\ ActiveDebt \in Nat
  BY DebtBalanceType, ActiveDebtType
<1>5. RegisterTyped' /\ EntriesExist'
  BY <1>1, <1>2, <1>3, <1>4, AddKeepsRegister
<1>6. NetworksTyped'
  BY <1>1 DEF NetworksTyped, DebtCall, reportVars, bridgeVars
<1>7. HoldingsTyped'
  <2>1. balanceOf \in [Keys -> [Holders -> Nat]] /\ balanceOf[pUSD][a] \in Nat
    BY <1>1, KeysAssumption DEF HoldingsTyped, BalancesTyped, Holders
  <2>2. /\ balanceOf' = [balanceOf EXCEPT ![pUSD][a] = balanceOf[pUSD][a] + amount]
        /\ balanceOf[pUSD][a] + amount \in Nat
    BY <1>3, <2>1, KeysAssumption DEF Holders
  <2>3. balanceOf' \in [Keys -> [Holders -> Nat]]
    BY <2>1, <2>2, DollarBalances
  <2> QED
    BY <1>1, <1>3, <2>3 DEF HoldingsTyped, BalancesTyped, QueuesTyped
<1>8. DollarsMoved
  BY DEF DollarsMoved, DebtCall, InternalIssue
<1>9. CacheInv' /\ DollarFixed'
  BY <1>1, <1>7, <1>8, DollarsMovedKept
<1> QED
  BY <1>5, <1>6, <1>9 DEF PoolInv

\* _burnPynths, after a settlement or without one.
LEMMA InternalBurnKept ==
    ASSUME PoolInv, DebtsKnown, NEW a \in Accounts, NEW amount \in Nat,
           NEW settled \in [Keys -> [Holders -> Nat]],
           DebtCall, InternalBurn(a, settled, amount), QueuesTyped'
    PROVE  PoolInv'
<1> DEFINE balance == settled[pUSD][a]
           burnt   == AmountBurnt(balance, amount)
<1>1. /\ CacheInv /\ DollarFixed /\ RegisterTyped /\ NetworksTyped /\ EntriesExist
  BY DEF PoolInv
<1>2. /\ RemoveFromDebtRegister(a, amount, DebtBalanceOf(a), ActiveDebt)
      /\ balance >= burnt
      /\ balanceOf' = [settled EXCEPT ![pUSD][a] = balance - burnt]
      /\ UNCHANGED lastIssueEvent
  BY KeysAssumption DEF InternalBurn, Holders
<1>3. DebtBalanceOf(a) \in Nat /\ ActiveDebt \in Nat
  BY DebtBalanceType, ActiveDebtType
<1>4. RegisterTyped' /\ EntriesExist'
  BY <1>1, <1>2, <1>3, RemoveKeepsRegister
<1>5. NetworksTyped'
  BY <1>1 DEF NetworksTyped, DebtCall, reportVars, bridgeVars
<1>6. HoldingsTyped'
  <2>1. balance \in Nat
    BY KeysAssumption DEF Holders
  <2>2. burnt \in Nat
    BY <2>1 DEF AmountBurnt
  <2>3. balance - burnt \in Nat
    BY <1>2, <2>1, <2>2
  <2>4. balanceOf' \in [Keys -> [Holders -> Nat]]
    BY <1>2, <2>3, DollarBalances
  <2> QED
    BY <2>4 DEF HoldingsTyped, BalancesTyped
<1>7. DollarsMoved
  BY DEF DollarsMoved, DebtCall, InternalBurn
<1>8. CacheInv' /\ DollarFixed'
  BY <1>1, <1>6, <1>7, DollarsMovedKept
<1> QED
  BY <1>4, <1>5, <1>8 DEF PoolInv

\* burnPynths and exit
LEMMA SettleAndBurnKept ==
    ASSUME PoolInv, NEW a \in Accounts, NEW asked \in Nat, SettleAndBurn(a, asked)
    PROVE  PoolInv'
<1>1. DebtsKnown
  BY InvariantKnowsDebts DEF SettleAndBurn
<1>2. PricesTypeOK /\ HoldingsTyped /\ pUSD \in Keys /\ a \in Holders
  BY TypeOKParts, KeysAssumption DEF PoolInv, CacheInv, Holders
<1>3. /\ DebtCall /\ CanSettle(a, pUSD)
      /\ exchanges' = SettledQueues(a, pUSD)
      /\ InternalBurn(a, SettledBalances(a, pUSD),
                      AmountAfterSettlement(a, pUSD, asked))
  BY DEF SettleAndBurn
<1>4. /\ SettledBalances(a, pUSD) \in [Keys -> [Holders -> Nat]]
      /\ SettledQueues(a, pUSD) \in [Holders -> [Keys -> Seq(Entry)]]
  BY <1>2, <1>3, SettledEffect
<1>5. AmountAfterSettlement(a, pUSD, asked) \in Nat
  BY <1>2, <1>3, AmountTypes
<1>6. QueuesTyped'
  BY <1>3, <1>4 DEF QueuesTyped
<1> QED
  BY <1>1, <1>3, <1>4, <1>5, <1>6, InternalBurnKept

\* The calls of a staker.
LEMMA StakerKept ==
    ASSUME PoolInv, StakerStep
    PROVE  PoolInv'
<1>1. PICK a \in Accounts :
          \/ \E x \in IssueAmounts : IssuePynths(a, x)
          \/ IssueMaxPynths(a)
          \/ \E x \in BurnAmounts : BurnPynths(a, x)
          \/ Exit(a)
          \/ FitToClaimable(a)
  BY DEF StakerStep
<1>2. ASSUME NEW x \in IssueAmounts, IssuePynths(a, x) PROVE PoolInv'
  <2>1. x \in Nat
    BY DebtsAssumption
  <2> QED
    BY <1>2, <2>1, InvariantKnowsDebts, InternalIssueKept DEF IssuePynths
<1>3. CASE IssueMaxPynths(a)
  <2>1. DebtsKnown
    BY <1>3, InvariantKnowsDebts DEF IssueMaxPynths
  <2>2. RemainingIssuablePynths(a) \in Nat
    BY <2>1, IssuableTypes
  <2> QED
    BY <1>3, <2>1, <2>2, InternalIssueKept DEF IssueMaxPynths
<1>4. ASSUME NEW x \in BurnAmounts, BurnPynths(a, x) PROVE PoolInv'
  <2>1. x \in Nat
    BY DebtsAssumption
  <2> QED
    BY <1>4, <2>1, SettleAndBurnKept DEF BurnPynths
<1>5. CASE Exit(a)
  <2>1. SettleAndBurn(a, DebtBalanceOf(a))
    BY <1>5 DEF Exit
  <2>2. DebtBalanceOf(a) \in Nat
    BY <2>1, InvariantKnowsDebts, DebtBalanceType DEF SettleAndBurn
  <2> QED
    BY <2>1, <2>2, SettleAndBurnKept
<1>6. CASE FitToClaimable(a)
  <2>1. DebtsKnown
    BY <1>6, InvariantKnowsDebts DEF FitToClaimable
  <2>2. DebtBalanceOf(a) - MaxIssuablePynths(a) \in Nat
    BY <1>6, <2>1, DebtBalanceType, IssuableTypes DEF FitToClaimable
  <2>3. balanceOf \in [Keys -> [Holders -> Nat]] /\ QueuesTyped
    BY TypeOKParts DEF PoolInv, CacheInv, HoldingsTyped, BalancesTyped
  <2>4. QueuesTyped'
    BY <1>6, <2>3 DEF FitToClaimable, QueuesTyped
  <2> QED
    BY <1>6, <2>1, <2>2, <2>3, <2>4, InternalBurnKept DEF FitToClaimable
<1> QED
  BY <1>1, <1>2, <1>3, <1>4, <1>5, <1>6

\* A transfer over the bridge, and its claim.
LEMMA BridgedKept ==
    ASSUME PoolInv, NEW a \in Accounts, NEW x \in BridgeAmounts,
           OverchainTransfer(a, x) \/ ClaimBridgedAmount(a, x)
    PROVE  PoolInv'
<1>1. /\ CacheInv /\ DollarFixed /\ RegisterTyped /\ NetworksTyped /\ EntriesExist
      /\ PricesTypeOK /\ HoldingsTyped
  BY TypeOKParts DEF PoolInv, CacheInv
<1>2. /\ x \in Nat /\ balanceOf[pUSD][a] \in Nat
      /\ balanceOf \in [Keys -> [Holders -> Nat]]
  BY <1>1, DebtsAssumption, KeysAssumption DEF HoldingsTyped, BalancesTyped, Holders
<1>3. PICK y \in Nat : balanceOf' = [balanceOf EXCEPT ![pUSD][a] = y]
  <2>1. CASE OverchainTransfer(a, x)
    <3>1. /\ EnsureCanTransfer(a, pUSD, x)
          /\ balanceOf' = [balanceOf EXCEPT ![pUSD][a] = balanceOf[pUSD][a] - x]
      BY <2>1, KeysAssumption DEF OverchainTransfer, Holders
    <3>2. ReclaimAmount(a, pUSD) \in Nat
      BY <1>1, OwedTypes, KeysAssumption DEF OwedTyped, HoldingsTyped, Holders
    <3>3. balanceOf[pUSD][a] - x \in Nat
      BY <1>2, <3>1, <3>2 DEF EnsureCanTransfer
    <3> QED
      BY <3>1, <3>3
  <2>2. CASE ClaimBridgedAmount(a, x)
    <3>1. balanceOf' = [balanceOf EXCEPT ![pUSD][a] = balanceOf[pUSD][a] + x]
      BY <2>2, KeysAssumption DEF ClaimBridgedAmount, Holders
    <3>2. balanceOf[pUSD][a] + x \in Nat
      BY <1>2
    <3> QED
      BY <3>1, <3>2
  <2> QED
    BY <2>1, <2>2
<1>4. CrossCall /\ UpdateCache({pUSD}) /\ UNCHANGED cacheInvalid
  BY DEF OverchainTransfer, ClaimBridgedAmount
<1>5. HoldingsTyped'
  <2>1. balanceOf' \in [Keys -> [Holders -> Nat]]
    BY <1>2, <1>3, DollarBalances
  <2> QED
    BY <1>1, <1>4, <2>1
       DEF HoldingsTyped, BalancesTyped, QueuesTyped, CrossCall, exchangeVars
<1>6. DollarsMoved
  BY <1>4 DEF DollarsMoved, CrossCall, exchangeVars
<1>7. CacheInv' /\ DollarFixed'
  BY <1>1, <1>5, <1>6, DollarsMovedKept
<1>8. RegisterTyped' /\ EntriesExist'
  BY <1>1, <1>4 DEF RegisterTyped, EntriesExist, CrossCall, registerVars
<1>9. NetworksTyped'
  BY <1>1, <1>2
     DEF NetworksTyped, OverchainTransfer, ClaimBridgedAmount, reportVars
<1> QED
  BY <1>7, <1>8, <1>9 DEF PoolInv

\* A step that leaves the pynths and the prices alone.
LEMMA PynthsUnchanged ==
    ASSUME CacheInv, DollarFixed, UNCHANGED vars
    PROVE  CacheInv' /\ DollarFixed'
<1>1. CacheInv'
  BY NextCacheInv
<1>2. DollarFixed'
  BY DEF DollarFixed, vars, priceVars
<1> QED
  BY <1>1, <1>2

\* setCrossNetworkDebtsAll
LEMMA ReportKept ==
    ASSUME PoolInv, NEW report \in NetworkDebts, SetCrossNetworkDebtsAll(report)
    PROVE  PoolInv'
<1>1. report \in [issued : Nat, active : Nat, outbound : Nat]
  BY DebtsAssumption
<1>2. report.issued \in Nat /\ report.active \in Nat /\ report.outbound \in Nat
  BY <1>1
<1>3. UNCHANGED vars
  BY DEF SetCrossNetworkDebtsAll, CrossCall, vars
<1>4. CacheInv' /\ DollarFixed'
  BY <1>3, PynthsUnchanged DEF PoolInv
<1>5. RegisterTyped' /\ EntriesExist'
  BY DEF PoolInv, RegisterTyped, EntriesExist, SetCrossNetworkDebtsAll, CrossCall,
         registerVars
<1>6. NetworksTyped'
  BY <1>2 DEF PoolInv, NetworksTyped, SetCrossNetworkDebtsAll, bridgeVars
<1> QED
  BY <1>4, <1>5, <1>6 DEF PoolInv

\* The deployed system, in which nobody has issued anything.
LEMMA InitPoolInv == PoolInit => PoolInv
<1> SUFFICES ASSUME PoolInit PROVE PoolInv
  OBVIOUS
<1>1. CacheInv /\ DollarFixed
  BY InitWorthInv DEF PoolInit, WorthInv
<1>2. RegisterTyped
  <2>1. issuanceData \in [Accounts -> IssuanceEntry]
    BY DEF PoolInit, IssuanceEntry
  <2> QED
    BY <2>1 DEF PoolInit, RegisterTyped
<1>3. NetworksTyped
  BY DEF PoolInit, NetworksTyped
<1>4. EntriesExist
  BY DEF PoolInit, EntriesExist
<1> QED
  BY <1>1, <1>2, <1>3, <1>4 DEF PoolInv

\* Every step keeps the invariant.
LEMMA NextPoolInv == PoolInv /\ [PoolNext]_poolVars => PoolInv'
<1> SUFFICES ASSUME PoolInv, [PoolNext]_poolVars PROVE PoolInv'
  OBVIOUS
<1>1. CASE StakerStep
  BY <1>1, StakerKept
<1>2. CASE CrossStep
  BY <1>2, BridgedKept, ReportKept DEF CrossStep
<1>3. ASSUME [Next]_vars, UNCHANGED debtVars PROVE PoolInv'
  <2>1. CacheInv' /\ DollarFixed'
    BY <1>3, NextCacheInv, DollarStays DEF PoolInv, CacheInv
  <2>2. RegisterTyped' /\ EntriesExist' /\ NetworksTyped'
    BY <1>3 DEF PoolInv, RegisterTyped, EntriesExist, NetworksTyped, debtVars,
                registerVars, reportVars, bridgeVars
  <2> QED
    BY <2>1, <2>2 DEF PoolInv
<1> QED
  BY <1>1, <1>2, <1>3 DEF PoolNext, PynthStep, poolVars

LEMMA PoolInvAlways == PoolSpec => []PoolInv
BY InitPoolInv, NextPoolInv, PTL DEF PoolSpec

\* Type correctness: no burn takes more than there is, of the balance, of the debt
\* that has been issued or of the number of issuers, and no share of the debt, no
\* entry of the ledger and no cached debt goes below zero.
THEOREM PoolTypeCorrect == PoolSpec => []PoolTypeOK
<1>1. PoolInv => PoolTypeOK
  BY DEF PoolInv, CacheInv, PoolTypeOK, RegisterTyped, NetworksTyped, IssuanceEntry
<1> QED
  BY <1>1, PoolInvAlways, PTL

\* The total of the debt cache stays the sum of its parts when stakers issue and
\* burn and when pUSD is bridged.
THEOREM PoolCacheAlwaysSum == PoolSpec => []CacheIsSum
<1>1. PoolInv => CacheIsSum
  BY DEF PoolInv, CacheInv
<1> QED
  BY <1>1, PoolInvAlways, PTL

-----------------------------------------------------------------------------
(* The supply of pUSD, the cached debt and the debt of the network.        *)

\* The parts of the invariant that these lemmas need.
LEMMA PoolParts ==
    PoolInv => /\ PricesTypeOK /\ DollarFixed /\ BalancesTyped /\ CacheTyped
               /\ RegisterTyped /\ NetworksTyped /\ EntriesExist
BY TypeOKParts DEF PoolInv, CacheInv, HoldingsTyped

\* A sum of one number.
LEMMA SumOfOne ==
    ASSUME NEW x, NEW f, f[x] \in Int
    PROVE  SumFunctionOnSet(f, {x}) = f[x]
<1>1. IsFiniteSet({x}) /\ x \in {x}
  BY FS_Singleton
<1>2. \A y \in {x} : f[y] = IF y = x THEN f[x] ELSE 0
  OBVIOUS
<1> QED
  BY <1>1, <1>2, SumPoint

\* The supply follows the balance of one account.
LEMMA SupplyMoves ==
    ASSUME BalancesTyped, NEW a \in Accounts, NEW y \in Nat,
           balanceOf' = [balanceOf EXCEPT ![pUSD][a] = y]
    PROVE  /\ TotalSupply(pUSD) \in Nat
           /\ TotalSupply(pUSD)' = TotalSupply(pUSD) + (y - balanceOf[pUSD][a])
<1> DEFINE f == balanceOf[pUSD]
           g == balanceOf'[pUSD]
<1>1. pUSD \in Keys /\ a \in Holders /\ IsFiniteSet(Holders)
  BY KeysAssumption, HoldersFinite DEF Holders
<1>2. f \in [Holders -> Nat] /\ g \in [Holders -> Nat] /\ g = [f EXCEPT ![a] = y]
  BY <1>1 DEF BalancesTyped
<1>3. TotalSupply(pUSD) = SumFunctionOnSet(f, Holders)
      /\ TotalSupply(pUSD)' = SumFunctionOnSet(g, Holders)
  BY <1>2 DEF TotalSupply, SumFunction
<1> HIDE DEF f, g
<1>4. SumFunctionOnSet(f, Holders) \in Nat
  BY <1>1, <1>2, SumNat
<1>5. /\ f[a] \in Int /\ g[a] \in Int /\ g[a] = y
      /\ \A b \in Holders : b # a => f[b] \in Int /\ g[b] = f[b]
  BY <1>1, <1>2
<1>6. SumFunctionOnSet(g, Holders) = SumFunctionOnSet(f, Holders) + (g[a] - f[a])
  BY <1>1, <1>5, SumChange
<1> QED
  BY <1>3, <1>4, <1>5, <1>6 DEF f

\* A dollar is worth a dollar.
LEMMA DollarValue ==
    ASSUME PricesTypeOK, DollarFixed, BalancesTyped, LoansWithinSupply
    PROVE  IssuedPynthValue(pUSD) = TotalSupply(pUSD) - Longs[pUSD]
<1>1. pUSD \in Keys /\ Longs[pUSD] \in Nat
  BY KeysAssumption, AmountsAssumption
<1>2. TotalSupply(pUSD) \in Nat
  BY <1>1, HoldersFinite, SumNat DEF BalancesTyped, TotalSupply, SumFunction
<1> DEFINE free == TotalSupply(pUSD) - Longs[pUSD]
<1>3. free \in Nat /\ ~(Longs[pUSD] > TotalSupply(pUSD))
  BY <1>1, <1>2 DEF LoansWithinSupply
<1>4. IssuedPynthValue(pUSD) = MultiplyDecimalRound(free, Rate(pUSD))
  BY <1>3 DEF IssuedPynthValue
<1> HIDE DEF free
<1>5. MultiplyDecimalRound(free, Rate(pUSD)) = free
  BY <1>3, DollarPrice, ExactProduct
<1> QED
  BY <1>4, <1>5 DEF free

\* The cached debt follows too, when its part for pUSD was current.
LEMMA CachedDebtMoves ==
    ASSUME PoolInv, PoolInv', NEW a \in Accounts, NEW y \in Nat,
           balanceOf' = [balanceOf EXCEPT ![pUSD][a] = y],
           UpdateCache({pUSD}), CacheOfPUSDCurrent,
           LoansWithinSupply, LoansWithinSupply'
    PROVE  cachedDebt' = cachedDebt + (y - balanceOf[pUSD][a])
<1>1. PricesTypeOK /\ DollarFixed /\ BalancesTyped /\ CacheTyped
  BY PoolParts
<1>2. PricesTypeOK' /\ DollarFixed' /\ BalancesTyped' /\ CacheTyped'
  BY PoolParts, PTL
<1>3. pUSD \in Keys /\ Longs[pUSD] \in Nat
  BY KeysAssumption, AmountsAssumption
<1>4. /\ TotalSupply(pUSD) \in Nat /\ balanceOf[pUSD][a] \in Nat
      /\ TotalSupply(pUSD)' = TotalSupply(pUSD) + (y - balanceOf[pUSD][a])
  BY <1>1, <1>3, SupplyMoves DEF BalancesTyped, Holders
<1>5. cachedPynthDebt[pUSD] = TotalSupply(pUSD) - Longs[pUSD]
  BY <1>1, DollarValue DEF CacheOfPUSDCurrent
<1>6. IssuedPynthValue(pUSD)' = TotalSupply(pUSD)' - Longs[pUSD]
  <2>1. (PricesTypeOK /\ DollarFixed /\ BalancesTyped /\ LoansWithinSupply
            => IssuedPynthValue(pUSD) = TotalSupply(pUSD) - Longs[pUSD])'
    BY DollarValue, PTL
  <2> QED
    BY <1>2, <2>1
<1>7. cachedPynthDebt[pUSD] \in Int /\ cachedPynthDebt'[pUSD] \in Int
      /\ cachedDebt \in Int
  BY <1>1, <1>2, <1>3 DEF CacheTyped
<1>8. cachedPynthDebt'[pUSD] = IssuedPynthValue(pUSD)'
  BY <1>3 DEF UpdateCache
<1>9. cachedDebt' = cachedDebt - cachedPynthDebt[pUSD] + cachedPynthDebt'[pUSD]
  <2>1. SumFunctionOnSet(cachedPynthDebt, {pUSD}) = cachedPynthDebt[pUSD]
    BY <1>7, SumOfOne
  <2>2. SumFunctionOnSet(cachedPynthDebt', {pUSD}) = cachedPynthDebt'[pUSD]
    BY <1>7, SumOfOne
  <2> QED
    BY <2>1, <2>2 DEF UpdateCache
<1> QED
  BY <1>3, <1>4, <1>5, <1>6, <1>7, <1>8, <1>9

-----------------------------------------------------------------------------
(* Bridging.                                                               *)

\* Only the bridge moves the totals of the bridge.
LEMMA BridgeSteps ==
    ASSUME [PoolNext]_poolVars, bridgeVars' # bridgeVars
    PROVE  \E a \in Accounts, x \in BridgeAmounts :
               OverchainTransfer(a, x) \/ ClaimBridgedAmount(a, x)
<1>1. ~StakerStep
  BY DEF StakerStep, IssuePynths, IssueMaxPynths, BurnPynths, Exit, SettleAndBurn,
         FitToClaimable, DebtCall
<1>2. ~PynthStep /\ ~UNCHANGED poolVars
  BY DEF PynthStep, debtVars, poolVars
<1>3. \A report \in NetworkDebts : ~SetCrossNetworkDebtsAll(report)
  BY DEF SetCrossNetworkDebtsAll
<1> QED
  BY <1>1, <1>2, <1>3 DEF PoolNext, CrossStep

\* Bridging moves pUSD, not debt: what the cached debt loses in a transfer the
\* bridge has sent, and what it gains in a claim the bridge has received.
THEOREM BridgingNeverMovesDebt == PoolSpec => BridgingMovesNoDebt
<1>1. ASSUME PoolInv, PoolInv', [PoolNext]_poolVars, bridgeVars' # bridgeVars,
             CacheOfPUSDCurrent, LoansWithinSupply, LoansWithinSupply',
             outboundSum <= totalInbound
      PROVE  ActiveDebt' = ActiveDebt
  <2>1. PICK a \in Accounts, x \in BridgeAmounts :
            OverchainTransfer(a, x) \/ ClaimBridgedAmount(a, x)
    BY <1>1, BridgeSteps
  <2>2. /\ x \in Nat /\ balanceOf[pUSD][a] \in Nat
        /\ cachedDebt \in Int /\ totalOutbound \in Nat /\ totalInbound \in Nat
        /\ outboundSum \in Nat
    BY <1>1, DebtsAssumption, KeysAssumption, TypeOKParts
       DEF PoolInv, CacheInv, HoldingsTyped, BalancesTyped, Holders, CacheTyped,
           NetworksTyped
  <2>3. /\ UpdateCache({pUSD})
        /\ UNCHANGED <<selfIssuedDebt, crossIssuedDebt, crossActiveDebt, outboundSum>>
    BY <2>1 DEF OverchainTransfer, ClaimBridgedAmount, CrossCall, registerVars,
                reportVars
  <2>4. balanceOf'[pUSD][a] \in Nat
    <3>1. BalancesTyped'
      BY <1>1, PoolParts, PTL
    <3> QED
      BY <3>1, KeysAssumption DEF BalancesTyped, Holders
  <2>5. LocalDebt' = LocalDebt
    <3>1. CASE OverchainTransfer(a, x)
      <4>1. balanceOf' = [balanceOf EXCEPT ![pUSD][a] = balanceOf[pUSD][a] - x]
            /\ totalOutbound' = totalOutbound + x /\ totalInbound' = totalInbound
        BY <3>1, KeysAssumption DEF OverchainTransfer, Holders
      <4>2. balanceOf[pUSD][a] - x \in Nat
        <5>1. balanceOf'[pUSD][a] = balanceOf[pUSD][a] - x
          BY <1>1, <4>1, KeysAssumption
             DEF PoolInv, CacheInv, TypeOK, Holders
        <5> QED
          BY <2>4, <5>1
      <4>3. cachedDebt' = cachedDebt - x
        <5> DEFINE y == balanceOf[pUSD][a] - x
        <5>1. y \in Nat /\ y - balanceOf[pUSD][a] = -x
          BY <2>2, <4>2
        <5> HIDE DEF y
        <5>2. cachedDebt' = cachedDebt + (y - balanceOf[pUSD][a])
          BY <1>1, <2>3, <4>1, <5>1, CachedDebtMoves DEF y
        <5> QED
          BY <2>2, <5>1, <5>2
      <4>4. InboundAmount' = InboundAmount /\ InboundAmount \in Int
        BY <2>2, <2>3, <4>1 DEF InboundAmount
      <4> QED
        BY <2>2, <4>1, <4>3, <4>4 DEF LocalDebt
    <3>2. CASE ClaimBridgedAmount(a, x)
      <4>1. balanceOf' = [balanceOf EXCEPT ![pUSD][a] = balanceOf[pUSD][a] + x]
            /\ totalInbound' = totalInbound + x /\ totalOutbound' = totalOutbound
        BY <3>2, KeysAssumption DEF ClaimBridgedAmount, Holders
      <4>2. balanceOf[pUSD][a] + x \in Nat
        BY <2>2
      <4>3. cachedDebt' = cachedDebt + x
        <5> DEFINE y == balanceOf[pUSD][a] + x
        <5>1. y \in Nat /\ y - balanceOf[pUSD][a] = x
          BY <2>2, <4>2
        <5> HIDE DEF y
        <5>2. cachedDebt' = cachedDebt + (y - balanceOf[pUSD][a])
          BY <1>1, <2>3, <4>1, <5>1, CachedDebtMoves DEF y
        <5> QED
          BY <2>2, <5>1, <5>2
      <4>4. InboundAmount = totalInbound /\ InboundAmount' = totalInbound + x
        BY <1>1, <2>2, <2>3, <4>1 DEF InboundAmount
      <4> QED
        BY <2>2, <4>1, <4>3, <4>4 DEF LocalDebt
    <3> QED
      BY <2>1, <3>1, <3>2
  <2>6. NetworkShare' = NetworkShare
    BY <2>3 DEF NetworkShare
  <2> QED
    BY <2>3, <2>5, <2>6 DEF ActiveDebt
<1>2. PoolInv /\ [PoolNext]_poolVars => PoolInv'
  BY NextPoolInv
<1>3. PoolInv /\ [PoolNext]_poolVars =>
          [ /\ bridgeVars' # bridgeVars
            /\ LocalDebt >= 0
            /\ CacheOfPUSDCurrent
            /\ LoansWithinSupply /\ LoansWithinSupply'
            /\ outboundSum <= totalInbound
            => ActiveDebt' = ActiveDebt ]_poolVars
  BY <1>1, <1>2
<1> QED
  BY <1>3, PoolInvAlways, PTL DEF PoolSpec, BridgingMovesNoDebt

-----------------------------------------------------------------------------
(* The collateral.                                                         *)

\* A share of the debt, read back as an amount of it, is the amount it was made
\* from, but for the roundings: of the share, of the product and of the precision.
LEMMA ShareRounds ==
    ASSUME NEW x \in Nat, NEW total \in Nat \ {0}
    PROVE  FromPrecise(MultiplyPrecise(ToPrecise(total), DividePrecise(x, total)))
               <= x + 1 + total \div PreciseUnit
<1> DEFINE p   == PreciseUnit
           f   == PrecisionFactor
           g   == f * p
           own == DividePrecise(x, total)
           m   == MultiplyPrecise(ToPrecise(total), own)
           r   == FromPrecise(m)
           t   == total \div p
<1>1. f \in Nat \ {0} /\ f >= 10 /\ p \in Nat \ {0}
  BY PreciseUnits, PreciseUnitAssumption
<1>2. own \in Nat /\ 2 * (total * own) <= 2 * (x * p) + total
  <2>1. own \in Nat /\ 2 * (total * own) - 2 * (x * p) \in -total..total
    BY PreciseQuotient
  <2>2. total * own \in Nat /\ x * p \in Nat
    BY <1>1, <2>1, ProductType
  <2> HIDE DEF p, own
  <2> QED
    BY <2>1, <2>2
<1>3. ToPrecise(total) = total * f /\ ToPrecise(total) \in Nat
  BY <1>1, ProductType DEF ToPrecise
<1>4. m \in Nat /\ 2 * (p * m) <= 2 * ((total * f) * own) + p
  <2>1. m \in Nat /\ 2 * (p * m) - 2 * ((total * f) * own) \in -p..p
    BY <1>2, <1>3, PreciseProduct
  <2>2. total * f \in Nat /\ (total * f) * own \in Nat /\ p * m \in Nat
    BY <1>1, <1>2, <2>1, ProductType
  <2> HIDE DEF p, f, own, m
  <2> QED
    BY <1>1, <2>1, <2>2
<1>5. r \in Nat /\ 2 * (f * r) <= 2 * m + f
  <2>1. r \in Nat /\ 2 * (f * r) - 2 * m \in -f..f
    BY <1>4, PreciseBack
  <2>2. f * r \in Nat
    BY <1>1, <2>1, ProductType
  <2> HIDE DEF f, m, r
  <2> QED
    BY <1>1, <1>4, <2>1, <2>2
<1>6. t \in Nat /\ total <= p * t + p
  <2> HIDE DEF p
  <2> QED
    BY <1>1
<1> HIDE DEF p, f, own, m, r, t
<1>7. /\ g \in Nat /\ g >= 10 * p
      /\ x * g \in Nat /\ g * t \in Nat /\ g * r \in Nat /\ p * m \in Nat
      /\ f * total \in Nat /\ f * (total * own) \in Nat
  <2>1. g \in Nat
    BY <1>1, ProductType
  <2>2. g >= 10 * p
    BY <1>1
  <2>3. total * own \in Nat
    BY <1>2, ProductType
  <2> HIDE DEF g
  <2> QED
    BY <1>1, <1>2, <1>4, <1>5, <1>6, <2>1, <2>2, <2>3, ProductType
<1>8. 2 * (f * (total * own)) <= 2 * (x * g) + f * total
  <2>1. total * own \in Nat /\ x * p \in Nat
    BY <1>1, <1>2, ProductType
  <2>2. f * (2 * (total * own)) <= f * (2 * (x * p) + total)
    <3> DEFINE lhs == 2 * (total * own)
               rhs == 2 * (x * p) + total
    <3>1. lhs \in Nat /\ rhs \in Nat /\ lhs <= rhs
      BY <1>2, <2>1
    <3> HIDE DEF lhs, rhs
    <3>2. f * lhs <= f * rhs
      BY <1>1, <3>1
    <3> QED
      BY <3>2 DEF lhs, rhs
  <2>3. f * (2 * (x * p) + total) = 2 * (x * g) + f * total
    BY <1>1
  <2>4. f * (2 * (total * own)) = 2 * (f * (total * own))
    BY <1>1, <1>2
  <2> QED
    BY <2>2, <2>3, <2>4
<1>9. 2 * (g * r) <= 2 * (p * m) + g
  <2>1. f * r \in Nat
    BY <1>1, <1>5, ProductType
  <2>2. p * (2 * (f * r)) <= p * (2 * m + f)
    <3> DEFINE lhs == 2 * (f * r)
               rhs == 2 * m + f
    <3>1. lhs \in Nat /\ rhs \in Nat /\ lhs <= rhs
      BY <1>1, <1>4, <1>5, <2>1
    <3> HIDE DEF lhs, rhs
    <3>2. p * lhs <= p * rhs
      BY <1>1, <3>1
    <3> QED
      BY <3>2 DEF lhs, rhs
  <2>3. p * (2 * (f * r)) = 2 * (g * r)
    BY <1>1, <1>5
  <2>4. p * (2 * m + f) = 2 * (p * m) + g
    BY <1>1, <1>4
  <2> QED
    BY <2>2, <2>3, <2>4
<1>10. f * total <= g * t + g
  <2>1. p * t \in Nat
    BY <1>1, <1>6, ProductType
  <2>2. f * total <= f * (p * t + p)
    <3> DEFINE rhs == p * t + p
    <3>1. rhs \in Nat /\ total <= rhs
      BY <1>1, <1>6, <2>1
    <3> HIDE DEF rhs
    <3>2. f * total <= f * rhs
      BY <1>1, <3>1
    <3> QED
      BY <3>2 DEF rhs
  <2>3. f * (p * t + p) = g * t + g
    BY <1>1, <1>6
  <2> QED
    BY <2>2, <2>3
<1>11. (total * f) * own = f * (total * own)
  BY <1>1, <1>2
<1>12. 2 * (g * r) <= 2 * (x * g) + g * t + 2 * g + p
  <2> HIDE DEF g
  <2> QED
    BY <1>1, <1>4, <1>7, <1>8, <1>9, <1>10, <1>11
<1>13. ASSUME r >= x + t + 2 PROVE FALSE
  <2>1. g * r >= g * (x + t + 2)
    <3> DEFINE rhs == x + t + 2
    <3>1. rhs \in Nat /\ rhs <= r
      BY <1>6, <1>13
    <3> HIDE DEF rhs, g
    <3>2. g * rhs <= g * r
      BY <1>5, <1>7, <3>1
    <3>3. g * rhs \in Nat
      BY <1>7, <3>1, ProductType
    <3> QED
      BY <1>7, <3>2, <3>3 DEF rhs
  <2> HIDE DEF g
  <2>2. g * (x + t + 2) = x * g + g * t + 2 * g
    BY <1>6, <1>7
  <2> QED
    BY <1>1, <1>7, <1>12, <2>1, <2>2
<1>14. r <= x + 1 + t
  BY <1>5, <1>6, <1>13
<1> QED
  BY <1>14 DEF r, m, own, t, p

\* On a network without others the debt is what the cache and the bridge say.
LEMMA SingleNetworkDebt ==
    DebtsKnown /\ SingleNetwork => ActiveDebt = LocalDebt /\ LocalDebt \in Nat
<1> SUFFICES ASSUME DebtsKnown, SingleNetwork
             PROVE  ActiveDebt = LocalDebt /\ LocalDebt \in Nat
  OBVIOUS
<1>1. LocalDebt \in Nat
  <2>1. InboundAmount \in Nat
    BY DEF DebtsKnown, NetworksTyped, InboundAmount
  <2> QED
    BY <2>1 DEF DebtsKnown, NetworksTyped, CacheTyped, LocalDebt
<1>2. /\ selfIssuedDebt \in Nat /\ crossIssuedDebt = 0 /\ crossActiveDebt = 0
      /\ selfIssuedDebt + crossIssuedDebt = selfIssuedDebt
  BY DEF SingleNetwork, DebtsKnown, RegisterTyped
<1>3. NetworkShare = PreciseUnit
  <2>1. CASE selfIssuedDebt = 0
    BY <1>2, <2>1 DEF NetworkShare
  <2>2. CASE selfIssuedDebt # 0
    <3>1. PrecisionFactor \in Nat \ {0}
      BY PreciseUnits
    <3>2. ToPrecise(selfIssuedDebt) \in Nat \ {0}
      BY <1>2, <2>2, <3>1 DEF ToPrecise
    <3>3. DividePrecise(ToPrecise(selfIssuedDebt), ToPrecise(selfIssuedDebt))
              = PreciseUnit
      BY <3>2, PreciseExact
    <3> QED
      BY <1>2, <2>2, <3>3 DEF NetworkShare
  <2> QED
    BY <2>1, <2>2
<1>4. LocalDebt + crossActiveDebt = LocalDebt
  BY <1>1, <1>2
<1>5. ToPrecise(LocalDebt) \in Nat
  BY <1>1, PreciseBack
<1>6. MultiplyPrecise(ToPrecise(LocalDebt), NetworkShare) = ToPrecise(LocalDebt)
  BY <1>3, <1>5, PreciseExact
<1>7. ActiveDebt = LocalDebt
  BY <1>1, <1>4, <1>6, PreciseExact DEF ActiveDebt
<1> QED
  BY <1>1, <1>7

\* What an account owes after an issue: its share was made from what it owed and
\* the amount, of the debt after the issue.
LEMMA IssueAddsAmount ==
    ASSUME PoolInv, PoolInv', DebtsKnown, NEW a \in Accounts, NEW amount \in Nat,
           DebtCall, InternalIssue(a, amount),
           SingleNetwork, CacheOfPUSDCurrent, LoansWithinSupply
    PROVE  /\ DebtBalanceOf(a)' \in Nat
           /\ ActiveDebt' \div PreciseUnit \in Nat
           /\ DebtBalanceOf(a)'
                  <= DebtBalanceOf(a) + amount + 1 + ActiveDebt' \div PreciseUnit
           /\ selfIssuedDebt' = selfIssuedDebt + amount
           /\ \A b \in Accounts \ {a} : issuanceData'[b] = issuanceData[b]
<1> DEFINE existing  == DebtBalanceOf(a)
           newTotal  == amount + ActiveDebt
           delta     == PreciseUnit - DividePrecise(amount, newTotal)
           ownership == DividePrecise(amount + existing, newTotal)
           factor    == IF LastDebtLedgerEntry # 0
                        THEN MultiplyPrecise(LastDebtLedgerEntry, delta)
                        ELSE PreciseUnit
           last      == Len(debtLedger) + 1
           y         == balanceOf[pUSD][a] + amount
<1>1. /\ existing \in Nat /\ ActiveDebt \in Nat /\ ActiveDebt = LocalDebt
  BY DebtBalanceType, ActiveDebtType, SingleNetworkDebt
<1>2. /\ newTotal > 0
      /\ issuanceData' = IssuanceDataWith(a, ownership)
      /\ selfIssuedDebt' = selfIssuedDebt + amount
      /\ debtLedger' = Append(debtLedger, factor)
      /\ UpdateCache({pUSD})
  BY DEF InternalIssue, AddToDebtRegister
<1>3. /\ BalancesTyped /\ RegisterTyped /\ EntriesExist
      /\ PricesTypeOK' /\ CacheTyped' /\ RegisterTyped' /\ NetworksTyped' /\ EntriesExist'
  BY PoolParts, PTL
<1>4. balanceOf[pUSD][a] \in Nat /\ y \in Nat /\ y - balanceOf[pUSD][a] = amount
  BY <1>3, KeysAssumption DEF BalancesTyped, Holders
<1>5. balanceOf' = [balanceOf EXCEPT ![pUSD][a] = y]
  BY KeysAssumption DEF InternalIssue, Holders
<1>6. newTotal \in Nat \ {0} /\ amount <= newTotal /\ amount + existing \in Nat
  BY <1>1, <1>2
<1>7. LocalDebt' = newTotal
  <2> HIDE DEF y
  <2>1. /\ TotalSupply(pUSD) \in Nat /\ Longs[pUSD] \in Nat
        /\ TotalSupply(pUSD)' = TotalSupply(pUSD) + amount
    <3>1. /\ TotalSupply(pUSD) \in Nat
          /\ TotalSupply(pUSD)' = TotalSupply(pUSD) + (y - balanceOf[pUSD][a])
      BY <1>3, <1>4, <1>5, SupplyMoves
    <3>2. Longs[pUSD] \in Nat
      BY AmountsAssumption, KeysAssumption
    <3> QED
      BY <1>4, <3>1, <3>2
  <2>2. LoansWithinSupply'
    BY <2>1 DEF LoansWithinSupply
  <2>3. cachedDebt' = cachedDebt + (y - balanceOf[pUSD][a])
    BY <1>2, <1>4, <1>5, <2>2, CachedDebtMoves
  <2>4. UNCHANGED <<totalOutbound, totalInbound, outboundSum>>
    BY DEF DebtCall, reportVars, bridgeVars
  <2>5. InboundAmount' = InboundAmount
    BY <2>4 DEF InboundAmount
  <2>6. cachedDebt \in Int /\ totalOutbound \in Int /\ InboundAmount \in Int
    BY DEF DebtsKnown, CacheTyped, NetworksTyped, InboundAmount
  <2> QED
    BY <1>1, <1>4, <2>3, <2>4, <2>5, <2>6 DEF LocalDebt
<1>8. ActiveDebt' = newTotal
  <2>1. DebtsKnown' /\ SingleNetwork'
    <3>1. SingleNetwork'
      BY DEF SingleNetwork, DebtCall, reportVars
    <3> QED
      BY <1>3, <1>6, <1>7, <3>1 DEF DebtsKnown
  <2>2. (DebtsKnown /\ SingleNetwork => ActiveDebt = LocalDebt /\ LocalDebt \in Nat)'
    BY SingleNetworkDebt, PTL
  <2> QED
    BY <1>7, <2>1, <2>2
<1>9. ownership \in Nat
  <2> HIDE DEF newTotal, existing
  <2> QED
    BY <1>6, PreciseQuotient
<1>10. factor \in Nat
  <2>1. LastDebtLedgerEntry \in Nat /\ PreciseUnit \in Nat
    BY <1>3, PreciseUnitAssumption DEF RegisterTyped, LastDebtLedgerEntry
  <2> HIDE DEF newTotal
  <2>2. delta \in Nat
    BY <1>6, ShareWithinOne
  <2> HIDE DEF delta
  <2> QED
    BY <2>1, <2>2, PreciseProduct
<1> HIDE DEF newTotal, ownership, factor, existing
<1>11. /\ issuanceData'[a].initialDebtOwnership = ownership
       /\ issuanceData'[a].debtEntryIndex = last
       /\ Len(debtLedger') = last /\ last \in Nat \ {0}
       /\ debtLedger'[last] = factor
       /\ \A b \in Accounts \ {a} : issuanceData'[b] = issuanceData[b]
  <2>1. /\ issuanceData'[a] = [initialDebtOwnership |-> ownership,
                               debtEntryIndex |-> Len(debtLedger) + 1]
        /\ \A b \in Accounts \ {a} : issuanceData'[b] = issuanceData[b]
        /\ Len(debtLedger') = Len(debtLedger) + 1
        /\ debtLedger'[Len(debtLedger) + 1] = factor
    BY <1>2, <1>3, <1>9, <1>10, EntryAdded
  <2>2. Len(debtLedger) \in Nat
    BY <1>3 DEF RegisterTyped
  <2> QED
    BY <2>1, <2>2
<1>12. LastDebtLedgerEntry' = factor
  BY <1>11 DEF LastDebtLedgerEntry
<1> HIDE DEF last
<1>13. newTotal \div PreciseUnit \in Nat
  BY <1>6, DivisionType, PreciseUnitAssumption
<1>14. /\ DebtBalanceOf(a)' \in Nat
       /\ DebtBalanceOf(a)' <= existing + amount + 1 + newTotal \div PreciseUnit
  <2>1. CASE ownership = 0 \/ factor = 0
    <3>1. DebtBalanceOf(a)' = 0
      BY <1>11, <2>1 DEF DebtBalanceOf
    <3> QED
      BY <1>1, <1>13, <3>1
  <2>2. CASE ownership # 0 /\ factor # 0
    <3>1. DebtBalanceOf(a)' =
              FromPrecise(MultiplyPrecise(ToPrecise(newTotal),
                  MultiplyPrecise(DividePrecise(factor, factor), ownership)))
      BY <1>8, <1>11, <1>12, <2>2 DEF DebtBalanceOf
    <3>2. MultiplyPrecise(DividePrecise(factor, factor), ownership) = ownership
      BY <1>9, <1>10, <2>2, PreciseExact
    <3>3. FromPrecise(MultiplyPrecise(ToPrecise(newTotal), ownership))
              <= amount + existing + 1 + newTotal \div PreciseUnit
      BY <1>6, ShareRounds DEF ownership
    <3>4. FromPrecise(MultiplyPrecise(ToPrecise(newTotal), ownership)) \in Nat
      BY <1>6, <1>9, PreciseBack, PreciseProduct
    <3>5. amount + existing = existing + amount
      BY <1>1
    <3> QED
      BY <3>1, <3>2, <3>3, <3>4, <3>5
  <2> QED
    BY <2>1, <2>2
<1> QED
  BY <1>2, <1>8, <1>11, <1>13, <1>14 DEF existing

\* Who issues: only the calls of stakers add to what this network has issued.
LEMMA IssueSteps ==
    ASSUME PoolInv, DebtReadable => DebtsKnown, [PoolNext]_poolVars,
           selfIssuedDebt' > selfIssuedDebt
    PROVE  \E a \in Accounts, amount \in Nat :
               /\ DebtCall /\ DebtReadable
               /\ amount <= RemainingIssuablePynths(a)
               /\ InternalIssue(a, amount)
<1>1. selfIssuedDebt \in Nat
  BY DEF PoolInv, RegisterTyped
<1>2. ~CrossStep /\ ~PynthStep /\ ~UNCHANGED poolVars
  BY <1>1 DEF CrossStep, OverchainTransfer, ClaimBridgedAmount,
              SetCrossNetworkDebtsAll, CrossCall, PynthStep, registerVars, debtVars,
              poolVars
<1>3. ASSUME NEW a \in Accounts, NEW settled, NEW amount \in Nat,
             InternalBurn(a, settled, amount)
      PROVE  FALSE
  BY <1>1, <1>3 DEF InternalBurn, RemoveFromDebtRegister
<1>4. ASSUME NEW a \in Accounts, NEW asked \in Nat, SettleAndBurn(a, asked)
      PROVE  FALSE
  <2>1. PricesTypeOK /\ HoldingsTyped /\ pUSD \in Keys /\ a \in Holders
    BY TypeOKParts, KeysAssumption DEF PoolInv, CacheInv, Holders
  <2>2. AmountAfterSettlement(a, pUSD, asked) \in Nat
    BY <1>4, <2>1, AmountTypes DEF SettleAndBurn
  <2> QED
    BY <1>3, <1>4, <2>2 DEF SettleAndBurn
<1>5. PICK a \in Accounts :
          \/ \E x \in IssueAmounts : IssuePynths(a, x)
          \/ IssueMaxPynths(a)
          \/ \E x \in BurnAmounts : BurnPynths(a, x)
          \/ Exit(a)
          \/ FitToClaimable(a)
  BY <1>2 DEF PoolNext, StakerStep
<1>6. ASSUME NEW x \in BurnAmounts, BurnPynths(a, x) PROVE FALSE
  <2>1. x \in Nat
    BY DebtsAssumption
  <2> QED
    BY <1>4, <1>6, <2>1 DEF BurnPynths
<1>7. CASE Exit(a)
  <2>1. DebtBalanceOf(a) \in Nat
    BY <1>7, DebtBalanceType DEF Exit, SettleAndBurn
  <2> QED
    BY <1>4, <1>7, <2>1 DEF Exit
<1>8. CASE FitToClaimable(a)
  <2>1. DebtBalanceOf(a) - MaxIssuablePynths(a) \in Nat
    BY <1>8, DebtBalanceType, IssuableTypes DEF FitToClaimable
  <2> QED
    BY <1>3, <1>8, <2>1 DEF FitToClaimable
<1>9. CASE IssueMaxPynths(a)
  <2>1. RemainingIssuablePynths(a) \in Nat
        /\ RemainingIssuablePynths(a) <= RemainingIssuablePynths(a)
    BY <1>9, IssuableTypes DEF IssueMaxPynths
  <2> QED
    BY <1>9, <2>1 DEF IssueMaxPynths
<1>10. ASSUME NEW x \in IssueAmounts, IssuePynths(a, x)
       PROVE  /\ x \in Nat /\ DebtCall /\ DebtReadable
              /\ x <= RemainingIssuablePynths(a) /\ InternalIssue(a, x)
  BY <1>10, DebtsAssumption DEF IssuePynths
<1> QED
  BY <1>5, <1>6, <1>7, <1>8, <1>9, <1>10

\* No issue takes what an account owes above what its collateral allows by more
\* than the rounding of its share of the debt.
THEOREM CollateralAlwaysRespected == PoolSpec => CollateralRespected
<1>1. ASSUME PoolInv, PoolInv', [PoolNext]_poolVars, NEW a \in Accounts,
             StepIsExact, selfIssuedDebt' > selfIssuedDebt,
             issuanceData'[a] # issuanceData[a]
      PROVE  DebtBalanceOf(a)'
                 <= MaxIssuablePynths(a) + 1 + ActiveDebt' \div PreciseUnit
  <2>1. DebtReadable => DebtsKnown
    BY <1>1, InvariantKnowsDebts
  <2>2. PICK b \in Accounts, amount \in Nat :
            /\ DebtCall /\ DebtReadable
            /\ amount <= RemainingIssuablePynths(b)
            /\ InternalIssue(b, amount)
    BY <1>1, <2>1, IssueSteps
  <2>3. /\ DebtBalanceOf(b)' \in Nat
        /\ ActiveDebt' \div PreciseUnit \in Nat
        /\ DebtBalanceOf(b)'
               <= DebtBalanceOf(b) + amount + 1 + ActiveDebt' \div PreciseUnit
        /\ selfIssuedDebt' = selfIssuedDebt + amount
        /\ \A c \in Accounts \ {b} : issuanceData'[c] = issuanceData[c]
    BY <1>1, <2>1, <2>2, IssueAddsAmount DEF StepIsExact
  <2>4. a = b
    BY <1>1, <2>3
  <2>5. amount > 0
    BY <1>1, <2>3 DEF PoolInv, RegisterTyped
  <2>6. /\ DebtBalanceOf(b) \in Nat /\ MaxIssuablePynths(b) \in Nat
        /\ RemainingIssuablePynths(b) \in Nat
        /\ DebtBalanceOf(b) + RemainingIssuablePynths(b) = MaxIssuablePynths(b)
    BY <2>1, <2>2, <2>5, DebtBalanceType, IssuableTypes
  <2> QED
    BY <2>2, <2>3, <2>4, <2>6
<1>2. PoolInv /\ [PoolNext]_poolVars =>
          [ \A a \in Accounts :
                /\ StepIsExact
                /\ selfIssuedDebt' > selfIssuedDebt
                /\ issuanceData'[a] # issuanceData[a]
                => DebtBalanceOf(a)'
                       <= MaxIssuablePynths(a) + 1 + ActiveDebt' \div PreciseUnit
          ]_poolVars
  BY <1>1, NextPoolInv
<1> QED
  BY <1>2, PoolInvAlways, PTL DEF PoolSpec, CollateralRespected
=============================================================================
