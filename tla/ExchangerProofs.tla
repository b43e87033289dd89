-------------------------- MODULE ExchangerProofs --------------------------
(***************************************************************************)
(* Proofs about Exchanger and the prices below it, for any number of       *)
(* accounts, keys and rounds, any prices, amounts and fees, and any        *)
(* waiting period.                                                         *)
(***************************************************************************)
EXTENDS Exchanger, ListProofs

-----------------------------------------------------------------------------
(* Arithmetic.                                                             *)

\* A division by a positive number of a natural number is a natural number.
LEMMA DivisionType ==
    ASSUME NEW x \in Nat, NEW y \in Nat \ {0}
    PROVE  x \div y \in Nat
OBVIOUS

\* The product of two natural numbers is one.
LEMMA ProductType ==
    ASSUME NEW x \in Nat, NEW y \in Nat
    PROVE  x * y \in Nat
OBVIOUS

\* A tenth of Unit is a positive number.
LEMMA TenthType == Unit \div 10 \in Nat \ {0}
BY UnitAssumption

\* The results of the fixed-point operations are natural numbers.
LEMMA DecimalTypes ==
    ASSUME NEW x \in Nat, NEW y \in Nat
    PROVE  /\ MultiplyDecimal(x, y) \in Nat
           /\ MultiplyDecimalRound(x, y) \in Nat
           /\ y # 0 => DivideDecimalRound(x, y) \in Nat
<1>1. x * y \in Nat
  BY ProductType
<1>2. MultiplyDecimal(x, y) \in Nat
  BY <1>1, DivisionType, UnitAssumption DEF MultiplyDecimal
<1>3. MultiplyDecimalRound(x, y) \in Nat
  <2> DEFINE q == (x * y) \div (Unit \div 10)
  <2>1. q \in Nat
    BY <1>1, TenthType, DivisionType
  <2> HIDE DEF q
  <2>2. (q + 5) \div 10 \in Nat
    BY <2>1
  <2> QED
    BY <2>2 DEF MultiplyDecimalRound, MultiplyRound, q
<1>4. ASSUME y # 0 PROVE DivideDecimalRound(x, y) \in Nat
  <2> DEFINE q == (x * (Unit * 10)) \div y
  <2>1. Unit * 10 \in Nat
    BY UnitAssumption
  <2>2. x * (Unit * 10) \in Nat
    BY <2>1, ProductType
  <2>3. q \in Nat
    BY <2>2, <1>4, DivisionType
  <2> HIDE DEF q
  <2>4. (q + 5) \div 10 \in Nat
    BY <2>3
  <2> QED
    BY <2>4 DEF DivideDecimalRound, DivideRound, q
<1> QED
  BY <1>2, <1>3, <1>4

\* What a fee leaves of an amount is a natural number and no more than it.
LEMMA ReceivedWithin ==
    ASSUME NEW x \in Nat, NEW fee \in 0..Unit
    PROVE  AmountReceivedForExchange(x, fee) \in 0..x
<1> DEFINE y == Unit - fee
<1>1. y \in Nat /\ y <= Unit /\ Unit \in Nat \ {0}
  BY UnitAssumption
<1>2. x * y \in Nat /\ x * Unit \in Nat
  BY <1>1, ProductType
<1>3. x * y <= x * Unit
  BY <1>1
<1>4. (x * Unit) \div Unit = x
  BY <1>1
<1>5. \A m, n \in Nat : m <= n => m \div Unit <= n \div Unit
  BY <1>1
<1>6. (x * y) \div Unit <= x
  BY <1>2, <1>3, <1>4, <1>5
<1>7. (x * y) \div Unit \in Nat
  BY <1>1, <1>2, DivisionType
<1> QED
  BY <1>6, <1>7 DEF AmountReceivedForExchange, MultiplyDecimal

-----------------------------------------------------------------------------
(* Types of what is computed.                                              *)

RatesTyped ==
    /\ \A k \in Keys : currentRoundForRate(k) \in Nat
    /\ \A k \in Keys : \A r : RateAtRound(k, r) \in Nat
    /\ \A k \in Keys : Rate(k) \in Nat

\* Every price, of a round that exists or not, is a natural number.
LEMMA RateTypes == PricesTypeOK => RatesTyped
<1> SUFFICES ASSUME PricesTypeOK, NEW k \in Keys
             PROVE  /\ currentRoundForRate(k) \in Nat
                    /\ \A r : RateAtRound(k, r) \in Nat
  BY DEF RatesTyped, Rate
<1>1. rates[k] \in Seq(PriceRound)
  BY DEF PricesTypeOK
<1>2. currentRoundForRate(k) \in Nat
  BY <1>1, LenProperties DEF currentRoundForRate
<1>3. ASSUME NEW r PROVE RateAtRound(k, r) \in Nat
  <2>1. Round(k, r).rate \in Nat
    <3>1. CASE r \in DOMAIN rates[k]
      <4>1. r \in 1..Len(rates[k])
        BY <1>1, <3>1, LenProperties
      <4>2. rates[k][r] \in PriceRound
        BY <1>1, <4>1, ElementOfSeq
      <4> QED
        BY <3>1, <4>2 DEF Round, PriceRound
    <3>2. CASE ~(r \in DOMAIN rates[k])
      BY <3>2 DEF Round
    <3> QED
      BY <3>1, <3>2
  <2>2. inversePricing[k] \in InverseConfig
    BY DEF PricesTypeOK
  <2> DEFINE inverse == inversePricing[k]
             rate == Round(k, r).rate
  <2>3. /\ inverse.entryPoint \in Nat /\ inverse.upperLimit \in Nat
        /\ inverse.lowerLimit \in Nat
    BY <2>2 DEF InverseConfig
  <2>4. rate \in Nat
    BY <2>1
  <2> HIDE DEF rate
  <2>5. Clamp(2 * inverse.entryPoint - rate, inverse.lowerLimit,
              inverse.upperLimit) \in Nat
    BY <2>3, <2>4 DEF Clamp
  <2>6. RateOrInverted(k, rate, r) \in Nat
    BY <2>3, <2>4, <2>5 DEF RateOrInverted
  <2> QED
    BY <2>6 DEF RateAtRound, rate
<1> QED
  BY <1>2, <1>3

\* What was never reported has no price.
LEMMA RateUnknown ==
    ASSUME NEW k \in Keys, NEW r
    PROVE  RateOrInverted(k, 0, r) = 0
BY DEF RateOrInverted

BalancesTyped == balanceOf \in [Keys -> [Holders -> Nat]]

\* The holders are finitely many.
LEMMA HoldersFinite == IsFiniteSet(Holders)
BY HoldersAssumption, FS_AddElement DEF Holders

DebtsTyped ==
    /\ \A k \in Keys : TotalSupply(k) \in Nat
    /\ IssuedDebts \in [Keys -> Nat]
    /\ SumFunction(IssuedDebts) \in Nat
    /\ TotalShort \in Nat

\* The supply of a pynth, its debt, and the totals are natural numbers.
LEMMA DebtTypes == PricesTypeOK /\ BalancesTyped => DebtsTyped
<1> SUFFICES ASSUME PricesTypeOK, BalancesTyped
             PROVE  DebtsTyped
  OBVIOUS
<1>1. RatesTyped
  BY RateTypes
<1>2. ASSUME NEW k \in Keys PROVE TotalSupply(k) \in Nat
  <2>1. balanceOf[k] \in [Holders -> Nat]
    BY DEF BalancesTyped
  <2> QED
    BY <2>1, HoldersFinite, SumNat DEF TotalSupply, SumFunction
<1>3. ASSUME NEW k \in Keys PROVE IssuedPynthValue(k) \in Nat
  <2> DEFINE free == IF Longs[k] > TotalSupply(k) THEN 0
                     ELSE TotalSupply(k) - Longs[k]
  <2>1. Longs[k] \in Nat /\ TotalSupply(k) \in Nat /\ Rate(k) \in Nat
    BY <1>1, <1>2, AmountsAssumption DEF RatesTyped
  <2>2. free \in Nat
    BY <2>1
  <2> HIDE DEF free
  <2>3. MultiplyDecimalRound(free, Rate(k)) \in Nat
    BY <2>1, <2>2, DecimalTypes
  <2> QED
    BY <2>3 DEF IssuedPynthValue, free
<1>4. IssuedDebts \in [Keys -> Nat]
  BY <1>3 DEF IssuedDebts
<1>5. SumFunction(IssuedDebts) \in Nat
  BY <1>4, KeysAssumption, SumNat DEF SumFunction
<1>6. TotalShort \in Nat
  <2> DEFINE f == [k \in Keys |-> MultiplyDecimal(Shorts[k], Rate(k))]
  <2>1. \A k \in Keys : Shorts[k] \in Nat /\ Rate(k) \in Nat
    BY <1>1, AmountsAssumption DEF RatesTyped
  <2>2. \A k \in Keys : f[k] \in Nat
    BY <2>1, DecimalTypes
  <2>3. DOMAIN f = Keys
    OBVIOUS
  <2> HIDE DEF f
  <2>4. SumFunction(f) \in Nat
    BY <2>2, <2>3, KeysAssumption, SumNat DEF SumFunction
  <2> QED
    BY <2>4 DEF TotalShort, f
<1> QED
  BY <1>2, <1>4, <1>5, <1>6 DEF DebtsTyped

QueuesTyped == exchanges \in [Holders -> [Keys -> Seq(Entry)]]

OwedTyped ==
    /\ \A a \in Holders, k \in Keys :
           \A i \in 1..Len(exchanges[a][k]) :
               LET entry == exchanges[a][k][i]
               IN  /\ entry \in Entry
                   /\ AmountShouldHaveReceived(entry, k) \in Nat
                   /\ Owed(entry, k) \in Int
                   /\ -Owed(entry, k) <= entry.amountReceived
    /\ \A a \in Holders, k \in Keys :
           /\ exchanges[a][k] \in Seq(Entry)
           /\ Len(exchanges[a][k]) \in Nat
           /\ DOMAIN exchanges[a][k] = 1..Len(exchanges[a][k])
           /\ ReclaimAmount(a, k) \in Nat
           /\ RebateAmount(a, k) \in Nat
           /\ NetRefund(a, k) \in Int

\* The exchange of a natural amount at two rounds gives a natural amount.
LEMMA ConvertTypes ==
    ASSUME NEW amount \in Nat, NEW x \in Nat, NEW y \in Nat
    PROVE  Convert(amount, x, y) \in Nat
<1>1. MultiplyDecimalRound(amount, x) \in Nat
  BY DecimalTypes
<1>2. y # 0 => DivideDecimalRound(MultiplyDecimalRound(amount, x), y) \in Nat
  BY <1>1, DecimalTypes
<1> QED
  BY <1>2 DEF Convert

\* What an exchange should have received is a natural number, so that no more
\* is taken back than it received.
LEMMA EntryOwedTypes ==
    ASSUME PricesTypeOK, NEW entry \in Entry, NEW k \in Keys
    PROVE  /\ AmountShouldHaveReceived(entry, k) \in Nat
           /\ Owed(entry, k) \in Int
           /\ -Owed(entry, k) <= entry.amountReceived
<1>1. RatesTyped
  BY RateTypes
<1>2. /\ entry.src \in Keys /\ entry.amount \in Nat
      /\ entry.amountReceived \in Nat /\ entry.exchangeFeeRate \in 0..Unit
  BY DEF Entry
<1> DEFINE srcRound == RoundAtPeriodEnd(entry.src, entry.roundIdForSrc, entry)
           destRound == RoundAtPeriodEnd(k, entry.roundIdForDest, entry)
           value == EffectiveValueAtRound(entry.src, entry.amount, k,
                                          srcRound, destRound)
           should == AmountShouldHaveReceived(entry, k)
<1>3. value \in Nat
  <2> HIDE DEF srcRound, destRound
  <2>1. /\ RateAtRound(entry.src, srcRound) \in Nat
        /\ RateAtRound(k, destRound) \in Nat
    BY <1>1, <1>2 DEF RatesTyped
  <2>2. Convert(entry.amount, RateAtRound(entry.src, srcRound),
                RateAtRound(k, destRound)) \in Nat
    BY <1>2, <2>1, ConvertTypes
  <2> QED
    BY <1>2, <2>2 DEF EffectiveValueAtRound
<1>4. should \in Nat
  <2> HIDE DEF value
  <2>1. AmountReceivedForExchange(value, entry.exchangeFeeRate) \in 0..value
    BY <1>2, <1>3, ReceivedWithin
  <2> QED
    BY <1>3, <2>1 DEF AmountShouldHaveReceived, value
<1>5. Owed(entry, k) \in {0, should - entry.amountReceived}
  BY DEF Owed
<1> HIDE DEF should
<1>6. Owed(entry, k) \in Int /\ -Owed(entry, k) <= entry.amountReceived
  BY <1>2, <1>4, <1>5
<1> QED
  BY <1>4, <1>6 DEF should

\* So it is for every exchange that waits, and what is owed in total has a type.
LEMMA OwedTypes == PricesTypeOK /\ QueuesTyped => OwedTyped
<1> SUFFICES ASSUME PricesTypeOK, QueuesTyped
             PROVE  OwedTyped
  OBVIOUS
<1>1. RatesTyped
  BY RateTypes
<1>2. ASSUME NEW a \in Holders, NEW k \in Keys
      PROVE  /\ exchanges[a][k] \in Seq(Entry)
             /\ Len(exchanges[a][k]) \in Nat
             /\ DOMAIN exchanges[a][k] = 1..Len(exchanges[a][k])
  <2>1. exchanges[a][k] \in Seq(Entry)
    BY DEF QueuesTyped
  <2> QED
    BY <2>1, LenProperties
<1>3. ASSUME NEW a \in Holders, NEW k \in Keys,
             NEW i \in 1..Len(exchanges[a][k])
      PROVE  LET entry == exchanges[a][k][i]
             IN  /\ entry \in Entry
                 /\ AmountShouldHaveReceived(entry, k) \in Nat
                 /\ Owed(entry, k) \in Int
                 /\ -Owed(entry, k) <= entry.amountReceived
  <2>1. exchanges[a][k][i] \in Entry
    BY <1>2, ElementOfSeq
  <2> QED
    BY <2>1, EntryOwedTypes
<1>4. ASSUME NEW a \in Holders, NEW k \in Keys
      PROVE  /\ ReclaimAmount(a, k) \in Nat
             /\ RebateAmount(a, k) \in Nat
             /\ NetRefund(a, k) \in Int
  <2> DEFINE n == Len(exchanges[a][k])
             list == OwedList(a, k)
  <2>1. list \in [1..n -> Int]
    BY <1>2, <1>3 DEF OwedList
  <2>2. n \in Nat
    BY <1>2
  <2> HIDE DEF list, n
  <2>3. /\ [i \in 1..n |-> IF list[i] < 0 THEN -list[i] ELSE 0] \in [1..n -> Nat]
        /\ [i \in 1..n |-> IF list[i] > 0 THEN list[i] ELSE 0] \in [1..n -> Nat]
    BY <2>1
  <2>4. /\ SumOf([i \in 1..n |-> IF list[i] < 0 THEN -list[i] ELSE 0]) \in Nat
        /\ SumOf([i \in 1..n |-> IF list[i] > 0 THEN list[i] ELSE 0]) \in Nat
    BY <2>2, <2>3, SeqDef, SumOfType
  <2>5. ReclaimAmount(a, k) \in Nat /\ RebateAmount(a, k) \in Nat
    BY <1>2, <2>4 DEF ReclaimAmount, RebateAmount, list, n
  <2> QED
    BY <2>5 DEF NetRefund
<1> QED
  BY <1>2, <1>3, <1>4 DEF OwedTyped

-----------------------------------------------------------------------------
(* Types of the prices.                                                    *)

Started == now >= StartTime

InverseSound ==
    \A k \in Keys : inversePricing[k] # NoInverse =>
        /\ inversePricing[k].lowerLimit < inversePricing[k].entryPoint
        /\ inversePricing[k].entryPoint < inversePricing[k].upperLimit

PricesInv == PricesTypeOK /\ Started /\ InverseSound

\* The deployed system has its prices.
LEMMA InitPricesInv == InitPrices => PricesInv
<1> SUFFICES ASSUME InitPrices PROVE PricesInv
  OBVIOUS
<1>1. now \in Nat /\ Started /\ StartTime \in Nat \ {0}
  BY StartTimeAssumption DEF InitPrices, Started
<1>2. ASSUME NEW k \in Keys
      PROVE  rates[k] \in Seq(PriceRound)
  <2> DEFINE first == [rate |-> IF k = pUSD THEN Unit ELSE InitialRates[k],
                       time |-> StartTime, posted |-> StartTime]
  <2>1. first \in PriceRound
    BY <1>1, KeysAssumption, UnitAssumption DEF PriceRound
  <2>2. rates[k] = <<first>>
    BY DEF InitPrices
  <2> QED
    BY <2>1, <2>2
<1>3. rates \in [Keys -> Seq(PriceRound)]
  BY <1>2 DEF InitPrices
<1>4. roundFrozen \in [Keys -> Nat] /\ adminCalls \in Nat
  BY DEF InitPrices
<1>5. inversePricing \in [Keys -> InverseConfig]
  BY InverseAssumption DEF InitPrices
<1>6. InverseSound
  BY InverseAssumption DEF InitPrices, InverseSound, ValidInverse
<1> QED
  BY <1>1, <1>3, <1>4, <1>5, <1>6 DEF PricesInv, PricesTypeOK

\* A batch of prices appends at most one round to each list.
LEMMA UpdateRatesTypes ==
    ASSUME PricesInv, NEW batch \in Batches,
           NEW t \in (now - OracleLag)..(now + FutureLimit),
           UpdateRates(batch, t)
    PROVE  PricesInv'
<1>1. now \in Nat /\ now >= StartTime
  BY DEF PricesInv, PricesTypeOK, Started
<1>2. t \in Nat \ {0}
  BY <1>1, StartTimeAssumption
<1>3. ASSUME NEW k \in Keys
      PROVE  rates'[k] \in Seq(PriceRound)
  <2> DEFINE next == [rate |-> batch[k], time |-> t, posted |-> now]
  <2>1. rates[k] \in Seq(PriceRound)
    BY DEF PricesInv, PricesTypeOK
  <2>2. k \in DOMAIN batch => next \in PriceRound
    BY <1>1, <1>2, KeysAssumption DEF PriceRound
  <2>3. \/ rates'[k] = rates[k]
        \/ k \in DOMAIN batch /\ rates'[k] = Append(rates[k], next)
    BY DEF UpdateRates
  <2> HIDE DEF next
  <2>4. k \in DOMAIN batch => Append(rates[k], next) \in Seq(PriceRound)
    BY <2>1, <2>2, AppendProperties
  <2> QED
    BY <2>1, <2>3, <2>4
<1>4. rates' \in [Keys -> Seq(PriceRound)]
  BY <1>3 DEF UpdateRates
<1>5. UNCHANGED <<now, inversePricing, roundFrozen, adminCalls>>
  BY DEF UpdateRates
<1> QED
  BY <1>4, <1>5 DEF PricesInv, PricesTypeOK, Started, InverseSound

\* A deletion removes the last round.
LEMMA DeleteRateTypes ==
    ASSUME PricesInv, NEW k \in Keys, DeleteRate(k)
    PROVE  PricesInv'
<1>1. rates[k] \in Seq(PriceRound)
  BY DEF PricesInv, PricesTypeOK
<1>2. Len(rates[k]) # 0
  <2>1. SUFFICES ASSUME Len(rates[k]) = 0 PROVE FALSE
    OBVIOUS
  <2>2. DOMAIN rates[k] = {}
    BY <1>1, <2>1, LenProperties
  <2>3. Round(k, currentRoundForRate(k)).rate = 0
    BY <2>2 DEF Round
  <2>4. Rate(k) = RateOrInverted(k, 0, currentRoundForRate(k))
    BY <2>3 DEF Rate, RateAtRound
  <2>5. RateOrInverted(k, 0, currentRoundForRate(k)) = 0
    BY RateUnknown
  <2> QED
    BY <2>4, <2>5 DEF DeleteRate
<1>3. SubSeq(rates[k], 1, Len(rates[k]) - 1) \in Seq(PriceRound)
  <2>1. Len(rates[k]) \in Nat
    BY <1>1, LenProperties
  <2>2. \A i \in 1..(Len(rates[k]) - 1) : rates[k][i] \in PriceRound
    BY <1>1, <2>1, ElementOfSeq
  <2> QED
    BY <1>1, <1>2, <2>1, <2>2, SubSeqProperties
<1>4. rates' \in [Keys -> Seq(PriceRound)]
  BY <1>3 DEF DeleteRate, PricesInv, PricesTypeOK
<1>5. adminCalls' \in Nat /\ UNCHANGED <<now, inversePricing, roundFrozen>>
  BY DEF DeleteRate, AdminCall, PricesInv, PricesTypeOK
<1> QED
  BY <1>4, <1>5 DEF PricesInv, PricesTypeOK, Started, InverseSound

\* New limits are on both sides of the entry point.
LEMMA SetInversePricingTypes ==
    ASSUME PricesInv, NEW k \in Keys, NEW config \in InverseConfigs[k],
           SetInversePricing(k, config)
    PROVE  PricesInv'
<1>1. config \in InverseConfig
  BY InverseAssumption
<1>2. RatesTyped
  BY RateTypes DEF PricesInv
<1>3. /\ inversePricing' \in [Keys -> InverseConfig]
      /\ roundFrozen' \in [Keys -> Nat]
      /\ adminCalls' \in Nat
      /\ UNCHANGED <<now, rates>>
  BY <1>1, <1>2 DEF SetInversePricing, AdminCall, PricesInv, PricesTypeOK,
                    RatesTyped
<1>4. InverseSound'
  BY DEF SetInversePricing, ValidInverse, PricesInv, PricesTypeOK, InverseSound
<1> QED
  BY <1>3, <1>4 DEF PricesInv, PricesTypeOK, Started

\* A removal leaves no limits.
LEMMA RemoveInversePricingTypes ==
    ASSUME PricesInv, NEW k \in Keys, RemoveInversePricing(k)
    PROVE  PricesInv'
<1>1. NoInverse \in InverseConfig
  BY DEF NoInverse, InverseConfig
<1>2. /\ inversePricing' \in [Keys -> InverseConfig]
      /\ adminCalls' \in Nat
      /\ UNCHANGED <<now, rates, roundFrozen>>
  BY <1>1 DEF RemoveInversePricing, AdminCall, PricesInv, PricesTypeOK
<1>3. InverseSound'
  BY DEF RemoveInversePricing, PricesInv, PricesTypeOK, InverseSound
<1> QED
  BY <1>2, <1>3 DEF PricesInv, PricesTypeOK, Started

\* What a freezing leaves of the inverse pricing.
LEMMA FreezeRateEffect ==
    ASSUME PricesInv, NEW k \in Keys, FreezeRate(k)
    PROVE  LET old == inversePricing[k]
               new == inversePricing'[k]
           IN  /\ inversePricing' \in [Keys -> InverseConfig]
               /\ \A key \in Keys \ {k} : inversePricing'[key] = inversePricing[key]
               /\ new.entryPoint = old.entryPoint
               /\ new.upperLimit = old.upperLimit
               /\ new.lowerLimit = old.lowerLimit
               /\ new.frozenAtUpperLimit = (Rate(k) = old.upperLimit)
               /\ new.frozenAtLowerLimit = (Rate(k) = old.lowerLimit)
<1>1. inversePricing \in [Keys -> InverseConfig]
  BY DEF PricesInv, PricesTypeOK
<1> DEFINE old == inversePricing[k]
           new == [old EXCEPT !.frozenAtUpperLimit = (Rate(k) = old.upperLimit),
                              !.frozenAtLowerLimit = (Rate(k) = old.lowerLimit)]
<1>2. old \in InverseConfig
  BY <1>1
<1>3. inversePricing' = [inversePricing EXCEPT ![k] = new]
  BY <1>1 DEF FreezeRate
<1> HIDE DEF old
<1>4. /\ new \in InverseConfig
      /\ new.entryPoint = old.entryPoint
      /\ new.upperLimit = old.upperLimit
      /\ new.lowerLimit = old.lowerLimit
      /\ new.frozenAtUpperLimit = (Rate(k) = old.upperLimit)
      /\ new.frozenAtLowerLimit = (Rate(k) = old.lowerLimit)
  BY <1>2 DEF InverseConfig
<1> HIDE DEF new
<1>5. /\ inversePricing' \in [Keys -> InverseConfig]
      /\ inversePricing'[k] = new
      /\ \A key \in Keys \ {k} : inversePricing'[key] = inversePricing[key]
  BY <1>1, <1>3, <1>4
<1> QED
  BY <1>4, <1>5 DEF old

\* A freezing keeps the limits.
LEMMA FreezeRateTypes ==
    ASSUME PricesInv, NEW k \in Keys, FreezeRate(k)
    PROVE  PricesInv'
<1>1. /\ inversePricing' \in [Keys -> InverseConfig]
      /\ \A key \in Keys \ {k} : inversePricing'[key] = inversePricing[key]
      /\ inversePricing'[k].entryPoint = inversePricing[k].entryPoint
      /\ inversePricing'[k].upperLimit = inversePricing[k].upperLimit
      /\ inversePricing'[k].lowerLimit = inversePricing[k].lowerLimit
  BY FreezeRateEffect
<1>2. RatesTyped
  BY RateTypes DEF PricesInv
<1>3. roundFrozen' \in [Keys -> Nat] /\ UNCHANGED <<now, rates, adminCalls>>
  BY <1>2 DEF FreezeRate, PricesInv, PricesTypeOK, RatesTyped
<1>4. inversePricing[k] # NoInverse
  BY DEF FreezeRate, NoInverse, PricesInv, PricesTypeOK, InverseConfig
<1>5. InverseSound'
  BY <1>1, <1>4 DEF PricesInv, InverseSound
<1> QED
  BY <1>1, <1>3, <1>5 DEF PricesInv, PricesTypeOK, Started

\* Time passes.
LEMMA TickTypes ==
    ASSUME PricesInv, Tick
    PROVE  PricesInv'
BY StartTimeAssumption DEF Tick, PricesInv, PricesTypeOK, Started, InverseSound

\* What does not touch the prices keeps them well formed.
LEMMA PricesInvUnchanged ==
    ASSUME PricesInv, UNCHANGED priceVars
    PROVE  PricesInv'
BY DEF priceVars, PricesInv, PricesTypeOK, Started, InverseSound

-----------------------------------------------------------------------------
(* The debt cache.                                                         *)

CacheTyped == cachedPynthDebt \in [Keys -> Nat] /\ cachedDebt \in Nat

\* A partial update changes the total by as much as the sum of the parts.
LEMMA UpdateCacheEffect ==
    ASSUME CacheTyped, DebtsTyped', NEW keys \in SUBSET Keys, UpdateCache(keys)
    PROVE  /\ CacheTyped'
           /\ cachedDebt' - SumFunction(cachedPynthDebt')
                  = cachedDebt - SumFunction(cachedPynthDebt)
<1> DEFINE f == cachedPynthDebt
           g == cachedPynthDebt'
           rest == Keys \ keys
<1>1. f \in [Keys -> Nat] /\ cachedDebt \in Nat
  BY DEF CacheTyped
<1>2. \A k \in Keys : IssuedPynthValue(k)' \in Nat
  BY DEF DebtsTyped, IssuedDebts
<1>3. /\ g = [k \in Keys |-> IF k \in keys THEN IssuedPynthValue(k)'
                             ELSE cachedPynthDebt[k]]
      /\ \/ SumFunctionOnSet(f, keys) = SumFunctionOnSet(g, keys)
         \/ SumFunctionOnSet(f, keys) <= cachedDebt
      /\ cachedDebt' = cachedDebt - SumFunctionOnSet(f, keys)
                         + SumFunctionOnSet(g, keys)
  BY DEF UpdateCache
<1>4. g \in [Keys -> Nat] /\ \A k \in rest : g[k] = f[k]
  BY <1>1, <1>2, <1>3
<1>5. /\ IsFiniteSet(keys) /\ IsFiniteSet(rest)
      /\ keys \cap rest = {} /\ keys \cup rest = Keys
  BY KeysAssumption, FS_Subset
<1>6. /\ \A k \in Keys : f[k] \in Int /\ g[k] \in Int
      /\ \A k \in Keys : f[k] \in Nat /\ g[k] \in Nat
      /\ \A k \in rest : f[k] \in Int /\ g[k] = f[k]
      /\ DOMAIN f = Keys /\ DOMAIN g = Keys
  BY <1>1, <1>4
<1> HIDE DEF f, g, rest
<1>7. SumFunctionOnSet(g, rest) = SumFunctionOnSet(f, rest)
  BY <1>5, <1>6, SumSame
<1>8. SumFunctionOnSet(f, Keys)
          = SumFunctionOnSet(f, keys) + SumFunctionOnSet(f, rest)
  <2>1. \A k \in keys \cup rest : f[k] \in Int
    BY <1>5, <1>6
  <2> QED
    BY <1>5, <2>1, SumUnion
<1>9. SumFunctionOnSet(g, Keys)
          = SumFunctionOnSet(g, keys) + SumFunctionOnSet(g, rest)
  <2>1. \A k \in keys \cup rest : g[k] \in Int
    BY <1>5, <1>6
  <2> QED
    BY <1>5, <2>1, SumUnion
<1>10. /\ SumFunctionOnSet(f, keys) \in Nat /\ SumFunctionOnSet(g, keys) \in Nat
       /\ SumFunctionOnSet(f, rest) \in Nat
  <2>1. \A k \in keys : f[k] \in Nat /\ g[k] \in Nat
    BY <1>6
  <2>2. \A k \in rest : f[k] \in Nat
    BY <1>5, <1>6
  <2> QED
    BY <1>5, <2>1, <2>2, SumNat
<1>11. cachedDebt' \in Nat
  BY <1>1, <1>3, <1>10 DEF f, g
<1>12. cachedDebt' - SumFunctionOnSet(g, Keys)
           = cachedDebt - SumFunctionOnSet(f, Keys)
  BY <1>1, <1>3, <1>7, <1>8, <1>9, <1>10
<1> QED
  BY <1>4, <1>6, <1>11, <1>12 DEF CacheTyped, SumFunction, f, g

\* A snapshot sets the parts and the total.
LEMMA SnapshotEffect ==
    ASSUME PricesTypeOK, BalancesTyped, TakeDebtSnapshot
    PROVE  /\ CacheTyped'
           /\ cachedDebt' = SumFunction(cachedPynthDebt') - TotalShort
<1>1. DebtsTyped
  BY DebtTypes
<1>2. /\ cachedPynthDebt' = IssuedDebts
      /\ cachedDebt' = SumFunction(IssuedDebts) - TotalShort
      /\ TotalShort <= SumFunction(IssuedDebts)
  BY DEF TakeDebtSnapshot
<1>3. cachedDebt' \in Nat
  BY <1>1, <1>2 DEF DebtsTyped
<1> QED
  BY <1>1, <1>2, <1>3 DEF DebtsTyped, CacheTyped

\* Without shorts nothing is subtracted from a snapshot.
LEMMA NoShorts ==
    ASSUME \A k \in Keys : Shorts[k] = 0
    PROVE  PricesTypeOK => TotalShort = 0
<1> SUFFICES ASSUME PricesTypeOK PROVE TotalShort = 0
  OBVIOUS
<1> DEFINE f == [k \in Keys |-> MultiplyDecimal(Shorts[k], Rate(k))]
<1>1. \A k \in Keys : f[k] = 0
  <2>1. SUFFICES ASSUME NEW k \in Keys PROVE MultiplyDecimal(0, Rate(k)) = 0
    OBVIOUS
  <2>2. Rate(k) \in Nat
    BY RateTypes DEF RatesTyped
  <2>3. 0 * Rate(k) = 0 /\ 0 \div Unit = 0
    BY <2>2, UnitAssumption
  <2> QED
    BY <2>3 DEF MultiplyDecimal
<1>2. DOMAIN f = Keys
  OBVIOUS
<1> HIDE DEF f
<1>3. SumFunction(f) = 0
  BY <1>1, <1>2, KeysAssumption, SumZero DEF SumFunction
<1> QED
  BY <1>3 DEF TotalShort, f

-----------------------------------------------------------------------------
(* What an account holds of a pynth, and the entries that wait for it.     *)

\* A step leaves what is in a queue covered: it takes nothing, or settles the
\* queue, or leaves what is reclaimed after the waiting period, or appends an
\* exchange with what it has received.
HoldingKept(a, k) ==
    \/ /\ exchanges'[a][k] = exchanges[a][k]
       /\ balanceOf'[k][a] >= balanceOf[k][a]
    \/ exchanges'[a][k] = <<>>
    \/ /\ exchanges'[a][k] = exchanges[a][k]
       /\ ~InWaitingPeriod(a, k)
       /\ balanceOf'[k][a] >= ReclaimAmount(a, k)
    \/ /\ WaitingPeriodSecs > 0
       /\ \E entry \in Entry :
              /\ exchanges'[a][k] = Append(exchanges[a][k], entry)
              /\ entry.timestamp = now
              /\ entry.roundIdForSrc = currentRoundForRate(entry.src)
              /\ entry.roundIdForDest = currentRoundForRate(k)
              /\ balanceOf'[k][a] >= balanceOf[k][a] + entry.amountReceived

HoldingsTyped == BalancesTyped /\ QueuesTyped

HoldingsKept ==
    /\ HoldingsTyped'
    /\ \A a \in Holders, k \in Keys : HoldingKept(a, k)

\* The balances and queues that a settlement leaves.
LEMMA SettledEffect ==
    ASSUME PricesTypeOK, HoldingsTyped, NEW a \in Holders, NEW k \in Keys,
           CanSettle(a, k)
    PROVE  /\ SettledBalances(a, k) \in [Keys -> [Holders -> Nat]]
           /\ SettledQueues(a, k) \in [Holders -> [Keys -> Seq(Entry)]]
           /\ SettledQueues(a, k)[a][k] = <<>>
           /\ SettledBalances(a, k)[k][a] = BalanceAfterSettlement(a, k)
           /\ BalanceAfterSettlement(a, k) \in Nat
           /\ \A b \in Holders, key \in Keys : b # a \/ key # k =>
                  /\ SettledQueues(a, k)[b][key] = exchanges[b][key]
                  /\ SettledBalances(a, k)[key][b] = balanceOf[key][b]
<1>1. OwedTyped
  BY OwedTypes DEF HoldingsTyped
<1>2. /\ balanceOf \in [Keys -> [Holders -> Nat]]
      /\ exchanges \in [Holders -> [Keys -> Seq(Entry)]]
  BY DEF HoldingsTyped, BalancesTyped, QueuesTyped
<1>3. BalanceAfterSettlement(a, k) \in Nat
  <2>1. balanceOf[k][a] \in Nat /\ NetRefund(a, k) \in Int
    BY <1>1, <1>2 DEF OwedTyped
  <2> QED
    BY <2>1 DEF BalanceAfterSettlement, CanSettle
<1>4. <<>> \in Seq(Entry)
  OBVIOUS
<1> QED
  BY <1>2, <1>3, <1>4 DEF SettledBalances, SettledQueues

\* A settlement keeps the holdings covered.
LEMMA SettledKept ==
    ASSUME PricesTypeOK, HoldingsTyped, NEW a \in Holders, NEW k \in Keys,
           CanSettle(a, k),
           balanceOf' = SettledBalances(a, k), exchanges' = SettledQueues(a, k)
    PROVE  HoldingsKept
<1>1. HoldingsTyped'
  BY SettledEffect DEF HoldingsTyped, BalancesTyped, QueuesTyped
<1>2. ASSUME NEW b \in Holders, NEW key \in Keys PROVE HoldingKept(b, key)
  <2>1. CASE b = a /\ key = k
    BY <2>1, SettledEffect DEF HoldingKept
  <2>2. CASE b # a \/ key # k
    <3>1. exchanges'[b][key] = exchanges[b][key] /\ balanceOf'[key][b] = balanceOf[key][b]
      BY <2>2, SettledEffect
    <3>2. balanceOf[key][b] \in Nat
      BY DEF HoldingsTyped, BalancesTyped
    <3> QED
      BY <3>1, <3>2 DEF HoldingKept
  <2> QED
    BY <2>1, <2>2
<1> QED
  BY <1>1, <1>2 DEF HoldingsKept

\* The balances after a move within what the sender has.
LEMMA MovedEffect ==
    ASSUME NEW balances \in [Keys -> [Holders -> Nat]], NEW k \in Keys,
           NEW from \in Holders, NEW to \in Holders, NEW value \in Nat,
           balances[k][from] >= value
    PROVE  LET moved == Moved(balances, k, from, to, value)
           IN  /\ moved \in [Keys -> [Holders -> Nat]]
               /\ moved[k][from] >= balances[k][from] - value
               /\ \A a \in Holders, key \in Keys : a # from \/ key # k =>
                      moved[key][a] >= balances[key][a]
<1> DEFINE moved == Moved(balances, k, from, to, value)
           row == [a \in Holders |->
                      balances[k][a] - (IF a = from THEN value ELSE 0)
                                     + (IF a = to THEN value ELSE 0)]
<1>1. balances[k] \in [Holders -> Nat]
  OBVIOUS
<1>2. /\ row \in [Holders -> Nat]
      /\ row[from] >= balances[k][from] - value
      /\ \A a \in Holders : a # from => row[a] >= balances[k][a]
  BY <1>1
<1>3. moved = [balances EXCEPT ![k] = row]
  BY DEF Moved
<1> HIDE DEF moved, row
<1>4. /\ moved \in [Keys -> [Holders -> Nat]]
      /\ moved[k] = row
      /\ \A key \in Keys : key # k => moved[key] = balances[key]
  BY <1>2, <1>3
<1>5. \A a \in Holders, key \in Keys : a # from \/ key # k =>
          moved[key][a] >= balances[key][a]
  <2> SUFFICES ASSUME NEW a \in Holders, NEW key \in Keys, a # from \/ key # k
               PROVE  moved[key][a] >= balances[key][a]
    OBVIOUS
  <2>1. balances[key][a] \in Nat
    OBVIOUS
  <2> QED
    BY <1>2, <1>4, <2>1
<1> QED
  BY <1>2, <1>4, <1>5 DEF moved

\* What is transferred is beyond what will be reclaimed.
LEMMA MovedKept ==
    ASSUME PricesTypeOK, HoldingsTyped, NEW from \in Holders, NEW to \in Holders,
           NEW k \in Keys, NEW value \in Nat, EnsureCanTransfer(from, k, value),
           balanceOf' = Moved(balanceOf, k, from, to, value), UNCHANGED exchanges
    PROVE  HoldingsKept
<1>1. OwedTyped
  BY OwedTypes DEF HoldingsTyped
<1>2. /\ ReclaimAmount(from, k) \in Nat /\ balanceOf[k][from] \in Nat
      /\ balanceOf \in [Keys -> [Holders -> Nat]]
  BY <1>1 DEF OwedTyped, HoldingsTyped, BalancesTyped
<1>3. /\ balanceOf[k][from] - ReclaimAmount(from, k) >= value
      /\ ~InWaitingPeriod(from, k)
  BY DEF EnsureCanTransfer
<1>4. balanceOf[k][from] >= value
  BY <1>2, <1>3
<1>5. /\ balanceOf' \in [Keys -> [Holders -> Nat]]
      /\ balanceOf'[k][from] >= balanceOf[k][from] - value
      /\ \A a \in Holders, key \in Keys : a # from \/ key # k =>
             balanceOf'[key][a] >= balanceOf[key][a]
  BY <1>2, <1>4, MovedEffect
<1>6. HoldingsTyped'
  BY <1>5 DEF HoldingsTyped, BalancesTyped, QueuesTyped
<1>7. balanceOf'[k][from] >= ReclaimAmount(from, k)
  <2>1. balanceOf'[k][from] \in Nat
    BY <1>5
  <2> QED
    BY <1>2, <1>3, <1>5, <2>1
<1>8. \A a \in Holders, key \in Keys : HoldingKept(a, key)
  BY <1>3, <1>5, <1>7 DEF HoldingKept
<1> QED
  BY <1>6, <1>8 DEF HoldingsKept

\* The amount that is exchanged after a settlement is a natural number.
LEMMA AmountTypes ==
    ASSUME PricesTypeOK, HoldingsTyped, NEW a \in Holders, NEW k \in Keys,
           CanSettle(a, k), NEW amount \in Nat
    PROVE  AmountAfterSettlement(a, k, amount) \in Nat
<1>1. BalanceAfterSettlement(a, k) \in Nat
  BY SettledEffect
<1>2. NetRefund(a, k) \in Int
  BY OwedTypes DEF HoldingsTyped, OwedTyped
<1> QED
  BY <1>1, <1>2 DEF AmountAfterSettlement

\* A fee, doubled or not, is within the whole.
LEMMA FeeRateType ==
    ASSUME NEW src \in Keys, NEW dest \in Keys
    PROVE  FeeRateForExchange(src, dest) \in 0..Unit
<1>1. /\ ExchangeFeeRate[dest] \in Nat /\ 2 * ExchangeFeeRate[dest] <= Unit
      /\ Unit \in Nat
  BY HoldersAssumption, UnitAssumption
<1>2. /\ ExchangeFeeRate[dest] \in 0..Unit
      /\ 2 * ExchangeFeeRate[dest] \in 0..Unit
  BY <1>1
<1> QED
  BY <1>2 DEF FeeRateForExchange

\* The exchanged value at current prices is a natural number.
LEMMA ValueTypes ==
    ASSUME PricesTypeOK, NEW src \in Keys, NEW dest \in Keys, NEW amount \in Nat
    PROVE  EffectiveValue(src, amount, dest) \in Nat
<1>1. Rate(src) \in Nat /\ Rate(dest) \in Nat
  BY RateTypes DEF RatesTyped
<1>2. Convert(amount, Rate(src), Rate(dest)) \in Nat
  BY <1>1, ConvertTypes
<1> QED
  BY <1>2 DEF EffectiveValue

\* What an exchange computes.
LEMMA ConvertedTypes ==
    ASSUME PricesTypeOK, NEW src \in Keys, NEW dest \in Keys, NEW amount \in Nat
    PROVE  LET value    == EffectiveValue(src, amount, dest)
               received == AmountReceivedForExchange(value,
                               FeeRateForExchange(src, dest))
           IN  received \in Nat /\ FeeInUSD(dest, value - received) \in Nat
<1> DEFINE value    == EffectiveValue(src, amount, dest)
           received == AmountReceivedForExchange(value,
                           FeeRateForExchange(src, dest))
<1>1. value \in Nat
  BY ValueTypes
<1> HIDE DEF value
<1>2. received \in 0..value
  BY <1>1, FeeRateType, ReceivedWithin
<1> HIDE DEF received
<1>3. received \in Nat /\ value - received \in Nat
  BY <1>1, <1>2
<1>4. FeeInUSD(dest, value - received) \in Nat
  BY <1>3, ValueTypes, KeysAssumption DEF FeeInUSD
<1> QED
  BY <1>3, <1>4 DEF value, received

\* The source is burned after its settlement; the destination waits in a queue
\* with all that it received, unless there is no waiting period.
LEMMA ConvertAndAppendKept ==
    ASSUME PricesTypeOK, HoldingsTyped, NEW from \in Holders, NEW src \in Keys,
           NEW asked \in Nat, NEW dest \in Keys, NEW to \in Holders,
           NEW reported, src # dest, CanSettle(from, src),
           ConvertAndAppend(from, src, asked, dest, to, reported)
    PROVE  HoldingsKept
<1> DEFINE amount   == AmountAfterSettlement(from, src, asked)
           value    == EffectiveValue(src, amount, dest)
           feeRate  == FeeRateForExchange(src, dest)
           received == AmountReceivedForExchange(value, feeRate)
           feeUSD   == FeeInUSD(dest, value - received)
           settled  == SettledBalances(from, src)
           queues   == SettledQueues(from, src)
           entry    == NewEntry(src, amount, dest, received, feeRate)
           Delta(k, a) == (IF k = src /\ a = from THEN -amount ELSE 0)
                         + (IF k = dest /\ a = to THEN received ELSE 0)
                         + (IF k = pUSD /\ a = FeeAddress THEN feeUSD ELSE 0)
<1>1. /\ amount # 0
      /\ settled[src][from] >= amount
      /\ balanceOf' = [k \in Keys |-> [a \in Holders |->
                           settled[k][a] + Delta(k, a)]]
      /\ IF WaitingPeriodSecs > 0
         THEN exchanges' = [queues EXCEPT ![to][dest] = Append(@, entry)]
         ELSE exchanges' = queues
  BY DEF ConvertAndAppend, ConvertedBalances
<1>2. amount \in Nat
  BY AmountTypes
<1>3. received \in Nat /\ feeUSD \in Nat /\ feeRate \in 0..Unit
  BY <1>2, ConvertedTypes, FeeRateType
<1>4. entry \in Entry
  <2>1. now \in Nat /\ \A k \in Keys : currentRoundForRate(k) \in Nat
    BY RateTypes DEF PricesTypeOK, RatesTyped
  <2> QED
    BY <1>1, <1>2, <1>3, <2>1 DEF NewEntry, Entry
<1>5. /\ entry.timestamp = now
      /\ entry.roundIdForSrc = currentRoundForRate(entry.src)
      /\ entry.roundIdForDest = currentRoundForRate(dest)
      /\ entry.amountReceived = received
  BY DEF NewEntry
<1> HIDE DEF amount, received, feeUSD, entry, value, feeRate
<1>6. /\ settled \in [Keys -> [Holders -> Nat]]
      /\ queues \in [Holders -> [Keys -> Seq(Entry)]]
      /\ queues[from][src] = <<>>
      /\ \A a \in Holders, k \in Keys : a # from \/ k # src =>
             /\ queues[a][k] = exchanges[a][k]
             /\ settled[k][a] = balanceOf[k][a]
  BY SettledEffect
<1> HIDE DEF settled, queues
<1>7. balanceOf' \in [Keys -> [Holders -> Nat]]
  <2>1. ASSUME NEW k \in Keys, NEW a \in Holders
        PROVE  settled[k][a] + Delta(k, a) \in Nat
    <3>1. settled[k][a] \in Nat
      BY <1>6
    <3>2. k = src /\ a = from => settled[k][a] >= amount
      BY <1>1
    <3>3. ~(k = src /\ k = dest)
      OBVIOUS
    <3> QED
      BY <1>2, <1>3, <3>1, <3>2, <3>3
  <2> QED
    BY <1>1, <2>1
<1>8. Append(queues[to][dest], entry) \in Seq(Entry)
  BY <1>4, <1>6, AppendProperties
<1>9. /\ exchanges' \in [Holders -> [Keys -> Seq(Entry)]]
      /\ \A a \in Holders, k \in Keys :
             exchanges'[a][k] = IF WaitingPeriodSecs > 0 /\ a = to /\ k = dest
                                THEN Append(queues[a][k], entry)
                                ELSE queues[a][k]
  <2> DEFINE longer == Append(queues[to][dest], entry)
  <2>1. CASE WaitingPeriodSecs > 0
    <3>1. exchanges' = [queues EXCEPT ![to][dest] = longer]
      BY <1>1, <2>1
    <3>2. longer \in Seq(Entry)
      BY <1>8
    <3>3. longer = Append(queues[to][dest], entry)
      OBVIOUS
    <3> HIDE DEF longer
    <3> QED
      BY <1>6, <2>1, <3>1, <3>2, <3>3
  <2>2. CASE ~(WaitingPeriodSecs > 0)
    BY <1>1, <1>6, <2>2
  <2> QED
    BY <2>1, <2>2
<1>10. ASSUME NEW a \in Holders, NEW k \in Keys, a # from \/ k # src
       PROVE  /\ balanceOf'[k][a] >= balanceOf[k][a]
              /\ k = dest /\ a = to =>
                     balanceOf'[k][a] >= balanceOf[k][a] + received
  <2>1. balanceOf[k][a] \in Nat /\ settled[k][a] = balanceOf[k][a]
    BY <1>6, <1>10 DEF HoldingsTyped, BalancesTyped
  <2>2. balanceOf'[k][a] = settled[k][a] + Delta(k, a)
    BY <1>1
  <2> QED
    BY <1>3, <1>10, <2>1, <2>2
<1>11. ASSUME NEW a \in Holders, NEW k \in Keys
       PROVE  HoldingKept(a, k)
  <2>1. CASE a = from /\ k = src
    <3>1. exchanges'[a][k] = <<>>
      BY <1>6, <1>9, <2>1
    <3> QED
      BY <3>1 DEF HoldingKept
  <2>2. CASE (a # from \/ k # src) /\ WaitingPeriodSecs > 0 /\ a = to /\ k = dest
    <3>1. exchanges'[a][k] = Append(exchanges[a][k], entry)
      BY <1>6, <1>9, <2>2
    <3>2. balanceOf'[k][a] >= balanceOf[k][a] + entry.amountReceived
      BY <1>5, <1>10, <2>2
    <3> QED
      BY <1>4, <1>5, <2>2, <3>1, <3>2 DEF HoldingKept
  <2>3. CASE (a # from \/ k # src) /\ ~(WaitingPeriodSecs > 0 /\ a = to /\ k = dest)
    <3>1. exchanges'[a][k] = exchanges[a][k]
      <4>1. exchanges'[a][k] = queues[a][k]
        BY <1>9, <2>3
      <4>2. queues[a][k] = exchanges[a][k]
        BY <1>6, <2>3
      <4> QED
        BY <4>1, <4>2
    <3> QED
      BY <1>10, <2>3, <3>1 DEF HoldingKept
  <2> QED
    BY <2>1, <2>2, <2>3
<1> QED
  BY <1>7, <1>9, <1>11 DEF HoldingsKept, HoldingsTyped, BalancesTyped, QueuesTyped

OthersTyped ==
    /\ lastExchangeRate \in [Keys -> Nat]
    /\ pynthSuspension \subseteq Keys
    /\ cacheInvalid \in BOOLEAN
    /\ cacheTimestamp \in Nat
    /\ feesToDistribute \in Nat

\* What a step does to the debt cache.
CacheStep ==
    \/ UNCHANGED <<cachedPynthDebt, cachedDebt>>
    \/ \E keys \in SUBSET Keys : UpdateCache(keys)
    \/ TakeDebtSnapshot

\* TypeOK is made of the parts that the lemmas are about.
LEMMA TypeOKParts ==
    TypeOK <=> PricesTypeOK /\ HoldingsTyped /\ CacheTyped /\ OthersTyped
BY DEF TypeOK, HoldingsTyped, BalancesTyped, QueuesTyped, CacheTyped, OthersTyped

\* The three ends of _exchange.
LEMMA InternalExchangeKept ==
    ASSUME TypeOK, NEW from \in Holders, NEW src \in Keys, NEW amount \in Nat,
           NEW dest \in Keys, NEW to \in Holders, NEW reported,
           InternalExchange(from, src, amount, dest, to, reported)
    PROVE  /\ UNCHANGED priceVars
           /\ HoldingsKept
           /\ OthersTyped'
           /\ CacheStep
<1>1. PricesTypeOK /\ HoldingsTyped /\ CacheTyped /\ OthersTyped
  BY TypeOKParts
<1>2. src # dest /\ CanSettle(from, src) /\ UNCHANGED priceVars
  BY DEF InternalExchange
<1>3. \A k \in Keys : Rate(k) \in Nat
  BY <1>1, RateTypes DEF RatesTyped
<1>4. CASE NothingToExchange(from, src, amount)
  <2>1. HoldingsKept
    BY <1>1, <1>2, <1>4, SettledKept DEF NothingToExchange
  <2> QED
    BY <1>1, <1>2, <1>4, <2>1
       DEF NothingToExchange, OthersTyped, CacheStep, cacheVars
<1>5. CASE BreakCircuit(from, src, amount, dest)
  <2>1. HoldingsKept
    BY <1>1, <1>2, <1>5, SettledKept DEF BreakCircuit
  <2>2. lastExchangeRate' \in [Keys -> Nat] /\ pynthSuspension' \subseteq Keys
    BY <1>1, <1>3, <1>5 DEF BreakCircuit, OthersTyped
  <2> QED
    BY <1>1, <1>2, <1>5, <2>1, <2>2 DEF BreakCircuit, OthersTyped, CacheStep, cacheVars
<1>6. CASE ConvertAndAppend(from, src, amount, dest, to, reported)
  <2>1. HoldingsKept
    BY <1>1, <1>2, <1>6, ConvertAndAppendKept
  <2>2. UpdateCache({src, dest, pUSD}) /\ {src, dest, pUSD} \in SUBSET Keys
    BY <1>6, KeysAssumption DEF ConvertAndAppend
  <2>3. /\ lastExchangeRate' = [lastExchangeRate EXCEPT ![src]  = Rate(src),
                                                        ![dest] = Rate(dest)]
        /\ UNCHANGED <<pynthSuspension, cacheInvalid, cacheTimestamp>>
    BY <1>6 DEF ConvertAndAppend, UpdateCache
  <2>4. feesToDistribute' \in Nat
    <3> DEFINE exchanged == AmountAfterSettlement(from, src, amount)
               value == EffectiveValue(src, exchanged, dest)
               received == AmountReceivedForExchange(value,
                               FeeRateForExchange(src, dest))
               feeUSD == FeeInUSD(dest, value - received)
    <3>1. feesToDistribute' = feesToDistribute + feeUSD
                                  + (IF reported THEN received ELSE 0)
      BY <1>6 DEF ConvertAndAppend
    <3>2. exchanged \in Nat
      BY <1>1, <1>2, AmountTypes
    <3> HIDE DEF exchanged
    <3>3. received \in Nat /\ feeUSD \in Nat
      BY <1>1, <3>2, ConvertedTypes
    <3> HIDE DEF received, feeUSD
    <3>4. feesToDistribute \in Nat
      BY <1>1 DEF OthersTyped
    <3> QED
      BY <3>1, <3>3, <3>4
  <2>5. lastExchangeRate' \in [Keys -> Nat]
    BY <1>1, <1>3, <2>3 DEF OthersTyped
  <2>6. OthersTyped'
    BY <1>1, <2>3, <2>4, <2>5 DEF OthersTyped
  <2> QED
    BY <1>2, <2>1, <2>2, <2>6 DEF CacheStep
<1> QED
  BY <1>4, <1>5, <1>6 DEF InternalExchange

-----------------------------------------------------------------------------
(* The steps of users and keepers leave the prices alone and the holdings  *)
(* covered.                                                                *)

HoldingsStep ==
    /\ UNCHANGED priceVars
    /\ HoldingsKept
    /\ OthersTyped'
    /\ CacheStep

\* What neither moves nor settles anything keeps the holdings.
LEMMA HoldingsUnchanged ==
    ASSUME HoldingsTyped, UNCHANGED <<balanceOf, exchanges>>
    PROVE  HoldingsKept
<1>1. HoldingsTyped'
  BY DEF HoldingsTyped, BalancesTyped, QueuesTyped
<1>2. \A a \in Holders, k \in Keys : balanceOf[k][a] \in Nat
  BY DEF HoldingsTyped, BalancesTyped
<1>3. \A a \in Holders, k \in Keys : HoldingKept(a, k)
  BY <1>2 DEF HoldingKept
<1> QED
  BY <1>1, <1>3 DEF HoldingsKept

\* exchange
LEMMA ExchangeKept ==
    ASSUME TypeOK, NEW a \in Accounts, NEW k \in Keys, NEW x \in ExchangeAmounts,
           NEW dest \in Keys, Exchange(a, k, x, dest)
    PROVE  HoldingsStep
<1>1. a \in Holders /\ x \in Nat
  BY AmountsAssumption DEF Holders
<1>2. InternalExchange(a, k, x, dest, a, FALSE)
  BY DEF Exchange
<1> QED
  BY <1>1, <1>2, InternalExchangeKept DEF HoldingsStep

\* transfer
LEMMA TransferKept ==
    ASSUME TypeOK, NEW a \in Accounts, NEW to \in Holders, NEW k \in Keys,
           NEW x \in TransferAmounts, Transfer(a, to, k, x)
    PROVE  HoldingsStep
<1>1. PricesTypeOK /\ HoldingsTyped /\ OthersTyped
  BY TypeOKParts
<1>2. a \in Holders /\ x \in Nat
  BY AmountsAssumption DEF Holders
<1>3. HoldingsKept
  BY <1>1, <1>2, MovedKept DEF Transfer, exchangeVars
<1> QED
  BY <1>1, <1>3
     DEF Transfer, HoldingsStep, OthersTyped, CacheStep, exchangeVars, cacheVars

\* transfer to address 0
LEMMA TransferToZeroKept ==
    ASSUME TypeOK, NEW a \in Accounts, NEW k \in Keys, NEW x \in TransferAmounts,
           TransferToZero(a, k, x)
    PROVE  HoldingsStep
<1>1. PricesTypeOK /\ HoldingsTyped /\ OthersTyped
  BY TypeOKParts
<1>2. a \in Holders /\ x \in Nat
  BY AmountsAssumption DEF Holders
<1>3. /\ balanceOf \in [Keys -> [Holders -> Nat]]
      /\ balanceOf[k][a] \in Nat
      /\ ReclaimAmount(a, k) \in Nat
  BY <1>1, <1>2, OwedTypes DEF HoldingsTyped, BalancesTyped, OwedTyped
<1>4. /\ balanceOf[k][a] - ReclaimAmount(a, k) >= x
      /\ ~InWaitingPeriod(a, k)
      /\ balanceOf' = [balanceOf EXCEPT ![k][a] = @ - x]
      /\ UNCHANGED exchanges
  BY DEF TransferToZero, EnsureCanTransfer, exchangeVars
<1>5. balanceOf[k][a] - x \in Nat /\ balanceOf[k][a] - x >= ReclaimAmount(a, k)
  BY <1>2, <1>3, <1>4
<1>6. HoldingsTyped'
  BY <1>1, <1>3, <1>4, <1>5 DEF HoldingsTyped, BalancesTyped, QueuesTyped
<1>7. ASSUME NEW b \in Holders, NEW key \in Keys PROVE HoldingKept(b, key)
  <2>1. CASE b = a /\ key = k
    <3>1. balanceOf'[key][b] >= ReclaimAmount(b, key)
      BY <1>2, <1>3, <1>4, <1>5, <2>1
    <3> QED
      BY <1>4, <2>1, <3>1 DEF HoldingKept
  <2>2. CASE b # a \/ key # k
    <3>1. balanceOf'[key][b] = balanceOf[key][b] /\ balanceOf[key][b] \in Nat
      BY <1>3, <1>4, <2>2
    <3> QED
      BY <1>4, <3>1 DEF HoldingKept
  <2> QED
    BY <2>1, <2>2
<1>8. HoldingsKept
  BY <1>6, <1>7 DEF HoldingsKept
<1> QED
  BY <1>1, <1>8 DEF TransferToZero, HoldingsStep, OthersTyped, CacheStep,
                    exchangeVars, cacheVars

\* transfer to the fee address
LEMMA TransferToFeeAddressKept ==
    ASSUME TypeOK, NEW a \in Accounts, NEW k \in Keys, NEW x \in TransferAmounts,
           TransferToFeeAddress(a, k, x)
    PROVE  HoldingsStep
<1>1. PricesTypeOK /\ HoldingsTyped /\ OthersTyped
  BY TypeOKParts
<1>2. a \in Holders /\ x \in Nat /\ FeeAddress \in Holders
  BY AmountsAssumption DEF Holders
<1>3. EnsureCanTransfer(a, k, x)
  BY DEF TransferToFeeAddress
<1>4. CASE /\ balanceOf' = Moved(balanceOf, k, a, FeeAddress, x)
           /\ feesToDistribute' = feesToDistribute + x
           /\ UNCHANGED <<priceVars, exchangeVars, cacheVars>>
  <2>1. HoldingsKept
    BY <1>1, <1>2, <1>3, <1>4, MovedKept DEF exchangeVars
  <2> QED
    BY <1>1, <1>2, <1>4, <2>1
       DEF HoldingsStep, OthersTyped, CacheStep, exchangeVars, cacheVars
<1>5. CASE InternalExchange(a, k, x, pUSD, FeeAddress, TRUE)
  BY <1>2, <1>5, KeysAssumption, InternalExchangeKept DEF HoldingsStep
<1> QED
  BY <1>4, <1>5 DEF TransferToFeeAddress

\* What a settlement and a partial update of the cache leave.
LEMMA UpdatedOthers ==
    ASSUME OthersTyped, NEW k \in Keys, UpdateCache({k}), UpdateValidity({k}),
           UNCHANGED <<lastExchangeRate, pynthSuspension, feesToDistribute>>
    PROVE  OthersTyped' /\ CacheStep
<1>1. cacheInvalid' \in BOOLEAN
  BY DEF OthersTyped, UpdateValidity
<1>2. cacheTimestamp' \in Nat
  BY DEF OthersTyped, UpdateCache
<1>3. {k} \in SUBSET Keys
  OBVIOUS
<1> QED
  BY <1>1, <1>2, <1>3 DEF OthersTyped, CacheStep

\* transferAndSettle
LEMMA TransferAndSettleKept ==
    ASSUME TypeOK, NEW a \in Accounts, NEW to \in Holders, NEW k \in Keys,
           NEW x \in TransferAmounts, TransferAndSettle(a, to, k, x)
    PROVE  HoldingsStep
<1>1. PricesTypeOK /\ HoldingsTyped /\ OthersTyped
  BY TypeOKParts
<1>2. a \in Holders /\ x \in Nat
  BY AmountsAssumption DEF Holders
<1> DEFINE settled == SettledBalances(a, k)
           value == IF exchanges[a][k] # <<>> /\ x > settled[k][a]
                    THEN settled[k][a] ELSE x
<1>3. /\ CanSettle(a, k)
      /\ settled[k][a] >= value
      /\ balanceOf' = Moved(settled, k, a, to, value)
      /\ exchanges' = SettledQueues(a, k)
  BY DEF TransferAndSettle
<1>4. /\ settled \in [Keys -> [Holders -> Nat]]
      /\ exchanges' \in [Holders -> [Keys -> Seq(Entry)]]
      /\ exchanges'[a][k] = <<>>
      /\ \A b \in Holders, key \in Keys : b # a \/ key # k =>
             exchanges'[b][key] = exchanges[b][key]
             /\ settled[key][b] = balanceOf[key][b]
  BY <1>1, <1>2, <1>3, SettledEffect
<1>5. value \in Nat
  BY <1>2, <1>4
<1> HIDE DEF settled, value
<1>6. /\ balanceOf' \in [Keys -> [Holders -> Nat]]
      /\ \A b \in Holders, key \in Keys : b # a \/ key # k =>
             balanceOf'[key][b] >= settled[key][b]
  BY <1>2, <1>3, <1>4, <1>5, MovedEffect
<1>7. \A b \in Holders, key \in Keys : HoldingKept(b, key)
  BY <1>4, <1>6 DEF HoldingKept
<1>8. HoldingsKept
  BY <1>4, <1>6, <1>7 DEF HoldingsKept, HoldingsTyped, BalancesTyped, QueuesTyped
<1>9. OthersTyped' /\ CacheStep
  BY <1>1, UpdatedOthers DEF TransferAndSettle
<1> QED
  BY <1>8, <1>9 DEF TransferAndSettle, HoldingsStep

\* settle
LEMMA SettleKept ==
    ASSUME TypeOK, NEW a \in Holders, NEW k \in Keys, Settle(a, k)
    PROVE  HoldingsStep
<1>1. PricesTypeOK /\ HoldingsTyped /\ OthersTyped
  BY TypeOKParts
<1>2. HoldingsKept
  BY <1>1, SettledKept DEF Settle
<1>3. OthersTyped' /\ CacheStep
  BY <1>1, UpdatedOthers DEF Settle
<1> QED
  BY <1>2, <1>3 DEF Settle, HoldingsStep

\* updateCachedPynthDebts
LEMMA UpdateCachedPynthDebtsKept ==
    ASSUME TypeOK, NEW keys \in SUBSET Keys, UpdateCachedPynthDebts(keys)
    PROVE  HoldingsStep
<1>1. PricesTypeOK /\ HoldingsTyped /\ OthersTyped
  BY TypeOKParts
<1>2. HoldingsKept
  BY <1>1, HoldingsUnchanged DEF UpdateCachedPynthDebts, exchangeVars
<1>3. cacheInvalid' \in BOOLEAN /\ cacheTimestamp' \in Nat
  BY <1>1 DEF UpdateCachedPynthDebts, UpdateValidity, UpdateCache, OthersTyped
<1>4. OthersTyped'
  BY <1>1, <1>3 DEF UpdateCachedPynthDebts, OthersTyped, exchangeVars
<1> QED
  BY <1>2, <1>4 DEF UpdateCachedPynthDebts, HoldingsStep, CacheStep

\* takeDebtSnapshot
LEMMA TakeDebtSnapshotKept ==
    ASSUME TypeOK, TakeDebtSnapshot
    PROVE  HoldingsStep
<1>1. PricesTypeOK /\ HoldingsTyped /\ OthersTyped
  BY TypeOKParts
<1>2. HoldingsKept
  BY <1>1, HoldingsUnchanged DEF TakeDebtSnapshot, exchangeVars
<1>3. cacheInvalid' \in BOOLEAN /\ cacheTimestamp' \in Nat
  BY <1>1 DEF TakeDebtSnapshot, OthersTyped, PricesTypeOK
<1>4. OthersTyped'
  BY <1>1, <1>3 DEF TakeDebtSnapshot, OthersTyped, exchangeVars
<1> QED
  BY <1>2, <1>4 DEF TakeDebtSnapshot, HoldingsStep, CacheStep

\* suspendPynthWithInvalidRate
LEMMA SuspendPynthKept ==
    ASSUME TypeOK, NEW k \in Keys, SuspendPynthWithInvalidRate(k)
    PROVE  HoldingsStep
<1>1. PricesTypeOK /\ HoldingsTyped /\ OthersTyped
  BY TypeOKParts
<1>2. HoldingsKept
  BY <1>1, HoldingsUnchanged DEF SuspendPynthWithInvalidRate
<1>3. OthersTyped'
  BY <1>1 DEF SuspendPynthWithInvalidRate, OthersTyped, cacheVars
<1> QED
  BY <1>2, <1>3 DEF SuspendPynthWithInvalidRate, HoldingsStep, CacheStep, cacheVars

\* Every step of a user or a keeper.
LEMMA UserAndKeeperKept ==
    ASSUME TypeOK, UserStep \/ KeeperStep
    PROVE  HoldingsStep
<1>1. CASE UserStep
  BY <1>1, ExchangeKept, TransferKept, TransferAndSettleKept, TransferToZeroKept,
     TransferToFeeAddressKept DEF UserStep
<1>2. CASE KeeperStep
  BY <1>2, SettleKept, UpdateCachedPynthDebtsKept, TakeDebtSnapshotKept,
     SuspendPynthKept DEF KeeperStep
<1> QED
  BY <1>1, <1>2

-----------------------------------------------------------------------------
(* The steps of the owner and of the oracle leave the holdings alone.      *)

PriceAction ==
    \/ \E batch \in Batches, t \in (now - OracleLag)..(now + FutureLimit) :
           UpdateRates(batch, t)
    \/ \E k \in Keys : FreezeRate(k)
    \/ Tick
    \/ AdminCall

PricesStep ==
    /\ PricesInv'
    /\ PriceAction
    /\ UNCHANGED <<balanceOf, exchanges, cachedPynthDebt, cachedDebt>>
    /\ OthersTyped'

\* A step of the owner is counted.
LEMMA OwnerKept ==
    ASSUME TypeOK, PricesInv, OwnerStep
    PROVE  PricesStep
<1>1. PricesTypeOK /\ OthersTyped /\ RatesTyped
  BY TypeOKParts, RateTypes
<1>2. ASSUME NEW keys \in SUBSET Keys, ResetLastExchangeRate(keys)
      PROVE  PricesStep
  <2>1. AdminCall /\ UNCHANGED <<now, rates, inversePricing, roundFrozen>>
    BY <1>2 DEF ResetLastExchangeRate
  <2>2. PricesInv'
    BY <2>1 DEF AdminCall, PricesInv, PricesTypeOK, Started, InverseSound
  <2>3. lastExchangeRate' \in [Keys -> Nat]
    BY <1>1, <1>2 DEF ResetLastExchangeRate, OthersTyped, RatesTyped
  <2> QED
    BY <1>1, <1>2, <2>1, <2>2, <2>3
       DEF ResetLastExchangeRate, PricesStep, PriceAction, OthersTyped, cacheVars
<1>3. ASSUME NEW k \in Keys, ResumePynth(k)
      PROVE  PricesStep
  <2>1. AdminCall /\ UNCHANGED <<now, rates, inversePricing, roundFrozen>>
    BY <1>3 DEF ResumePynth
  <2>2. PricesInv'
    BY <2>1 DEF AdminCall, PricesInv, PricesTypeOK, Started, InverseSound
  <2>3. pynthSuspension' \subseteq Keys
    BY <1>1, <1>3 DEF ResumePynth, OthersTyped
  <2> QED
    BY <1>1, <1>3, <2>1, <2>2, <2>3
       DEF ResumePynth, PricesStep, PriceAction, OthersTyped, cacheVars
<1>4. ASSUME NEW k \in Keys, NEW config \in InverseConfigs[k],
             ConfigureInverse(k, config)
      PROVE  PricesStep
  <2>1. SetInversePricing(k, config) /\ AdminCall
    BY <1>4 DEF ConfigureInverse, SetInversePricing
  <2>2. PricesInv'
    BY <2>1, SetInversePricingTypes
  <2>3. RatesTyped'
    <3>1. (PricesTypeOK => RatesTyped)'
      BY RateTypes, PTL
    <3> QED
      BY <2>2, <3>1 DEF PricesInv
  <2>4. lastExchangeRate' \in [Keys -> Nat]
    <3>1. Rate(k)' \in Nat
      BY <2>3 DEF RatesTyped
    <3> QED
      BY <1>1, <1>4, <3>1 DEF ConfigureInverse, OthersTyped
  <2> QED
    BY <1>1, <1>4, <2>1, <2>2, <2>4
       DEF ConfigureInverse, PricesStep, PriceAction, OthersTyped, cacheVars
<1> QED
  BY <1>2, <1>3, <1>4 DEF OwnerStep

\* A step of the prices.
LEMMA PriceKept ==
    ASSUME TypeOK, PricesInv, PriceStep
    PROVE  PricesStep
<1>1. OthersTyped
  BY TypeOKParts
<1>2. PricesInv' /\ PriceAction
  <2>1. ASSUME NEW batch \in Batches,
               NEW t \in (now - OracleLag)..(now + FutureLimit),
               UpdateRates(batch, t)
        PROVE  PricesInv' /\ PriceAction
    BY <2>1, UpdateRatesTypes DEF PriceAction
  <2>2. ASSUME NEW k \in Keys, DeleteRate(k)
        PROVE  PricesInv' /\ PriceAction
    BY <2>2, DeleteRateTypes DEF PriceAction, DeleteRate
  <2>3. ASSUME NEW k \in Keys, RemoveInversePricing(k)
        PROVE  PricesInv' /\ PriceAction
    BY <2>3, RemoveInversePricingTypes DEF PriceAction, RemoveInversePricing
  <2>4. ASSUME NEW k \in Keys, FreezeRate(k)
        PROVE  PricesInv' /\ PriceAction
    BY <2>4, FreezeRateTypes DEF PriceAction
  <2>5. CASE Tick
    BY <2>5, TickTypes DEF PriceAction
  <2> QED
    BY <2>1, <2>2, <2>3, <2>4, <2>5 DEF PriceStep
<1> QED
  BY <1>1, <1>2 DEF PriceStep, PricesStep, OthersTyped, exchangeVars, cacheVars

\* The kinds of steps, and what each keeps.
LEMMA StepKinds ==
    ASSUME TypeOK, PricesInv, [Next]_vars
    PROVE  HoldingsStep \/ PricesStep
<1>1. CASE UNCHANGED vars
  <2>1. HoldingsTyped /\ OthersTyped
    BY TypeOKParts
  <2>2. HoldingsKept
    BY <1>1, <2>1, HoldingsUnchanged DEF vars, exchangeVars
  <2>3. OthersTyped' /\ CacheStep
    BY <1>1, <2>1 DEF vars, exchangeVars, cacheVars, OthersTyped, CacheStep
  <2> QED
    BY <1>1, <2>2, <2>3 DEF vars, HoldingsStep
<1> QED
  BY <1>1, UserAndKeeperKept, OwnerKept, PriceKept DEF Next

-----------------------------------------------------------------------------
(* Types, and the total of the debt cache.                                 *)

CacheInv == TypeOK /\ PricesInv /\ CacheIsSum

\* The deployed system.
LEMMA InitCacheInv == Init => CacheInv
<1> SUFFICES ASSUME Init PROVE CacheInv
  OBVIOUS
<1>1. PricesInv /\ PricesTypeOK
  BY InitPricesInv DEF Init, PricesInv
<1>2. RatesTyped
  BY <1>1, RateTypes
<1>3. BalancesTyped
  BY HoldersAssumption DEF Init, BalancesTyped
<1>4. QueuesTyped
  <2>1. <<>> \in Seq(Entry)
    OBVIOUS
  <2> QED
    BY <2>1 DEF Init, QueuesTyped
<1>5. OthersTyped
  <2>1. lastExchangeRate \in [Keys -> Nat]
    BY <1>2 DEF Init, RatesTyped
  <2> QED
    BY <1>1, <2>1 DEF Init, OthersTyped, PricesTypeOK
<1>6. DebtsTyped
  BY <1>1, <1>3, DebtTypes
<1>7. CacheTyped /\ cachedDebt = SumFunction(cachedPynthDebt) - TotalShort
  BY <1>6 DEF Init, DebtsTyped, CacheTyped
<1>8. CacheIsSum
  <2>1. SUFFICES ASSUME \A k \in Keys : Shorts[k] = 0
                 PROVE  cachedDebt = SumFunction(cachedPynthDebt)
    BY DEF CacheIsSum
  <2>2. TotalShort = 0
    BY <1>1, <2>1, NoShorts
  <2>3. SumFunction(cachedPynthDebt) \in Nat
    BY <1>6 DEF Init, DebtsTyped
  <2> QED
    BY <1>7, <2>2, <2>3
<1>9. TypeOK
  BY <1>1, <1>3, <1>4, <1>5, <1>7, TypeOKParts DEF HoldingsTyped
<1> QED
  BY <1>1, <1>8, <1>9 DEF CacheInv

\* An update of some of the parts keeps the total in step.
LEMMA UpdateKeepsSum ==
    ASSUME CacheTyped, CacheIsSum, DebtsTyped', NEW keys \in SUBSET Keys,
           UpdateCache(keys)
    PROVE  CacheTyped' /\ CacheIsSum'
<1>1. /\ CacheTyped'
      /\ cachedDebt' - SumFunction(cachedPynthDebt')
             = cachedDebt - SumFunction(cachedPynthDebt)
  BY UpdateCacheEffect
<1>2. /\ SumFunction(cachedPynthDebt) \in Nat
      /\ SumFunction(cachedPynthDebt') \in Nat
  BY <1>1, KeysAssumption, SumNat DEF CacheTyped, SumFunction
<1>3. cachedDebt \in Nat /\ cachedDebt' \in Nat
  BY <1>1 DEF CacheTyped
<1>4. cachedDebt = SumFunction(cachedPynthDebt)
          => cachedDebt' = SumFunction(cachedPynthDebt')
  <2>1. \A a, b, c, d \in Nat : c - d = a - b => (a = b => c = d)
    OBVIOUS
  <2> QED
    BY <1>1, <1>2, <1>3, <2>1, Zenon
<1> QED
  BY <1>1, <1>4 DEF CacheIsSum

\* A step that keeps the types of the rest keeps those of the cache, and its total
\* with its parts.
LEMMA CacheStepKeepsInv ==
    ASSUME CacheInv, PricesInv', HoldingsTyped', OthersTyped', CacheStep
    PROVE  CacheInv'
<1>1. TypeOK /\ PricesInv /\ CacheIsSum
  BY DEF CacheInv
<1>2. PricesTypeOK /\ HoldingsTyped /\ CacheTyped
  BY <1>1, TypeOKParts
<1>3. DebtsTyped'
  <2>1. (PricesTypeOK /\ BalancesTyped => DebtsTyped)'
    BY DebtTypes, PTL
  <2> QED
    BY <2>1 DEF PricesInv, HoldingsTyped
<1>4. ASSUME UNCHANGED <<cachedPynthDebt, cachedDebt>>
      PROVE  CacheTyped' /\ CacheIsSum'
  BY <1>1, <1>2, <1>4 DEF CacheTyped, CacheIsSum
<1>5. ASSUME NEW keys \in SUBSET Keys, UpdateCache(keys)
      PROVE  CacheTyped' /\ CacheIsSum'
  BY <1>1, <1>2, <1>3, <1>5, UpdateKeepsSum
<1>6. ASSUME TakeDebtSnapshot
      PROVE  CacheTyped' /\ CacheIsSum'
  <2>1. CacheTyped' /\ cachedDebt' = SumFunction(cachedPynthDebt') - TotalShort
    BY <1>2, <1>6, SnapshotEffect DEF HoldingsTyped
  <2>2. SumFunction(cachedPynthDebt') \in Nat
    BY <2>1, KeysAssumption, SumNat DEF CacheTyped, SumFunction
  <2>3. (\A k \in Keys : Shorts[k] = 0) => TotalShort = 0
    BY <1>2, NoShorts
  <2> QED
    BY <2>1, <2>2, <2>3 DEF CacheIsSum
<1>7. CacheTyped' /\ CacheIsSum'
  BY <1>4, <1>5, <1>6 DEF CacheStep
<1>8. TypeOK'
  <2>1. PricesTypeOK'
    BY DEF PricesInv
  <2>2. (TypeOK <=> PricesTypeOK /\ HoldingsTyped /\ CacheTyped /\ OthersTyped)'
    BY TypeOKParts, PTL
  <2> QED
    BY <1>7, <2>1, <2>2
<1> QED
  BY <1>7, <1>8 DEF CacheInv

\* Every step keeps the types, and the total of the cache with its parts.
LEMMA NextCacheInv == CacheInv /\ [Next]_vars => CacheInv'
<1> SUFFICES ASSUME CacheInv, [Next]_vars PROVE CacheInv'
  OBVIOUS
<1>1. TypeOK /\ PricesInv
  BY DEF CacheInv
<1>2. PricesTypeOK /\ HoldingsTyped
  BY <1>1, TypeOKParts
<1>3. HoldingsStep \/ PricesStep
  BY <1>1, StepKinds
<1>4. CASE HoldingsStep
  BY <1>1, <1>4, PricesInvUnchanged, CacheStepKeepsInv DEF HoldingsStep, HoldingsKept
<1>5. CASE PricesStep
  BY <1>2, <1>5, CacheStepKeepsInv
     DEF PricesStep, CacheStep, HoldingsTyped, BalancesTyped, QueuesTyped
<1> QED
  BY <1>3, <1>4, <1>5

\* The types and the total of the cache hold in every state.
LEMMA CacheInvAlways == Spec => []CacheInv
<1> QED
  BY InitCacheInv, NextCacheInv, PTL DEF Spec

\* Type correctness: balances, cached debts and what is owed are never below zero.
THEOREM ExchangerTypeCorrect == Spec => []TypeOK
<1>1. CacheInv => TypeOK
  BY DEF CacheInv
<1> QED
  BY <1>1, CacheInvAlways, PTL

\* The total of the debt cache is the sum of its parts.
THEOREM CacheAlwaysSum == Spec => []CacheIsSum
<1>1. CacheInv => CacheIsSum
  BY DEF CacheInv
<1> QED
  BY <1>1, CacheInvAlways, PTL

-----------------------------------------------------------------------------
(* The walk of getLastRoundIdBeforeElapsedSecs.                            *)

StopsAt(k, q, end) == Round(k, q + 1).time = 0 \/ Round(k, q + 1).time > end

IsLastRound(k, start, end, r) ==
    /\ StopsAt(k, r, end)
    /\ \A q \in start..(r - 1) : ~StopsAt(k, q, end)

LastRoundsKnown ==
    \A k \in Keys, start \in Nat, end \in Nat :
        start <= currentRoundForRate(k) =>
            /\ LastRoundIdBefore(k, start, end) \in start..currentRoundForRate(k)
            /\ IsLastRound(k, start, end, LastRoundIdBefore(k, start, end))

\* The rounds of a key have positive times, and none follows the current one.
LEMMA RoundTimes ==
    ASSUME PricesTypeOK, NEW k \in Keys
    PROVE  /\ Len(rates[k]) \in Nat
           /\ DOMAIN rates[k] = 1..Len(rates[k])
           /\ \A r \in 1..Len(rates[k]) : /\ Round(k, r) = rates[k][r]
                                          /\ Round(k, r) \in PriceRound
           /\ \A r \in Nat : ~(r \in 1..Len(rates[k])) =>
                  Round(k, r).rate = 0 /\ Round(k, r).time = 0
<1>1. rates[k] \in Seq(PriceRound)
  BY DEF PricesTypeOK
<1>2. Len(rates[k]) \in Nat /\ DOMAIN rates[k] = 1..Len(rates[k])
  BY <1>1, LenProperties
<1>3. \A r \in 1..Len(rates[k]) : rates[k][r] \in PriceRound
  BY <1>1, ElementOfSeq
<1> QED
  BY <1>2, <1>3 DEF Round

\* The walk ends, at the current round at the latest.
LEMMA LastRoundExists == PricesTypeOK => LastRoundsKnown
<1> SUFFICES ASSUME PricesTypeOK, NEW k \in Keys, NEW start \in Nat, NEW end \in Nat,
                    start <= currentRoundForRate(k)
             PROVE  /\ LastRoundIdBefore(k, start, end)
                           \in start..currentRoundForRate(k)
                    /\ IsLastRound(k, start, end, LastRoundIdBefore(k, start, end))
  BY DEF LastRoundsKnown
<1> DEFINE n == Len(rates[k])
           T == {q \in Nat : q >= start /\ StopsAt(k, q, end)}
           Is(r) == IsLastRound(k, start, end, r)
<1>1. n \in Nat /\ currentRoundForRate(k) = n /\ start <= n
  BY RoundTimes DEF currentRoundForRate
<1>2. \A q \in Nat : q >= n => StopsAt(k, q, end)
  <2>1. \A r \in Nat : r > n => Round(k, r).time = 0
    BY <1>1, RoundTimes
  <2> QED
    BY <1>1, <2>1 DEF StopsAt
<1>3. n \in T
  BY <1>1, <1>2
<1>4. PICK x \in T : \A y \in T : x <= y
  <2>1. T \subseteq Nat /\ T # {}
    BY <1>3
  <2> HIDE DEF T
  <2> QED
    BY <2>1, LeastElement
<1>5. x \in start..n /\ Is(x)
  BY <1>1, <1>3, <1>4 DEF IsLastRound
<1>6. x \in start..(start + n)
  BY <1>1, <1>5
<1>7. LastRoundIdBefore(k, start, end) = CHOOSE r \in start..(start + n) : Is(r)
  BY DEF LastRoundIdBefore, IsLastRound, StopsAt
<1> DEFINE last == CHOOSE r \in start..(start + n) : Is(r)
<1>8. last \in start..(start + n) /\ Is(last)
  BY <1>5, <1>6
<1> HIDE DEF last
<1>9. last = x
  BY <1>1, <1>5, <1>8 DEF IsLastRound
<1> QED
  BY <1>1, <1>5, <1>7, <1>9 DEF last

-----------------------------------------------------------------------------
(* A step of the prices leaves the rounds that were there as they were.    *)

\* A report of k, if the step makes one, is for a time after `end`.
ReportedAfter(k, end) ==
    Len(rates'[k]) > Len(rates[k]) => rates'[k][Len(rates'[k])].time > end

RoundsFixed ==
    \A k \in Keys :
        /\ currentRoundForRate(k) <= currentRoundForRate(k)'
        /\ \A r \in 0..currentRoundForRate(k) :
               RateAtRound(k, r)' = RateAtRound(k, r)
        /\ \A r \in 1..currentRoundForRate(k) : rates'[k][r] = rates[k][r]
        /\ \A start \in Nat, end \in Nat :
               start <= currentRoundForRate(k) /\ ReportedAfter(k, end) =>
                   LastRoundIdBefore(k, start, end)' = LastRoundIdBefore(k, start, end)

\* A report is appended.
LEMMA UpdateRatesEffect ==
    ASSUME PricesTypeOK, NEW batch \in Batches, NEW t, UpdateRates(batch, t),
           NEW k \in Keys
    PROVE  \/ rates'[k] = rates[k]
           \/ /\ Len(rates'[k]) = Len(rates[k]) + 1
              /\ \A r \in 1..Len(rates[k]) : rates'[k][r] = rates[k][r]
              /\ rates'[k][Len(rates'[k])].time = t
              /\ rates'[k][Len(rates'[k])].posted = now
<1>1. Len(rates[k]) \in Nat
  BY RoundTimes
<1> DEFINE next == [rate |-> batch[k], time |-> t, posted |-> now]
<1>2. rates'[k] = rates[k] \/ rates'[k] = Append(rates[k], next)
  BY DEF UpdateRates
<1>3. rates[k] \in Seq(PriceRound)
  BY DEF PricesTypeOK
<1>4. next.time = t /\ next.posted = now
  OBVIOUS
<1> HIDE DEF next
<1>5. /\ Len(Append(rates[k], next)) = Len(rates[k]) + 1
      /\ \A r \in 1..Len(rates[k]) : Append(rates[k], next)[r] = rates[k][r]
      /\ Append(rates[k], next)[Len(rates[k]) + 1] = next
  BY <1>1, <1>3
<1> QED
  BY <1>2, <1>4, <1>5

\* Rounds keep their prices when others are appended.
LEMMA UpdateRatesFixed ==
    ASSUME PricesInv, PricesInv', NEW batch \in Batches, NEW t, UpdateRates(batch, t)
    PROVE  RoundsFixed
<1>1. PricesTypeOK /\ PricesTypeOK'
  BY DEF PricesInv
<1>2. SUFFICES ASSUME NEW k \in Keys
               PROVE  /\ currentRoundForRate(k) <= currentRoundForRate(k)'
                      /\ \A r \in 0..currentRoundForRate(k) :
                             RateAtRound(k, r)' = RateAtRound(k, r)
                      /\ \A r \in 1..currentRoundForRate(k) :
                             rates'[k][r] = rates[k][r]
                      /\ \A start \in Nat, end \in Nat :
                             start <= currentRoundForRate(k) /\ ReportedAfter(k, end)
                             => LastRoundIdBefore(k, start, end)'
                                    = LastRoundIdBefore(k, start, end)
  BY DEF RoundsFixed
<1> DEFINE n == Len(rates[k])
           m == Len(rates'[k])
<1>3. /\ n \in Nat /\ m \in Nat
      /\ currentRoundForRate(k) = n /\ currentRoundForRate(k)' = m
  <2>1. rates[k] \in Seq(PriceRound) /\ rates'[k] \in Seq(PriceRound)
    BY <1>1 DEF PricesTypeOK
  <2> QED
    BY <2>1, LenProperties DEF currentRoundForRate
<1>4. /\ m = n \/ m = n + 1
      /\ \A r \in 1..n : rates'[k][r] = rates[k][r]
  BY <1>1, UpdateRatesEffect
<1>5. /\ DOMAIN rates[k] = 1..n /\ DOMAIN rates'[k] = 1..m
      /\ \A r \in 1..m : rates'[k][r] \in PriceRound
  <2>1. rates[k] \in Seq(PriceRound) /\ rates'[k] \in Seq(PriceRound)
    BY <1>1 DEF PricesTypeOK
  <2> QED
    BY <2>1, LenProperties, ElementOfSeq
<1> HIDE DEF n, m
<1>6. \A r \in 0..n : Round(k, r)' = Round(k, r)
  <2> SUFFICES ASSUME NEW r \in 0..n PROVE Round(k, r)' = Round(k, r)
    OBVIOUS
  <2>1. (r \in DOMAIN rates[k]) = (r \in DOMAIN rates'[k])
    BY <1>3, <1>4, <1>5
  <2>2. r \in DOMAIN rates[k] => rates'[k][r] = rates[k][r]
    BY <1>4, <1>5
  <2> QED
    BY <2>1, <2>2 DEF Round
<1>7. UNCHANGED <<inversePricing, roundFrozen>>
  BY DEF UpdateRates
<1>8. \A r \in 0..n : RateAtRound(k, r)' = RateAtRound(k, r)
  BY <1>6, <1>7 DEF RateAtRound, RateOrInverted
<1>9. ASSUME NEW start \in Nat, NEW end \in Nat, start <= n, ReportedAfter(k, end)
      PROVE  LastRoundIdBefore(k, start, end)' = LastRoundIdBefore(k, start, end)
  <2>1. PICK x \in Nat : /\ x = LastRoundIdBefore(k, start, end)
                         /\ x >= start
                         /\ IsLastRound(k, start, end, x)
    <3>1. /\ LastRoundIdBefore(k, start, end) \in start..currentRoundForRate(k)
          /\ IsLastRound(k, start, end, LastRoundIdBefore(k, start, end))
      BY <1>1, <1>3, <1>9, LastRoundExists DEF LastRoundsKnown
    <3> QED
      BY <1>3, <3>1
  <2>2. PICK y \in Nat : /\ y = LastRoundIdBefore(k, start, end)'
                         /\ y >= start
                         /\ IsLastRound(k, start, end, y)'
    <3>1. (PricesTypeOK => LastRoundsKnown)'
      BY LastRoundExists, PTL
    <3>2. start <= currentRoundForRate(k)'
      BY <1>3, <1>4, <1>9
    <3>3. /\ LastRoundIdBefore(k, start, end)' \in start..currentRoundForRate(k)'
          /\ IsLastRound(k, start, end, LastRoundIdBefore(k, start, end))'
      BY <1>1, <3>1, <3>2 DEF LastRoundsKnown
    <3>4. PICK y : y = LastRoundIdBefore(k, start, end)'
      OBVIOUS
    <3>5. y \in Nat /\ y >= start
      BY <1>3, <3>3, <3>4
    <3>6. IsLastRound(k, start, end, y)'
      BY <3>3, <3>4 DEF IsLastRound, StopsAt, Round
    <3> QED
      BY <3>4, <3>5, <3>6
  <2>3. \A q \in Nat : StopsAt(k, q, end)' <=> StopsAt(k, q, end)
    <3> SUFFICES ASSUME NEW q \in Nat
                 PROVE  StopsAt(k, q, end)' <=> StopsAt(k, q, end)
      OBVIOUS
    <3>1. CASE q + 1 <= n
      <4>1. Round(k, q + 1)' = Round(k, q + 1)
        BY <1>3, <1>6, <3>1
      <4> QED
        BY <4>1 DEF StopsAt
    <3>2. CASE q + 1 > n
      <4>1. StopsAt(k, q, end)
        BY <1>3, <1>5, <3>2 DEF StopsAt, Round
      <4>2. CASE q + 1 = m
        <5>1. m > n
          BY <3>2, <4>2
        <5>2. rates'[k][m].time > end
          BY <1>9, <5>1 DEF ReportedAfter, n, m
        <5>3. Round(k, q + 1)' = rates'[k][q + 1]
          BY <1>3, <1>5, <4>2, <5>1 DEF Round
        <5>4. StopsAt(k, q, end)'
          BY <4>2, <5>2, <5>3 DEF StopsAt
        <5> QED
          BY <4>1, <5>4
      <4>3. CASE q + 1 # m
        <5>1. ~(q + 1 \in DOMAIN rates'[k])
          BY <1>3, <1>4, <1>5, <3>2, <4>3
        <5>2. StopsAt(k, q, end)'
          BY <5>1 DEF StopsAt, Round
        <5> QED
          BY <4>1, <5>2
      <4> QED
        BY <4>2, <4>3
    <3> QED
      BY <1>3, <3>1, <3>2
  <2>5. StopsAt(k, x, end) /\ \A q \in start..(x - 1) : ~StopsAt(k, q, end)
    BY <2>1 DEF IsLastRound
  <2>6. StopsAt(k, y, end) /\ \A q \in start..(y - 1) : ~StopsAt(k, q, end)
    <3>1. StopsAt(k, y, end)' /\ \A q \in start..(y - 1) : ~StopsAt(k, q, end)'
      BY <2>2 DEF IsLastRound
    <3> QED
      BY <2>2, <2>3, <3>1
  <2>7. x = y
    BY <2>1, <2>2, <2>5, <2>6
  <2> QED
    BY <2>1, <2>2, <2>7
<1> QED
  BY <1>3, <1>4, <1>8, <1>9

\* The rounds before the freezing keep their prices, and the price that is
\* frozen is the one it had.
LEMMA FreezeRateFixed ==
    ASSUME PricesInv, NEW key \in Keys, FreezeRate(key)
    PROVE  RoundsFixed
<1>1. PricesTypeOK
  BY DEF PricesInv
<1>2. rates' = rates
  BY DEF FreezeRate
<1>3. ASSUME NEW k \in Keys, NEW r \in 0..currentRoundForRate(k)
      PROVE  RateAtRound(k, r)' = RateAtRound(k, r)
  <2> DEFINE inverse == inversePricing[k]
             rate == Round(k, r).rate
             n == currentRoundForRate(k)
             mirrored == Clamp(2 * inverse.entryPoint - rate, inverse.lowerLimit,
                               inverse.upperLimit)
  <2>1. Round(k, r)' = Round(k, r)
    BY <1>2 DEF Round
  <2>2. inverse.entryPoint \in Nat /\ n \in Nat
    BY <1>1, RoundTimes DEF PricesTypeOK, InverseConfig, currentRoundForRate
  <2>3. CASE k # key
    <3>1. inversePricing'[k] = inversePricing[k]
      BY <2>3, FreezeRateEffect
    <3>2. roundFrozen'[k] = roundFrozen[k]
      BY <1>1, <2>3 DEF FreezeRate, PricesTypeOK
    <3> QED
      BY <2>1, <3>1, <3>2 DEF RateAtRound, RateOrInverted
  <2>4. CASE k = key
    <3>1. /\ inversePricing'[k].entryPoint = inverse.entryPoint
          /\ inversePricing'[k].upperLimit = inverse.upperLimit
          /\ inversePricing'[k].lowerLimit = inverse.lowerLimit
          /\ inversePricing'[k].frozenAtUpperLimit = (Rate(k) = inverse.upperLimit)
          /\ inversePricing'[k].frozenAtLowerLimit = (Rate(k) = inverse.lowerLimit)
      BY <2>4, FreezeRateEffect
    <3>2. roundFrozen'[k] = n
      BY <1>1, <2>4 DEF FreezeRate, PricesTypeOK
    <3>3. ~inverse.frozenAtUpperLimit /\ ~inverse.frozenAtLowerLimit
      BY <2>4 DEF FreezeRate, Frozen
    <3>4. RateAtRound(k, r) = IF inverse.entryPoint = 0 \/ rate = 0 THEN rate
                              ELSE mirrored
      BY <3>3 DEF RateAtRound, RateOrInverted
    <3>5. RateAtRound(k, r)' =
              IF inverse.entryPoint = 0 \/ rate = 0 THEN rate
              ELSE IF r >= n /\ Rate(k) = inverse.upperLimit THEN inverse.upperLimit
              ELSE IF r >= n /\ Rate(k) = inverse.lowerLimit THEN inverse.lowerLimit
              ELSE mirrored
      BY <2>1, <3>1, <3>2 DEF RateAtRound, RateOrInverted, Clamp
    <3>6. r >= n => Rate(k) = RateAtRound(k, r)
      BY <1>3, <2>2 DEF Rate
    <3> HIDE DEF inverse, rate, mirrored, n
    <3> QED
      BY <3>4, <3>5, <3>6
  <2> QED
    BY <2>3, <2>4
<1>4. ASSUME NEW k \in Keys, NEW start, NEW end
      PROVE  LastRoundIdBefore(k, start, end)' = LastRoundIdBefore(k, start, end)
  BY <1>2 DEF LastRoundIdBefore, Round
<1>5. \A k \in Keys : currentRoundForRate(k)' = currentRoundForRate(k)
                      /\ currentRoundForRate(k) \in Nat
  BY <1>1, <1>2, RoundTimes DEF currentRoundForRate
<1> QED
  BY <1>2, <1>3, <1>4, <1>5 DEF RoundsFixed

\* So does a step that leaves the prices alone.
LEMMA UnchangedFixed ==
    ASSUME PricesInv, UNCHANGED <<rates, inversePricing, roundFrozen>>
    PROVE  RoundsFixed
<1>1. ASSUME NEW k \in Keys, NEW start, NEW end
      PROVE  LastRoundIdBefore(k, start, end)' = LastRoundIdBefore(k, start, end)
  BY DEF LastRoundIdBefore, Round
<1>2. ASSUME NEW k \in Keys, NEW r
      PROVE  RateAtRound(k, r)' = RateAtRound(k, r)
  BY DEF RateAtRound, RateOrInverted, Round
<1>3. \A k \in Keys : currentRoundForRate(k)' = currentRoundForRate(k)
                      /\ currentRoundForRate(k) \in Nat
  BY RoundTimes DEF currentRoundForRate, PricesInv
<1> QED
  BY <1>1, <1>2, <1>3 DEF RoundsFixed

\* The steps without the owner.
LEMMA StepFixed ==
    ASSUME PricesInv, HoldingsStep \/ PricesStep, adminCalls' = adminCalls
    PROVE  RoundsFixed
<1>1. CASE HoldingsStep
  BY <1>1, UnchangedFixed DEF HoldingsStep, priceVars
<1>2. CASE PricesStep
  <2>1. ~AdminCall
    <3>1. adminCalls \in Nat
      BY DEF PricesInv, PricesTypeOK
    <3> QED
      BY <3>1 DEF AdminCall
  <2>2. PricesInv'
    BY <1>2 DEF PricesStep
  <2>3. CASE Tick
    BY <2>3, UnchangedFixed DEF Tick
  <2> QED
    BY <1>2, <2>1, <2>2, <2>3, UpdateRatesFixed, FreezeRateFixed
       DEF PricesStep, PriceAction
<1> QED
  BY <1>1, <1>2

\* What is owed for an entry depends on the prices of its waiting period only.
LEMMA OwedFixed ==
    ASSUME PricesTypeOK, RoundsFixed, NEW k \in Keys, NEW entry \in Entry,
           entry.roundIdForSrc <= currentRoundForRate(entry.src),
           entry.roundIdForDest <= currentRoundForRate(k),
           ReportedAfter(entry.src, entry.timestamp + WaitingPeriodSecs),
           ReportedAfter(k, entry.timestamp + WaitingPeriodSecs)
    PROVE  Owed(entry, k)' = Owed(entry, k)
<1> DEFINE end == entry.timestamp + WaitingPeriodSecs
<1>1. /\ entry.src \in Keys /\ entry.roundIdForSrc \in Nat
      /\ entry.roundIdForDest \in Nat /\ end \in Nat
  BY HoldersAssumption DEF Entry
<1>2. LastRoundsKnown
  BY LastRoundExists
<1>3. ASSUME NEW key \in Keys, NEW start \in Nat,
             start <= currentRoundForRate(key), ReportedAfter(key, end)
      PROVE  /\ RoundAtPeriodEnd(key, start, entry)'
                    = RoundAtPeriodEnd(key, start, entry)
             /\ RoundAtPeriodEnd(key, start, entry) \in 0..currentRoundForRate(key)
  <2>1. LastRoundIdBefore(key, start, end)' = LastRoundIdBefore(key, start, end)
    BY <1>1, <1>3 DEF RoundsFixed
  <2>2. LastRoundIdBefore(key, start, end) \in start..currentRoundForRate(key)
    BY <1>1, <1>2, <1>3 DEF LastRoundsKnown
  <2>3. currentRoundForRate(key) \in Nat
    BY RoundTimes DEF currentRoundForRate
  <2> QED
    BY <2>1, <2>2, <2>3 DEF RoundAtPeriodEnd
<1>4. PICK x : x = RoundAtPeriodEnd(entry.src, entry.roundIdForSrc, entry)
  OBVIOUS
<1>5. PICK y : y = RoundAtPeriodEnd(k, entry.roundIdForDest, entry)
  OBVIOUS
<1>6. /\ RoundAtPeriodEnd(entry.src, entry.roundIdForSrc, entry)' = x
      /\ x \in 0..currentRoundForRate(entry.src)
  BY <1>1, <1>3, <1>4
<1>7. /\ RoundAtPeriodEnd(k, entry.roundIdForDest, entry)' = y
      /\ y \in 0..currentRoundForRate(k)
  BY <1>1, <1>3, <1>5
<1>8. /\ RateAtRound(entry.src, x)' = RateAtRound(entry.src, x)
      /\ RateAtRound(k, y)' = RateAtRound(k, y)
  BY <1>1, <1>6, <1>7 DEF RoundsFixed
<1>9. EffectiveValueAtRound(entry.src, entry.amount, k, x, y)'
          = EffectiveValueAtRound(entry.src, entry.amount, k, x, y)
  BY <1>8 DEF EffectiveValueAtRound
<1>10. PICK value : value = EffectiveValueAtRound(entry.src, entry.amount, k, x, y)
  OBVIOUS
<1>11. /\ AmountShouldHaveReceived(entry, k)
              = AmountReceivedForExchange(value, entry.exchangeFeeRate)
       /\ AmountShouldHaveReceived(entry, k)'
              = AmountReceivedForExchange(value, entry.exchangeFeeRate)
  BY <1>4, <1>5, <1>6, <1>7, <1>9, <1>10 DEF AmountShouldHaveReceived
<1>12. AmountShouldHaveReceived(entry, k)' = AmountShouldHaveReceived(entry, k)
  BY <1>11
<1> QED
  BY <1>12 DEF Owed

-----------------------------------------------------------------------------
(* The action properties of the prices and of what is owed.                *)

\* What is owed is final: none of the steps without the owner reports for a time
\* of the waiting period once it is over.
LEMMA OwedStep ==
    ASSUME TypeOK, PricesInv, [Next]_vars, NEW a \in Holders, NEW k \in Keys,
           exchanges'[a][k] = exchanges[a][k], adminCalls' = adminCalls,
           RoundsExist(a, k),
           \A end \in PeriodEnds(a, k) : now >= end /\ ~ReportsUntil(end)
    PROVE  OwedList(a, k)' = OwedList(a, k)
<1>1. RoundsFixed /\ PricesTypeOK /\ HoldingsTyped
  BY StepKinds, StepFixed, TypeOKParts
<1>2. PICK q : q = exchanges[a][k]
  OBVIOUS
<1>3. q \in Seq(Entry) /\ DOMAIN q = 1..Len(q)
  BY <1>1, <1>2, LenProperties DEF HoldingsTyped, QueuesTyped
<1>4. ASSUME NEW i \in DOMAIN q PROVE Owed(q[i], k)' = Owed(q[i], k)
  <2>1. PICK entry \in Entry : entry = q[i]
    BY <1>3, ElementOfSeq
  <2>2. /\ entry.roundIdForSrc <= currentRoundForRate(entry.src)
        /\ entry.roundIdForDest <= currentRoundForRate(k)
    BY <1>2, <2>1 DEF RoundsExist
  <2> DEFINE end == entry.timestamp + WaitingPeriodSecs
  <2>3. end \in PeriodEnds(a, k) /\ end \in Nat
    BY <1>2, <2>1, HoldersAssumption DEF PeriodEnds, Entry
  <2>4. \A key \in Keys : ReportedAfter(key, end)
    <3> SUFFICES ASSUME NEW key \in Keys, Len(rates'[key]) > Len(rates[key])
                 PROVE  rates'[key][Len(rates'[key])].time > end
      BY DEF ReportedAfter
    <3>1. ~(rates'[key][Len(rates'[key])].time <= end)
      BY <2>3 DEF ReportsUntil
    <3>2. PricesTypeOK'
      BY StepKinds, PricesInvUnchanged DEF HoldingsStep, PricesStep, PricesInv
    <3>3. rates'[key] \in Seq(PriceRound) /\ rates[key] \in Seq(PriceRound)
      BY <1>1, <3>2 DEF PricesTypeOK
    <3>4. /\ Len(rates'[key]) \in Nat /\ Len(rates[key]) \in Nat
          /\ Len(rates'[key]) \in 1..Len(rates'[key])
      BY <3>3, LenProperties
    <3>5. rates'[key][Len(rates'[key])] \in PriceRound
      BY <3>3, <3>4, ElementOfSeq
    <3>6. rates'[key][Len(rates'[key])].time \in Nat
      BY <3>5 DEF PriceRound
    <3> QED
      BY <2>3, <3>1, <3>6
  <2>5. entry.src \in Keys
    BY DEF Entry
  <2>6. Owed(entry, k)' = Owed(entry, k)
    BY <1>1, <2>2, <2>4, <2>5, OwedFixed
  <2> QED
    BY <2>1, <2>6
<1>5. OwedList(a, k) = [i \in DOMAIN q |-> Owed(q[i], k)]
  BY <1>2 DEF OwedList
<1>6. OwedList(a, k)' = [i \in DOMAIN q |-> Owed(q[i], k)']
  BY <1>2 DEF OwedList
<1> QED
  BY <1>4, <1>5, <1>6

\* A price that is frozen stays what it is.
LEMMA FrozenStep ==
    ASSUME TypeOK, PricesInv, [Next]_vars, NEW k \in Keys,
           Frozen(k), Rate(k) > 0,
           currentRoundForRate(k) >= roundFrozen[k], adminCalls' = adminCalls
    PROVE  Rate(k)' = Rate(k)
<1>1. PricesTypeOK /\ PricesInv'
  BY StepKinds, PricesInvUnchanged DEF HoldingsStep, PricesStep, PricesInv
<1> DEFINE n == currentRoundForRate(k)
<1>0. PICK m : m = currentRoundForRate(k)'
  OBVIOUS
<1>2. n \in Nat /\ m \in Nat /\ n <= m
  <2>1. RoundsFixed
    BY StepKinds, StepFixed
  <2>2. rates[k] \in Seq(PriceRound) /\ rates'[k] \in Seq(PriceRound)
    BY <1>1 DEF PricesInv, PricesTypeOK
  <2> QED
    BY <1>0, <2>1, <2>2, LenProperties DEF RoundsFixed, currentRoundForRate
<1>3. CASE UNCHANGED <<rates, inversePricing, roundFrozen>>
  BY <1>3 DEF Rate, RateAtRound, RateOrInverted, Round, currentRoundForRate
<1>4. CASE \E batch \in Batches, t \in (now - OracleLag)..(now + FutureLimit) :
              UpdateRates(batch, t)
  <2> DEFINE inverse == inversePricing[k]
             limit == IF inverse.frozenAtUpperLimit THEN inverse.upperLimit
                      ELSE inverse.lowerLimit
  <2>1. UNCHANGED <<inversePricing, roundFrozen>>
    BY <1>4 DEF UpdateRates
  <2>2. inverse.entryPoint # 0
    <3>1. inverse # NoInverse
      BY DEF Frozen, NoInverse
    <3>2. inverse.lowerLimit < inverse.entryPoint /\ inverse.lowerLimit \in Nat
          /\ inverse.entryPoint \in Nat
      BY <1>1, <3>1 DEF PricesInv, InverseSound, PricesTypeOK, InverseConfig
    <3> QED
      BY <3>2
  <2>3. Round(k, n).rate # 0
    <3>1. Round(k, n).rate = 0 => Rate(k) = 0
      BY DEF Rate, RateAtRound, RateOrInverted
    <3> QED
      BY <3>1
  <2>4. n \in 1..Len(rates[k])
    <3>1. ~(n \in DOMAIN rates[k]) => Round(k, n).rate = 0
      BY DEF Round
    <3> QED
      BY <1>1, <2>3, <3>1, RoundTimes
  <2>5. m \in DOMAIN rates'[k] /\ rates'[k][m] \in PriceRound
    <3>1. rates'[k] \in Seq(PriceRound)
      BY <1>1 DEF PricesInv, PricesTypeOK
    <3>2. m = Len(rates'[k]) /\ m \in 1..Len(rates'[k])
      BY <1>0, <1>2, <2>4 DEF currentRoundForRate
    <3> QED
      BY <3>1, <3>2, LenProperties, ElementOfSeq
  <2>6. Rate(k) = limit
    BY <2>2, <2>3 DEF Rate, RateAtRound, RateOrInverted, Frozen
  <2>7. roundFrozen[k] \in Nat /\ m >= roundFrozen[k]
    BY <1>1, <1>2 DEF PricesTypeOK
  <2>8. rates'[k][m].rate # 0
    BY <2>5 DEF PriceRound
  <2>9. PICK rate : rate = rates'[k][m].rate
    OBVIOUS
  <2>10. Round(k, m)'.rate = rate
    BY <2>5, <2>9 DEF Round
  <2>11. Rate(k)' = RateOrInverted(k, rate, m)'
    BY <1>0, <2>10 DEF Rate, RateAtRound
  <2>12. RateOrInverted(k, rate, m)' = limit
    BY <2>1, <2>2, <2>7, <2>8, <2>9 DEF RateOrInverted, Frozen
  <2> QED
    BY <2>6, <2>11, <2>12
<1>5. ASSUME NEW key \in Keys, FreezeRate(key)
      PROVE  Rate(k)' = Rate(k)
  <2>1. k # key
    BY <1>5 DEF FreezeRate
  <2>2. /\ inversePricing'[k] = inversePricing[k]
        /\ roundFrozen'[k] = roundFrozen[k]
        /\ rates' = rates
    BY <1>1, <1>5, <2>1, FreezeRateEffect DEF FreezeRate, PricesTypeOK
  <2> QED
    BY <2>2 DEF Rate, RateAtRound, RateOrInverted, Round, currentRoundForRate
<1>6. ~AdminCall
  BY <1>1 DEF AdminCall, PricesTypeOK
<1> QED
  BY <1>3, <1>4, <1>5, <1>6, StepKinds
     DEF HoldingsStep, PricesStep, PriceAction, priceVars, Tick

\* The price of the last exchange moves by a step that the circuit breaker has
\* compared with the threshold.
LEMMA PriceChecked ==
    ASSUME NEW k \in Keys, lastExchangeRate[k] > 0, ~PynthRateIsInvalid(k)
    PROVE  ~DeviationAboveThreshold(lastExchangeRate[k], Rate(k))
BY DEF PynthRateIsInvalid

\* In an exchange.
LEMMA ExchangePriceStep ==
    ASSUME TypeOK, NEW from, NEW src \in Keys, NEW amount,
           NEW dest \in Keys, NEW to, NEW reported,
           InternalExchange(from, src, amount, dest, to, reported),
           NEW k \in Keys, lastExchangeRate[k] > 0,
           lastExchangeRate'[k] # lastExchangeRate[k]
    PROVE  ~DeviationAboveThreshold(lastExchangeRate[k], lastExchangeRate'[k])
<1>1. lastExchangeRate \in [Keys -> Nat]
  BY DEF TypeOK
<1>2. lastExchangeRate'[k] = Rate(k) /\ ~PynthRateIsInvalid(k)
  <2>1. CASE NothingToExchange(from, src, amount)
    BY <2>1 DEF NothingToExchange
  <2>2. CASE BreakCircuit(from, src, amount, dest)
    <3>1. /\ lastExchangeRate' = [lastExchangeRate EXCEPT ![src] = Rate(src)]
          /\ ~PynthRateIsInvalid(src)
      BY <2>2 DEF BreakCircuit
    <3>2. k = src
      BY <1>1, <3>1
    <3> QED
      BY <1>1, <3>1, <3>2
  <2>3. CASE ConvertAndAppend(from, src, amount, dest, to, reported)
    <3>1. /\ lastExchangeRate' = [lastExchangeRate EXCEPT ![src]  = Rate(src),
                                                          ![dest] = Rate(dest)]
          /\ ~PynthRateIsInvalid(src)
          /\ ~PynthRateIsInvalid(dest)
      BY <2>3 DEF ConvertAndAppend
    <3>2. k = src \/ k = dest
      BY <1>1, <3>1
    <3> QED
      BY <1>1, <3>1, <3>2
  <2> QED
    BY <2>1, <2>2, <2>3 DEF InternalExchange
<1> QED
  BY <1>2, PriceChecked

\* In any step without the owner.
LEMMA PricesStepBounded ==
    ASSUME TypeOK, [Next]_vars, NEW k \in Keys, lastExchangeRate[k] > 0,
           lastExchangeRate'[k] # lastExchangeRate[k], adminCalls' = adminCalls
    PROVE  ~DeviationAboveThreshold(lastExchangeRate[k], lastExchangeRate'[k])
<1>1. adminCalls \in Nat
  BY DEF TypeOK, PricesTypeOK
<1>2. ~AdminCall
  BY <1>1 DEF AdminCall
<1>3. CASE UserStep
  <2>1. PICK a \in Accounts, key \in Keys :
            \/ \E x \in ExchangeAmounts, dest \in Keys : Exchange(a, key, x, dest)
            \/ \E x \in TransferAmounts, to \in Holders :
                   Transfer(a, to, key, x) \/ TransferAndSettle(a, to, key, x)
            \/ \E x \in TransferAmounts :
                   TransferToZero(a, key, x) \/ TransferToFeeAddress(a, key, x)
    BY <1>3 DEF UserStep
  <2>2. ASSUME NEW x \in ExchangeAmounts, NEW dest \in Keys, Exchange(a, key, x, dest)
        PROVE  ~DeviationAboveThreshold(lastExchangeRate[k], lastExchangeRate'[k])
    BY <2>2, ExchangePriceStep DEF Exchange
  <2>3. ASSUME NEW x \in TransferAmounts, TransferToFeeAddress(a, key, x)
        PROVE  ~DeviationAboveThreshold(lastExchangeRate[k], lastExchangeRate'[k])
    BY <2>3, KeysAssumption, ExchangePriceStep DEF TransferToFeeAddress, exchangeVars
  <2> QED
    BY <2>1, <2>2, <2>3 DEF Transfer, TransferAndSettle, TransferToZero, exchangeVars
<1>4. ~KeeperStep
  BY DEF KeeperStep, Settle, UpdateCachedPynthDebts, TakeDebtSnapshot,
         SuspendPynthWithInvalidRate, exchangeVars
<1>5. ~OwnerStep
  BY <1>2 DEF OwnerStep, ResetLastExchangeRate, ResumePynth, ConfigureInverse,
              SetInversePricing
<1>6. ~PriceStep /\ ~UNCHANGED vars
  BY DEF PriceStep, vars, exchangeVars
<1> QED
  BY <1>3, <1>4, <1>5, <1>6 DEF Next

-----------------------------------------------------------------------------
(* What settlements will take back is there.                               *)

Ended(entry) == now >= entry.timestamp + WaitingPeriodSecs

\* What an account has to keep for an entry: all it has received, until what
\* is to be given back is known.
Reserve(entry, k) ==
    IF ~Ended(entry) THEN entry.amountReceived
    ELSE IF Owed(entry, k) < 0 THEN -Owed(entry, k) ELSE 0

Reserves(a, k) ==
    [i \in DOMAIN exchanges[a][k] |-> Reserve(exchanges[a][k][i], k)]

Late(a, k) ==
    \E i \in DOMAIN exchanges[a][k] : PriceWasLate(exchanges[a][k][i], k)

RoundsKnown ==
    adminCalls = 0 => \A a \in Holders, k \in Keys : RoundsExist(a, k)

EntriesCovered ==
    adminCalls = 0 =>
        \A a \in Holders, k \in Keys :
            Late(a, k) \/ SumOf(Reserves(a, k)) <= balanceOf[k][a]

ReservesTyped ==
    \A a \in Holders, k \in Keys :
        /\ exchanges[a][k] \in Seq(Entry)
        /\ Len(exchanges[a][k]) \in Nat
        /\ DOMAIN exchanges[a][k] = 1..Len(exchanges[a][k])
        /\ \A i \in 1..Len(exchanges[a][k]) : exchanges[a][k][i] \in Entry
        /\ Reserves(a, k) \in [1..Len(exchanges[a][k]) -> Nat]
        /\ \A i \in 1..Len(exchanges[a][k]) :
               LET entry == exchanges[a][k][i]
               IN  /\ -Owed(entry, k) <= entry.amountReceived
                   /\ Owed(entry, k) \in Int

\* What is kept for an entry is a natural number.
LEMMA ReserveTypes == PricesTypeOK /\ QueuesTyped => ReservesTyped
<1> SUFFICES ASSUME PricesTypeOK, QueuesTyped, NEW a \in Holders, NEW k \in Keys
             PROVE  /\ exchanges[a][k] \in Seq(Entry)
                    /\ Len(exchanges[a][k]) \in Nat
                    /\ DOMAIN exchanges[a][k] = 1..Len(exchanges[a][k])
                    /\ \A i \in 1..Len(exchanges[a][k]) : exchanges[a][k][i] \in Entry
                    /\ Reserves(a, k) \in [1..Len(exchanges[a][k]) -> Nat]
                    /\ \A i \in 1..Len(exchanges[a][k]) :
                           LET entry == exchanges[a][k][i]
                           IN  /\ -Owed(entry, k) <= entry.amountReceived
                               /\ Owed(entry, k) \in Int
  BY DEF ReservesTyped
<1>1. /\ exchanges[a][k] \in Seq(Entry)
      /\ Len(exchanges[a][k]) \in Nat
      /\ DOMAIN exchanges[a][k] = 1..Len(exchanges[a][k])
      /\ \A i \in 1..Len(exchanges[a][k]) :
             LET entry == exchanges[a][k][i]
             IN  /\ entry \in Entry
                 /\ -Owed(entry, k) <= entry.amountReceived
                 /\ Owed(entry, k) \in Int
  BY OwedTypes DEF OwedTyped
<1>2. ASSUME NEW i \in 1..Len(exchanges[a][k])
      PROVE  Reserve(exchanges[a][k][i], k) \in Nat
  <2>1. PICK entry \in Entry : entry = exchanges[a][k][i]
    BY <1>1
  <2>2. Owed(entry, k) \in Int /\ entry.amountReceived \in Nat
    BY <1>1, <2>1 DEF Entry
  <2> QED
    BY <2>1, <2>2 DEF Reserve
<1> QED
  BY <1>1, <1>2 DEF Reserves

\* Without a change of the prices nothing changes for an entry.
LEMMA EntryUnchanged ==
    ASSUME UNCHANGED priceVars, NEW entry \in Entry, NEW k \in Keys
    PROVE  /\ Reserve(entry, k)' = Reserve(entry, k)
           /\ PriceWasLate(entry, k)' <=> PriceWasLate(entry, k)
<1>1. UNCHANGED <<now, rates, inversePricing, roundFrozen>>
  BY DEF priceVars
<1>2. ASSUME NEW key, NEW start, NEW end
      PROVE  LastRoundIdBefore(key, start, end)' = LastRoundIdBefore(key, start, end)
  BY <1>1 DEF LastRoundIdBefore, Round
<1>3. ASSUME NEW key, NEW r
      PROVE  RateAtRound(key, r)' = RateAtRound(key, r)
  BY <1>1 DEF RateAtRound, RateOrInverted, Round
<1>4. PICK x : x = RoundAtPeriodEnd(entry.src, entry.roundIdForSrc, entry)
  OBVIOUS
<1>5. PICK y : y = RoundAtPeriodEnd(k, entry.roundIdForDest, entry)
  OBVIOUS
<1>6. /\ RoundAtPeriodEnd(entry.src, entry.roundIdForSrc, entry)' = x
      /\ RoundAtPeriodEnd(k, entry.roundIdForDest, entry)' = y
  BY <1>2, <1>4, <1>5 DEF RoundAtPeriodEnd
<1>7. EffectiveValueAtRound(entry.src, entry.amount, k, x, y)'
          = EffectiveValueAtRound(entry.src, entry.amount, k, x, y)
  BY <1>3 DEF EffectiveValueAtRound
<1>8. PICK value : value = EffectiveValueAtRound(entry.src, entry.amount, k, x, y)
  OBVIOUS
<1>9. /\ AmountShouldHaveReceived(entry, k)
             = AmountReceivedForExchange(value, entry.exchangeFeeRate)
      /\ AmountShouldHaveReceived(entry, k)'
             = AmountReceivedForExchange(value, entry.exchangeFeeRate)
  BY <1>4, <1>5, <1>6, <1>7, <1>8 DEF AmountShouldHaveReceived
<1>10. AmountShouldHaveReceived(entry, k)' = AmountShouldHaveReceived(entry, k)
  BY <1>9
<1>11. Owed(entry, k)' = Owed(entry, k)
  BY <1>10 DEF Owed
<1>12. Reserve(entry, k)' = Reserve(entry, k)
  BY <1>1, <1>11 DEF Reserve, Ended
<1>13. PriceWasLate(entry, k)' <=> PriceWasLate(entry, k)
  BY <1>1 DEF PriceWasLate
<1> QED
  BY <1>12, <1>13

\* An account that may move a pynth keeps exactly what is reclaimed.
LEMMA ReservesWhenEnded ==
    ASSUME PricesTypeOK, QueuesTyped, NEW a \in Holders, NEW k \in Keys,
           ~InWaitingPeriod(a, k)
    PROVE  SumOf(Reserves(a, k)) = ReclaimAmount(a, k)
<1>1. ReservesTyped
  BY ReserveTypes
<1>2. ASSUME NEW i \in DOMAIN exchanges[a][k]
      PROVE  Reserve(exchanges[a][k][i], k)
                 = IF OwedList(a, k)[i] < 0 THEN -OwedList(a, k)[i] ELSE 0
  <2>1. PICK entry \in Entry : entry = exchanges[a][k][i]
    BY <1>1 DEF ReservesTyped
  <2>2. Ended(entry)
    <3>1. now \in Nat /\ entry.timestamp \in Nat /\ WaitingPeriodSecs \in Nat
      <4>1. now \in Nat
        BY DEF PricesTypeOK
      <4>2. entry.timestamp \in Nat
        BY DEF Entry
      <4> QED
        BY <4>1, <4>2, HoldersAssumption
    <3>2. ~(now < entry.timestamp + WaitingPeriodSecs)
      BY <2>1 DEF InWaitingPeriod
    <3> QED
      BY <3>1, <3>2 DEF Ended
  <2>3. OwedList(a, k)[i] = Owed(entry, k)
    BY <2>1 DEF OwedList
  <2> QED
    BY <2>1, <2>2, <2>3 DEF Reserve
<1>3. Reserves(a, k) = [i \in DOMAIN exchanges[a][k] |->
                            IF OwedList(a, k)[i] < 0 THEN -OwedList(a, k)[i] ELSE 0]
  BY <1>2 DEF Reserves
<1> QED
  BY <1>3 DEF ReclaimAmount

\* A step of users and keepers keeps every entry covered.
LEMMA HoldingsCovered ==
    ASSUME PricesTypeOK, PricesTypeOK', HoldingsTyped, HoldingsTyped',
           UNCHANGED priceVars, NEW a \in Holders, NEW k \in Keys,
           HoldingKept(a, k), Late(a, k) \/ SumOf(Reserves(a, k)) <= balanceOf[k][a]
    PROVE  Late(a, k)' \/ SumOf(Reserves(a, k)') <= balanceOf'[k][a]
<1>1. ReservesTyped /\ ReservesTyped'
  <2>1. (PricesTypeOK /\ QueuesTyped => ReservesTyped)'
    BY ReserveTypes, PTL
  <2> QED
    BY <2>1, ReserveTypes DEF HoldingsTyped
<1>2. balanceOf[k][a] \in Nat /\ balanceOf'[k][a] \in Nat
  BY DEF HoldingsTyped, BalancesTyped
<1>3. PICK q \in Seq(Entry) : q = exchanges[a][k]
  BY <1>1 DEF ReservesTyped
<1> DEFINE n == Len(q)
<1>4. /\ n \in Nat /\ DOMAIN q = 1..n /\ \A i \in 1..n : q[i] \in Entry
      /\ Reserves(a, k) = [i \in 1..n |-> Reserve(q[i], k)]
      /\ Reserves(a, k) \in [1..n -> Nat]
      /\ Late(a, k) <=> \E i \in 1..n : PriceWasLate(q[i], k)
  BY <1>1, <1>3 DEF ReservesTyped, Reserves, Late
<1>5. ASSUME NEW i \in 1..n
      PROVE  /\ Reserve(q[i], k)' = Reserve(q[i], k)
             /\ PriceWasLate(q[i], k)' <=> PriceWasLate(q[i], k)
  <2>1. PICK entry \in Entry : entry = q[i]
    BY <1>4
  <2> QED
    BY <2>1, EntryUnchanged
<1>6. SumOf(Reserves(a, k)) \in Nat
  <2>1. Reserves(a, k) \in Seq(Nat)
    BY <1>4, SeqDef
  <2> QED
    BY <2>1, SumOfType
<1>7. ASSUME exchanges'[a][k] = exchanges[a][k]
      PROVE  /\ Reserves(a, k)' = Reserves(a, k)
             /\ Late(a, k)' <=> Late(a, k)
  <2>1. /\ Reserves(a, k)' = [i \in 1..n |-> Reserve(q[i], k)']
        /\ Late(a, k)' <=> \E i \in 1..n : PriceWasLate(q[i], k)'
    BY <1>3, <1>4, <1>7 DEF Reserves, Late
  <2> QED
    BY <1>4, <1>5, <2>1
<1>8. CASE /\ exchanges'[a][k] = exchanges[a][k]
           /\ balanceOf'[k][a] >= balanceOf[k][a]
  <2>1. SumOf(Reserves(a, k)) <= balanceOf[k][a]
            => SumOf(Reserves(a, k)) <= balanceOf'[k][a]
    BY <1>2, <1>6, <1>8
  <2> QED
    BY <1>7, <1>8, <2>1
<1>9. CASE exchanges'[a][k] = <<>>
  <2>1. Reserves(a, k)' \in [1..0 -> Nat]
    <3>1. Len(exchanges'[a][k]) = 0
      BY <1>9
    <3> QED
      BY <1>1, <3>1 DEF ReservesTyped
  <2>2. PICK f : f = Reserves(a, k)'
    OBVIOUS
  <2>3. SumOf(f) = 0
    BY <2>1, <2>2, SumOfNothing
  <2> QED
    BY <1>2, <2>2, <2>3
<1>10. CASE /\ exchanges'[a][k] = exchanges[a][k]
            /\ ~InWaitingPeriod(a, k)
            /\ balanceOf'[k][a] >= ReclaimAmount(a, k)
  <2>1. SumOf(Reserves(a, k)) = ReclaimAmount(a, k)
    BY <1>10, ReservesWhenEnded DEF HoldingsTyped
  <2>2. SumOf(Reserves(a, k)) <= balanceOf'[k][a]
    BY <1>2, <1>6, <1>10, <2>1
  <2> QED
    BY <1>7, <1>10, <2>2
<1>11. ASSUME WaitingPeriodSecs > 0, NEW entry \in Entry,
              exchanges'[a][k] = Append(exchanges[a][k], entry),
              entry.timestamp = now,
              balanceOf'[k][a] >= balanceOf[k][a] + entry.amountReceived
       PROVE  Late(a, k)' \/ SumOf(Reserves(a, k)') <= balanceOf'[k][a]
  <2>1. PICK p : p = Append(q, entry)
    OBVIOUS
  <2>2. /\ exchanges'[a][k] = p /\ Len(p) = n + 1 /\ DOMAIN p = 1..(n + 1)
        /\ \A i \in 1..n : p[i] = q[i]
        /\ p[n + 1] = entry
    BY <1>3, <1>4, <1>11, <2>1
  <2>3. /\ Reserves(a, k)' = [i \in 1..(n + 1) |-> Reserve(p[i], k)']
        /\ Reserves(a, k)' \in [1..(n + 1) -> Nat]
        /\ Late(a, k)' <=> \E i \in 1..(n + 1) : PriceWasLate(p[i], k)'
    BY <1>1, <2>2 DEF Reserves, Late, ReservesTyped
  <2>4. Late(a, k) => Late(a, k)'
    BY <1>4, <1>5, <2>2, <2>3
  <2>5. Reserve(entry, k)' = entry.amountReceived
    <3>1. now \in Nat /\ now' = now
      BY DEF PricesTypeOK, priceVars
    <3>2. ~Ended(entry)'
      BY <1>11, <3>1, HoldersAssumption DEF Ended
    <3> QED
      BY <3>2 DEF Reserve
  <2>6. PICK f \in [1..n -> Nat], g \in [1..(n + 1) -> Nat] :
            f = Reserves(a, k) /\ g = Reserves(a, k)'
    BY <1>4, <2>3
  <2>7. \A i \in 1..n : g[i] = f[i]
    <3> SUFFICES ASSUME NEW i \in 1..n PROVE g[i] = f[i]
      OBVIOUS
    <3>1. g[i] = Reserve(p[i], k)' /\ p[i] = q[i]
      BY <1>4, <2>2, <2>3, <2>6
    <3>2. f[i] = Reserve(q[i], k)
      BY <1>4, <2>6
    <3>3. PICK e : e = q[i]
      OBVIOUS
    <3>4. Reserve(e, k)' = Reserve(e, k)
      BY <1>5, <3>3
    <3>5. Reserve(p[i], k)' = Reserve(e, k)'
      BY <3>1, <3>3
    <3> QED
      BY <3>1, <3>2, <3>3, <3>4, <3>5
  <2>8. g[n + 1] = entry.amountReceived
    <3>1. g[n + 1] = Reserve(p[n + 1], k)'
      BY <1>4, <2>3, <2>6
    <3> QED
      BY <2>2, <2>5, <3>1
  <2>9. SumOf(g) = SumOf(f) + g[n + 1]
    <3>1. n \in Nat /\ n + 1 \in Nat
      BY <1>4
    <3> HIDE DEF n
    <3>2. f \in Seq(Nat) /\ Len(f) = n
      BY <3>1, SeqDef
    <3>3. g \in Seq(Nat) /\ Len(g) = n + 1
      BY <3>1, SeqDef
    <3> QED
      BY <2>7, <3>2, <3>3, SumOfOneMore
  <2>10. SumOf(f) \in Nat /\ entry.amountReceived \in Nat
    BY <1>6, <2>6 DEF Entry
  <2>11. SumOf(f) <= balanceOf[k][a] => SumOf(g) <= balanceOf'[k][a]
    BY <1>2, <1>11, <2>8, <2>9, <2>10
  <2> QED
    BY <2>4, <2>6, <2>11
<1> QED
  BY <1>8, <1>9, <1>10, <1>11 DEF HoldingKept

\* What a step of the prices does to the rounds of one key: nothing, or a report
\* that the block timestamp is recorded for.
LEMMA PriceActionEffect ==
    ASSUME PricesInv, PricesStep, adminCalls' = adminCalls
    PROVE  /\ now' >= now
           /\ \A k \in Keys :
                  \/ rates'[k] = rates[k]
                  \/ /\ Len(rates'[k]) = Len(rates[k]) + 1
                     /\ rates'[k][Len(rates'[k])].posted = now
<1>1. PricesTypeOK /\ now \in Nat /\ adminCalls \in Nat
  BY DEF PricesInv, PricesTypeOK
<1>2. ~AdminCall
  BY <1>1 DEF AdminCall
<1>3. CASE Tick
  BY <1>1, <1>3 DEF Tick
<1>4. ASSUME NEW k \in Keys, FreezeRate(k)
      PROVE  now' = now /\ rates' = rates
  BY <1>4 DEF FreezeRate
<1>5. ASSUME NEW batch \in Batches, NEW t, UpdateRates(batch, t)
      PROVE  /\ now' = now
             /\ \A k \in Keys :
                    \/ rates'[k] = rates[k]
                    \/ /\ Len(rates'[k]) = Len(rates[k]) + 1
                       /\ rates'[k][Len(rates'[k])].posted = now
  BY <1>1, <1>5, UpdateRatesEffect DEF UpdateRates
<1> QED
  BY <1>1, <1>2, <1>3, <1>4, <1>5 DEF PricesStep, PriceAction

\* A price that was late remains in its round.
LEMMA LateRemains ==
    ASSUME PricesInv, PricesInv', RoundsFixed, NEW entry \in Entry, NEW k \in Keys,
           PriceWasLate(entry, k)
    PROVE  PriceWasLate(entry, k)'
<1> DEFINE end == entry.timestamp + WaitingPeriodSecs
<1>1. PICK key \in {entry.src, k} : \E r \in DOMAIN rates[key] :
          /\ r > IF key = k THEN entry.roundIdForDest ELSE entry.roundIdForSrc
          /\ rates[key][r].time <= end
          /\ rates[key][r].posted >= end
  BY DEF PriceWasLate
<1>2. PICK r \in DOMAIN rates[key] :
          /\ r > IF key = k THEN entry.roundIdForDest ELSE entry.roundIdForSrc
          /\ rates[key][r].time <= end
          /\ rates[key][r].posted >= end
  BY <1>1
<1>3. key \in Keys
  BY DEF Entry
<1>4. r \in 1..currentRoundForRate(key)
  BY <1>2, <1>3, RoundTimes DEF currentRoundForRate, PricesInv
<1>5. rates'[key][r] = rates[key][r]
  BY <1>3, <1>4 DEF RoundsFixed
<1>6. r \in DOMAIN rates'[key]
  <2>1. rates'[key] \in Seq(PriceRound) /\ rates[key] \in Seq(PriceRound)
    BY <1>3 DEF PricesInv, PricesTypeOK
  <2>2. /\ Len(rates[key]) \in Nat /\ Len(rates'[key]) \in Nat
        /\ DOMAIN rates'[key] = 1..Len(rates'[key])
    BY <2>1, LenProperties
  <2>3. Len(rates[key]) <= Len(rates'[key])
    BY <1>3 DEF RoundsFixed, currentRoundForRate
  <2> QED
    BY <1>4, <2>2, <2>3 DEF currentRoundForRate
<1> QED
  BY <1>2, <1>5, <1>6 DEF PriceWasLate

\* A step of the prices does not raise what an account has to keep for an entry,
\* unless it reports a price of the waiting period that is over.
LEMMA PriceEntryKept ==
    ASSUME PricesInv, PricesStep, adminCalls' = adminCalls,
           NEW entry \in Entry, NEW k \in Keys,
           entry.roundIdForSrc <= currentRoundForRate(entry.src),
           entry.roundIdForDest <= currentRoundForRate(k),
           Owed(entry, k)' \in Int, -Owed(entry, k)' <= entry.amountReceived
    PROVE  PriceWasLate(entry, k)' \/ Reserve(entry, k)' <= Reserve(entry, k)
<1> DEFINE end == entry.timestamp + WaitingPeriodSecs
<1>1. /\ entry.src \in Keys /\ entry.timestamp \in Nat
      /\ entry.amountReceived \in Nat /\ entry.roundIdForSrc \in Nat
      /\ entry.roundIdForDest \in Nat
  BY DEF Entry
<1>2. end \in Nat /\ now \in Nat /\ now' \in Nat /\ now' >= now
  <2>1. end \in Nat
    BY <1>1, HoldersAssumption
  <2>2. now \in Nat /\ now' \in Nat
    BY DEF PricesStep, PricesInv, PricesTypeOK
  <2> QED
    BY <2>1, <2>2, PriceActionEffect
<1>3. RoundsFixed
  BY StepFixed
<1>4. CASE ~Ended(entry)
  <2>1. Reserve(entry, k) = entry.amountReceived
    BY <1>4 DEF Reserve
  <2>2. \/ Reserve(entry, k)' = entry.amountReceived
        \/ Reserve(entry, k)' = -Owed(entry, k)'
        \/ Reserve(entry, k)' = 0
    BY DEF Reserve
  <2> QED
    BY <1>1, <2>1, <2>2
<1>5. ASSUME Ended(entry), NEW key \in {entry.src, k}, ~ReportedAfter(key, end)
      PROVE  PriceWasLate(entry, k)'
  <2>1. key \in Keys
    BY <1>1
  <2>2. /\ rates[key] \in Seq(PriceRound) /\ rates'[key] \in Seq(PriceRound)
    BY <2>1 DEF PricesStep, PricesInv, PricesTypeOK
  <2>3. /\ Len(rates[key]) \in Nat /\ Len(rates'[key]) \in Nat
        /\ DOMAIN rates'[key] = 1..Len(rates'[key])
    BY <2>2, LenProperties
  <2> DEFINE r == Len(rates'[key])
  <2>4. r > Len(rates[key]) /\ ~(rates'[key][r].time > end)
    BY <1>5 DEF ReportedAfter
  <2>5. r = Len(rates[key]) + 1 /\ rates'[key][r].posted = now
    BY <2>1, <2>3, <2>4, PriceActionEffect
  <2>6. r \in DOMAIN rates'[key]
    BY <2>3, <2>4
  <2>7. rates'[key][r] \in PriceRound
    BY <2>2, <2>3, <2>6, ElementOfSeq
  <2>8. rates'[key][r].time \in Nat
    BY <2>7 DEF PriceRound
  <2>9. rates'[key][r].time <= end /\ rates'[key][r].posted >= end
    BY <1>2, <1>5, <2>4, <2>5, <2>8 DEF Ended
  <2>10. r > IF key = k THEN entry.roundIdForDest ELSE entry.roundIdForSrc
    BY <1>1, <1>5, <2>3, <2>5 DEF currentRoundForRate
  <2> HIDE DEF r
  <2> QED
    BY <2>6, <2>9, <2>10 DEF PriceWasLate
<1>6. ASSUME Ended(entry), ReportedAfter(entry.src, end), ReportedAfter(k, end)
      PROVE  Reserve(entry, k)' <= Reserve(entry, k)
  <2>1. Owed(entry, k)' = Owed(entry, k)
    BY <1>3, <1>6, OwedFixed DEF PricesInv
  <2>2. Ended(entry)'
    BY <1>1, <1>2, <1>6 DEF Ended
  <2>3. Reserve(entry, k)' = Reserve(entry, k)
    BY <1>6, <2>1, <2>2 DEF Reserve
  <2>4. Reserve(entry, k)' \in Int
    <3>1. \/ Reserve(entry, k)' = entry.amountReceived
          \/ Reserve(entry, k)' = -Owed(entry, k)'
          \/ Reserve(entry, k)' = 0
      BY DEF Reserve
    <3> QED
      BY <1>1, <3>1
  <2> QED
    BY <2>3, <2>4
<1> QED
  BY <1>4, <1>5, <1>6

\* A step of the prices keeps every entry covered.
LEMMA PricesCovered ==
    ASSUME PricesInv, HoldingsTyped, PricesStep, adminCalls' = adminCalls,
           NEW a \in Holders, NEW k \in Keys, RoundsExist(a, k),
           Late(a, k) \/ SumOf(Reserves(a, k)) <= balanceOf[k][a]
    PROVE  Late(a, k)' \/ SumOf(Reserves(a, k)') <= balanceOf'[k][a]
<1>1. PricesInv' /\ HoldingsTyped' /\ RoundsFixed
  BY StepFixed DEF PricesStep, HoldingsTyped, BalancesTyped, QueuesTyped
<1>2. ReservesTyped /\ ReservesTyped'
  <2>1. (PricesTypeOK /\ QueuesTyped => ReservesTyped)'
    BY ReserveTypes, PTL
  <2> QED
    BY <1>1, <2>1, ReserveTypes DEF HoldingsTyped, PricesInv
<1>3. balanceOf' = balanceOf /\ exchanges' = exchanges
  BY DEF PricesStep
<1>4. balanceOf[k][a] \in Nat
  BY DEF HoldingsTyped, BalancesTyped
<1>5. PICK q \in Seq(Entry) : q = exchanges[a][k]
  BY <1>2 DEF ReservesTyped
<1> DEFINE n == Len(q)
<1>6. /\ n \in Nat /\ DOMAIN q = 1..n /\ \A i \in 1..n : q[i] \in Entry
      /\ Reserves(a, k) = [i \in 1..n |-> Reserve(q[i], k)]
      /\ Reserves(a, k) \in [1..n -> Nat]
      /\ Late(a, k) <=> \E i \in 1..n : PriceWasLate(q[i], k)
  BY <1>2, <1>5 DEF ReservesTyped, Reserves, Late
<1>7. /\ Reserves(a, k)' = [i \in 1..n |-> Reserve(q[i], k)']
      /\ Reserves(a, k)' \in [1..n -> Nat]
      /\ Late(a, k)' <=> \E i \in 1..n : PriceWasLate(q[i], k)'
  BY <1>2, <1>3, <1>5, <1>6 DEF ReservesTyped, Reserves, Late
<1>8. Late(a, k) => Late(a, k)'
  <2>1. ASSUME NEW i \in 1..n, PriceWasLate(q[i], k)
        PROVE  PriceWasLate(q[i], k)'
    <3>1. PICK entry \in Entry : entry = q[i]
      BY <1>6
    <3> QED
      BY <1>1, <2>1, <3>1, LateRemains
  <2> QED
    BY <1>6, <1>7, <2>1
<1>9. ASSUME NEW i \in 1..n, ~Late(a, k)'
      PROVE  Reserve(q[i], k)' <= Reserve(q[i], k)
  <2>1. PICK entry \in Entry : entry = q[i]
    BY <1>6
  <2>2. /\ entry.roundIdForSrc <= currentRoundForRate(entry.src)
        /\ entry.roundIdForDest <= currentRoundForRate(k)
    BY <1>5, <1>6, <2>1 DEF RoundsExist
  <2>3. Owed(entry, k)' \in Int /\ -Owed(entry, k)' <= entry.amountReceived
    BY <1>2, <1>3, <1>5, <2>1 DEF ReservesTyped
  <2>4. ~PriceWasLate(entry, k)'
    BY <1>7, <1>9, <2>1
  <2> QED
    BY <2>1, <2>2, <2>3, <2>4, PriceEntryKept
<1>10. PICK f \in [1..n -> Nat], g \in [1..n -> Nat] :
           f = Reserves(a, k) /\ g = Reserves(a, k)'
  BY <1>6, <1>7
<1>11. ASSUME ~Late(a, k)'
       PROVE  SumOf(g) <= SumOf(f)
  <2>1. \A i \in 1..n : g[i] <= f[i]
    BY <1>6, <1>7, <1>9, <1>10, <1>11
  <2> QED
    BY <1>6, <2>1, SumOfWithin
<1>12. SumOf(f) \in Nat /\ SumOf(g) \in Nat
  <2>1. f \in Seq(Nat) /\ g \in Seq(Nat)
    BY <1>6, SeqDef
  <2> QED
    BY <2>1, SumOfType
<1> QED
  BY <1>3, <1>4, <1>8, <1>10, <1>11, <1>12

\* An account that has what it must keep can give back what is reclaimed.
LEMMA CoveredAffordable ==
    ASSUME PricesTypeOK, HoldingsTyped, NEW a \in Holders, NEW k \in Keys,
           SumOf(Reserves(a, k)) <= balanceOf[k][a]
    PROVE  BalanceAfterSettlement(a, k) >= 0
<1>1. ReservesTyped /\ OwedTyped
  BY ReserveTypes, OwedTypes DEF HoldingsTyped
<1>2. balanceOf[k][a] \in Nat
  BY DEF HoldingsTyped, BalancesTyped
<1>3. ReclaimAmount(a, k) \in Nat /\ RebateAmount(a, k) \in Nat
  BY <1>1 DEF OwedTyped
<1> DEFINE n == Len(exchanges[a][k])
           f == [i \in DOMAIN exchanges[a][k] |->
                     IF OwedList(a, k)[i] < 0 THEN -OwedList(a, k)[i] ELSE 0]
<1>4. n \in Nat /\ DOMAIN exchanges[a][k] = 1..n /\ Reserves(a, k) \in [1..n -> Nat]
  BY <1>1 DEF ReservesTyped
<1>5. ASSUME NEW i \in 1..n
      PROVE  f[i] \in Nat /\ f[i] <= Reserves(a, k)[i]
  <2>1. PICK entry \in Entry : entry = exchanges[a][k][i]
    BY <1>1 DEF ReservesTyped
  <2>2. Owed(entry, k) \in Int /\ -Owed(entry, k) <= entry.amountReceived
    BY <1>1, <2>1 DEF ReservesTyped
  <2>3. entry.amountReceived \in Nat
    BY DEF Entry
  <2>4. f[i] = IF Owed(entry, k) < 0 THEN -Owed(entry, k) ELSE 0
    BY <1>4, <2>1 DEF OwedList
  <2>5. Reserves(a, k)[i] = Reserve(entry, k)
    BY <1>4, <2>1 DEF Reserves
  <2> HIDE DEF f
  <2> QED
    BY <2>2, <2>3, <2>4, <2>5 DEF Reserve
<1>6. f \in [1..n -> Nat]
  BY <1>4, <1>5
<1>7. ReclaimAmount(a, k) = SumOf(f)
  BY DEF ReclaimAmount
<1> HIDE DEF f
<1>8. SumOf(f) <= SumOf(Reserves(a, k))
  BY <1>4, <1>5, <1>6, SumOfWithin
<1>9. SumOf(Reserves(a, k)) \in Nat
  <2>1. Reserves(a, k) \in Seq(Nat)
    BY <1>4, SeqDef
  <2> QED
    BY <2>1, SumOfType
<1> QED
  BY <1>2, <1>3, <1>7, <1>8, <1>9 DEF BalanceAfterSettlement, NetRefund

\* The rounds of an exchange are there, unless the owner deletes some.
LEMMA RoundsStayKnown ==
    ASSUME PricesInv, HoldingsTyped, HoldingsTyped', HoldingsStep \/ PricesStep,
           adminCalls' = adminCalls, NEW a \in Holders, NEW k \in Keys,
           RoundsExist(a, k)
    PROVE  RoundsExist(a, k)'
<1>1. RoundsFixed
  BY StepFixed
<1>2. PricesInv'
  BY PricesInvUnchanged DEF HoldingsStep, PricesStep
<1>3. ASSUME NEW entry \in Entry,
             entry.roundIdForSrc <= currentRoundForRate(entry.src),
             entry.roundIdForDest <= currentRoundForRate(k)
      PROVE  /\ entry.roundIdForSrc <= currentRoundForRate(entry.src)'
             /\ entry.roundIdForDest <= currentRoundForRate(k)'
  <2>1. /\ entry.src \in Keys
        /\ entry.roundIdForSrc \in Nat /\ entry.roundIdForDest \in Nat
    BY DEF Entry
  <2>2. \A key \in Keys : /\ currentRoundForRate(key) \in Nat
                          /\ currentRoundForRate(key)' \in Nat
    BY <1>2, LenProperties DEF PricesInv, PricesTypeOK, currentRoundForRate
  <2>3. \A key \in Keys : currentRoundForRate(key) <= currentRoundForRate(key)'
    BY <1>1 DEF RoundsFixed
  <2> QED
    BY <1>3, <2>1, <2>2, <2>3
<1>4. PICK q \in Seq(Entry), p \in Seq(Entry) :
          q = exchanges[a][k] /\ p = exchanges'[a][k]
  BY DEF HoldingsTyped, QueuesTyped
<1>5. /\ \A i \in DOMAIN q : q[i] \in Entry
      /\ \A i \in DOMAIN p : p[i] \in Entry
  BY ElementOfSeq, LenProperties
<1>6. \A i \in DOMAIN q : /\ q[i].roundIdForSrc <= currentRoundForRate(q[i].src)
                          /\ q[i].roundIdForDest <= currentRoundForRate(k)
  BY <1>4 DEF RoundsExist
<1>7. ASSUME NEW i \in DOMAIN p
      PROVE  /\ p[i].roundIdForSrc <= currentRoundForRate(p[i].src)
             /\ p[i].roundIdForDest <= currentRoundForRate(k)
  <2>1. CASE p = q
    BY <1>6, <1>7, <2>1
  <2>2. CASE p = <<>>
    BY <1>7, <2>2
  <2>3. ASSUME NEW entry \in Entry, p = Append(q, entry),
               entry.roundIdForSrc = currentRoundForRate(entry.src),
               entry.roundIdForDest = currentRoundForRate(k)
        PROVE  /\ p[i].roundIdForSrc <= currentRoundForRate(p[i].src)
               /\ p[i].roundIdForDest <= currentRoundForRate(k)
    <3>1. /\ Len(q) \in Nat /\ DOMAIN q = 1..Len(q)
          /\ DOMAIN p = 1..(Len(q) + 1)
          /\ \A j \in 1..Len(q) : p[j] = q[j]
          /\ p[Len(q) + 1] = entry
      BY <2>3, LenProperties
    <3>2. entry.roundIdForSrc \in Nat /\ entry.roundIdForDest \in Nat
      BY DEF Entry
    <3>3. CASE i \in DOMAIN q
      BY <1>6, <3>1, <3>3
    <3>4. CASE i = Len(q) + 1
      BY <2>3, <3>1, <3>2, <3>4
    <3> QED
      BY <1>7, <3>1, <3>3, <3>4
  <2> QED
    BY <1>4, <2>1, <2>2, <2>3
       DEF HoldingsStep, HoldingsKept, HoldingKept, PricesStep
<1>8. ASSUME NEW i \in DOMAIN p
      PROVE  /\ p[i].roundIdForSrc <= currentRoundForRate(p[i].src)'
             /\ p[i].roundIdForDest <= currentRoundForRate(k)'
  <2>1. PICK entry \in Entry : entry = p[i]
    BY <1>5, <1>8
  <2>2. /\ entry.roundIdForSrc <= currentRoundForRate(entry.src)
        /\ entry.roundIdForDest <= currentRoundForRate(k)
    BY <1>7, <1>8, <2>1
  <2> QED
    BY <1>3, <2>1, <2>2
<1> QED
  BY <1>4, <1>8 DEF RoundsExist

\* The inductive invariant: with the types and the cache, every account keeps
\* what its entries may cost it, and the rounds of its entries are known.
ExchangerInv == CacheInv /\ RoundsKnown /\ EntriesCovered

\* Nothing waits in the deployed system.
LEMMA InitExchangerInv == Init => ExchangerInv
<1> SUFFICES ASSUME Init PROVE ExchangerInv
  OBVIOUS
<1>1. CacheInv
  BY InitCacheInv
<1>2. PricesTypeOK /\ HoldingsTyped
  BY <1>1, TypeOKParts DEF CacheInv
<1>3. ReservesTyped
  BY <1>2, ReserveTypes DEF HoldingsTyped
<1>4. ASSUME NEW a \in Holders, NEW k \in Keys
      PROVE  exchanges[a][k] = <<>>
  BY DEF Init
<1>5. RoundsKnown
  BY <1>4 DEF RoundsKnown, RoundsExist
<1>6. ASSUME NEW a \in Holders, NEW k \in Keys
      PROVE  SumOf(Reserves(a, k)) <= balanceOf[k][a]
  <2>1. Reserves(a, k) \in [1..0 -> Nat]
    <3>1. Len(exchanges[a][k]) = 0
      BY <1>4
    <3> QED
      BY <1>3, <3>1 DEF ReservesTyped
  <2>2. SumOf(Reserves(a, k)) = 0
    BY <2>1, SumOfNothing
  <2>3. balanceOf[k][a] \in Nat
    BY <1>2 DEF HoldingsTyped, BalancesTyped
  <2> QED
    BY <2>2, <2>3
<1>7. EntriesCovered
  BY <1>6 DEF EntriesCovered
<1> QED
  BY <1>1, <1>5, <1>7 DEF ExchangerInv

\* Every step keeps it.
LEMMA NextExchangerInv == ExchangerInv /\ [Next]_vars => ExchangerInv'
<1> SUFFICES ASSUME ExchangerInv, [Next]_vars PROVE ExchangerInv'
  OBVIOUS
<1>1. CacheInv /\ CacheInv' /\ TypeOK /\ TypeOK' /\ PricesInv
  BY NextCacheInv DEF ExchangerInv, CacheInv
<1>2. PricesTypeOK /\ HoldingsTyped
  BY <1>1, TypeOKParts
<1>3. PricesTypeOK' /\ HoldingsTyped'
  <2>1. (TypeOK <=> PricesTypeOK /\ HoldingsTyped /\ CacheTyped /\ OthersTyped)'
    BY TypeOKParts, PTL
  <2> QED
    BY <1>1, <2>1
<1>4. HoldingsStep \/ PricesStep
  BY <1>1, StepKinds
<1>5. adminCalls' = 0 => adminCalls' = adminCalls
  <2>1. adminCalls \in Nat
    BY <1>2 DEF PricesTypeOK
  <2>2. AdminCall => adminCalls' # 0
    BY <2>1 DEF AdminCall
  <2> QED
    BY <1>4, <2>2
       DEF HoldingsStep, PricesStep, PriceAction, priceVars, UpdateRates,
           FreezeRate, Tick
<1>6. RoundsKnown'
  <2> SUFFICES ASSUME adminCalls' = 0, NEW a \in Holders, NEW k \in Keys
               PROVE  RoundsExist(a, k)'
    BY DEF RoundsKnown
  <2>1. adminCalls' = adminCalls /\ RoundsExist(a, k)
    BY <1>5 DEF ExchangerInv, RoundsKnown
  <2> QED
    BY <1>1, <1>2, <1>3, <1>4, <2>1, RoundsStayKnown
<1>7. EntriesCovered'
  <2> SUFFICES ASSUME adminCalls' = 0, NEW a \in Holders, NEW k \in Keys
               PROVE  Late(a, k)' \/ SumOf(Reserves(a, k)') <= balanceOf'[k][a]
    BY DEF EntriesCovered
  <2>1. /\ adminCalls' = adminCalls /\ RoundsExist(a, k)
        /\ Late(a, k) \/ SumOf(Reserves(a, k)) <= balanceOf[k][a]
    BY <1>5 DEF ExchangerInv, RoundsKnown, EntriesCovered
  <2>2. CASE HoldingsStep
    BY <1>2, <1>3, <2>1, <2>2, HoldingsCovered DEF HoldingsStep, HoldingsKept
  <2>3. CASE PricesStep
    BY <1>1, <1>2, <2>1, <2>3, PricesCovered
  <2> QED
    BY <1>4, <2>2, <2>3
<1> QED
  BY <1>1, <1>6, <1>7 DEF ExchangerInv

\* The inductive invariant holds in every state.
LEMMA ExchangerInvAlways == Spec => []ExchangerInv
<1> QED
  BY InitExchangerInv, NextExchangerInv, PTL DEF Spec

\* What has to be given back is there: no settlement reverts for lack of balance,
\* unless a price was late or the owner changed prices.
THEOREM SettlementAlwaysAffordable == Spec => []SettlementAffordable
<1>1. ExchangerInv => SettlementAffordable
  <2> SUFFICES ASSUME ExchangerInv, NEW a \in Holders, NEW k \in Keys,
                      ~(adminCalls > 0), ~Late(a, k)
               PROVE  BalanceAfterSettlement(a, k) >= 0
    BY DEF SettlementAffordable, Late
  <2>1. PricesTypeOK /\ HoldingsTyped
    BY TypeOKParts DEF ExchangerInv, CacheInv
  <2>2. adminCalls = 0
    BY <2>1 DEF PricesTypeOK
  <2>3. SumOf(Reserves(a, k)) <= balanceOf[k][a]
    BY <2>2 DEF ExchangerInv, EntriesCovered
  <2> QED
    BY <2>1, <2>3, CoveredAffordable
<1> QED
  BY <1>1, ExchangerInvAlways, PTL

\* What is owed for an exchange is final when its waiting period is over, unless a
\* price of that period arrives late or the owner intervenes.
THEOREM OwedAlwaysFinal == Spec => OwedIsFinal
<1>1. ASSUME CacheInv, [Next]_vars
      PROVE  [ \A a \in Holders, k \in Keys :
                   /\ exchanges'[a][k] = exchanges[a][k]
                   /\ adminCalls' = adminCalls
                   /\ RoundsExist(a, k)
                   /\ \A end \in PeriodEnds(a, k) : now >= end /\ ~ReportsUntil(end)
                   => OwedList(a, k)' = OwedList(a, k)
             ]_vars
  BY <1>1, OwedStep DEF CacheInv
<1> QED
  BY <1>1, CacheInvAlways, PTL DEF Spec, OwedIsFinal

\* A frozen price holds, whatever the oracle reports, until the owner intervenes.
THEOREM FrozenPriceAlwaysHolds == Spec => FrozenPriceHolds
<1>1. ASSUME CacheInv, [Next]_vars
      PROVE  [ \A k \in Keys :
                   /\ Frozen(k)
                   /\ Frozen(k)'
                   /\ Rate(k) > 0
                   /\ currentRoundForRate(k) >= roundFrozen[k]
                   /\ adminCalls' = adminCalls
                   => Rate(k)' = Rate(k)
             ]_vars
  BY <1>1, FrozenStep DEF CacheInv
<1> QED
  BY <1>1, CacheInvAlways, PTL DEF Spec, FrozenPriceHolds

\* From one exchange to the next the price of a pynth moves by less than the
\* threshold of the circuit breaker, unless the owner resets it.
THEOREM PriceStepsAlwaysBounded == Spec => PriceStepsBounded
<1>1. ASSUME CacheInv, [Next]_vars
      PROVE  [ \A k \in Keys :
                   /\ lastExchangeRate[k] > 0
                   /\ lastExchangeRate'[k] # lastExchangeRate[k]
                   /\ adminCalls' = adminCalls
                   => ~DeviationAboveThreshold(lastExchangeRate[k],
                                               lastExchangeRate'[k])
             ]_vars
  BY <1>1, PricesStepBounded DEF CacheInv
<1> QED
  BY <1>1, CacheInvAlways, PTL DEF Spec, PriceStepsBounded

-----------------------------------------------------------------------------
(* What the holders of all pynths have or are owed, at current prices.    *)

\* A finite set of integers that is not empty has a greatest element.
LEMMA GreatestExists ==
    ASSUME NEW S \in SUBSET Int, IsFiniteSet(S), S # {}
    PROVE  Max(S) \in S /\ \A x \in S : x <= Max(S)
<1> DEFINE Good == {T \in SUBSET S : T = {} \/ \E x \in T : \A y \in T : x >= y}
<1>1. {} \in Good
  OBVIOUS
<1>2. ASSUME NEW T \in SUBSET S, NEW x \in S \ T, T \in Good
      PROVE  T \cup {x} \in Good
  <2>1. CASE T = {}
    <3>1. x \in T \cup {x} /\ \A y \in T \cup {x} : x >= y
      BY <2>1
    <3> QED
      BY <3>1
  <2>2. ASSUME NEW m \in T, \A y \in T : m >= y
        PROVE  T \cup {x} \in Good
    <3>1. CASE m >= x
      BY <2>2, <3>1
    <3>2. CASE x >= m
      <4>1. \A y \in T \cup {x} : x >= y
        BY <2>2, <3>2
      <4> QED
        BY <4>1
    <3> QED
      BY <3>1, <3>2
  <2> QED
    BY <1>2, <2>1, <2>2
<1>3. S \in Good
  <2> HIDE DEF Good
  <2> QED
    BY <1>1, <1>2, AddOneInduction
<1>4. \E x \in S : \A y \in S : x >= y
  BY <1>3
<1> QED
  BY <1>4 DEF Max

-----------------------------------------------------------------------------
(* Roundings.                                                              *)

\* A quotient with one digit more, rounded half up, is within half of the divisor.
LEMMA RoundedQuotient ==
    ASSUME NEW p \in Nat, NEW u \in Nat \ {0}
    PROVE  LET q == (p \div u + 5) \div 10
           IN  /\ q \in Nat
               /\ 10 * (u * q) <= p + 5 * u
               /\ p + 5 * u < 10 * (u * q) + 10 * u
<1>1. PICK n \in Nat, r \in 0..(u - 1) : n = p \div u /\ p = u * n + r
  <2>1. PICK n \in Nat : n = p \div u
    BY DivisionType
  <2>2. u * n <= p /\ p < u * n + u
    BY <2>1
  <2>3. u * n \in Nat
    BY ProductType
  <2>4. p - u * n \in 0..(u - 1) /\ p = u * n + (p - u * n)
    BY <2>2, <2>3
  <2> QED
    BY <2>1, <2>4
<1>2. PICK q \in Nat, s \in 0..9 : q = (n + 5) \div 10 /\ n = 10 * q + s - 5
  <2>1. PICK q \in Nat : q = (n + 5) \div 10
    BY DivisionType
  <2>2. n + 5 - 10 * q \in 0..9 /\ n = 10 * q + (n + 5 - 10 * q) - 5
    BY <2>1
  <2> QED
    BY <2>1, <2>2
<1>3. u * n = 10 * (u * q) + u * s - 5 * u
  <2>1. u * n = u * (10 * q + s - 5)
    BY <1>2
  <2>2. u * (10 * q + s - 5) = 10 * (u * q) + u * s - 5 * u
    OBVIOUS
  <2> QED
    BY <2>1, <2>2
<1>4. u * s \in 0..(9 * u)
  OBVIOUS
<1>5. u * q \in Nat /\ u * n \in Nat
  BY ProductType
<1>6. p + 5 * u = 10 * (u * q) + u * s + r
  BY <1>1, <1>3, <1>4, <1>5
<1>7. /\ 10 * (u * q) <= p + 5 * u
      /\ p + 5 * u < 10 * (u * q) + 10 * u
  BY <1>4, <1>5, <1>6
<1> QED
  BY <1>1, <1>2, <1>7

\* A product is rounded by at most half of Unit.
LEMMA RoundedProduct ==
    ASSUME NEW x \in Nat, NEW y \in Nat
    PROVE  2 * (Unit * MultiplyDecimalRound(x, y)) - 2 * (x * y) \in -Unit..Unit
<1> DEFINE u == Unit \div 10
           p == x * y
           q == (p \div u + 5) \div 10
<1>1. u \in Nat \ {0} /\ Unit = 10 * u
  BY UnitAssumption
<1>2. p \in Nat
  BY ProductType
<1> HIDE DEF u, p
<1>3. /\ q \in Nat
      /\ 10 * (u * q) <= p + 5 * u
      /\ p + 5 * u < 10 * (u * q) + 10 * u
  BY <1>1, <1>2, RoundedQuotient
<1>4. MultiplyDecimalRound(x, y) = q
  BY DEF MultiplyDecimalRound, MultiplyRound, u, p
<1> HIDE DEF q
<1>5. u * q \in Nat /\ Unit * q = 10 * (u * q)
  BY <1>1, <1>3, ProductType
<1>6. 2 * (Unit * q) - 2 * p \in -Unit..Unit
  BY <1>1, <1>2, <1>3, <1>5
<1> QED
  BY <1>4, <1>6 DEF p

\* A quotient is rounded by at most half of the divisor.
LEMMA RoundedDivision ==
    ASSUME NEW x \in Nat, NEW y \in Nat \ {0}
    PROVE  2 * (y * DivideDecimalRound(x, y)) - 2 * (x * Unit) \in -y..y
<1> DEFINE p == x * (Unit * 10)
           q == (p \div y + 5) \div 10
<1>1. Unit \in Nat /\ x * Unit \in Nat /\ p = 10 * (x * Unit)
  BY UnitAssumption, ProductType
<1>2. p \in Nat
  BY <1>1
<1> HIDE DEF p
<1>3. /\ q \in Nat
      /\ 10 * (y * q) <= p + 5 * y
      /\ p + 5 * y < 10 * (y * q) + 10 * y
  BY <1>2, RoundedQuotient
<1>4. DivideDecimalRound(x, y) = q
  BY DEF DivideDecimalRound, DivideRound, p
<1> HIDE DEF q
<1>5. y * q \in Nat
  BY <1>3, ProductType
<1>6. 2 * (y * q) - 2 * (x * Unit) \in -y..y
  BY <1>1, <1>3, <1>5
<1> QED
  BY <1>4, <1>6

\* What is worth an amount of another pynth, at their prices: the value in dollars
\* is rounded, and the amount of that value.
LEMMA RoundedConversion ==
    ASSUME NEW amount \in Nat, NEW x \in Nat, NEW y \in Nat \ {0}
    PROVE  2 * (y * Convert(amount, x, y)) - 2 * (amount * x)
               \in -(Unit + y)..(Unit + y)
<1> DEFINE usd == MultiplyDecimalRound(amount, x)
           value == DivideDecimalRound(usd, y)
<1>1. usd \in Nat /\ Unit \in Nat
  BY DecimalTypes, UnitAssumption
<1>2. 2 * (Unit * usd) - 2 * (amount * x) \in -Unit..Unit
  BY RoundedProduct
<1> HIDE DEF usd
<1>3. 2 * (y * value) - 2 * (usd * Unit) \in -y..y
  BY <1>1, RoundedDivision
<1>4. value \in Nat
  BY <1>1, DecimalTypes
<1> HIDE DEF value
<1>5. amount * x \in Nat /\ y * value \in Nat /\ usd * Unit \in Nat
      /\ usd * Unit = Unit * usd
  BY <1>1, <1>4, ProductType
<1>6. 2 * (y * value) - 2 * (amount * x) \in -(Unit + y)..(Unit + y)
  BY <1>1, <1>2, <1>3, <1>5
<1>7. Convert(amount, x, y) = value
  BY DEF Convert, usd, value
<1> QED
  BY <1>6, <1>7

\* An amount times Unit, divided by it, is the amount.
LEMMA ExactProduct ==
    ASSUME NEW x \in Nat
    PROVE  /\ MultiplyDecimalRound(x, Unit) = x
           /\ DivideDecimalRound(x, Unit) = x
<1> DEFINE q == MultiplyDecimalRound(x, Unit)
           d == DivideDecimalRound(x, Unit)
<1>1. /\ Unit \in Nat \ {0}
      /\ q \in Nat /\ d \in Nat
      /\ 2 * (Unit * q) - 2 * (x * Unit) \in -Unit..Unit
      /\ 2 * (Unit * d) - 2 * (x * Unit) \in -Unit..Unit
  BY UnitAssumption, DecimalTypes, RoundedProduct, RoundedDivision
<1> HIDE DEF q, d
<1>2. ASSUME NEW z \in Nat, 2 * (Unit * z) - 2 * (x * Unit) \in -Unit..Unit
      PROVE  z = x
  <2>1. Unit * (z - x) = Unit * z - x * Unit /\ Unit * (z - x) \in Int
    BY <1>1
  <2>2. CASE z - x >= 1
    <3>1. Unit * (z - x) >= Unit
      BY <1>1, <2>2
    <3> QED
      BY <1>1, <1>2, <2>1, <3>1
  <2>3. CASE z - x <= -1
    <3>1. Unit * (z - x) <= -Unit
      BY <1>1, <2>3
    <3> QED
      BY <1>1, <1>2, <2>1, <3>1
  <2> QED
    BY <2>2, <2>3
<1> QED
  BY <1>1, <1>2 DEF q, d

-----------------------------------------------------------------------------
(* The price of a dollar.                                                  *)

DollarFixed ==
    /\ inversePricing[pUSD] = NoInverse
    /\ Len(rates[pUSD]) = 1
    /\ rates[pUSD][1].rate = Unit

\* Nobody reports, deletes, inverts or freezes the price of a dollar.
LEMMA DollarStays ==
    ASSUME TypeOK, DollarFixed, [Next]_vars
    PROVE  DollarFixed'
<1>1. pUSD \in Keys
  BY KeysAssumption
<1>2. SUFFICES inversePricing'[pUSD] = inversePricing[pUSD] /\ rates'[pUSD] = rates[pUSD]
  BY DEF DollarFixed
<1>3. /\ rates \in [Keys -> Seq(PriceRound)]
      /\ inversePricing \in [Keys -> InverseConfig]
  BY TypeOKParts DEF PricesTypeOK
<1>4. CASE UserStep \/ KeeperStep
  BY <1>4, UserAndKeeperKept DEF HoldingsStep, priceVars
<1>5. CASE OwnerStep
  <2>1. ASSUME NEW k \in Keys, NEW config \in InverseConfigs[k],
               ConfigureInverse(k, config)
        PROVE  inversePricing'[pUSD] = inversePricing[pUSD] /\ rates' = rates
    <3>1. k # pUSD
      BY <2>1, InverseAssumption
    <3> QED
      BY <1>1, <1>3, <2>1, <3>1 DEF ConfigureInverse, SetInversePricing
  <2> QED
    BY <1>5, <2>1 DEF OwnerStep, ResetLastExchangeRate, ResumePynth
<1>6. CASE PriceStep
  <2>1. ASSUME NEW batch \in Batches, NEW t, UpdateRates(batch, t)
        PROVE  rates'[pUSD] = rates[pUSD] /\ inversePricing' = inversePricing
    <3>1. pUSD \notin DOMAIN batch
      BY KeysAssumption
    <3> QED
      BY <1>1, <2>1, <3>1 DEF UpdateRates
  <2>2. ASSUME NEW k \in Keys \ {pUSD}, DeleteRate(k)
        PROVE  rates'[pUSD] = rates[pUSD] /\ inversePricing' = inversePricing
    BY <1>1, <1>3, <2>2 DEF DeleteRate
  <2>3. inversePricing[pUSD].entryPoint = 0
    BY DEF DollarFixed, NoInverse
  <2>4. ASSUME NEW k \in Keys, RemoveInversePricing(k)
        PROVE  rates' = rates /\ inversePricing'[pUSD] = inversePricing[pUSD]
    <3>1. k # pUSD
      BY <2>3, <2>4 DEF RemoveInversePricing
    <3> QED
      BY <1>1, <1>3, <2>4, <3>1 DEF RemoveInversePricing
  <2>5. ASSUME NEW k \in Keys, FreezeRate(k)
        PROVE  rates' = rates /\ inversePricing'[pUSD] = inversePricing[pUSD]
    <3>1. k # pUSD
      BY <2>3, <2>5 DEF FreezeRate
    <3> QED
      BY <1>1, <1>3, <2>5, <3>1 DEF FreezeRate
  <2> QED
    BY <1>6, <2>1, <2>2, <2>4, <2>5 DEF PriceStep, Tick
<1>7. CASE UNCHANGED vars
  BY <1>7 DEF vars, priceVars
<1> QED
  BY <1>4, <1>5, <1>6, <1>7 DEF Next

\* It is Unit.
LEMMA DollarPrice ==
    ASSUME PricesTypeOK, DollarFixed
    PROVE  Rate(pUSD) = Unit
<1>1. pUSD \in Keys /\ Unit # 0
  BY KeysAssumption, UnitAssumption
<1>2. Round(pUSD, currentRoundForRate(pUSD)).rate = Unit
  BY <1>1, RoundTimes DEF DollarFixed, currentRoundForRate
<1>3. inversePricing[pUSD].entryPoint = 0
  BY DEF DollarFixed, NoInverse
<1> QED
  BY <1>2, <1>3 DEF Rate, RateAtRound, RateOrInverted

-----------------------------------------------------------------------------
(* Entries at the current prices.                                          *)

\* What is owed for an entry does not change while the prices do not.
LEMMA OwedUnchanged ==
    ASSUME UNCHANGED priceVars, NEW entry \in Entry, NEW k \in Keys
    PROVE  Owed(entry, k)' = Owed(entry, k)
<1>1. UNCHANGED <<now, rates, inversePricing, roundFrozen>>
  BY DEF priceVars
<1>2. ASSUME NEW key, NEW start, NEW end
      PROVE  LastRoundIdBefore(key, start, end)' = LastRoundIdBefore(key, start, end)
  BY <1>1 DEF LastRoundIdBefore, Round
<1>3. ASSUME NEW key, NEW r
      PROVE  RateAtRound(key, r)' = RateAtRound(key, r)
  BY <1>1 DEF RateAtRound, RateOrInverted, Round
<1>4. PICK x : x = RoundAtPeriodEnd(entry.src, entry.roundIdForSrc, entry)
  OBVIOUS
<1>5. PICK y : y = RoundAtPeriodEnd(k, entry.roundIdForDest, entry)
  OBVIOUS
<1>6. /\ RoundAtPeriodEnd(entry.src, entry.roundIdForSrc, entry)' = x
      /\ RoundAtPeriodEnd(k, entry.roundIdForDest, entry)' = y
  BY <1>2, <1>4, <1>5 DEF RoundAtPeriodEnd
<1>7. EffectiveValueAtRound(entry.src, entry.amount, k, x, y)'
          = EffectiveValueAtRound(entry.src, entry.amount, k, x, y)
  BY <1>3 DEF EffectiveValueAtRound
<1>8. PICK value : value = EffectiveValueAtRound(entry.src, entry.amount, k, x, y)
  OBVIOUS
<1>9. /\ AmountShouldHaveReceived(entry, k)
             = AmountReceivedForExchange(value, entry.exchangeFeeRate)
      /\ AmountShouldHaveReceived(entry, k)'
             = AmountReceivedForExchange(value, entry.exchangeFeeRate)
  BY <1>4, <1>5, <1>6, <1>7, <1>8 DEF AmountShouldHaveReceived
<1>10. AmountShouldHaveReceived(entry, k)' = AmountShouldHaveReceived(entry, k)
  BY <1>9
<1> QED
  BY <1>10 DEF Owed

\* An exchange that has just been made owes nothing.
LEMMA NewEntryOwesNothing ==
    ASSUME PricesTypeOK, NEW src \in Keys, NEW dest \in Keys, NEW amount \in Nat \ {0},
           NEW feeRate \in 0..Unit,
           NEW received,
           received = AmountReceivedForExchange(EffectiveValue(src, amount, dest), feeRate),
           NEW entry \in Entry,
           entry = NewEntry(src, amount, dest, received, feeRate)
    PROVE  Owed(entry, dest) = 0
<1> DEFINE end == now + WaitingPeriodSecs
<1>1. /\ entry.src = src /\ entry.amount = amount /\ entry.amountReceived = received
      /\ entry.exchangeFeeRate = feeRate /\ entry.timestamp = now
      /\ entry.roundIdForSrc = currentRoundForRate(src)
      /\ entry.roundIdForDest = currentRoundForRate(dest)
  BY DEF NewEntry
<1>2. end \in Nat /\ \A k \in Keys : currentRoundForRate(k) \in Nat
  BY RateTypes, HoldersAssumption DEF PricesTypeOK, RatesTyped
<1>3. \A k \in Keys : LastRoundIdBefore(k, currentRoundForRate(k), end)
                          = currentRoundForRate(k)
  <2> SUFFICES ASSUME NEW k \in Keys
               PROVE  LastRoundIdBefore(k, currentRoundForRate(k), end)
                          = currentRoundForRate(k)
    OBVIOUS
  <2> DEFINE n == currentRoundForRate(k)
  <2>1. n \in Nat /\ n <= n
    BY <1>2
  <2>2. LastRoundIdBefore(k, n, end) \in n..n
    <3>1. LastRoundsKnown
      BY LastRoundExists
    <3> HIDE DEF end
    <3> QED
      BY <1>2, <2>1, <3>1 DEF LastRoundsKnown
  <2> HIDE DEF n
  <2>3. LastRoundIdBefore(k, n, end) = n
    BY <2>1, <2>2
  <2> QED
    BY <2>3 DEF n
<1>4. /\ RoundAtPeriodEnd(src, entry.roundIdForSrc, entry) = currentRoundForRate(src)
      /\ RoundAtPeriodEnd(dest, entry.roundIdForDest, entry) = currentRoundForRate(dest)
  BY <1>1, <1>3 DEF RoundAtPeriodEnd
<1>5. EffectiveValueAtRound(src, amount, dest, currentRoundForRate(src),
                            currentRoundForRate(dest))
          = EffectiveValue(src, amount, dest)
  BY DEF EffectiveValueAtRound, EffectiveValue, Rate
<1>6. AmountShouldHaveReceived(entry, dest) = received
  BY <1>1, <1>4, <1>5 DEF AmountShouldHaveReceived
<1>7. received \in Nat
  BY <1>1 DEF Entry
<1> QED
  BY <1>1, <1>6, <1>7 DEF Owed

\* The refund that waits for an account: none when its queue has been settled; the
\* same while it waits, also when an exchange is added that owes nothing.
LEMMA RefundKept ==
    ASSUME PricesTypeOK, PricesTypeOK', HoldingsTyped, HoldingsTyped',
           UNCHANGED priceVars, NEW a \in Holders, NEW k \in Keys
    PROVE  /\ NetRefund(a, k) \in Int /\ NetRefund(a, k)' \in Int
           /\ exchanges'[a][k] = <<>> => NetRefund(a, k)' = 0
           /\ exchanges'[a][k] = exchanges[a][k] =>
                  NetRefund(a, k)' = NetRefund(a, k)
           /\ \A entry \in Entry :
                  /\ exchanges'[a][k] = Append(exchanges[a][k], entry)
                  /\ Owed(entry, k) = 0
                  => NetRefund(a, k)' = NetRefund(a, k)
<1>1. OwedTyped /\ OwedTyped'
  <2>1. (PricesTypeOK /\ QueuesTyped => OwedTyped)'
    BY OwedTypes, PTL
  <2> QED
    BY <2>1, OwedTypes DEF HoldingsTyped
<1>2. NetRefund(a, k) \in Int /\ NetRefund(a, k)' \in Int
  BY <1>1 DEF OwedTyped
<1>3. PICK q \in Seq(Entry), p \in Seq(Entry) :
          q = exchanges[a][k] /\ p = exchanges'[a][k]
  BY DEF HoldingsTyped, QueuesTyped
<1>4. /\ Len(q) \in Nat /\ DOMAIN q = 1..Len(q) /\ \A i \in 1..Len(q) : q[i] \in Entry
      /\ Len(p) \in Nat /\ DOMAIN p = 1..Len(p) /\ \A i \in 1..Len(p) : p[i] \in Entry
  BY LenProperties, ElementOfSeq
<1>5. \A entry \in Entry : Owed(entry, k)' = Owed(entry, k)
  BY OwedUnchanged
<1> DEFINE Took(e) == IF Owed(e, k) < 0 THEN -Owed(e, k) ELSE 0
           Gave(e) == IF Owed(e, k) > 0 THEN Owed(e, k) ELSE 0
           taken == [i \in 1..Len(q) |-> Took(q[i])]
           given == [i \in 1..Len(q) |-> Gave(q[i])]
           nextTaken == [i \in 1..Len(p) |-> Took(p[i])]
           nextGiven == [i \in 1..Len(p) |-> Gave(p[i])]
<1>6. /\ \A i \in 1..Len(q) : OwedList(a, k)[i] = Owed(q[i], k)
      /\ \A i \in 1..Len(p) : OwedList(a, k)'[i] = Owed(p[i], k)
  <2>1. OwedList(a, k) = [i \in 1..Len(q) |-> Owed(q[i], k)]
    BY <1>3, <1>4 DEF OwedList
  <2>2. OwedList(a, k)' = [i \in 1..Len(p) |-> Owed(p[i], k)']
    BY <1>3, <1>4 DEF OwedList
  <2> QED
    BY <1>4, <1>5, <2>1, <2>2
<1>7. NetRefund(a, k) = SumOf(given) - SumOf(taken)
  <2>1. ReclaimAmount(a, k) = SumOf(taken)
    BY <1>3, <1>4, <1>6 DEF ReclaimAmount
  <2>2. RebateAmount(a, k) = SumOf(given)
    BY <1>3, <1>4, <1>6 DEF RebateAmount
  <2> QED
    BY <2>1, <2>2 DEF NetRefund
<1>8. NetRefund(a, k)' = SumOf(nextGiven) - SumOf(nextTaken)
  <2>1. ReclaimAmount(a, k)' = SumOf(nextTaken)
    BY <1>3, <1>4, <1>6 DEF ReclaimAmount
  <2>2. RebateAmount(a, k)' = SumOf(nextGiven)
    BY <1>3, <1>4, <1>6 DEF RebateAmount
  <2> QED
    BY <2>1, <2>2 DEF NetRefund
<1>9. \A entry \in Entry : Owed(entry, k) = 0 => Took(entry) = 0 /\ Gave(entry) = 0
  OBVIOUS
<1>10. /\ taken \in [1..Len(q) -> Nat] /\ given \in [1..Len(q) -> Nat]
       /\ nextTaken \in [1..Len(p) -> Nat] /\ nextGiven \in [1..Len(p) -> Nat]
  <2>1. /\ \A i \in 1..Len(q) : Owed(q[i], k) \in Int
        /\ \A i \in 1..Len(p) : Owed(p[i], k) \in Int
    BY <1>4, EntryOwedTypes
  <2> QED
    BY <2>1
<1>11. ASSUME p = <<>>
       PROVE  NetRefund(a, k)' = 0
  <2>1. nextTaken \in [1..0 -> Nat] /\ nextGiven \in [1..0 -> Nat]
    <3>1. Len(p) = 0
      BY <1>11
    <3> HIDE DEF nextTaken, nextGiven
    <3> QED
      BY <1>10, <3>1
  <2> HIDE DEF nextTaken, nextGiven
  <2>2. SumOf(nextTaken) = 0 /\ SumOf(nextGiven) = 0
    BY <2>1, SumOfNothing
  <2> QED
    BY <1>8, <2>2
<1>12. ASSUME p = q
       PROVE  NetRefund(a, k)' = NetRefund(a, k)
  BY <1>7, <1>8, <1>12
<1>13. ASSUME NEW entry \in Entry, p = Append(q, entry), Owed(entry, k) = 0
       PROVE  NetRefund(a, k)' = NetRefund(a, k)
  <2>1. Len(p) = Len(q) + 1 /\ p[Len(q) + 1] = entry /\ \A i \in 1..Len(q) : p[i] = q[i]
    BY <1>4, <1>13
  <2>2. /\ nextTaken[Len(q) + 1] = 0 /\ nextGiven[Len(q) + 1] = 0
        /\ \A i \in 1..Len(q) : nextTaken[i] = taken[i] /\ nextGiven[i] = given[i]
    BY <1>4, <1>9, <1>13, <2>1
  <2> HIDE DEF taken, given, nextTaken, nextGiven
  <2>3. /\ taken \in Seq(Nat) /\ given \in Seq(Nat)
        /\ nextTaken \in Seq(Nat) /\ nextGiven \in Seq(Nat)
        /\ Len(taken) = Len(q) /\ Len(given) = Len(q)
        /\ Len(nextTaken) = Len(q) + 1 /\ Len(nextGiven) = Len(q) + 1
    <3>1. PICK n \in Nat : n = Len(q) /\ n + 1 = Len(p) /\ n + 1 \in Nat
      BY <1>4, <2>1
    <3>2. taken \in Seq(Nat) /\ Len(taken) = n
      <4>1. taken \in [1..(n) -> Nat]
        BY <1>10, <3>1
      <4> QED
        BY <3>1, <4>1, ListOfNumbers
    <3>3. given \in Seq(Nat) /\ Len(given) = n
      <4>1. given \in [1..(n) -> Nat]
        BY <1>10, <3>1
      <4> QED
        BY <3>1, <4>1, ListOfNumbers
    <3>4. nextTaken \in Seq(Nat) /\ Len(nextTaken) = n + 1
      <4>1. nextTaken \in [1..(n + 1) -> Nat]
        BY <1>10, <3>1
      <4> QED
        BY <3>1, <4>1, ListOfNumbers
    <3>5. nextGiven \in Seq(Nat) /\ Len(nextGiven) = n + 1
      <4>1. nextGiven \in [1..(n + 1) -> Nat]
        BY <1>10, <3>1
      <4> QED
        BY <3>1, <4>1, ListOfNumbers
    <3> QED
      BY <3>1, <3>2, <3>3, <3>4, <3>5
  <2>4. SumOf(nextTaken) = SumOf(taken) + 0 /\ SumOf(nextGiven) = SumOf(given) + 0
        /\ SumOf(taken) \in Nat /\ SumOf(given) \in Nat
    <3>1. SumOf(taken) \in Nat /\ SumOf(nextTaken) = SumOf(taken) + nextTaken[Len(taken) + 1]
      BY <2>2, <2>3, SumOfOneMore
    <3>2. SumOf(given) \in Nat /\ SumOf(nextGiven) = SumOf(given) + nextGiven[Len(given) + 1]
      BY <2>2, <2>3, SumOfOneMore
    <3> QED
      BY <2>2, <2>3, <3>1, <3>2
  <2> QED
    BY <1>7, <1>8, <2>4
<1> QED
  BY <1>2, <1>3, <1>11, <1>12, <1>13

\* What the holders of each pynth have or are owed is an integer, and so is its worth.
LEMMA WorthTypes ==
    ASSUME PricesTypeOK, HoldingsTyped
    PROVE  /\ \A a \in Holders, k \in Keys : BalanceAfterSettlement(a, k) \in Int
           /\ \A k \in Keys : Entitled(k) \in Int
           /\ Worth \in Int
<1>1. OwedTyped /\ RatesTyped
  BY OwedTypes, RateTypes DEF HoldingsTyped
<1>2. ASSUME NEW a \in Holders, NEW k \in Keys
      PROVE  BalanceAfterSettlement(a, k) \in Int
  <2>1. balanceOf[k][a] \in Nat /\ NetRefund(a, k) \in Int
    BY <1>1 DEF HoldingsTyped, BalancesTyped, OwedTyped
  <2> QED
    BY <2>1 DEF BalanceAfterSettlement
<1>3. ASSUME NEW k \in Keys PROVE Entitled(k) \in Int
  <2> DEFINE f == [a \in Holders |-> BalanceAfterSettlement(a, k)]
  <2>1. DOMAIN f = Holders /\ \A a \in Holders : f[a] \in Int
    BY <1>2
  <2> HIDE DEF f
  <2>2. SumFunction(f) \in Int
    BY <2>1, HoldersFinite, SumType DEF SumFunction
  <2> QED
    BY <2>2 DEF Entitled, f
<1>4. Worth \in Int
  <2> DEFINE f == [k \in Keys |-> Rate(k) * Entitled(k)]
  <2>1. \A k \in Keys : Rate(k) \in Int /\ Entitled(k) \in Int
    BY <1>1, <1>3 DEF RatesTyped
  <2>2. \A x, y \in Int : x * y \in Int
    OBVIOUS
  <2>3. DOMAIN f = Keys /\ \A k \in Keys : f[k] \in Int
    BY <2>1, <2>2
  <2> HIDE DEF f
  <2>4. SumFunction(f) \in Int
    BY <2>3, KeysAssumption, SumType DEF SumFunction
  <2> QED
    BY <2>4 DEF Worth, f
<1> QED
  BY <1>2, <1>3, <1>4

\* What an account has or is owed changes by c for one account and key, by d for
\* another and by e for a third; they may coincide.
MovesThree(x, kx, c, y, ky, d, z, kz, e) ==
    \A a \in Holders, k \in Keys :
        BalanceAfterSettlement(a, k)' =
            BalanceAfterSettlement(a, k)
                + (IF k = kx /\ a = x THEN c ELSE 0)
                + (IF k = ky /\ a = y THEN d ELSE 0)
                + (IF k = kz /\ a = z THEN e ELSE 0)

\* Then the worth of all changes by the three amounts at their prices.
LEMMA WorthMoves ==
    ASSUME PricesTypeOK, HoldingsTyped, UNCHANGED priceVars,
           NEW x \in Holders, NEW y \in Holders, NEW z \in Holders,
           NEW kx \in Keys, NEW ky \in Keys, NEW kz \in Keys,
           NEW c \in Int, NEW d \in Int, NEW e \in Int,
           MovesThree(x, kx, c, y, ky, d, z, kz, e)
    PROVE  Worth' - Worth = Rate(kx) * c + Rate(ky) * d + Rate(kz) * e
<1>1. RatesTyped
  BY RateTypes
<1>2. \A k \in Keys : Rate(k)' = Rate(k)
  BY DEF priceVars, Rate, RateAtRound, RateOrInverted, Round, currentRoundForRate
<1>3. /\ \A a \in Holders, k \in Keys : BalanceAfterSettlement(a, k) \in Int
      /\ \A k \in Keys : Entitled(k) \in Int
      /\ Worth \in Int
  BY WorthTypes
<1>4. ASSUME NEW k \in Keys
      PROVE  Entitled(k)' = Entitled(k) + (IF k = kx THEN c ELSE 0)
                                + (IF k = ky THEN d ELSE 0) + (IF k = kz THEN e ELSE 0)
  <2> DEFINE f == [a \in Holders |-> BalanceAfterSettlement(a, k)]
             g == [a \in Holders |-> f[a]
                       + (IF k = kx /\ a = x THEN c ELSE 0)
                       + (IF k = ky /\ a = y THEN d ELSE 0)
                       + (IF k = kz /\ a = z THEN e ELSE 0)]
             cc == IF k = kx THEN c ELSE 0
             dd == IF k = ky THEN d ELSE 0
             ee == IF k = kz THEN e ELSE 0
  <2>1. Entitled(k) = SumFunctionOnSet(f, Holders)
    BY DEF Entitled, SumFunction
  <2>2. [a \in Holders |-> BalanceAfterSettlement(a, k)'] = g
    BY DEF MovesThree
  <2>3. Entitled(k)' = SumFunctionOnSet(g, Holders)
    <3>1. Entitled(k)' = SumFunction([a \in Holders |-> BalanceAfterSettlement(a, k)'])
      BY DEF Entitled
    <3>2. DOMAIN g = Holders
      OBVIOUS
    <3> HIDE DEF g
    <3> QED
      BY <2>2, <3>1, <3>2 DEF SumFunction
  <2>4. \A a \in Holders :
            /\ f[a] \in Int
            /\ g[a] = f[a] + (IF a = x THEN cc ELSE 0) + (IF a = y THEN dd ELSE 0)
                           + (IF a = z THEN ee ELSE 0)
    BY <1>3
  <2>5. cc \in Int /\ dd \in Int /\ ee \in Int
    OBVIOUS
  <2> HIDE DEF f, g, cc, dd, ee
  <2>6. SumFunctionOnSet(g, Holders) = SumFunctionOnSet(f, Holders) + cc + dd + ee
    BY <2>4, <2>5, HoldersFinite, SumThreePoints
  <2> QED
    BY <2>1, <2>3, <2>6 DEF cc, dd, ee
<1> DEFINE f == [k \in Keys |-> Rate(k) * Entitled(k)]
           g == [k \in Keys |-> Rate(k) * Entitled(k)']
           cc == Rate(kx) * c
           dd == Rate(ky) * d
           ee == Rate(kz) * e
<1>5. Worth = SumFunctionOnSet(f, Keys)
  BY DEF Worth, SumFunction
<1>6. Worth' = SumFunctionOnSet(g, Keys)
  <2>1. Worth' = SumFunction([k \in Keys |-> Rate(k)' * Entitled(k)'])
    BY DEF Worth
  <2>2. [k \in Keys |-> Rate(k)' * Entitled(k)'] = g
    BY <1>2
  <2>3. DOMAIN g = Keys
    OBVIOUS
  <2> HIDE DEF g
  <2> QED
    BY <2>1, <2>2, <2>3 DEF SumFunction
<1>7. cc \in Int /\ dd \in Int /\ ee \in Int
  <2>1. Rate(kx) \in Int /\ Rate(ky) \in Int /\ Rate(kz) \in Int
    BY <1>1 DEF RatesTyped
  <2>2. \A m, n \in Int : m * n \in Int
    OBVIOUS
  <2> QED
    BY <2>1, <2>2
<1>8. \A k \in Keys :
          /\ f[k] \in Int
          /\ g[k] = f[k] + (IF k = kx THEN cc ELSE 0) + (IF k = ky THEN dd ELSE 0)
                         + (IF k = kz THEN ee ELSE 0)
  <2> SUFFICES ASSUME NEW k \in Keys
               PROVE  /\ f[k] \in Int
                      /\ g[k] = f[k] + (IF k = kx THEN cc ELSE 0)
                                     + (IF k = ky THEN dd ELSE 0)
                                     + (IF k = kz THEN ee ELSE 0)
    OBVIOUS
  <2>1. PICK r \in Int, n \in Int : r = Rate(k) /\ n = Entitled(k)
    BY <1>1, <1>3 DEF RatesTyped
  <2> DEFINE c0 == IF k = kx THEN c ELSE 0
             d0 == IF k = ky THEN d ELSE 0
             e0 == IF k = kz THEN e ELSE 0
  <2>2. c0 \in Int /\ d0 \in Int /\ e0 \in Int
    OBVIOUS
  <2>3. f[k] = r * n /\ g[k] = r * (n + c0 + d0 + e0)
    BY <1>4, <2>1
  <2>4. /\ r * c0 = IF k = kx THEN cc ELSE 0
        /\ r * d0 = IF k = ky THEN dd ELSE 0
        /\ r * e0 = IF k = kz THEN ee ELSE 0
    BY <2>1
  <2> HIDE DEF f, g, c0, d0, e0, cc, dd, ee
  <2>5. r * (n + c0 + d0 + e0) = r * n + r * c0 + r * d0 + r * e0
    BY <2>2
  <2>6. r * n \in Int
    OBVIOUS
  <2> QED
    BY <2>3, <2>4, <2>5, <2>6
<1> HIDE DEF f, g, cc, dd, ee
<1>9. /\ SumFunctionOnSet(f, Keys) \in Int
      /\ SumFunctionOnSet(g, Keys) = SumFunctionOnSet(f, Keys) + cc + dd + ee
  <2>1. IsFiniteSet(Keys)
    BY KeysAssumption
  <2> QED
    BY ONLY <2>1, <1>7, <1>8, kx \in Keys, ky \in Keys, kz \in Keys, SumThreePoints
<1> QED
  BY <1>5, <1>6, <1>7, <1>9 DEF cc, dd, ee

\* A settlement gives the account what it is owed, which then is no longer owed.
LEMMA SettlementMovesNothing ==
    ASSUME PricesTypeOK, PricesTypeOK', HoldingsTyped, HoldingsTyped',
           UNCHANGED priceVars, NEW from \in Holders, NEW src \in Keys,
           CanSettle(from, src),
           balanceOf' = SettledBalances(from, src),
           exchanges' = SettledQueues(from, src)
    PROVE  MovesThree(from, src, 0, from, src, 0, from, src, 0)
<1> SUFFICES ASSUME NEW a \in Holders, NEW k \in Keys
             PROVE  BalanceAfterSettlement(a, k)' = BalanceAfterSettlement(a, k)
  BY WorthTypes DEF MovesThree
<1>1. balanceOf[k][a] \in Nat /\ NetRefund(a, k) \in Int /\ NetRefund(a, k)' \in Int
  BY RefundKept DEF HoldingsTyped, BalancesTyped
<1>2. CASE a = from /\ k = src
  <2>1. /\ balanceOf'[k][a] = BalanceAfterSettlement(a, k)
        /\ BalanceAfterSettlement(a, k) \in Nat
        /\ exchanges'[a][k] = <<>>
    BY <1>2, SettledEffect
  <2>2. NetRefund(a, k)' = 0
    BY <2>1, RefundKept
  <2>3. BalanceAfterSettlement(a, k)' = balanceOf'[k][a] + NetRefund(a, k)'
    BY DEF BalanceAfterSettlement
  <2> QED
    BY <2>1, <2>2, <2>3
<1>3. CASE a # from \/ k # src
  <2>1. balanceOf'[k][a] = balanceOf[k][a] /\ exchanges'[a][k] = exchanges[a][k]
    BY <1>3, SettledEffect
  <2>2. NetRefund(a, k)' = NetRefund(a, k)
    BY <2>1, RefundKept
  <2> QED
    BY <2>1, <2>2 DEF BalanceAfterSettlement
<1> QED
  BY <1>2, <1>3

\* A transfer after the settlement moves its value from one holder to the other.
LEMMA TransferAndSettleMoves ==
    ASSUME PricesTypeOK, PricesTypeOK', HoldingsTyped, HoldingsTyped',
           UNCHANGED priceVars, NEW from \in Holders, NEW to \in Holders,
           NEW src \in Keys, NEW value \in Nat, CanSettle(from, src),
           balanceOf' = Moved(SettledBalances(from, src), src, from, to, value),
           exchanges' = SettledQueues(from, src)
    PROVE  MovesThree(from, src, -value, to, src, value, from, src, 0)
<1> DEFINE settled == SettledBalances(from, src)
<1>1. /\ settled \in [Keys -> [Holders -> Nat]]
      /\ exchanges'[from][src] = <<>>
      /\ settled[src][from] = BalanceAfterSettlement(from, src)
      /\ BalanceAfterSettlement(from, src) \in Nat
      /\ \A b \in Holders, key \in Keys : b # from \/ key # src =>
             /\ exchanges'[b][key] = exchanges[b][key]
             /\ settled[key][b] = balanceOf[key][b]
  BY SettledEffect
<1>2. balanceOf' = Moved(settled, src, from, to, value)
  OBVIOUS
<1> HIDE DEF settled
<1>3. \A a \in Holders, k \in Keys :
          balanceOf'[k][a] = settled[k][a]
              + (IF k = src /\ a = from THEN -value ELSE 0)
              + (IF k = src /\ a = to THEN value ELSE 0)
  <2> SUFFICES ASSUME NEW a \in Holders, NEW k \in Keys
               PROVE  balanceOf'[k][a] = settled[k][a]
                          + (IF k = src /\ a = from THEN -value ELSE 0)
                          + (IF k = src /\ a = to THEN value ELSE 0)
    OBVIOUS
  <2>1. settled[k][a] \in Nat
    BY <1>1
  <2>2. balanceOf'[k][a] = IF k = src
                           THEN settled[k][a] - (IF a = from THEN value ELSE 0)
                                              + (IF a = to THEN value ELSE 0)
                           ELSE settled[k][a]
    BY <1>1, <1>2 DEF Moved
  <2> QED
    BY <2>1, <2>2
<1> SUFFICES ASSUME NEW a \in Holders, NEW k \in Keys
             PROVE  BalanceAfterSettlement(a, k)' = BalanceAfterSettlement(a, k)
                        + (IF k = src /\ a = from THEN -value ELSE 0)
                        + (IF k = src /\ a = to THEN value ELSE 0)
                        + (IF k = src /\ a = from THEN 0 ELSE 0)
  BY DEF MovesThree
<1>4. balanceOf[k][a] \in Nat /\ NetRefund(a, k) \in Int /\ NetRefund(a, k)' \in Int
  BY RefundKept DEF HoldingsTyped, BalancesTyped
<1>5. BalanceAfterSettlement(a, k)' = balanceOf'[k][a] + NetRefund(a, k)'
  BY DEF BalanceAfterSettlement
<1>6. settled[k][a] \in Nat /\ settled[k][a] + NetRefund(a, k)' = BalanceAfterSettlement(a, k)
  <2>1. CASE a = from /\ k = src
    <3>1. NetRefund(a, k)' = 0
      BY <1>1, <2>1, RefundKept
    <3> QED
      BY <1>1, <2>1, <3>1
  <2>2. CASE a # from \/ k # src
    <3>1. NetRefund(a, k)' = NetRefund(a, k) /\ settled[k][a] = balanceOf[k][a]
      BY <1>1, <2>2, RefundKept
    <3> QED
      BY <1>4, <3>1 DEF BalanceAfterSettlement
  <2> QED
    BY <2>1, <2>2
<1> QED
  BY <1>3, <1>4, <1>5, <1>6

\* An exchange that is made, with its fee, is of three amounts; what waits is not
\* owed anything yet.
LEMMA ConversionMoves ==
    ASSUME PricesTypeOK, PricesTypeOK', HoldingsTyped, HoldingsTyped',
           UNCHANGED priceVars, NEW from \in Holders, NEW src \in Keys,
           NEW asked \in Nat, NEW dest \in Keys, NEW to \in Holders, NEW reported,
           src # dest, CanSettle(from, src), WaitingPeriodSecs > 0,
           ConvertAndAppend(from, src, asked, dest, to, reported)
    PROVE  \E amount \in Nat \ {0} :
               LET value    == EffectiveValue(src, amount, dest)
                   received == AmountReceivedForExchange(value,
                                   FeeRateForExchange(src, dest))
                   feeUSD   == FeeInUSD(dest, value - received)
               IN  /\ MovesThree(from, src, -amount, to, dest, received,
                                 FeeAddress, pUSD, feeUSD)
                   /\ exchanges'[to][dest] # <<>>
                   /\ exchanges'[to][dest] # exchanges[to][dest]
<1> DEFINE amount   == AmountAfterSettlement(from, src, asked)
           value    == EffectiveValue(src, amount, dest)
           feeRate  == FeeRateForExchange(src, dest)
           received == AmountReceivedForExchange(value, feeRate)
           feeUSD   == FeeInUSD(dest, value - received)
           settled  == SettledBalances(from, src)
           queues   == SettledQueues(from, src)
           entry    == NewEntry(src, amount, dest, received, feeRate)
           Delta(k, a) == (IF k = src /\ a = from THEN -amount ELSE 0)
                         + (IF k = dest /\ a = to THEN received ELSE 0)
                         + (IF k = pUSD /\ a = FeeAddress THEN feeUSD ELSE 0)
<1>1. /\ amount # 0
      /\ balanceOf' = [k \in Keys |-> [a \in Holders |->
                           settled[k][a] + Delta(k, a)]]
      /\ exchanges' = [queues EXCEPT ![to][dest] = Append(@, entry)]
  BY DEF ConvertAndAppend, ConvertedBalances
<1>2. amount \in Nat \ {0}
  BY <1>1, AmountTypes
<1>3. received \in Nat /\ feeUSD \in Nat /\ feeRate \in 0..Unit
  BY <1>2, ConvertedTypes, FeeRateType
<1>4. entry \in Entry
  <2>1. now \in Nat /\ \A k \in Keys : currentRoundForRate(k) \in Nat
    BY RateTypes DEF PricesTypeOK, RatesTyped
  <2> HIDE DEF amount, received, value, feeRate
  <2> QED
    BY <1>2, <1>3, <2>1 DEF NewEntry, Entry
<1>5. Owed(entry, dest) = 0
  <2>1. received = AmountReceivedForExchange(EffectiveValue(src, amount, dest), feeRate)
    OBVIOUS
  <2> HIDE DEF amount, received, value, feeRate
  <2>2. entry \in Entry /\ entry = NewEntry(src, amount, dest, received, feeRate)
    BY <1>4
  <2> HIDE DEF entry
  <2> QED
    BY <1>2, <1>3, <2>1, <2>2, NewEntryOwesNothing
<1> HIDE DEF amount, received, feeUSD, entry, value, feeRate
<1>6. /\ settled \in [Keys -> [Holders -> Nat]]
      /\ queues \in [Holders -> [Keys -> Seq(Entry)]]
      /\ queues[from][src] = <<>>
      /\ settled[src][from] = BalanceAfterSettlement(from, src)
      /\ \A a \in Holders, k \in Keys : a # from \/ k # src =>
             /\ queues[a][k] = exchanges[a][k]
             /\ settled[k][a] = balanceOf[k][a]
  BY SettledEffect
<1> HIDE DEF settled, queues
<1>7. /\ exchanges'[to][dest] = Append(exchanges[to][dest], entry)
      /\ \A a \in Holders, k \in Keys : a # to \/ k # dest =>
             exchanges'[a][k] = queues[a][k]
  <2> DEFINE longer == Append(queues[to][dest], entry)
  <2>1. exchanges' = [queues EXCEPT ![to][dest] = longer]
    BY <1>1
  <2>2. longer = Append(exchanges[to][dest], entry)
    BY <1>6
  <2> HIDE DEF longer
  <2> QED
    BY <1>6, <2>1, <2>2
<1>8. exchanges'[to][dest] # <<>> /\ exchanges'[to][dest] # exchanges[to][dest]
  <2>1. PICK q \in Seq(Entry) : q = exchanges[to][dest]
    BY DEF HoldingsTyped, QueuesTyped
  <2>2. Len(Append(q, entry)) = Len(q) + 1 /\ Len(q) \in Nat
    BY LenProperties
  <2>3. Append(q, entry) # <<>> /\ Append(q, entry) # q
    BY <2>2
  <2> QED
    BY <1>7, <2>1, <2>3
<1>9. ASSUME NEW a \in Holders, NEW k \in Keys
      PROVE  /\ settled[k][a] \in Nat /\ NetRefund(a, k)' \in Int
             /\ settled[k][a] + NetRefund(a, k)' = BalanceAfterSettlement(a, k)
  <2>1. /\ balanceOf[k][a] \in Nat /\ NetRefund(a, k) \in Int
        /\ NetRefund(a, k)' \in Int /\ settled[k][a] \in Nat
    BY <1>6, RefundKept DEF HoldingsTyped, BalancesTyped
  <2>2. CASE a = from /\ k = src
    <3>1. exchanges'[a][k] = <<>>
      BY <1>6, <1>7, <2>2
    <3>2. NetRefund(a, k)' = 0
      BY <3>1, RefundKept
    <3>3. settled[k][a] = BalanceAfterSettlement(a, k)
      BY <1>6, <2>2
    <3> QED
      BY <2>1, <3>2, <3>3
  <2>3. CASE a # from \/ k # src
    <3>1. NetRefund(a, k)' = NetRefund(a, k)
      <4>1. CASE a = to /\ k = dest
        BY <1>4, <1>5, <1>7, <4>1, RefundKept
      <4>2. CASE a # to \/ k # dest
        <5>1. exchanges'[a][k] = exchanges[a][k]
          <6>1. queues[a][k] = exchanges[a][k]
            BY <1>6, <2>3
          <6>2. exchanges'[a][k] = queues[a][k]
            BY <1>7, <4>2
          <6> QED
            BY <6>1, <6>2
        <5> QED
          BY <5>1, RefundKept
      <4> QED
        BY <4>1, <4>2
    <3>2. settled[k][a] = balanceOf[k][a]
      BY <1>6, <2>3
    <3> QED
      BY <2>1, <3>1, <3>2 DEF BalanceAfterSettlement
  <2> QED
    BY <2>1, <2>2, <2>3
<1>10. MovesThree(from, src, -amount, to, dest, received, FeeAddress, pUSD, feeUSD)
  <2> SUFFICES ASSUME NEW a \in Holders, NEW k \in Keys
               PROVE  BalanceAfterSettlement(a, k)' = BalanceAfterSettlement(a, k)
                          + (IF k = src /\ a = from THEN -amount ELSE 0)
                          + (IF k = dest /\ a = to THEN received ELSE 0)
                          + (IF k = pUSD /\ a = FeeAddress THEN feeUSD ELSE 0)
    BY DEF MovesThree
  <2>1. balanceOf'[k][a] = settled[k][a] + Delta(k, a)
    BY <1>1
  <2>2. Delta(k, a) \in Int
    BY <1>2, <1>3
  <2>3. BalanceAfterSettlement(a, k)' = balanceOf'[k][a] + NetRefund(a, k)'
    BY DEF BalanceAfterSettlement
  <2>4. BalanceAfterSettlement(a, k)' = BalanceAfterSettlement(a, k) + Delta(k, a)
    <3>1. PICK m \in Int : m = Delta(k, a)
      BY <2>2
    <3> HIDE DEF Delta
    <3> QED
      BY <1>9, <2>1, <2>3, <3>1
  <2>5. BalanceAfterSettlement(a, k) \in Int
    BY WorthTypes
  <2> QED
    BY <1>2, <1>3, <2>4, <2>5
<1> QED
  BY <1>2, <1>8, <1>10 DEF received, feeUSD, value, feeRate

\* The roundings of an exchange are within its bound: the value in dollars, the
\* amount of that value, and the fee in dollars.
LEMMA ExchangeRounding ==
    ASSUME PricesTypeOK, DollarFixed, NEW src \in Keys, NEW dest \in Keys,
           src # dest, NEW amount \in Nat, Rate(dest) # 0,
           NEW received, received =
               AmountReceivedForExchange(EffectiveValue(src, amount, dest),
                                         FeeRateForExchange(src, dest)),
           NEW feeUSD, feeUSD = FeeInUSD(dest, EffectiveValue(src, amount, dest) - received)
    PROVE  /\ received \in Nat /\ feeUSD \in Nat
           /\ 2 * (Rate(src) * (-amount) + Rate(dest) * received + Rate(pUSD) * feeUSD)
                  \in -(2 * Unit + Rate(dest))..(2 * Unit + Rate(dest))
<1>1. PICK p \in Nat, d \in Nat \ {0}, u \in Nat \ {0} :
          p = Rate(src) /\ d = Rate(dest) /\ u = Unit /\ Rate(pUSD) = u
  BY RateTypes, DollarPrice, UnitAssumption DEF RatesTyped
<1>2. received \in Nat /\ feeUSD \in Nat
  BY ConvertedTypes
<1>3. PICK v \in Nat : v = EffectiveValue(src, amount, dest)
  BY ValueTypes
<1>4. received \in 0..v
  BY <1>3, FeeRateType, ReceivedWithin
<1>5. PICK fee \in Nat : fee = v - received
  BY <1>3, <1>4
<1>6. 2 * (d * v) - 2 * (amount * p) \in -(u + d)..(u + d)
  <2>1. v = Convert(amount, p, d)
    BY <1>1, <1>3 DEF EffectiveValue
  <2> QED
    BY <1>1, <2>1, RoundedConversion
<1>7. 2 * (u * feeUSD) - 2 * (fee * d) \in -u..u
  <2>1. CASE dest = pUSD
    <3>1. feeUSD = fee /\ d = u
      BY <1>1, <1>3, <1>5, <2>1 DEF FeeInUSD, EffectiveValue
    <3>2. u * fee \in Nat /\ u * fee = fee * u
      BY ProductType
    <3> QED
      BY <3>1, <3>2
  <2>2. CASE dest # pUSD
    <3>1. feeUSD = DivideDecimalRound(MultiplyDecimalRound(fee, d), u)
      BY <1>1, <1>3, <1>5, <2>2 DEF FeeInUSD, EffectiveValue, Convert
    <3>2. MultiplyDecimalRound(fee, d) \in Nat
      BY DecimalTypes
    <3>3. feeUSD = MultiplyDecimalRound(fee, d)
      BY <1>1, <3>1, <3>2, ExactProduct
    <3> QED
      BY <1>1, <3>3, RoundedProduct
  <2> QED
    BY <2>1, <2>2
<1>8. d * v = d * received + fee * d
  <2>1. v = received + fee
    BY <1>2, <1>3, <1>5
  <2>2. d * (received + fee) = d * received + fee * d
    BY <1>2
  <2> QED
    BY <2>1, <2>2
<1>9. p * (-amount) = -(amount * p)
  OBVIOUS
<1>10. /\ amount * p \in Nat /\ d * received \in Nat /\ fee * d \in Nat
       /\ u * feeUSD \in Nat /\ d * v \in Nat
  BY <1>2, ProductType
<1>11. 2 * (p * (-amount) + d * received + u * feeUSD) \in -(2 * u + d)..(2 * u + d)
  BY <1>6, <1>7, <1>8, <1>9, <1>10
<1> QED
  BY <1>1, <1>2, <1>11

\* The bound of WorthConserved is a number, which no price exceeds.
LEMMA RoundingBound ==
    ASSUME PricesTypeOK
    PROVE  /\ RoundingOfExchange \in Nat
           /\ \A k \in Keys : 2 * Unit + Rate(k) <= RoundingOfExchange
<1> DEFINE prices == {Rate(k) : k \in Keys}
<1>1. \A k \in Keys : Rate(k) \in Nat
  BY RateTypes DEF RatesTyped
<1>2. prices \subseteq Nat /\ prices \in SUBSET Int /\ prices # {}
  BY <1>1, KeysAssumption
<1>3. IsFiniteSet(prices)
  <2>1. IsFiniteSet(Keys)
    BY KeysAssumption
  <2> DEFINE price == [k \in Keys |-> Rate(k)]
  <2>2. price \in Surjection(Keys, prices)
    BY DEF Surjection
  <2> HIDE DEF price, prices
  <2> QED
    BY <2>1, <2>2, FS_Surjection
<1>4. \A k \in Keys : Rate(k) \in prices
  OBVIOUS
<1> HIDE DEF prices
<1>5. Max(prices) \in prices /\ \A r \in prices : r <= Max(prices)
  BY <1>2, <1>3, GreatestExists
<1>6. Max(prices) \in Nat /\ Unit \in Nat
  BY <1>2, <1>5, UnitAssumption
<1>7. RoundingOfExchange = 2 * Unit + Max(prices)
  BY DEF RoundingOfExchange, prices
<1> QED
  BY <1>1, <1>4, <1>5, <1>6, <1>7

-----------------------------------------------------------------------------
(* No value appears or disappears.                                         *)

OnlySettled ==
    \A a \in Holders, k \in Keys : exchanges'[a][k] \in {<<>>, exchanges[a][k]}

\* What WorthConserved says of a step that changes what waits.
WorthKept ==
    LET change == Worth' - Worth
    IN  \/ change = 0
        \/ /\ ~OnlySettled
           /\ 2 * change \in -RoundingOfExchange..RoundingOfExchange

\* Without a waiting period nothing waits.
NothingWaits ==
    WaitingPeriodSecs = 0 => \A a \in Holders, k \in Keys : exchanges[a][k] = <<>>

PricesAndHoldings ==
    /\ PricesTypeOK /\ PricesTypeOK'
    /\ HoldingsTyped /\ HoldingsTyped'
    /\ UNCHANGED priceVars
    /\ DollarFixed

\* A settlement on its own, or one that an exchange ends with.
LEMMA SettlementKeepsWorth ==
    ASSUME PricesAndHoldings, NEW from \in Holders, NEW src \in Keys,
           CanSettle(from, src),
           balanceOf' = SettledBalances(from, src),
           exchanges' = SettledQueues(from, src)
    PROVE  WorthKept
<1>1. MovesThree(from, src, 0, from, src, 0, from, src, 0)
  BY SettlementMovesNothing DEF PricesAndHoldings
<1>2. Worth' - Worth = Rate(src) * 0 + Rate(src) * 0 + Rate(src) * 0
  BY <1>1, WorthMoves DEF PricesAndHoldings
<1>3. Rate(src) \in Nat
  BY RateTypes DEF PricesAndHoldings, RatesTyped
<1>4. Worth' - Worth = 0
  BY <1>2, <1>3
<1> QED
  BY <1>4 DEF WorthKept

\* transferAndSettle
LEMMA TransferAndSettleKeepsWorth ==
    ASSUME PricesAndHoldings, NEW a \in Accounts, NEW to \in Holders, NEW k \in Keys,
           NEW x \in TransferAmounts, TransferAndSettle(a, to, k, x)
    PROVE  WorthKept
<1>1. a \in Holders /\ x \in Nat
  BY AmountsAssumption DEF Holders
<1> DEFINE settled == SettledBalances(a, k)
           value == IF exchanges[a][k] # <<>> /\ x > settled[k][a]
                    THEN settled[k][a] ELSE x
<1>2. /\ CanSettle(a, k)
      /\ balanceOf' = Moved(settled, k, a, to, value)
      /\ exchanges' = SettledQueues(a, k)
  BY DEF TransferAndSettle
<1>3. value \in Nat
  BY <1>1, <1>2, SettledEffect DEF PricesAndHoldings
<1> HIDE DEF value
<1>4. MovesThree(a, k, -value, to, k, value, a, k, 0)
  BY <1>1, <1>2, <1>3, TransferAndSettleMoves DEF PricesAndHoldings
<1>5. Worth' - Worth = Rate(k) * (-value) + Rate(k) * value + Rate(k) * 0
  BY <1>1, <1>3, <1>4, WorthMoves DEF PricesAndHoldings
<1>6. Rate(k) \in Nat
  BY RateTypes DEF PricesAndHoldings, RatesTyped
<1>7. Worth' - Worth = 0
  <2>1. PICK r \in Nat : r = Rate(k)
    BY <1>6
  <2>2. r * (-value) + r * value + r * 0 = 0
    BY <1>3
  <2> QED
    BY <1>5, <2>1, <2>2
<1> QED
  BY <1>7 DEF WorthKept

\* The three ends of _exchange.
LEMMA InternalExchangeKeepsWorth ==
    ASSUME PricesAndHoldings, WaitingPeriodSecs > 0,
           NEW from \in Holders, NEW src \in Keys, NEW asked \in Nat,
           NEW dest \in Keys, NEW to \in Holders, NEW reported,
           InternalExchange(from, src, asked, dest, to, reported)
    PROVE  WorthKept
<1>1. src # dest /\ CanSettle(from, src)
  BY DEF InternalExchange
<1>2. CASE NothingToExchange(from, src, asked)
  BY <1>1, <1>2, SettlementKeepsWorth DEF NothingToExchange
<1>3. CASE BreakCircuit(from, src, asked, dest)
  BY <1>1, <1>3, SettlementKeepsWorth DEF BreakCircuit
<1>4. CASE ConvertAndAppend(from, src, asked, dest, to, reported)
  <2>1. PICK amount, value, received, feeUSD :
            /\ amount \in Nat \ {0}
            /\ value = EffectiveValue(src, amount, dest)
            /\ received = AmountReceivedForExchange(value,
                              FeeRateForExchange(src, dest))
            /\ feeUSD = FeeInUSD(dest, value - received)
            /\ MovesThree(from, src, -amount, to, dest, received,
                          FeeAddress, pUSD, feeUSD)
            /\ exchanges'[to][dest] # <<>>
            /\ exchanges'[to][dest] # exchanges[to][dest]
    BY <1>1, <1>4, ConversionMoves DEF PricesAndHoldings
  <2>2. Rate(dest) # 0
    BY <1>4 DEF ConvertAndAppend, PynthRateIsInvalid
  <2> DEFINE change == Rate(src) * (-amount) + Rate(dest) * received
                           + Rate(pUSD) * feeUSD
  <2>3. /\ received \in Nat /\ feeUSD \in Nat
        /\ 2 * change \in -(2 * Unit + Rate(dest))..(2 * Unit + Rate(dest))
    BY <1>1, <2>1, <2>2, ExchangeRounding DEF PricesAndHoldings
  <2>4. Worth' - Worth = change
    <3>1. FeeAddress \in Holders /\ pUSD \in Keys
      BY KeysAssumption DEF Holders
    <3>2. -amount \in Int
      BY <2>1
    <3> QED
      BY <2>1, <2>3, <3>1, <3>2, WorthMoves DEF PricesAndHoldings
  <2> HIDE DEF change
  <2>5. /\ RoundingOfExchange \in Nat /\ 2 * Unit + Rate(dest) <= RoundingOfExchange
        /\ 2 * Unit + Rate(dest) \in Nat
    <3>1. Rate(dest) \in Nat /\ Unit \in Nat
      BY RateTypes, UnitAssumption DEF PricesAndHoldings, RatesTyped
    <3> QED
      BY <3>1, RoundingBound DEF PricesAndHoldings
  <2>6. 2 * change \in -RoundingOfExchange..RoundingOfExchange
    BY <2>3, <2>5
  <2>7. ~OnlySettled
    BY <2>1 DEF OnlySettled
  <2> QED
    BY <2>4, <2>6, <2>7 DEF WorthKept
<1> QED
  BY <1>2, <1>3, <1>4 DEF InternalExchange

\* Every step that changes what waits, at the same prices.
LEMMA StepKeepsWorth ==
    ASSUME TypeOK, TypeOK', DollarFixed, NothingWaits, NothingWaits',
           [Next]_vars, UNCHANGED priceVars, exchanges' # exchanges
    PROVE  WorthKept
<1>1. PricesAndHoldings
  <2>1. (TypeOK <=> PricesTypeOK /\ HoldingsTyped /\ CacheTyped /\ OthersTyped)'
    BY TypeOKParts, PTL
  <2> QED
    BY <2>1, TypeOKParts DEF PricesAndHoldings
<1>2. WaitingPeriodSecs > 0
  <2>1. exchanges \in [Holders -> [Keys -> Seq(Entry)]]
        /\ exchanges' \in [Holders -> [Keys -> Seq(Entry)]]
    BY <1>1 DEF PricesAndHoldings, HoldingsTyped, QueuesTyped
  <2>2. WaitingPeriodSecs # 0
    <3> SUFFICES ASSUME WaitingPeriodSecs = 0 PROVE exchanges' = exchanges
      OBVIOUS
    <3>1. /\ \A a \in Holders, k \in Keys : exchanges[a][k] = <<>>
          /\ \A a \in Holders, k \in Keys : exchanges'[a][k] = <<>>
      BY DEF NothingWaits
    <3>2. \A a \in Holders : exchanges'[a] = exchanges[a]
      BY <2>1, <3>1
    <3> QED
      BY <2>1, <3>2
  <2> QED
    BY <2>2, HoldersAssumption
<1>3. CASE UserStep
  <2>1. PICK a \in Accounts, k \in Keys :
            \/ \E x \in ExchangeAmounts, dest \in Keys : Exchange(a, k, x, dest)
            \/ \E x \in TransferAmounts, to \in Holders :
                   Transfer(a, to, k, x) \/ TransferAndSettle(a, to, k, x)
            \/ \E x \in TransferAmounts :
                   TransferToZero(a, k, x) \/ TransferToFeeAddress(a, k, x)
    BY <1>3 DEF UserStep
  <2>2. a \in Holders /\ FeeAddress \in Holders /\ pUSD \in Keys
        /\ ExchangeAmounts \subseteq Nat /\ TransferAmounts \subseteq Nat
    BY AmountsAssumption, KeysAssumption DEF Holders
  <2>3. ASSUME NEW x \in ExchangeAmounts, NEW dest \in Keys, Exchange(a, k, x, dest)
        PROVE  WorthKept
    <3>1. InternalExchange(a, k, x, dest, a, FALSE)
      BY <2>3 DEF Exchange
    <3> QED
      BY <1>1, <1>2, <2>2, <3>1, InternalExchangeKeepsWorth
  <2>4. ASSUME NEW x \in TransferAmounts, TransferToFeeAddress(a, k, x)
        PROVE  WorthKept
    <3>1. InternalExchange(a, k, x, pUSD, FeeAddress, TRUE)
      BY <2>4 DEF TransferToFeeAddress, exchangeVars
    <3> QED
      BY <1>1, <1>2, <2>2, <3>1, InternalExchangeKeepsWorth
  <2>5. ASSUME NEW x \in TransferAmounts, NEW to \in Holders, TransferAndSettle(a, to, k, x)
        PROVE  WorthKept
    BY <1>1, <2>5, TransferAndSettleKeepsWorth
  <2> QED
    BY <2>1, <2>3, <2>4, <2>5 DEF Transfer, TransferToZero, exchangeVars
<1>4. CASE KeeperStep
  <2>1. ASSUME NEW a \in Holders, NEW k \in Keys, Settle(a, k)
        PROVE  WorthKept
    BY <1>1, <2>1, SettlementKeepsWorth DEF Settle
  <2> QED
    BY <1>4, <2>1 DEF KeeperStep, UpdateCachedPynthDebts, TakeDebtSnapshot,
                      SuspendPynthWithInvalidRate, exchangeVars
<1>5. CASE OwnerStep
  BY <1>5 DEF OwnerStep, ResetLastExchangeRate, ResumePynth, ConfigureInverse
<1>6. CASE PriceStep
  BY <1>6 DEF PriceStep, exchangeVars
<1>7. CASE UNCHANGED vars
  BY <1>7 DEF vars, exchangeVars
<1> QED
  BY <1>3, <1>4, <1>5, <1>6, <1>7 DEF Next

WorthInv == CacheInv /\ DollarFixed /\ NothingWaits

\* The deployed system, with nothing exchanged yet.
LEMMA InitWorthInv == Init => WorthInv
<1> SUFFICES ASSUME Init PROVE WorthInv
  OBVIOUS
<1>1. CacheInv
  BY InitCacheInv
<1>2. DollarFixed
  <2>1. pUSD \in Keys
    BY KeysAssumption
  <2>2. rates[pUSD] = <<[rate |-> Unit, time |-> StartTime, posted |-> StartTime]>>
    BY <2>1 DEF Init, InitPrices
  <2>3. inversePricing[pUSD] = NoInverse
    BY <2>1, InverseAssumption DEF Init, InitPrices
  <2> QED
    BY <2>2, <2>3 DEF DollarFixed
<1>3. NothingWaits
  BY DEF Init, NothingWaits
<1> QED
  BY <1>1, <1>2, <1>3 DEF WorthInv

\* Every step keeps it.
LEMMA NextWorthInv == WorthInv /\ [Next]_vars => WorthInv'
<1> SUFFICES ASSUME WorthInv, [Next]_vars PROVE WorthInv'
  OBVIOUS
<1>1. CacheInv' /\ TypeOK /\ PricesInv
  BY NextCacheInv DEF WorthInv, CacheInv
<1>2. DollarFixed'
  BY <1>1, DollarStays DEF WorthInv
<1>3. NothingWaits'
  <2> SUFFICES ASSUME WaitingPeriodSecs = 0, NEW a \in Holders, NEW k \in Keys
               PROVE  exchanges'[a][k] = <<>>
    BY DEF NothingWaits
  <2>1. exchanges[a][k] = <<>>
    BY DEF WorthInv, NothingWaits
  <2>2. CASE HoldingsStep
    <3>1. HoldingKept(a, k)
      BY <2>2 DEF HoldingsStep, HoldingsKept
    <3> QED
      BY <2>1, <3>1 DEF HoldingKept
  <2>3. CASE PricesStep
    BY <2>1, <2>3 DEF PricesStep
  <2> QED
    BY <1>1, <2>2, <2>3, StepKinds
<1> QED
  BY <1>1, <1>2, <1>3 DEF WorthInv

\* No value appears or disappears in a settlement, and an exchange with its fee
\* changes the total by no more than its three roundings.
THEOREM WorthAlwaysConserved == Spec => WorthConserved
<1>1. ASSUME WorthInv, [Next]_vars
      PROVE  [ UNCHANGED priceVars /\ exchanges' # exchanges =>
                   LET change == Worth' - Worth
                       onlySettled == \A a \in Holders, k \in Keys :
                                          exchanges'[a][k] \in {<<>>, exchanges[a][k]}
                   IN  IF onlySettled THEN change = 0
                       ELSE 2 * change \in -RoundingOfExchange..RoundingOfExchange
             ]_vars
  <2>1. WorthInv' /\ TypeOK /\ TypeOK' /\ DollarFixed /\ NothingWaits /\ NothingWaits'
    BY <1>1, NextWorthInv DEF WorthInv, CacheInv
  <2>2. RoundingOfExchange \in Nat
    BY <2>1, TypeOKParts, RoundingBound
  <2>3. UNCHANGED priceVars /\ exchanges' # exchanges => WorthKept
    BY <1>1, <2>1, StepKeepsWorth
  <2> QED
    BY <2>2, <2>3 DEF WorthKept, OnlySettled
<1>2. Spec => []WorthInv
  BY InitWorthInv, NextWorthInv, PTL DEF Spec
<1> QED
  BY <1>1, <1>2, PTL DEF Spec, WorthConserved
=============================================================================
