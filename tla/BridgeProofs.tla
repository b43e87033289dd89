---------------------------- MODULE BridgeProofs ----------------------------
(***************************************************************************)
(* Proofs about Bridge, for any number of chains, accounts and validators  *)
(* and any bounds.                                                         *)
(***************************************************************************)
EXTENDS Bridge, ListProofs

-----------------------------------------------------------------------------
(* What the four ways in which the periods of a chain change do to them:   *)
(* a request joins the open period, the open period is closed, a closed    *)
(* period is processed, time passes.  The lemmas are about the values of   *)
(* one chain, so that they can be used on states and on next states.       *)

\* The part of PeriodsWellFormed that is about one chain, with its periods, its
\* list of closed periods, its requests and the time as parameters.
PeriodWellFormed(periods, list, outs, t, p) ==
    LET ids == periods[p].outboundingIds
    IN  /\ periods[p].startTime <= t
        /\ \A j, k \in 1..Len(ids) : ids[j] = ids[k] => j = k
        /\ \A k \in 1..Len(ids) : /\ ids[k] <= Len(outs)
                                  /\ outs[ids[k]].periodId = p
        /\ p < Len(periods) => /\ ids # <<>>
                               /\ periods[p].processed <=> p \notin Range(list)

RequestInPeriod(periods, outs, o) ==
    LET p == outs[o].periodId
    IN  p <= Len(periods) /\ o \in Range(periods[p].outboundingIds)

WellFormed(periods, list, outs, t) ==
    /\ Len(periods) > 0
    /\ \A j, k \in 1..Len(list) : list[j] = list[k] => j = k
    /\ \A k \in 1..Len(list) : list[k] < Len(periods)
    /\ ~periods[Len(periods)].processed
    /\ \A p \in 1..Len(periods) : PeriodWellFormed(periods, list, outs, t, p)
    /\ \A o \in 1..Len(outs) : RequestInPeriod(periods, outs, o)

\* A period with the same requests and start is as well-formed as it was, when
\* its mark agrees with the new list of those to process.
LEMMA SamePeriod ==
    ASSUME NEW periods, NEW newP, NEW list, NEW rest, NEW outs, NEW t, NEW p,
           PeriodWellFormed(periods, list, outs, t, p),
           newP[p].startTime = periods[p].startTime,
           newP[p].outboundingIds = periods[p].outboundingIds,
           Len(newP) = Len(periods),
           p < Len(periods) => (newP[p].processed <=> p \notin Range(rest))
    PROVE  PeriodWellFormed(newP, rest, outs, t, p)
  BY DEF PeriodWellFormed

LEMMA WellFormedChains ==
    PeriodsWellFormed <=>
        \A c \in Chains : WellFormed(outboundPeriods[c],
                                     outboundPeriodIdsToProcess[c],
                                     outboundings[c], now)
  BY DEF PeriodsWellFormed, WellFormed, PeriodWellFormed, RequestInPeriod,
         currentOutboundPeriodId

\* Time passes.
LEMMA WellFormedLater ==
    ASSUME NEW periods \in Seq(Period), NEW list, NEW outs,
           NEW t \in Nat, NEW u \in Nat, t <= u,
           WellFormed(periods, list, outs, t)
    PROVE  WellFormed(periods, list, outs, u)
<1>1. ASSUME NEW p \in 1..Len(periods)
      PROVE  PeriodWellFormed(periods, list, outs, u, p)
  <2>1. periods[p].startTime \in Nat
    <3>1. periods[p] \in Period
      BY ElementOfSeq
    <3> QED
      BY <3>1 DEF Period
  <2>2. PeriodWellFormed(periods, list, outs, t, p)
    BY DEF WellFormed
  <2>3. periods[p].startTime <= u
    BY <2>1, <2>2 DEF PeriodWellFormed
  <2> QED
    BY <2>2, <2>3 DEF PeriodWellFormed
<1> QED
  BY <1>1 DEF WellFormed

\* The open period is closed and a new one opened.
LEMMA WellFormedClosed ==
    ASSUME NEW periods \in Seq(Period), NEW list \in Seq(Nat \ {0}),
           NEW outs \in Seq(Outbounding), NEW t \in Nat \ {0},
           WellFormed(periods, list, outs, t),
           periods[Len(periods)].outboundingIds # <<>>
    PROVE  WellFormed(Append(periods, NewPeriod(t)), Append(list, Len(periods)),
                      outs, t)
<1> DEFINE cur  == Len(periods)
           new  == NewPeriod(t)
           newP == Append(periods, new)
           newL == Append(list, cur)
<1>1. cur \in Nat \ {0} /\ Len(list) \in Nat /\ Len(outs) \in Nat
  BY DEF WellFormed
<1>2. /\ Len(newP) = cur + 1
      /\ \A p \in 1..cur : newP[p] = periods[p]
      /\ newP[cur + 1] = new
  BY <1>1, AppendProperties
<1>3. /\ newL \in Seq(Nat \ {0})
      /\ Len(newL) = Len(list) + 1
      /\ \A k \in 1..Len(list) : newL[k] = list[k]
      /\ newL[Len(list) + 1] = cur
  BY <1>1, AppendProperties
<1>4. Range(newL) = Range(list) \cup {cur}
  <2>1. Range(newL) = {newL[k] : k \in 1..Len(newL)}
    BY <1>3, RangeEquality
  <2>2. Range(list) = {list[k] : k \in 1..Len(list)}
    BY RangeEquality
  <2>3. 1..Len(newL) = (1..Len(list)) \cup {Len(list) + 1}
    BY <1>1, <1>3
  <2> HIDE DEF newL, cur
  <2>4. ASSUME NEW x
        PROVE  x \in Range(newL) <=> x \in Range(list) \/ x = cur
    <3>1. x \in Range(newL) <=>
              (\E k \in 1..Len(list) : newL[k] = x) \/ newL[Len(list) + 1] = x
      BY <2>1, <2>3
    <3> QED
      BY <1>3, <2>2, <3>1
  <2> QED
    BY <2>4
<1>5. new.startTime = t /\ new.outboundingIds = <<>> /\ new.processed = FALSE
  BY DEF NewPeriod
<1>6. \A k \in 1..Len(list) : list[k] < cur
  BY DEF WellFormed
<1> HIDE DEF newP, newL, new, cur
<1>7. \A j, k \in 1..Len(newL) : newL[j] = newL[k] => j = k
  <2> SUFFICES ASSUME NEW j \in 1..Len(newL), NEW k \in 1..Len(newL),
                      newL[j] = newL[k]
               PROVE  j = k
    OBVIOUS
  <2>1. \A i \in 1..Len(list) : list[i] # cur
    <3>1. \A i \in 1..Len(list) : list[i] \in Nat
      BY ElementOfSeq
    <3> QED
      BY <1>1, <1>6, <3>1
  <2>2. CASE j \in 1..Len(list) /\ k \in 1..Len(list)
    BY <1>3, <2>2 DEF WellFormed
  <2>3. CASE j = Len(list) + 1 /\ k \in 1..Len(list)
    BY <1>3, <2>1, <2>3
  <2>4. CASE j \in 1..Len(list) /\ k = Len(list) + 1
    BY <1>3, <2>1, <2>4
  <2>5. CASE j = Len(list) + 1 /\ k = Len(list) + 1
    BY <2>5
  <2> QED
    BY <1>1, <1>3, <2>2, <2>3, <2>4, <2>5
<1>8. \A k \in 1..Len(newL) : newL[k] < cur + 1
  <2>1. \A i \in 1..Len(list) : list[i] \in Nat
    BY ElementOfSeq
  <2> SUFFICES ASSUME NEW k \in 1..Len(newL)
               PROVE  newL[k] < cur + 1
    OBVIOUS
  <2>2. CASE k \in 1..Len(list)
    <3>1. newL[k] = list[k] /\ list[k] < cur /\ list[k] \in Nat
      BY <1>3, <1>6, <2>1, <2>2
    <3> QED
      BY <1>1, <3>1
  <2>3. CASE k = Len(list) + 1
    BY <1>1, <1>3, <2>3
  <2> QED
    BY <1>1, <1>3, <2>2, <2>3
<1>9. ASSUME NEW p \in 1..(cur + 1)
      PROVE  PeriodWellFormed(newP, newL, outs, t, p)
  <2>1. CASE p = cur + 1
    BY <1>1, <1>2, <1>5, <2>1 DEF PeriodWellFormed
  <2>2. CASE p \in 1..cur
    <3>1. newP[p] = periods[p]
      BY <1>2, <2>2
    <3>2. PeriodWellFormed(periods, list, outs, t, p)
      BY <2>2 DEF WellFormed, cur
    <3>3. p < cur \/ p = cur
      BY <1>1, <2>2
    <3>4. periods[p].outboundingIds # <<>>
      BY <3>2, <3>3 DEF PeriodWellFormed, cur
    <3>5. periods[p].processed <=> p \notin Range(newL)
      <4>1. CASE p < cur
        BY <1>1, <1>4, <3>2, <4>1 DEF PeriodWellFormed, cur
      <4>2. CASE p = cur
        BY <1>4, <4>2 DEF WellFormed, cur
      <4> QED
        BY <3>3, <4>1, <4>2
    <3> QED
      BY <3>1, <3>2, <3>4, <3>5 DEF PeriodWellFormed
  <2> QED
    BY <1>1, <2>1, <2>2
<1>10. ASSUME NEW o \in 1..Len(outs)
       PROVE  RequestInPeriod(newP, outs, o)
  <2>1. outs[o] \in Outbounding
    BY ElementOfSeq
  <2>2. outs[o].periodId \in Nat \ {0}
    BY <2>1 DEF Outbounding
  <2>3. RequestInPeriod(periods, outs, o)
    BY DEF WellFormed
  <2>4. outs[o].periodId \in 1..cur
    BY <1>1, <2>2, <2>3 DEF RequestInPeriod, cur
  <2> QED
    BY <1>1, <1>2, <2>3, <2>4 DEF RequestInPeriod, cur
<1>11. ~newP[cur + 1].processed
  BY <1>2, <1>5
<1>12. WellFormed(newP, newL, outs, t)
  BY <1>1, <1>2, <1>7, <1>8, <1>9, <1>10, <1>11 DEF WellFormed
<1> QED
  BY <1>12 DEF newP, newL, new, cur

\* A closed period is marked processed and taken off the list.
LEMMA WellFormedProcessed ==
    ASSUME NEW periods \in Seq(Period), NEW list \in Seq(Nat \ {0}),
           NEW outs \in Seq(Outbounding), NEW t \in Nat,
           WellFormed(periods, list, outs, t),
           NEW q \in 1..Len(periods), q \in Range(list),
           NEW rest \in Seq(Nat \ {0}),
           Range(rest) = Range(list) \ {q},
           \A j, k \in 1..Len(rest) : rest[j] = rest[k] => j = k
    PROVE  WellFormed([periods EXCEPT ![q] = [periods[q] EXCEPT !.processed = TRUE]],
                      rest, outs, t)
<1> DEFINE done == [periods[q] EXCEPT !.processed = TRUE]
           newP == [periods EXCEPT ![q] = done]
           cur  == Len(periods)
<1>1. cur \in Nat \ {0} /\ Len(outs) \in Nat
  BY DEF WellFormed
<1>2. periods[q] \in Period
  BY ElementOfSeq
<1>3. /\ done.startTime = periods[q].startTime
      /\ done.outboundingIds = periods[q].outboundingIds
      /\ done.processed = TRUE
  BY <1>2 DEF Period
<1> HIDE DEF done
<1>4. /\ Len(newP) = cur
      /\ newP[q] = done
      /\ \A p \in (1..cur) \ {q} : newP[p] = periods[p]
  <2>1. DOMAIN periods = 1..cur /\ DOMAIN newP = 1..cur
    BY <1>1
  <2> QED
    BY <1>1, <2>1, LenProperties
<1> HIDE DEF newP
<1>5. \A x : x \in Range(list) => x < cur
  <2>1. Range(list) = {list[k] : k \in 1..Len(list)}
    BY RangeEquality
  <2> QED
    BY <2>1 DEF WellFormed
<1>6. \A k \in 1..Len(rest) : rest[k] < cur
  <2>1. Range(rest) = {rest[k] : k \in 1..Len(rest)}
    BY RangeEquality
  <2> QED
    BY <1>5, <2>1
<1>7. ~newP[cur].processed
  <2>1. q # cur
    BY <1>1, <1>5
  <2> QED
    BY <1>1, <1>4, <2>1 DEF WellFormed
<1>8. ASSUME NEW p \in 1..cur
      PROVE  PeriodWellFormed(newP, rest, outs, t, p)
  <2>1. PeriodWellFormed(periods, list, outs, t, p)
    BY DEF WellFormed
  <2>2. /\ newP[p].startTime = periods[p].startTime
        /\ newP[p].outboundingIds = periods[p].outboundingIds
    BY <1>3, <1>4
  <2>3. p < cur => (newP[p].processed <=> p \notin Range(rest))
    <3>1. CASE p = q
      BY <1>3, <1>4, <3>1
    <3>2. CASE p # q
      <4>1. newP[p].processed = periods[p].processed
        BY <1>4, <3>2
      <4>2. p \in Range(rest) <=> p \in Range(list)
        BY <3>2
      <4> QED
        BY <1>1, <2>1, <4>1, <4>2 DEF PeriodWellFormed
    <3> QED
      BY <3>1, <3>2
  <2>4. Len(newP) = Len(periods)
    BY <1>1, <1>4
  <2> QED
    BY <1>1, <2>1, <2>2, <2>3, <2>4, SamePeriod
<1>9. ASSUME NEW o \in 1..Len(outs)
      PROVE  RequestInPeriod(newP, outs, o)
  <2>1. outs[o] \in Outbounding
    BY ElementOfSeq
  <2>2. outs[o].periodId \in Nat \ {0}
    BY <2>1 DEF Outbounding
  <2>3. RequestInPeriod(periods, outs, o)
    BY DEF WellFormed
  <2>4. outs[o].periodId \in 1..cur
    BY <1>1, <2>2, <2>3 DEF RequestInPeriod
  <2> QED
    BY <1>3, <1>4, <2>3, <2>4 DEF RequestInPeriod
<1>10. WellFormed(newP, rest, outs, t)
  BY <1>1, <1>4, <1>6, <1>7, <1>8, <1>9 DEF WellFormed
<1> QED
  BY <1>10 DEF newP, done

\* A request joins the open period, whose start is moved to now if it is the
\* first of the period.
LEMMA WellFormedJoined ==
    ASSUME NEW periods \in Seq(Period), NEW list \in Seq(Nat \ {0}),
           NEW outs \in Seq(Outbounding), NEW t \in Nat \ {0},
           WellFormed(periods, list, outs, t),
           NEW out \in Outbounding, out.periodId = Len(periods),
           NEW joined \in Period,
           joined.startTime <= t,
           joined.outboundingIds =
               Append(periods[Len(periods)].outboundingIds, Len(outs) + 1),
           joined.processed = periods[Len(periods)].processed
    PROVE  WellFormed([periods EXCEPT ![Len(periods)] = joined], list,
                      Append(outs, out), t)
<1> DEFINE cur  == Len(periods)
           ids  == periods[cur].outboundingIds
           id   == Len(outs) + 1
           newI == Append(ids, id)
           newP == [periods EXCEPT ![cur] = joined]
           newO == Append(outs, out)
<1>1. cur \in Nat \ {0} /\ Len(outs) \in Nat
  BY DEF WellFormed
<1>2. ids \in Seq(Nat \ {0})
  <2>1. periods[cur] \in Period
    BY <1>1, ElementOfSeq
  <2> QED
    BY <2>1 DEF Period
<1>3. /\ Len(newO) = id
      /\ \A o \in 1..Len(outs) : newO[o] = outs[o]
      /\ newO[id] = out
  BY <1>1, AppendProperties
<1>4. /\ newI \in Seq(Nat \ {0})
      /\ Len(ids) \in Nat
      /\ Len(newI) = Len(ids) + 1
      /\ \A k \in 1..Len(ids) : newI[k] = ids[k]
      /\ newI[Len(ids) + 1] = id
  <2> HIDE DEF ids, id
  <2>1. id \in Nat \ {0}
    BY <1>1 DEF id
  <2> QED
    BY <1>2, <2>1, AppendProperties, LenProperties
<1>5. /\ Len(newP) = cur
      /\ newP[cur] = joined
      /\ \A p \in (1..cur) \ {cur} : newP[p] = periods[p]
  <2>1. DOMAIN periods = 1..cur /\ DOMAIN newP = 1..cur
    BY <1>1
  <2> QED
    BY <1>1, <2>1, LenProperties
<1>6. joined.outboundingIds = newI
  OBVIOUS
<1>7. PeriodWellFormed(periods, list, outs, t, cur)
  BY <1>1 DEF WellFormed
<1>8. \A k \in 1..Len(ids) : /\ ids[k] \in 1..Len(outs)
                             /\ outs[ids[k]].periodId = cur
  <2>1. \A k \in 1..Len(ids) : ids[k] \in Nat \ {0}
    BY <1>2, ElementOfSeq
  <2>2. \A k \in 1..Len(ids) : ids[k] <= Len(outs) /\ outs[ids[k]].periodId = cur
    BY <1>7 DEF PeriodWellFormed
  <2> HIDE DEF ids, cur
  <2> QED
    BY <1>1, <2>1, <2>2
<1>9. \A j, k \in 1..Len(ids) : ids[j] = ids[k] => j = k
  BY <1>7 DEF PeriodWellFormed
<1>10. id \in Nat \ {0} /\ id > Len(outs)
  BY <1>1
<1> HIDE DEF newP, newO, newI, ids, id
<1>11. \A j, k \in 1..Len(newI) : newI[j] = newI[k] => j = k
  <2> SUFFICES ASSUME NEW j \in 1..Len(newI), NEW k \in 1..Len(newI),
                      newI[j] = newI[k]
               PROVE  j = k
    OBVIOUS
  <2>1. \A i \in 1..Len(ids) : ids[i] # id
    BY SMTT(30), <1>1, <1>8, <1>10
  <2>2. CASE j \in 1..Len(ids) /\ k \in 1..Len(ids)
    BY <1>4, <1>9, <2>2
  <2>3. CASE j = Len(ids) + 1 /\ k \in 1..Len(ids)
    BY <1>4, <2>1, <2>3
  <2>4. CASE j \in 1..Len(ids) /\ k = Len(ids) + 1
    BY <1>4, <2>1, <2>4
  <2>5. CASE j = Len(ids) + 1 /\ k = Len(ids) + 1
    BY <2>5
  <2> QED
    BY <1>4, <2>2, <2>3, <2>4, <2>5
<1>12. \A k \in 1..Len(newI) : /\ newI[k] <= Len(newO)
                               /\ newO[newI[k]].periodId = cur
  <2> SUFFICES ASSUME NEW k \in 1..Len(newI)
               PROVE  newI[k] <= Len(newO) /\ newO[newI[k]].periodId = cur
    OBVIOUS
  <2>1. CASE k \in 1..Len(ids)
    <3>1. newI[k] = ids[k] /\ ids[k] \in 1..Len(outs) /\ outs[ids[k]].periodId = cur
      BY <1>4, <1>8, <2>1
    <3>2. newO[ids[k]] = outs[ids[k]]
      BY <1>3, <3>1
    <3> QED
      BY <1>1, <1>3, <1>10, <3>1, <3>2
  <2>2. CASE k = Len(ids) + 1
    BY <1>3, <1>4, <1>10, <2>2
  <2> QED
    BY <1>4, <2>1, <2>2
<1>13. ASSUME NEW p \in 1..cur
       PROVE  PeriodWellFormed(newP, list, newO, t, p)
  <2>1. CASE p = cur
    <3>1. newP[p] = joined /\ ~(p < Len(newP))
      BY <1>1, <1>5, <2>1
    <3>2. newP[p].startTime <= t /\ newP[p].outboundingIds = newI
      BY <1>6, <3>1
    <3>3. \A k \in 1..Len(newI) : newI[k] <= Len(newO) /\ newO[newI[k]].periodId = p
      BY <1>12, <2>1
    <3> HIDE DEF cur
    <3> QED
      BY <1>11, <3>1, <3>2, <3>3 DEF PeriodWellFormed
  <2>2. CASE p # cur
    <3> DEFINE old == periods[p].outboundingIds
    <3>1. PeriodWellFormed(periods, list, outs, t, p)
      BY DEF WellFormed
    <3>2. newP[p] = periods[p] /\ p < cur
      BY <1>1, <1>5, <2>2
    <3>3. old \in Seq(Nat \ {0})
      <4>1. periods[p] \in Period
        BY ElementOfSeq
      <4> QED
        BY <4>1 DEF Period
    <3>4. \A k \in 1..Len(old) : old[k] \in 1..Len(outs) /\ outs[old[k]].periodId = p
      <4>1. \A k \in 1..Len(old) : old[k] \in Nat \ {0}
        BY <3>3, ElementOfSeq
      <4>2. \A k \in 1..Len(old) : old[k] <= Len(outs) /\ outs[old[k]].periodId = p
        BY <3>1 DEF PeriodWellFormed
      <4> HIDE DEF old
      <4> QED
        BY <1>1, <4>1, <4>2
    <3>5. \A k \in 1..Len(old) : old[k] <= Len(newO) /\ newO[old[k]].periodId = p
      <4> HIDE DEF old
      <4> QED
        BY SMTT(30), <1>1, <1>3, <1>10, <3>4
    <3> QED
      BY <1>5, <3>1, <3>2, <3>5 DEF PeriodWellFormed
  <2> QED
    BY <2>1, <2>2
<1>14. ASSUME NEW o \in 1..Len(newO)
       PROVE  RequestInPeriod(newP, newO, o)
  <2>1. CASE o \in 1..Len(outs)
    <3>1. newO[o] = outs[o] /\ outs[o] \in Outbounding
      BY <1>3, <2>1, ElementOfSeq
    <3>2. outs[o].periodId \in Nat \ {0}
      BY <3>1 DEF Outbounding
    <3>3. RequestInPeriod(periods, outs, o)
      BY <2>1 DEF WellFormed
    <3>4. outs[o].periodId \in 1..cur
      BY <1>1, <3>2, <3>3 DEF RequestInPeriod
    <3>5. CASE outs[o].periodId = cur
      <4>1. o \in Range(ids)
        BY <3>3, <3>5 DEF RequestInPeriod, ids
      <4>2. PICK k \in 1..Len(ids) : ids[k] = o
        <5>1. Range(ids) = {ids[k] : k \in 1..Len(ids)}
          BY <1>2, RangeEquality
        <5> QED
          BY <4>1, <5>1
      <4>3. k \in 1..Len(newI) /\ newI[k] = o
        BY SMTT(30), <1>4, <4>2
      <4>4. o \in Range(newI)
        BY ZenonT(30), <1>4, <4>3, RangeEquality
      <4> QED
        BY <1>5, <1>6, <3>1, <3>4, <3>5, <4>4 DEF RequestInPeriod
    <3>6. CASE outs[o].periodId # cur
      BY <1>5, <3>1, <3>3, <3>4, <3>6 DEF RequestInPeriod
    <3> QED
      BY <3>5, <3>6
  <2>2. CASE o = id
    <3>1. newO[o].periodId = cur
      BY <1>3, <2>2
    <3>2. Len(ids) + 1 \in 1..Len(newI) /\ newI[Len(ids) + 1] = id
      BY <1>4
    <3>3. id \in Range(newI)
      BY ZenonT(30), <1>4, <3>2, RangeEquality
    <3> QED
      BY <1>1, <1>5, <1>6, <2>2, <3>1, <3>3 DEF RequestInPeriod
  <2> QED
    BY <1>1, <1>3, <2>1, <2>2 DEF id
<1>15. ~newP[cur].processed
  BY <1>5 DEF WellFormed
<1>16. WellFormed(newP, list, newO, t)
  BY <1>1, <1>5, <1>13, <1>14, <1>15 DEF WellFormed
<1> QED
  BY <1>16 DEF newP, newO

-----------------------------------------------------------------------------
(* The invariant.                                                          *)

\* The inductive invariant.  None of its conjuncts is inductive alone: a claim
\* is well-typed because the list of ids is exact, a relayed entry because the
\* validator's job is sound, and that is so because closed periods are fixed.
IndInv ==
    /\ TypeOK
    /\ RelayedOnce
    /\ InboxExact
    /\ PeriodsWellFormed
    /\ JobsSound
    /\ ProcessedMeansRelayed

-----------------------------------------------------------------------------

\* The empty bridges of Init satisfy the inductive invariant.
LEMMA InitIndInv == Init => IndInv
<1> SUFFICES ASSUME Init PROVE IndInv
  OBVIOUS
<1> USE SignaturesAssumption, NumbersAssumption, BoundsAssumption
<1>1. TypeOK
  <2>1. NewPeriod(1) \in Period
    BY DEF NewPeriod, Period
  <2>2. <<NewPeriod(1)>> \in Seq(Period)
    BY <2>1
  <2>3. Cardinality(Accounts) \in Nat
    BY FS_CardinalityType
  <2> QED
    BY <2>2, <2>3 DEF Init, TypeOK
<1>2. RelayedOnce
  BY DEF Init, RelayedOnce
<1>3. InboxExact
  BY DEF Init, InboxExact
<1>4. PeriodsWellFormed
  BY DEF Init, PeriodsWellFormed, NewPeriod, currentOutboundPeriodId
<1>5. JobsSound
  BY DEF Init, JobsSound
<1>6. ProcessedMeansRelayed
  BY DEF Init, ProcessedMeansRelayed
<1> QED
  BY <1>1, <1>2, <1>3, <1>4, <1>5, <1>6 DEF IndInv

-----------------------------------------------------------------------------
(* Types.                                                                  *)

\* The period sequences keep their type when the open period is closed.
LEMMA CloseAndOpenType ==
    ASSUME TypeOK, PeriodsWellFormed, NEW c \in Chains, NEW closed \in Period,
           CloseAndOpen(c, closed)
    PROVE  /\ outboundPeriods' \in [Chains -> Seq(Period)]
           /\ outboundPeriodIdsToProcess' \in [Chains -> Seq(Nat \ {0})]
<1> DEFINE cur == currentOutboundPeriodId(c)
           periods == outboundPeriods[c]
<1>1. periods \in Seq(Period) /\ cur \in 1..Len(periods) /\ cur \in Nat \ {0}
  BY DEF TypeOK, PeriodsWellFormed, currentOutboundPeriodId
<1>2. [periods EXCEPT ![cur] = closed] \in Seq(Period)
  BY <1>1, ExceptSeq
<1>3. NewPeriod(now) \in Period
  BY DEF TypeOK, NewPeriod, Period
<1>4. Append([periods EXCEPT ![cur] = closed], NewPeriod(now)) \in Seq(Period)
  BY <1>2, <1>3, AppendProperties
<1>5. Append(outboundPeriodIdsToProcess[c], cur) \in Seq(Nat \ {0})
  BY <1>1, AppendProperties DEF TypeOK
<1> QED
  BY <1>4, <1>5 DEF CloseAndOpen, TypeOK

\* A request that joins a period leaves periods and the process list well-typed.
LEMMA JoinPeriodType ==
    ASSUME TypeOK, PeriodsWellFormed, NEW c \in Chains, NEW id \in Nat \ {0},
           JoinPeriod(c, id)
    PROVE  /\ outboundPeriods' \in [Chains -> Seq(Period)]
           /\ outboundPeriodIdsToProcess' \in [Chains -> Seq(Nat \ {0})]
<1> DEFINE cur == currentOutboundPeriodId(c)
           open == outboundPeriods[c][cur]
           joined == [open EXCEPT
                         !.startTime = IF open.outboundingIds = <<>> THEN now ELSE @,
                         !.outboundingIds = Append(@, id)]
<1>1. /\ outboundPeriods[c] \in Seq(Period)
      /\ cur \in 1..Len(outboundPeriods[c])
      /\ open \in Period
  BY DEF TypeOK, PeriodsWellFormed, currentOutboundPeriodId
<1>2. joined \in Period
  <2>1. Append(open.outboundingIds, id) \in Seq(Nat \ {0})
    BY <1>1, AppendProperties DEF Period
  <2> QED
    BY <1>1, <2>1 DEF Period, TypeOK
<1>3. CASE CloseAndOpen(c, joined)
  BY <1>2, <1>3, CloseAndOpenType
<1>4. CASE /\ outboundPeriods' = [outboundPeriods EXCEPT ![c][cur] = joined]
           /\ UNCHANGED outboundPeriodIdsToProcess
  <2>1. [outboundPeriods[c] EXCEPT ![cur] = joined] \in Seq(Period)
    BY <1>1, <1>2, ExceptSeq
  <2> QED
    BY <1>4, <2>1 DEF TypeOK
<1> QED
  BY <1>3, <1>4 DEF JoinPeriod

\* A burn leaves every component well-typed: what it takes, the wallet holds.
LEMMA OverchainTransferType ==
    ASSUME IndInv, NEW c \in Chains, NEW a \in Accounts, NEW amount \in Amounts,
           NEW d \in Chains, NEW sign \in Signatures,
           OverchainTransfer(c, a, amount, d, sign)
    PROVE  TypeOK'
<1> USE NumbersAssumption DEF IndInv
<1> DEFINE out == [account |-> a, amount |-> amount, destChainId |-> d,
                   periodId |-> currentOutboundPeriodId(c), sign |-> sign]
<1>1. /\ outboundPeriods' \in [Chains -> Seq(Period)]
      /\ outboundPeriodIdsToProcess' \in [Chains -> Seq(Nat \ {0})]
  <2>1. Len(outboundings[c]) + 1 \in Nat \ {0}
    <3>1. outboundings[c] \in Seq(Outbounding)
      BY DEF TypeOK
    <3>2. Len(outboundings[c]) \in Nat
      BY <3>1, LenProperties
    <3> QED
      BY <3>2
  <2>2. JoinPeriod(c, Len(outboundings[c]) + 1)
    BY DEF OverchainTransfer
  <2> QED
    BY <2>1, <2>2, JoinPeriodType
<1>2. outboundings' \in [Chains -> Seq(Outbounding)]
  <2>1. currentOutboundPeriodId(c) \in Nat \ {0}
    BY DEF TypeOK, PeriodsWellFormed, currentOutboundPeriodId
  <2>2. out \in Outbounding
    BY <2>1 DEF Outbounding
  <2>3. Append(outboundings[c], out) \in Seq(Outbounding)
    BY <2>2, AppendProperties DEF TypeOK
  <2> QED
    BY <2>3 DEF OverchainTransfer, TypeOK
<1>3. /\ balanceOf' \in [Chains -> [Accounts -> Nat]]
      /\ totalSupply' \in [Chains -> Nat]
      /\ totalOutboundAmount' \in [Chains -> Nat]
      /\ movedOut' \in [Chains -> [Chains -> Nat]]
  <2>1. /\ balanceOf[c][a] - amount \in Nat
        /\ totalSupply[c] - amount \in Nat
        /\ totalOutboundAmount[c] + amount \in Nat
        /\ movedOut[c][d] + amount \in Nat
    <3>1. /\ balanceOf[c][a] \in Nat
          /\ totalSupply[c] \in Nat
          /\ totalOutboundAmount[c] \in Nat
          /\ movedOut[c][d] \in Nat
      BY DEF TypeOK
    <3>2. amount \in Nat /\ balanceOf[c][a] >= amount /\ totalSupply[c] >= amount
      BY DEF OverchainTransfer, CanBurn
    <3> QED
      BY <3>1, <3>2
  <2>2. balanceOf' \in [Chains -> [Accounts -> Nat]]
    BY <2>1 DEF OverchainTransfer, TypeOK
  <2>3. movedOut' \in [Chains -> [Chains -> Nat]]
    BY <2>1 DEF OverchainTransfer, TypeOK
  <2> QED
    BY <2>1, <2>2, <2>3 DEF OverchainTransfer, TypeOK
<1> QED
  BY <1>1, <1>2, <1>3 DEF OverchainTransfer, TypeOK, adminVars, listVars

\* A claim leaves every component well-typed.
LEMMA ClaimType ==
    ASSUME IndInv, NEW c \in Chains, NEW a \in Accounts,
           ClaimAllBridgedAmounts(c, a)
    PROVE  TypeOK'
<1> USE DEF IndInv
<1> DEFINE ids == accountInboundings[c][a]
           total == SumOf(InboundAmounts(c, ids))
           n == Len(inboundings[c])
           after == [i \in 1..n |->
                        IF i \in Range(ids)
                        THEN [inboundings[c][i] EXCEPT !.claimed = TRUE]
                        ELSE inboundings[c][i]]
<1>1. total \in Nat
  <2>1. Len(ids) \in Nat
    BY DEF TypeOK
  <2>2. \A k \in 1..Len(ids) : inboundings[c][ids[k]].amount \in Nat
    <3> SUFFICES ASSUME NEW k \in 1..Len(ids)
                 PROVE  inboundings[c][ids[k]].amount \in Nat
      OBVIOUS
    <3>1. ids[k] \in 1..Len(inboundings[c])
      BY DEF InboxExact
    <3>2. inboundings[c][ids[k]] \in Inbounding
      BY SMTT(30), <3>1 DEF TypeOK
    <3> QED
      BY <3>2 DEF Inbounding
  <2>3. InboundAmounts(c, ids) \in Seq(Nat)
    BY <2>1, <2>2, SeqDef DEF InboundAmounts
  <2> QED
    BY <2>3, SumOfType
<1>2. /\ balanceOf' \in [Chains -> [Accounts -> Nat]]
      /\ totalSupply' \in [Chains -> Nat]
      /\ totalInboundAmount' \in [Chains -> Nat]
  <2> HIDE DEF total
  <2>1. /\ balanceOf' = [balanceOf EXCEPT ![c][a] = @ + total]
        /\ totalSupply' = [totalSupply EXCEPT ![c] = @ + total]
        /\ totalInboundAmount' = [totalInboundAmount EXCEPT ![c] = @ + total]
    BY DEF ClaimAllBridgedAmounts, total
  <2>2. /\ balanceOf[c][a] + total \in Nat
        /\ totalSupply[c] + total \in Nat
        /\ totalInboundAmount[c] + total \in Nat
    BY SMTT(30), <1>1 DEF TypeOK
  <2> QED
    BY <2>1, <2>2 DEF TypeOK
<1>3. inboundings' \in [Chains -> Seq(Inbounding)]
  <2>1. n \in Nat /\ \A i \in 1..n : inboundings[c][i] \in Inbounding
    BY DEF TypeOK
  <2>2. after \in [1..n -> Inbounding]
    BY <2>1 DEF Inbounding
  <2>3. after \in Seq(Inbounding)
    BY <2>1, <2>2, SeqDef
  <2> QED
    BY <2>3 DEF ClaimAllBridgedAmounts, TypeOK
<1>4. accountInboundings' \in [Chains -> [Accounts -> Seq(Nat \ {0})]]
  BY SMTT(30) DEF ClaimAllBridgedAmounts, TypeOK
<1> QED
  BY <1>2, <1>3, <1>4 DEF ClaimAllBridgedAmounts, TypeOK, adminVars, periodVars

\* A request of a period is a request of the chain, and names that period.
LEMMA PeriodRequests ==
    ASSUME TypeOK, PeriodsWellFormed, NEW c \in Chains,
           NEW p \in 1..Len(outboundPeriods[c]),
           NEW o \in Range(outboundPeriods[c][p].outboundingIds)
    PROVE  /\ o \in 1..Len(outboundings[c])
           /\ outboundings[c][o] \in Outbounding
           /\ outboundings[c][o].periodId = p
<1> DEFINE ids == outboundPeriods[c][p].outboundingIds
<1>1. outboundPeriods[c] \in Seq(Period) /\ outboundings[c] \in Seq(Outbounding)
  BY DEF TypeOK
<1>2. outboundPeriods[c][p] \in Period
  BY <1>1, ElementOfSeq
<1>3. ids \in Seq(Nat \ {0})
  BY <1>2 DEF Period
<1>4. \A k \in 1..Len(ids) : /\ ids[k] <= Len(outboundings[c])
                             /\ outboundings[c][ids[k]].periodId = p
  BY DEF PeriodsWellFormed, currentOutboundPeriodId
<1> HIDE DEF ids
<1>5. PICK k \in 1..Len(ids) : ids[k] = o
  BY <1>3, RangeEquality DEF ids
<1>6. ids[k] \in Nat \ {0}
  BY <1>3, ElementOfSeq
<1>7. o \in 1..Len(outboundings[c])
  BY <1>1, <1>4, <1>5, <1>6
<1> QED
  BY <1>1, <1>4, <1>5, <1>7

\* What a validator has pending are ids of requests of its source chain.
LEMMA PendingIds ==
    ASSUME IndInv, NEW v \in Validators, job[v] # NoJob, NEW o \in job[v].pending
    PROVE  /\ job[v].src \in Chains
           /\ o \in 1..Len(outboundings[job[v].src])
           /\ outboundings[job[v].src][o] \in Outbounding
           /\ outboundings[job[v].src][o].periodId = job[v].period
<1> USE DEF IndInv
<1> DEFINE c == job[v].src
           p == job[v].period
           ids == outboundPeriods[c][p].outboundingIds
<1>1. job[v] \in Job /\ c \in Chains /\ p \in Nat \ {0}
  BY DEF TypeOK, Job
<1>2. p < Len(outboundPeriods[c]) /\ o \in Range(ids)
  BY DEF JobsSound, currentOutboundPeriodId
<1>3. p \in 1..Len(outboundPeriods[c])
  BY <1>1, <1>2 DEF TypeOK
<1> QED
  BY <1>1, <1>2, <1>3, PeriodRequests

\* The entries a relaying call appends, and the ids it gives to each account.
LEMMA RelayFacts ==
    ASSUME IndInv, NEW v \in Validators, job[v] # NoJob, NEW d \in Chains,
           NEW ids \in SUBSET PendingFor(v, d)
    PROVE  /\ job[v].src \in Chains
           /\ ids \in SUBSET Nat
           /\ IsFiniteSet(ids)
           /\ \A o \in ids :
                  /\ o \in Nat \ {0}
                  /\ o \in 1..Len(outboundings[job[v].src])
                  /\ outboundings[job[v].src][o] \in Outbounding
                  /\ outboundings[job[v].src][o].destChainId = d
           /\ Ascending(ids) \in Seq(ids)
           /\ Len(Ascending(ids)) \in Nat
           /\ \A j, k \in 1..Len(Ascending(ids)) :
                  Ascending(ids)[j] = Ascending(ids)[k] => j = k
           /\ \A k \in 1..Len(Ascending(ids)) : Ascending(ids)[k] \in ids
           /\ \A o \in ids : \E k \in 1..Len(Ascending(ids)) : Ascending(ids)[k] = o
<1> DEFINE src == job[v].src
<1>1. src \in Chains
  BY DEF IndInv, TypeOK, Job
<1>2. \A o \in ids : /\ o \in 1..Len(outboundings[src])
                     /\ outboundings[src][o] \in Outbounding
                     /\ outboundings[src][o].destChainId = d
  BY PendingIds DEF PendingFor
<1>3. Len(outboundings[src]) \in Nat
  BY <1>1 DEF IndInv, TypeOK
<1>4. IsFiniteSet(ids) /\ ids \in SUBSET Nat
  <2>1. IsFiniteSet(1..Len(outboundings[src]))
    BY <1>3, FS_Interval
  <2> QED
    BY <1>2, <1>3, <2>1, FS_Subset
<1>5. /\ Ascending(ids) \in Seq(ids)
      /\ \A j, k \in 1..Len(Ascending(ids)) :
             Ascending(ids)[j] = Ascending(ids)[k] => j = k
      /\ \A o \in ids : \E k \in 1..Len(Ascending(ids)) : Ascending(ids)[k] = o
  BY <1>4, AscendingProperties
<1>6. /\ Len(Ascending(ids)) \in Nat
      /\ \A k \in 1..Len(Ascending(ids)) : Ascending(ids)[k] \in ids
  BY <1>5, LenProperties, ElementOfSeq
<1>7. \A o \in ids : o \in Nat \ {0}
  BY <1>2, <1>3
<1> QED
  BY <1>1, <1>2, <1>4, <1>5, <1>6, <1>7

\* What AppendInboundings makes of the variables it changes, entry by entry.
LEMMA RelayEffect ==
    ASSUME IndInv, NEW v \in Validators, job[v] # NoJob, NEW d \in Chains,
           NEW ids \in SUBSET PendingFor(v, d),
           AppendInboundings(v, job[v].src, d, ids)
    PROVE  LET src   == job[v].src
               batch == Ascending(ids)
               base  == Len(inboundings[d])
               new   == Len(batch)
           IN  /\ inboundings' \in [Chains -> Seq(Inbounding)]
               /\ \A c \in Chains \ {d} : inboundings'[c] = inboundings[c]
               /\ Len(inboundings'[d]) = base + new
               /\ \A i \in 1..base : inboundings'[d][i] = inboundings[d][i]
               /\ \A k \in 1..new :
                      inboundings'[d][base + k] =
                          [account          |-> outboundings[src][batch[k]].account,
                           amount           |-> outboundings[src][batch[k]].amount,
                           srcChainId       |-> src,
                           srcOutboundingId |-> batch[k],
                           claimed          |-> FALSE,
                           sign             |-> outboundings[src][batch[k]].sign]
<1> DEFINE src   == job[v].src
           batch == Ascending(ids)
           base  == Len(inboundings[d])
           new   == Len(batch)
           Entry(o) == [account          |-> outboundings[src][o].account,
                        amount           |-> outboundings[src][o].amount,
                        srcChainId       |-> src,
                        srcOutboundingId |-> o,
                        claimed          |-> FALSE,
                        sign             |-> outboundings[src][o].sign]
           added == [k \in 1..new |-> Entry(batch[k])]
<1>1. /\ src \in Chains
      /\ new \in Nat
      /\ \A k \in 1..new : batch[k] \in ids
      /\ \A o \in ids : /\ o \in Nat \ {0}
                        /\ outboundings[src][o] \in Outbounding
  BY RelayFacts
<1>2. \A o \in ids : Entry(o) \in Inbounding
  BY <1>1 DEF Outbounding, Inbounding
<1>3. inboundings' = [inboundings EXCEPT ![d] = inboundings[d] \o added]
  BY DEF AppendInboundings
<1> HIDE DEF Entry, src, batch
<1>4. added \in [1..new -> Inbounding]
  BY <1>1, <1>2
<1>5. added \in Seq(Inbounding) /\ Len(added) = new
  BY <1>1, <1>4, SeqDef
<1>6. inboundings \in [Chains -> Seq(Inbounding)] /\ base \in Nat
  BY DEF IndInv, TypeOK
<1>7. /\ inboundings[d] \o added \in Seq(Inbounding)
      /\ Len(inboundings[d] \o added) = base + new
      /\ \A i \in 1..(base + new) :
             (inboundings[d] \o added)[i] =
                 IF i <= base THEN inboundings[d][i] ELSE added[i - base]
  BY <1>5, <1>6, ConcatProperties
<1>8. inboundings'[d] = inboundings[d] \o added
  BY <1>3, <1>6
<1>9. \A i \in 1..base : inboundings'[d][i] = inboundings[d][i]
  BY <1>1, <1>6, <1>7, <1>8
<1>10. \A k \in 1..new : inboundings'[d][base + k] = Entry(batch[k])
  <2> SUFFICES ASSUME NEW k \in 1..new
               PROVE  inboundings'[d][base + k] = Entry(batch[k])
    OBVIOUS
  <2>1. inboundings'[d][base + k] = added[(base + k) - base]
    <3> HIDE DEF added
    <3> QED
      BY <1>1, <1>6, <1>7, <1>8
  <2>2. (base + k) - base = k
    BY <1>1, <1>6
  <2> QED
    BY <2>1, <2>2
<1>11. inboundings' \in [Chains -> Seq(Inbounding)]
  BY <1>3, <1>6, <1>7
<1>12. \A c \in Chains \ {d} : inboundings'[c] = inboundings[c]
  BY <1>3, <1>6
<1>13. Len(inboundings'[d]) = base + new
  BY <1>7, <1>8
<1> QED
  BY <1>9, <1>10, <1>11, <1>12, <1>13 DEF Entry, src, batch

\* The list of account a on chain d grows by t, each new entry in its name once.
ListGrows(d, a, t) ==
    /\ accountInboundings'[d][a] = accountInboundings[d][a] \o t
    /\ \A j, k \in 1..Len(t) : t[j] = t[k] => j = k
    /\ \A i \in Nat :
           (\E k \in 1..Len(t) : t[k] = i) <=>
               /\ i \in (Len(inboundings[d]) + 1)..Len(inboundings'[d])
               /\ inboundings'[d][i].account = a

\* The lists of ids after the same call.
LEMMA RelayInbox ==
    ASSUME IndInv, NEW v \in Validators, job[v] # NoJob, NEW d \in Chains,
           NEW ids \in SUBSET PendingFor(v, d),
           AppendInboundings(v, job[v].src, d, ids)
    PROVE  /\ accountInboundings' \in [Chains -> [Accounts -> Seq(Nat \ {0})]]
           /\ \A c \in Chains \ {d} : accountInboundings'[c] = accountInboundings[c]
           /\ \A a \in Accounts : \E t \in Seq(Nat \ {0}) : ListGrows(d, a, t)
<1> DEFINE src   == job[v].src
           batch == Ascending(ids)
           base  == Len(inboundings[d])
           new   == Len(batch)
           IdsOf(a) == {base + k : k \in {j \in 1..new :
                                      outboundings[src][batch[j]].account = a}}
<1>1. /\ accountInboundings \in [Chains -> [Accounts -> Seq(Nat \ {0})]]
      /\ base \in Nat
  BY DEF IndInv, TypeOK
<1>2. new \in Nat
  BY RelayFacts
<1>3. /\ Len(inboundings'[d]) = base + new
      /\ \A k \in 1..new : inboundings'[d][base + k].account =
                               outboundings[src][batch[k]].account
  <2>1. /\ Len(inboundings'[d]) = base + new
        /\ \A k \in 1..new :
               inboundings'[d][base + k] =
                   [account          |-> outboundings[src][batch[k]].account,
                    amount           |-> outboundings[src][batch[k]].amount,
                    srcChainId       |-> src,
                    srcOutboundingId |-> batch[k],
                    claimed          |-> FALSE,
                    sign             |-> outboundings[src][batch[k]].sign]
    BY RelayEffect
  <2> HIDE DEF src, batch, base, new
  <2>2. ASSUME NEW k \in 1..new
        PROVE  inboundings'[d][base + k].account = outboundings[src][batch[k]].account
    <3> DEFINE o == batch[k]
               e == inboundings'[d][base + k]
    <3>1. e = [account          |-> outboundings[src][o].account,
               amount           |-> outboundings[src][o].amount,
               srcChainId       |-> src,
               srcOutboundingId |-> o,
               claimed          |-> FALSE,
               sign             |-> outboundings[src][o].sign]
      BY <2>1
    <3> HIDE DEF e
    <3>2. e.account = outboundings[src][o].account
      BY SMTT(30), <3>1
    <3> QED
      BY <3>2 DEF e
  <2> QED
    BY <2>1, <2>2
<1>4. accountInboundings' =
          [accountInboundings EXCEPT
              ![d] = [a \in Accounts |->
                         accountInboundings[d][a] \o Ascending(IdsOf(a))]]
  BY Zenon DEF AppendInboundings, NewIds
<1> HIDE DEF src, batch
<1>5. ASSUME NEW a \in Accounts
      PROVE  /\ Ascending(IdsOf(a)) \in Seq(Nat \ {0})
             /\ \A j, k \in 1..Len(Ascending(IdsOf(a))) :
                    Ascending(IdsOf(a))[j] = Ascending(IdsOf(a))[k] => j = k
             /\ \A i \in Nat :
                    (\E k \in 1..Len(Ascending(IdsOf(a))) :
                        Ascending(IdsOf(a))[k] = i) <=> i \in IdsOf(a)
  <2>1. IdsOf(a) \subseteq (base + 1)..(base + new)
    BY <1>1, <1>2
  <2>2. IdsOf(a) \in SUBSET (Nat \ {0}) /\ IsFiniteSet(IdsOf(a))
    <3>1. IsFiniteSet((base + 1)..(base + new))
      <4>1. base + 1 \in Int /\ base + new \in Int
        BY <1>1, <1>2
      <4> QED
        BY <4>1, FS_Interval
    <3> HIDE DEF IdsOf
    <3> QED
      BY <1>1, <1>2, <2>1, <3>1, FS_Subset
  <2> HIDE DEF IdsOf
  <2>3. /\ Ascending(IdsOf(a)) \in Seq(IdsOf(a))
        /\ \A j, k \in 1..Len(Ascending(IdsOf(a))) :
               Ascending(IdsOf(a))[j] = Ascending(IdsOf(a))[k] => j = k
        /\ \A x \in IdsOf(a) : \E i \in 1..Len(Ascending(IdsOf(a))) :
               Ascending(IdsOf(a))[i] = x
    BY <2>2, AscendingProperties
  <2>4. \A k \in 1..Len(Ascending(IdsOf(a))) : Ascending(IdsOf(a))[k] \in IdsOf(a)
    BY <2>3, ElementOfSeq
  <2>5. Ascending(IdsOf(a)) \in Seq(Nat \ {0})
    BY <2>2, <2>3, SeqMonotonic
  <2>6. ASSUME NEW i \in Nat
        PROVE  (\E k \in 1..Len(Ascending(IdsOf(a))) :
                   Ascending(IdsOf(a))[k] = i) <=> i \in IdsOf(a)
    BY <2>3, <2>4
  <2> QED
    BY <2>3, <2>5, <2>6
<1>6. ASSUME NEW a \in Accounts, NEW i \in Nat
      PROVE  i \in IdsOf(a) <=> /\ i \in (base + 1)..(base + new)
                                 /\ inboundings'[d][i].account = a
  <2>1. ASSUME i \in IdsOf(a)
        PROVE  i \in (base + 1)..(base + new) /\ inboundings'[d][i].account = a
    <3>1. PICK k \in 1..new : i = base + k /\ outboundings[src][batch[k]].account = a
      BY <2>1
    <3>2. base + k \in (base + 1)..(base + new)
      BY <1>1, <1>2
    <3> QED
      BY <1>3, <3>1, <3>2
  <2>2. ASSUME i \in (base + 1)..(base + new), inboundings'[d][i].account = a
        PROVE  i \in IdsOf(a)
    <3>1. i - base \in 1..new /\ i = base + (i - base)
      BY <1>1, <1>2, <2>2
    <3>2. outboundings[src][batch[i - base]].account = a
      BY <1>3, <2>2, <3>1
    <3> QED
      BY <3>1, <3>2
  <2> QED
    BY <2>1, <2>2
<1> HIDE DEF IdsOf
<1>7. accountInboundings' \in [Chains -> [Accounts -> Seq(Nat \ {0})]]
  <2>1. \A a \in Accounts :
            accountInboundings[d][a] \o Ascending(IdsOf(a)) \in Seq(Nat \ {0})
    BY <1>1, <1>5, ConcatProperties
  <2> QED
    BY <1>1, <1>4, <2>1
<1>8. \A c \in Chains \ {d} : accountInboundings'[c] = accountInboundings[c]
  BY <1>1, <1>4
<1>9. ASSUME NEW a \in Accounts
      PROVE  \E t \in Seq(Nat \ {0}) : ListGrows(d, a, t)
  <2>1. accountInboundings'[d][a] =
            accountInboundings[d][a] \o Ascending(IdsOf(a))
    BY <1>1, <1>4
  <2> DEFINE t == Ascending(IdsOf(a))
  <2>2. /\ t \in Seq(Nat \ {0})
        /\ \A j, k \in 1..Len(t) : t[j] = t[k] => j = k
        /\ \A i \in Nat : (\E k \in 1..Len(t) : t[k] = i) <=> i \in IdsOf(a)
    BY <1>5
  <2>3. \A i \in Nat : i \in IdsOf(a) <=>
                           /\ i \in (base + 1)..Len(inboundings'[d])
                           /\ inboundings'[d][i].account = a
    BY <1>3, <1>6
  <2> HIDE DEF t
  <2>4. ListGrows(d, a, t)
    <3>1. accountInboundings'[d][a] = accountInboundings[d][a] \o t
      BY <2>1 DEF t
    <3>2. ASSUME NEW i \in Nat
          PROVE  (\E k \in 1..Len(t) : t[k] = i) <=>
                     /\ i \in (base + 1)..Len(inboundings'[d])
                     /\ inboundings'[d][i].account = a
      BY <2>2, <2>3
    <3> QED
      BY <2>2, <3>1, <3>2 DEF ListGrows
  <2> QED
    BY <2>2, <2>4
<1> QED
  BY <1>7, <1>8, <1>9

\* A batch of registrations leaves every component well-typed.
LEMMA RelayType ==
    ASSUME IndInv, NEW v \in Validators, NEW d \in Chains, Relay(v, d)
    PROVE  TypeOK'
<1>1. job[v] # NoJob
  BY DEF Relay
<1>2. PICK ids \in SUBSET PendingFor(v, d) :
               /\ AppendInboundings(v, job[v].src, d, ids)
               /\ job' = [job EXCEPT ![v].pending = @ \ ids]
  BY DEF Relay
<1> DEFINE src == job[v].src
           batch == Ascending(ids)
           amounts == [k \in 1..Len(batch) |-> outboundings[src][batch[k]].amount]
<1>3. job[v] \in Job /\ job \in [Validators -> Job \cup {NoJob}]
  BY <1>1 DEF IndInv, TypeOK
<1>4. job' \in [Validators -> Job \cup {NoJob}]
  <2>1. [job[v] EXCEPT !.pending = @ \ ids] \in Job
    BY <1>3 DEF Job
  <2> QED
    BY <1>2, <1>3, <2>1
<1>5. /\ src \in Chains
      /\ Len(batch) \in Nat
      /\ \A k \in 1..Len(batch) : batch[k] \in ids
      /\ \A o \in ids : o \in Nat \ {0} /\ outboundings[src][o] \in Outbounding
  BY <1>1, RelayFacts
<1>6. movedIn' \in [Chains -> [Chains -> Nat]]
  <2>1. amounts \in Seq(Nat)
    <3>1. \A k \in 1..Len(batch) : outboundings[src][batch[k]].amount \in Nat
      BY <1>5 DEF Outbounding
    <3> HIDE DEF batch
    <3>2. amounts \in [1..Len(batch) -> Nat]
      BY <3>1
    <3> QED
      BY <1>5, <3>2, SeqDef
  <2>2. SumOf(amounts) \in Nat
    BY SMTT(30), <2>1, SumOfType
  <2>3. movedIn' = [movedIn EXCEPT ![d][src] = @ + SumOf(amounts)]
    BY Zenon, <1>2 DEF AppendInboundings, BatchAmounts
  <2>4. movedIn \in [Chains -> [Chains -> Nat]]
    BY DEF IndInv, TypeOK
  <2> HIDE DEF amounts, src
  <2> QED
    BY <1>5, <2>2, <2>3, <2>4
<1>7. srcOutboundingIdRegistered' \in [Chains -> SUBSET (Chains \X (Nat \ {0}))]
  <2>1. srcOutboundingIdRegistered' =
            [srcOutboundingIdRegistered EXCEPT
                ![d] = @ \cup {<<src, o>> : o \in ids}]
    BY <1>2 DEF AppendInboundings
  <2>2. {<<src, o>> : o \in ids} \subseteq Chains \X (Nat \ {0})
    BY <1>5
  <2> HIDE DEF src
  <2> QED
    BY <2>1, <2>2 DEF IndInv, TypeOK
<1>8. /\ inboundings' \in [Chains -> Seq(Inbounding)]
      /\ accountInboundings' \in [Chains -> [Accounts -> Seq(Nat \ {0})]]
  BY <1>1, <1>2, RelayEffect, RelayInbox
<1>9. UNCHANGED <<now, adminVars, outboundings, periodVars, totalOutboundAmount,
                  totalInboundAmount, movedOut, tokenVars, crashes>>
  BY <1>2 DEF AppendInboundings
<1> QED
  BY <1>4, <1>6, <1>7, <1>8, <1>9
  DEF IndInv, TypeOK, adminVars, periodVars, tokenVars

\* A step of a validator that changes nothing but its own job.
LEMMA JobType ==
    ASSUME IndInv, NEW v \in Validators, NEW j \in Job \cup {NoJob},
           job' = [job EXCEPT ![v] = j],
           UNCHANGED <<now, adminVars, outboundings, listVars, periodVars,
                       totalOutboundAmount, totalInboundAmount, movedOut,
                       movedIn, tokenVars>>,
           crashes' \in Nat
    PROVE  TypeOK'
  BY DEF IndInv, TypeOK, adminVars, listVars, periodVars, tokenVars

\* A period closed by a validator leaves periods and the list well-typed.
LEMMA CloseOutboundPeriodType ==
    ASSUME IndInv, NEW v \in Validators, NEW c \in Chains,
           CloseOutboundPeriod(v, c)
    PROVE  TypeOK'
<1> DEFINE open == outboundPeriods[c][currentOutboundPeriodId(c)]
<1>1. open \in Period
  BY DEF IndInv, TypeOK, PeriodsWellFormed, currentOutboundPeriodId
<1>2. /\ outboundPeriods' \in [Chains -> Seq(Period)]
      /\ outboundPeriodIdsToProcess' \in [Chains -> Seq(Nat \ {0})]
  BY <1>1, CloseAndOpenType DEF IndInv, CloseOutboundPeriod
<1> QED
  BY <1>2 DEF CloseOutboundPeriod, IndInv, TypeOK, adminVars, listVars, tokenVars

\* The list and the period a call of processOutboundPeriod leaves.
LEMMA ProcessEffect ==
    ASSUME IndInv, NEW v \in Validators, job[v] # NoJob, NEW c \in Chains,
           NEW p \in Nat \ {0}, ProcessOutboundPeriod(v, c, p)
    PROVE  /\ p \in 1..Len(outboundPeriods[c])
           /\ outboundPeriodIdsToProcess' \in [Chains -> Seq(Nat \ {0})]
           /\ \A b \in Chains \ {c} :
                  outboundPeriodIdsToProcess'[b] = outboundPeriodIdsToProcess[b]
           /\ \A j, k \in 1..Len(outboundPeriodIdsToProcess'[c]) :
                  outboundPeriodIdsToProcess'[c][j] = outboundPeriodIdsToProcess'[c][k]
                      => j = k
           /\ Range(outboundPeriodIdsToProcess'[c]) =
                  Range(outboundPeriodIdsToProcess[c]) \ {p}
           /\ outboundPeriods' \in [Chains -> Seq(Period)]
           /\ outboundPeriods' =
                  [outboundPeriods EXCEPT
                      ![c] = [outboundPeriods[c] EXCEPT
                                 ![p] = [outboundPeriods[c][p] EXCEPT
                                            !.processed = TRUE]]]
<1> USE DEF IndInv
<1> DEFINE list == outboundPeriodIdsToProcess[c]
           periods == outboundPeriods[c]
<1>1. list \in Seq(Nat \ {0}) /\ periods \in Seq(Period)
  BY DEF TypeOK
<1>2. p \in Range(list)
  BY DEF ProcessOutboundPeriod
<1>3. \A j, k \in 1..Len(list) : list[j] = list[k] => j = k
  BY DEF PeriodsWellFormed
<1>4. /\ RemoveId(list, p) \in Seq(Nat \ {0})
      /\ \A j, k \in 1..Len(RemoveId(list, p)) :
             RemoveId(list, p)[j] = RemoveId(list, p)[k] => j = k
      /\ Range(RemoveId(list, p)) = Range(list) \ {p}
  <2> HIDE DEF list
  <2> QED
    BY <1>1, <1>2, <1>3, RemoveIdProperties
<1>5. outboundPeriodIdsToProcess' =
          [outboundPeriodIdsToProcess EXCEPT ![c] = RemoveId(list, p)]
  BY DEF ProcessOutboundPeriod
<1>6. p \in 1..Len(periods)
  <2>1. PICK k \in 1..Len(list) : list[k] = p
    BY <1>1, <1>2, RangeEquality
  <2>2. list[k] < Len(periods)
    BY DEF PeriodsWellFormed, currentOutboundPeriodId
  <2> QED
    BY <1>1, <2>1, <2>2
<1>7. [periods EXCEPT ![p] = [periods[p] EXCEPT !.processed = TRUE]] \in Seq(Period)
  <2>1. periods[p] \in Period
    BY <1>1, <1>6, ElementOfSeq
  <2>2. [periods[p] EXCEPT !.processed = TRUE] \in Period
    BY <2>1 DEF Period
  <2> QED
    BY <1>1, <1>6, <2>2, ExceptSeq
<1>8. outboundPeriods' =
          [outboundPeriods EXCEPT
              ![c] = [outboundPeriods[c] EXCEPT
                                 ![p] = [outboundPeriods[c][p] EXCEPT
                                            !.processed = TRUE]]]
  BY DEF ProcessOutboundPeriod
<1>9. outboundPeriods' \in [Chains -> Seq(Period)]
  BY <1>7, <1>8 DEF TypeOK
<1>10. /\ outboundPeriodIdsToProcess' \in [Chains -> Seq(Nat \ {0})]
       /\ outboundPeriodIdsToProcess'[c] = RemoveId(list, p)
       /\ \A b \in Chains \ {c} :
              outboundPeriodIdsToProcess'[b] = outboundPeriodIdsToProcess[b]
  BY <1>4, <1>5 DEF TypeOK
<1> QED
  BY <1>4, <1>6, <1>8, <1>9, <1>10

\* A call of the owner, or the passing of time, leaves the bridge alone.
LEMMA OwnerType ==
    ASSUME IndInv,
           UNCHANGED <<outboundings, listVars, periodVars, totalOutboundAmount,
                       totalInboundAmount, movedOut, movedIn, tokenVars, job,
                       crashes>>,
           now' \in Nat \ {0},
           roles' \in [Chains -> SUBSET Validators],
           networkOpened' \in [Chains -> SUBSET Chains],
           numberOfOutboundPerPeriod' \in [Chains -> PeriodSizes],
           periodDuration' \in [Chains -> PeriodDurations],
           adminCalls' \in Nat
    PROVE  TypeOK'
  BY DEF IndInv, TypeOK, listVars, periodVars, tokenVars

\* Every action keeps the types.
LEMMA TypeStep == IndInv /\ Next => TypeOK'
<1> SUFFICES ASSUME IndInv, Next PROVE TypeOK'
  OBVIOUS
<1> USE NumbersAssumption
<1>1. ASSUME NEW c \in Chains, NEW a \in Accounts, NEW amount \in Amounts,
             NEW d \in Chains, NEW sign \in Signatures,
             OverchainTransfer(c, a, amount, d, sign)
      PROVE  TypeOK'
  BY <1>1, OverchainTransferType
<1>2. ASSUME NEW c \in Chains, NEW a \in Accounts, ClaimAllBridgedAmounts(c, a)
      PROVE  TypeOK'
  BY <1>2, ClaimType
<1>3. ASSUME NEW v \in Validators, NEW c \in Chains, PickPeriod(v, c)
      PROVE  TypeOK'
  <2>1. PICK p \in Range(outboundPeriodIdsToProcess[c]) :
            job' = [job EXCEPT ![v] =
                       [src     |-> c,
                        period  |-> p,
                        pending |->
                          {o \in Range(outboundPeriods[c][p].outboundingIds) :
                             <<c, o>> \notin srcOutboundingIdRegistered
                                                [outboundings[c][o].destChainId]}]]
    BY <1>3 DEF PickPeriod
  <2>2. p \in Nat \ {0}
    BY RangeOfSeq DEF IndInv, TypeOK
  <2>3. p \in 1..Len(outboundPeriods[c])
    <3>1. PICK k \in 1..Len(outboundPeriodIdsToProcess[c]) :
                   outboundPeriodIdsToProcess[c][k] = p
      <4>1. outboundPeriodIdsToProcess[c] \in Seq(Nat \ {0})
        BY DEF IndInv, TypeOK
      <4> QED
        BY <4>1, RangeEquality
    <3>2. p < Len(outboundPeriods[c])
      BY <3>1 DEF IndInv, PeriodsWellFormed, currentOutboundPeriodId
    <3> QED
      BY <2>2, <3>2 DEF IndInv, TypeOK
  <2>4. Range(outboundPeriods[c][p].outboundingIds) \in SUBSET (Nat \ {0})
    <3>1. outboundPeriods[c][p].outboundingIds \in Seq(Nat \ {0})
      <4>1. outboundPeriods[c] \in Seq(Period)
        BY DEF IndInv, TypeOK
      <4>2. outboundPeriods[c][p] \in Period
        BY <2>3, <4>1, ElementOfSeq
      <4> QED
        BY <4>2 DEF Period
    <3> QED
      BY <3>1, RangeOfSeq
  <2> DEFINE j == [src     |-> c,
                   period  |-> p,
                   pending |->
                     {o \in Range(outboundPeriods[c][p].outboundingIds) :
                        <<c, o>> \notin srcOutboundingIdRegistered
                                           [outboundings[c][o].destChainId]}]
  <2>5. j \in Job
    BY <2>2, <2>4 DEF Job
  <2>6. crashes' \in Nat
    BY <1>3 DEF PickPeriod, IndInv, TypeOK
  <2>7. job' = [job EXCEPT ![v] = j]
    BY <2>1
  <2> HIDE DEF j
  <2> QED
    BY <1>3, <2>5, <2>6, <2>7, JobType DEF PickPeriod
<1>4. ASSUME NEW v \in Validators, NEW c \in Chains, Relay(v, c)
      PROVE  TypeOK'
  BY <1>4, RelayType
<1>5. ASSUME NEW v \in Validators, SkipRegistered(v)
      PROVE  TypeOK'
  <2>1. PICK o \in job[v].pending :
            job' = [job EXCEPT ![v].pending = @ \ {o}]
    BY <1>5 DEF SkipRegistered
  <2>2. job[v] \in Job
    BY <1>5 DEF SkipRegistered, IndInv, TypeOK
  <2>3. [job[v] EXCEPT !.pending = @ \ {o}] \in Job
    BY <2>2 DEF Job
  <2>4. job' = [job EXCEPT ![v] = [job[v] EXCEPT !.pending = @ \ {o}]]
    BY <2>1
  <2>5. crashes' \in Nat
    BY <1>5 DEF SkipRegistered, IndInv, TypeOK
  <2> QED
    BY <1>5, <2>3, <2>4, <2>5, JobType DEF SkipRegistered
<1>6. ASSUME NEW v \in Validators, FinishPeriod(v)
      PROVE  TypeOK'
  <2>1. job[v] # NoJob /\ job[v] \in Job
    BY <1>6 DEF FinishPeriod, IndInv, TypeOK
  <2>2. job[v].src \in Chains /\ job[v].period \in Nat \ {0}
    BY <2>1 DEF Job
  <2>3. ProcessOutboundPeriod(v, job[v].src, job[v].period)
    BY <1>6 DEF FinishPeriod
  <2>4. /\ outboundPeriodIdsToProcess' \in [Chains -> Seq(Nat \ {0})]
        /\ outboundPeriods' \in [Chains -> Seq(Period)]
    BY <2>1, <2>2, <2>3, ProcessEffect
  <2>5. job' \in [Validators -> Job \cup {NoJob}]
    BY <1>6 DEF FinishPeriod, IndInv, TypeOK
  <2> QED
    BY <2>3, <2>4, <2>5
    DEF ProcessOutboundPeriod, IndInv, TypeOK, adminVars, listVars, tokenVars
<1>7. ASSUME NEW v \in Validators, AbandonPeriod(v)
      PROVE  TypeOK'
  <2>1. crashes' \in Nat
    BY <1>7 DEF AbandonPeriod, IndInv, TypeOK
  <2> QED
    BY <1>7, <2>1, JobType DEF AbandonPeriod
<1>8. ASSUME NEW v \in Validators, NEW c \in Chains, CloseOutboundPeriod(v, c)
      PROVE  TypeOK'
  BY <1>8, CloseOutboundPeriodType
<1>9. ASSUME NEW v \in Validators, Crash(v)
      PROVE  TypeOK'
  <2>1. crashes' \in Nat
    BY <1>9 DEF Crash, IndInv, TypeOK
  <2> QED
    BY <1>9, <2>1, JobType DEF Crash
<1> DEFINE AdminTypes == /\ now' \in Nat \ {0}
                         /\ roles' \in [Chains -> SUBSET Validators]
                         /\ networkOpened' \in [Chains -> SUBSET Chains]
                         /\ numberOfOutboundPerPeriod' \in [Chains -> PeriodSizes]
                         /\ periodDuration' \in [Chains -> PeriodDurations]
                         /\ adminCalls' \in Nat
<1>10. ASSUME NEW c \in Chains, NEW v \in Validators, NEW set \in BOOLEAN,
              SetRole(c, v, set)
       PROVE  TypeOK'
  <2>1. AdminTypes
    BY <1>10 DEF SetRole, AdminCall, IndInv, TypeOK
  <2> QED
    BY <1>10, <2>1, OwnerType DEF SetRole, AdminCall
<1>11. ASSUME NEW c \in Chains, NEW d \in Chains, NEW setTo \in BOOLEAN,
              SetNetworkStatus(c, d, setTo)
       PROVE  TypeOK'
  <2>1. AdminTypes
    <3>1. networkOpened[c] \cup {d} \in SUBSET Chains
      BY DEF IndInv, TypeOK
    <3>2. networkOpened' \in [Chains -> SUBSET Chains]
      BY <1>11, <3>1 DEF SetNetworkStatus, IndInv, TypeOK
    <3>3. /\ UNCHANGED <<now, roles, numberOfOutboundPerPeriod, periodDuration>>
          /\ adminCalls' = adminCalls + 1
      BY <1>11 DEF SetNetworkStatus, AdminCall
    <3>4. /\ now \in Nat \ {0}
          /\ roles \in [Chains -> SUBSET Validators]
          /\ numberOfOutboundPerPeriod \in [Chains -> PeriodSizes]
          /\ periodDuration \in [Chains -> PeriodDurations]
          /\ adminCalls \in Nat
      BY DEF IndInv, TypeOK
    <3>5. adminCalls' \in Nat
      BY <3>3, <3>4
    <3> QED
      BY <3>2, <3>3, <3>4, <3>5
  <2> QED
    BY <1>11, <2>1, OwnerType DEF SetNetworkStatus, AdminCall
<1>12. ASSUME NEW c \in Chains, NEW n \in PeriodSizes,
              SetNumberOfOutboundPerPeriod(c, n)
       PROVE  TypeOK'
  <2>1. AdminTypes
    BY <1>12 DEF SetNumberOfOutboundPerPeriod, AdminCall, IndInv, TypeOK
  <2> QED
    BY <1>12, <2>1, OwnerType DEF SetNumberOfOutboundPerPeriod, AdminCall
<1>13. ASSUME NEW c \in Chains, NEW t \in PeriodDurations, SetPeriodDuration(c, t)
       PROVE  TypeOK'
  <2>1. AdminTypes
    BY <1>13 DEF SetPeriodDuration, AdminCall, IndInv, TypeOK
  <2> QED
    BY <1>13, <2>1, OwnerType DEF SetPeriodDuration, AdminCall
<1>14. CASE Tick
  <2>1. AdminTypes
    BY <1>14 DEF Tick, IndInv, TypeOK, adminVars
  <2> QED
    BY <1>14, <2>1, OwnerType DEF Tick
<1> QED
  BY <1>1, <1>2, <1>3, <1>4, <1>5, <1>6, <1>7, <1>8, <1>9, <1>10, <1>11, <1>12,
     <1>13, <1>14
  DEF Next, UserAction, ValidatorAction, ValidatorStep, OwnerAction

-----------------------------------------------------------------------------
(* The steps, sorted by what they do to the contracts.                     *)

\* Steps that leave the requests, the lists and the periods of every chain.
Quiet ==
    /\ UNCHANGED <<outboundings, listVars, periodVars>>
    /\ now' >= now

\* The actions that change requests, registrations or lists; all others keep them.
LEMMA NextCases ==
    ASSUME IndInv, Next
    PROVE  \/ \E c \in Chains, a \in Accounts, amount \in Amounts, d \in Chains,
                 sign \in Signatures : OverchainTransfer(c, a, amount, d, sign)
           \/ \E c \in Chains, a \in Accounts : ClaimAllBridgedAmounts(c, a)
           \/ \E v \in Validators, d \in Chains : Relay(v, d)
           \/ \E v \in Validators, c \in Chains : CloseOutboundPeriod(v, c)
           \/ \E v \in Validators : FinishPeriod(v)
           \/ Quiet
<1>0. now \in Nat
  BY DEF IndInv, TypeOK
<1>1. ASSUME NEW v \in Validators, NEW c \in Chains, PickPeriod(v, c)
      PROVE  Quiet
  BY <1>0, <1>1 DEF PickPeriod, Quiet
<1>2. ASSUME NEW v \in Validators, SkipRegistered(v)
      PROVE  Quiet
  BY <1>0, <1>2 DEF SkipRegistered, Quiet
<1>3. ASSUME NEW v \in Validators, AbandonPeriod(v)
      PROVE  Quiet
  BY <1>0, <1>3 DEF AbandonPeriod, Quiet
<1>4. ASSUME NEW v \in Validators, Crash(v)
      PROVE  Quiet
  BY <1>0, <1>4 DEF Crash, Quiet
<1>5. ASSUME AdminCall
      PROVE  Quiet
  BY <1>0, <1>5 DEF AdminCall, Quiet
<1>6. CASE Tick
  BY <1>0, <1>6 DEF Tick, Quiet
<1>7. OwnerAction => AdminCall
  BY DEF OwnerAction, SetRole, SetNetworkStatus, SetNumberOfOutboundPerPeriod,
         SetPeriodDuration
<1> QED
  BY <1>1, <1>2, <1>3, <1>4, <1>5, <1>6, <1>7
  DEF Next, UserAction, ValidatorAction, ValidatorStep

\* A request, once made, stays as it is.
LEMMA OutboundingsKept ==
    ASSUME IndInv, Next, NEW c \in Chains
    PROVE  /\ Len(outboundings[c]) <= Len(outboundings'[c])
           /\ \A o \in 1..Len(outboundings[c]) :
                  outboundings'[c][o] = outboundings[c][o]
<1>1. outboundings \in [Chains -> Seq(Outbounding)] /\ Len(outboundings[c]) \in Nat
  BY DEF IndInv, TypeOK
<1>2. ASSUME NEW b \in Chains, NEW a \in Accounts, NEW amount \in Amounts,
             NEW d \in Chains, NEW sign \in Signatures,
             OverchainTransfer(b, a, amount, d, sign)
      PROVE  /\ Len(outboundings[c]) <= Len(outboundings'[c])
             /\ \A o \in 1..Len(outboundings[c]) :
                    outboundings'[c][o] = outboundings[c][o]
  <2> DEFINE out == [account |-> a, amount |-> amount, destChainId |-> d,
                     periodId |-> currentOutboundPeriodId(b), sign |-> sign]
  <2>1. outboundings' = [outboundings EXCEPT ![b] = Append(@, out)]
    BY <1>2 DEF OverchainTransfer
  <2> HIDE DEF out
  <2>2. CASE b = c
    BY <1>1, <2>1, <2>2
  <2>3. CASE b # c
    BY <1>1, <2>1, <2>3
  <2> QED
    BY <2>2, <2>3
<1>3. CASE outboundings' = outboundings
  BY <1>1, <1>3
<1>4. ASSUME NEW b \in Chains, NEW a \in Accounts, ClaimAllBridgedAmounts(b, a)
      PROVE  outboundings' = outboundings
  BY SMTT(30), <1>4 DEF ClaimAllBridgedAmounts
<1>5. ASSUME NEW v \in Validators, NEW d \in Chains, Relay(v, d)
      PROVE  outboundings' = outboundings
  BY <1>5 DEF Relay, AppendInboundings
<1>6. ASSUME NEW v \in Validators, NEW b \in Chains, CloseOutboundPeriod(v, b)
      PROVE  outboundings' = outboundings
  BY <1>6 DEF CloseOutboundPeriod
<1>7. ASSUME NEW v \in Validators, FinishPeriod(v)
      PROVE  outboundings' = outboundings
  BY <1>7 DEF FinishPeriod, ProcessOutboundPeriod
<1>8. Quiet => outboundings' = outboundings
  BY SMTT(30) DEF Quiet
<1> QED
  BY <1>2, <1>3, <1>4, <1>5, <1>6, <1>7, <1>8, NextCases

-----------------------------------------------------------------------------
(* RelayedOnce.                                                            *)

\* An entry that is not touched stays faithful when requests and registered ids
\* are only added.
LEMMA FaithfulKept ==
    ASSUME IndInv, Next, NEW d \in Chains, NEW i \in 1..Len(inboundings[d]),
           inboundings'[d][i] = inboundings[d][i],
           srcOutboundingIdRegistered[d] \subseteq srcOutboundingIdRegistered'[d]
    PROVE  FaithfulEntry(d, i)'
<1> DEFINE inb == inboundings[d][i]
           c   == inb.srcChainId
           o   == inb.srcOutboundingId
<1>1. FaithfulEntry(d, i)
  BY DEF IndInv, RelayedOnce
<1>2. inb \in Inbounding
  BY DEF IndInv, TypeOK
<1>3. c \in Chains /\ o \in Nat \ {0}
  BY <1>2 DEF Inbounding
<1>4. outboundings[c] \in Seq(Outbounding) /\ Len(outboundings'[c]) \in Nat
  <2>1. outboundings' \in [Chains -> Seq(Outbounding)]
    BY TypeStep DEF TypeOK
  <2>2. outboundings \in [Chains -> Seq(Outbounding)]
    BY DEF IndInv, TypeOK
  <2> QED
    BY <1>3, <2>1, <2>2, LenProperties
<1>5. o \in 1..Len(outboundings[c])
  BY <1>1, <1>3, <1>4 DEF FaithfulEntry
<1>6. outboundings'[c][o] = outboundings[c][o] /\ o <= Len(outboundings'[c])
  BY <1>3, <1>4, <1>5, OutboundingsKept
<1> QED
  BY Zenon, <1>1, <1>6 DEF FaithfulEntry, Verified

\* A claim marks registered requests only, each under the signature it verified.
LEMMA RelayedClaim ==
    ASSUME IndInv, Next, NEW b \in Chains, NEW a \in Accounts,
           ClaimAllBridgedAmounts(b, a)
    PROVE  RelayedOnce'
<1> DEFINE ids == accountInboundings[b][a]
<1>1. /\ inboundings' =
             [inboundings EXCEPT
                 ![b] = [i \in 1..Len(inboundings[b]) |->
                            IF i \in Range(ids)
                            THEN [inboundings[b][i] EXCEPT !.claimed = TRUE]
                            ELSE inboundings[b][i]]]
      /\ srcOutboundingIdRegistered' = srcOutboundingIdRegistered
      /\ outboundings' = outboundings
      /\ \A k \in 1..Len(ids) :
             /\ inboundings[b][ids[k]].account = a
             /\ Verified(a, inboundings[b][ids[k]].amount,
                         inboundings[b][ids[k]].sign)
  BY DEF ClaimAllBridgedAmounts
<1>2. inboundings \in [Chains -> Seq(Inbounding)] /\ ids \in Seq(Nat \ {0})
  BY DEF IndInv, TypeOK
<1> HIDE DEF ids
<1> SUFFICES ASSUME NEW d \in Chains
             PROVE  /\ \A i \in 1..Len(inboundings'[d]) : FaithfulEntry(d, i)'
                    /\ \A i, j \in 1..Len(inboundings'[d]) :
                           SameRequest(d, i, j)' => i = j
                    /\ \A r \in srcOutboundingIdRegistered'[d] :
                           \E i \in 1..Len(inboundings'[d]) :
                               /\ inboundings'[d][i].srcChainId = r[1]
                               /\ inboundings'[d][i].srcOutboundingId = r[2]
  BY DEF RelayedOnce
<1>3. CASE d # b
  <2>1. inboundings'[d] = inboundings[d]
    BY <1>1, <1>2, <1>3
  <2>2. \A i \in 1..Len(inboundings[d]) : FaithfulEntry(d, i)'
    BY <1>1, <2>1, FaithfulKept
  <2>3. \A i, j \in 1..Len(inboundings'[d]) : SameRequest(d, i, j)' => i = j
    BY <2>1 DEF IndInv, RelayedOnce, SameRequest
  <2>4. \A r \in srcOutboundingIdRegistered'[d] :
            \E i \in 1..Len(inboundings'[d]) :
                /\ inboundings'[d][i].srcChainId = r[1]
                /\ inboundings'[d][i].srcOutboundingId = r[2]
    BY SMTT(30), <1>1, <2>1 DEF IndInv, RelayedOnce
  <2> QED
    BY <2>1, <2>2, <2>3, <2>4
<1>4. CASE d = b
  <2>1. /\ Len(inboundings'[b]) = Len(inboundings[b])
        /\ \A i \in 1..Len(inboundings[b]) :
               inboundings'[b][i] =
                   IF i \in Range(ids)
                   THEN [inboundings[b][i] EXCEPT !.claimed = TRUE]
                   ELSE inboundings[b][i]
    <3> DEFINE n == Len(inboundings[b])
               f == [i \in 1..n |->
                        IF i \in Range(ids)
                        THEN [inboundings[b][i] EXCEPT !.claimed = TRUE]
                        ELSE inboundings[b][i]]
    <3>1. inboundings'[b] = f
      BY <1>1, <1>2
    <3>2. n \in Nat /\ inboundings'[b] \in Seq(Inbounding)
      <4>1. inboundings' \in [Chains -> Seq(Inbounding)]
        BY TypeStep DEF TypeOK
      <4> QED
        BY <1>2, <4>1, LenProperties
    <3>3. Len(f) = n
      <4>1. DOMAIN f = 1..Len(f) /\ Len(f) \in Nat
        BY <3>1, <3>2, LenProperties
      <4>2. DOMAIN f = 1..n
        OBVIOUS
      <4> QED
        BY <3>2, <4>1, <4>2
    <3> QED
      BY <3>1, <3>3
  <2>2. ASSUME NEW i \in 1..Len(inboundings[b])
        PROVE  /\ inboundings'[b][i].srcChainId = inboundings[b][i].srcChainId
               /\ inboundings'[b][i].srcOutboundingId =
                      inboundings[b][i].srcOutboundingId
               /\ inboundings'[b][i].account = inboundings[b][i].account
               /\ inboundings'[b][i].amount = inboundings[b][i].amount
               /\ inboundings'[b][i].sign = inboundings[b][i].sign
               /\ inboundings'[b][i].claimed =>
                      inboundings[b][i].claimed \/ i \in Range(ids)
    <3>1. inboundings[b][i] \in Inbounding
      BY <1>2
    <3> QED
      BY <2>1, <3>1 DEF Inbounding
  <2>3. ASSUME NEW i \in 1..Len(inboundings[b])
        PROVE  FaithfulEntry(b, i)'
    <3>1. FaithfulEntry(b, i)
      BY DEF IndInv, RelayedOnce
    <3>2. CASE i \in Range(ids)
      <4>1. PICK k \in 1..Len(ids) : ids[k] = i
        BY <1>2, <3>2, RangeEquality
      <4>2. Verified(a, inboundings[b][i].amount, inboundings[b][i].sign)
        BY <1>1, <4>1
      <4>3. inboundings[b][i].account = a
        BY <1>1, <4>1
      <4>4. /\ inboundings'[b][i].srcChainId = inboundings[b][i].srcChainId
            /\ inboundings'[b][i].srcOutboundingId =
                   inboundings[b][i].srcOutboundingId
            /\ inboundings'[b][i].account = a
            /\ inboundings'[b][i].amount = inboundings[b][i].amount
            /\ inboundings'[b][i].sign = inboundings[b][i].sign
        BY <2>2, <4>3
      <4> QED
        BY Zenon, <1>1, <3>1, <4>2, <4>3, <4>4 DEF FaithfulEntry
    <3>3. CASE i \notin Range(ids)
      BY Zenon, <1>1, <2>2, <3>1, <3>3 DEF FaithfulEntry, Verified
    <3> QED
      BY <3>2, <3>3
  <2>4. \A i, j \in 1..Len(inboundings[b]) : SameRequest(b, i, j)' => i = j
    BY <2>2 DEF IndInv, RelayedOnce, SameRequest
  <2>5. \A r \in srcOutboundingIdRegistered[b] :
            \E i \in 1..Len(inboundings[b]) :
                /\ inboundings'[b][i].srcChainId = r[1]
                /\ inboundings'[b][i].srcOutboundingId = r[2]
    BY <2>2 DEF IndInv, RelayedOnce
  <2>6. /\ \A i \in 1..Len(inboundings'[b]) : FaithfulEntry(b, i)'
        /\ \A i, j \in 1..Len(inboundings'[b]) : SameRequest(b, i, j)' => i = j
        /\ \A r \in srcOutboundingIdRegistered'[b] :
               \E i \in 1..Len(inboundings'[b]) :
                   /\ inboundings'[b][i].srcChainId = r[1]
                   /\ inboundings'[b][i].srcOutboundingId = r[2]
    BY <1>1, <2>1, <2>3, <2>4, <2>5
  <2> QED
    BY <1>4, <2>6
<1> QED
  BY <1>3, <1>4

\* A batch registers each of its requests for the first time, unchanged.
LEMMA RelayedRelay ==
    ASSUME IndInv, Next, NEW v \in Validators, NEW d \in Chains, Relay(v, d)
    PROVE  RelayedOnce'
<1>1. job[v] # NoJob
  BY DEF Relay
<1>2. PICK ids \in SUBSET PendingFor(v, d) : AppendInboundings(v, job[v].src, d, ids)
  BY DEF Relay
<1> DEFINE src   == job[v].src
           batch == Ascending(ids)
           base  == Len(inboundings[d])
           new   == Len(batch)
<1>3. /\ src \in Chains
      /\ new \in Nat
      /\ \A j, k \in 1..new : batch[j] = batch[k] => j = k
      /\ \A k \in 1..new : batch[k] \in ids
      /\ \A o \in ids : \E k \in 1..new : batch[k] = o
      /\ \A o \in ids : /\ o \in 1..Len(outboundings[src])
                        /\ o \in Nat \ {0}
                        /\ outboundings[src][o].destChainId = d
  <2>1. /\ src \in Chains
        /\ new \in Nat
        /\ \A j, k \in 1..new : batch[j] = batch[k] => j = k
    BY <1>1, RelayFacts
  <2>2. /\ \A k \in 1..new : batch[k] \in ids
        /\ \A o \in ids : \E k \in 1..new : batch[k] = o
    BY <1>1, RelayFacts
  <2>3. \A o \in ids : /\ o \in 1..Len(outboundings[src])
                       /\ o \in Nat \ {0}
                       /\ outboundings[src][o].destChainId = d
    <3> SUFFICES ASSUME NEW o \in ids
                 PROVE  /\ o \in 1..Len(outboundings[src])
                        /\ o \in Nat \ {0}
                        /\ outboundings[src][o].destChainId = d
      OBVIOUS
    <3>1. o \in 1..Len(outboundings[src])
      BY <1>1, RelayFacts
    <3>2. o \in Nat \ {0}
      BY <1>1, RelayFacts
    <3>3. outboundings[src][o].destChainId = d
      BY <1>1, RelayFacts
    <3> QED
      BY <3>1, <3>2, <3>3
  <2> HIDE DEF src, batch, new
  <2> QED
    BY <2>1, <2>2, <2>3
<1>4. /\ \A c \in Chains \ {d} : inboundings'[c] = inboundings[c]
      /\ Len(inboundings'[d]) = base + new
      /\ \A i \in 1..base : inboundings'[d][i] = inboundings[d][i]
      /\ \A k \in 1..new :
             inboundings'[d][base + k] =
                 [account          |-> outboundings[src][batch[k]].account,
                  amount           |-> outboundings[src][batch[k]].amount,
                  srcChainId       |-> src,
                  srcOutboundingId |-> batch[k],
                  claimed          |-> FALSE,
                  sign             |-> outboundings[src][batch[k]].sign]
  BY ZenonT(30), <1>1, <1>2, RelayEffect
<1>5. /\ \A o \in ids : <<src, o>> \notin srcOutboundingIdRegistered[d]
      /\ srcOutboundingIdRegistered' =
             [srcOutboundingIdRegistered EXCEPT
                 ![d] = @ \cup {<<src, o>> : o \in ids}]
      /\ outboundings' = outboundings
  BY <1>2 DEF AppendInboundings, NoneRegistered
<1>6. /\ srcOutboundingIdRegistered \in [Chains -> SUBSET (Chains \X (Nat \ {0}))]
      /\ base \in Nat
      /\ outboundings \in [Chains -> Seq(Outbounding)]
  BY DEF IndInv, TypeOK
<1>7. /\ srcOutboundingIdRegistered'[d] =
             srcOutboundingIdRegistered[d] \cup {<<src, o>> : o \in ids}
      /\ \A c \in Chains \ {d} :
             srcOutboundingIdRegistered'[c] = srcOutboundingIdRegistered[c]
  BY <1>5, <1>6
<1> HIDE DEF src, batch, base, new
<1>8. ASSUME NEW i \in 1..(base + new)
      PROVE  i \in 1..base \/ \E k \in 1..new : i = base + k
  <2>1. CASE i <= base
    BY <1>3, <1>6, <2>1
  <2>2. CASE ~(i <= base)
    <3>1. i - base \in 1..new /\ i = base + (i - base)
      BY <1>3, <1>6, <2>2
    <3> QED
      BY <3>1
  <2> QED
    BY <2>1, <2>2
<1>9. ASSUME NEW k \in 1..new, NEW i, i = base + k
      PROVE  /\ inboundings'[d][i].srcChainId = src
             /\ inboundings'[d][i].srcOutboundingId = batch[k]
             /\ FaithfulEntry(d, i)'
  <2> DEFINE o == batch[k]
             e == inboundings'[d][i]
  <2>1. e = [account          |-> outboundings[src][o].account,
             amount           |-> outboundings[src][o].amount,
             srcChainId       |-> src,
             srcOutboundingId |-> o,
             claimed          |-> FALSE,
             sign             |-> outboundings[src][o].sign]
    BY <1>4, <1>9
  <2> HIDE DEF e
  <2>2. /\ e.account = outboundings[src][o].account
        /\ e.amount = outboundings[src][o].amount
        /\ e.srcChainId = src
        /\ e.srcOutboundingId = o
        /\ e.claimed = FALSE
        /\ e.sign = outboundings[src][o].sign
    BY <2>1
  <2>3. /\ o \in ids
        /\ o <= Len(outboundings[src])
        /\ outboundings[src][o].destChainId = d
    <3>1. o \in 1..Len(outboundings[src]) /\ Len(outboundings[src]) \in Nat
      BY <1>3, <1>6
    <3> QED
      BY <1>3, <3>1
  <2>4. <<src, o>> \in srcOutboundingIdRegistered'[d]
    BY <1>7, <2>3
  <2> HIDE DEF o
  <2>5. FaithfulEntry(d, i)'
    BY <1>5, <2>2, <2>3, <2>4 DEF FaithfulEntry, e
  <2> QED
    BY <2>2, <2>5 DEF e, o
<1> SUFFICES ASSUME NEW c \in Chains
             PROVE  /\ \A i \in 1..Len(inboundings'[c]) : FaithfulEntry(c, i)'
                    /\ \A i, j \in 1..Len(inboundings'[c]) :
                           SameRequest(c, i, j)' => i = j
                    /\ \A r \in srcOutboundingIdRegistered'[c] :
                           \E i \in 1..Len(inboundings'[c]) :
                               /\ inboundings'[c][i].srcChainId = r[1]
                               /\ inboundings'[c][i].srcOutboundingId = r[2]
  BY DEF RelayedOnce
<1>10. CASE c # d
  <2>1. inboundings'[c] = inboundings[c]
    BY <1>4, <1>10
  <2>2. srcOutboundingIdRegistered'[c] = srcOutboundingIdRegistered[c]
    BY <1>7, <1>10
  <2>3. \A i \in 1..Len(inboundings[c]) : FaithfulEntry(c, i)'
    BY <2>1, <2>2, FaithfulKept
  <2>4. \A i, j \in 1..Len(inboundings'[c]) : SameRequest(c, i, j)' => i = j
    BY <2>1 DEF IndInv, RelayedOnce, SameRequest
  <2>5. \A r \in srcOutboundingIdRegistered'[c] :
            \E i \in 1..Len(inboundings'[c]) :
                /\ inboundings'[c][i].srcChainId = r[1]
                /\ inboundings'[c][i].srcOutboundingId = r[2]
    BY <2>1, <2>2 DEF IndInv, RelayedOnce
  <2> QED
    BY <2>1, <2>3, <2>4, <2>5
<1>11. \A i \in 1..Len(inboundings'[d]) : FaithfulEntry(d, i)'
  <2>1. ASSUME NEW i \in 1..base
        PROVE  FaithfulEntry(d, i)'
    <3>1. i \in 1..Len(inboundings[d])
      BY DEF base
    <3> QED
      BY <1>4, <1>7, <3>1, FaithfulKept
  <2>2. ASSUME NEW i \in 1..(base + new)
        PROVE  FaithfulEntry(d, i)'
    <3>1. CASE i \in 1..base
      BY <2>1, <3>1
    <3>2. CASE \E k \in 1..new : i = base + k
      BY <1>9, <3>2
    <3> QED
      BY <1>8, <3>1, <3>2
  <2> QED
    BY <1>4, <2>2
<1>12. \A i, j \in 1..Len(inboundings'[d]) : SameRequest(d, i, j)' => i = j
  <2> SUFFICES ASSUME NEW i \in 1..(base + new), NEW j \in 1..(base + new),
                      SameRequest(d, i, j)'
               PROVE  i = j
    BY <1>4
  <2>1. ASSUME NEW m \in 1..base, NEW k \in 1..new
        PROVE  ~(/\ inboundings'[d][m].srcChainId = inboundings'[d][base + k].srcChainId
                 /\ inboundings'[d][m].srcOutboundingId =
                        inboundings'[d][base + k].srcOutboundingId)
    <3>1. <<inboundings[d][m].srcChainId, inboundings[d][m].srcOutboundingId>>
              \in srcOutboundingIdRegistered[d]
      BY DEF IndInv, RelayedOnce, FaithfulEntry, base
    <3>2. <<src, batch[k]>> \notin srcOutboundingIdRegistered[d]
      BY <1>3, <1>5 DEF src
    <3> QED
      BY SMTT(30), <1>4, <1>9, <3>1, <3>2
  <2>2. CASE i \in 1..base /\ j \in 1..base
    BY SMTT(30), <1>4, <2>2 DEF IndInv, RelayedOnce, SameRequest, base
  <2>3. CASE i \in 1..base /\ \E k \in 1..new : j = base + k
    BY <2>1, <2>3 DEF SameRequest
  <2>4. CASE j \in 1..base /\ \E k \in 1..new : i = base + k
    BY <2>1, <2>4 DEF SameRequest
  <2>5. CASE (\E k \in 1..new : i = base + k) /\ (\E k \in 1..new : j = base + k)
    BY <1>3, <1>9, <2>5 DEF SameRequest
  <2> QED
    BY <1>8, <2>2, <2>3, <2>4, <2>5
<1>13. ASSUME NEW r \in srcOutboundingIdRegistered'[d]
       PROVE  \E i \in 1..Len(inboundings'[d]) :
                  /\ inboundings'[d][i].srcChainId = r[1]
                  /\ inboundings'[d][i].srcOutboundingId = r[2]
  <2>1. CASE r \in srcOutboundingIdRegistered[d]
    <3>1. PICK i \in 1..base : /\ inboundings[d][i].srcChainId = r[1]
                               /\ inboundings[d][i].srcOutboundingId = r[2]
      BY <2>1 DEF IndInv, RelayedOnce, base
    <3>2. i \in 1..(base + new)
      BY <1>3, <1>6
    <3> QED
      BY <1>4, <3>1, <3>2
  <2>2. ASSUME NEW o \in ids, r = <<src, o>>
        PROVE  \E i \in 1..Len(inboundings'[d]) :
                   /\ inboundings'[d][i].srcChainId = r[1]
                   /\ inboundings'[d][i].srcOutboundingId = r[2]
    <3>1. PICK k \in 1..new : batch[k] = o
      BY <1>3
    <3>2. base + k \in 1..(base + new)
      BY <1>3, <1>6
    <3> QED
      BY <1>4, <1>9, <2>2, <3>1, <3>2
  <2> QED
    BY <1>7, <2>1, <2>2
<1>14. CASE c = d
  BY <1>11, <1>12, <1>13, <1>14
<1> QED
  BY <1>10, <1>14

\* Every action keeps "registered once".
LEMMA RelayedStep ==
    ASSUME IndInv, Next
    PROVE  RelayedOnce'
<1>1. ASSUME inboundings' = inboundings,
             srcOutboundingIdRegistered' = srcOutboundingIdRegistered
      PROVE  RelayedOnce'
  <2> SUFFICES ASSUME NEW d \in Chains
               PROVE  /\ \A i \in 1..Len(inboundings'[d]) : FaithfulEntry(d, i)'
                      /\ \A i, j \in 1..Len(inboundings'[d]) :
                             SameRequest(d, i, j)' => i = j
                      /\ \A r \in srcOutboundingIdRegistered'[d] :
                             \E i \in 1..Len(inboundings'[d]) :
                                 /\ inboundings'[d][i].srcChainId = r[1]
                                 /\ inboundings'[d][i].srcOutboundingId = r[2]
    BY DEF RelayedOnce
  <2>1. \A i \in 1..Len(inboundings[d]) : FaithfulEntry(d, i)'
    BY <1>1, FaithfulKept
  <2>2. \A i, j \in 1..Len(inboundings[d]) : SameRequest(d, i, j)' => i = j
    BY <1>1 DEF IndInv, RelayedOnce, SameRequest
  <2>3. \A r \in srcOutboundingIdRegistered[d] :
            \E i \in 1..Len(inboundings[d]) :
                /\ inboundings[d][i].srcChainId = r[1]
                /\ inboundings[d][i].srcOutboundingId = r[2]
    BY DEF IndInv, RelayedOnce
  <2> QED
    BY <1>1, <2>1, <2>2, <2>3
<1>2. ASSUME NEW c \in Chains, NEW a \in Accounts, NEW amount \in Amounts,
             NEW d \in Chains, NEW sign \in Signatures,
             OverchainTransfer(c, a, amount, d, sign)
      PROVE  RelayedOnce'
  BY <1>1, <1>2 DEF OverchainTransfer, listVars
<1>3. ASSUME NEW v \in Validators, NEW c \in Chains, CloseOutboundPeriod(v, c)
      PROVE  RelayedOnce'
  BY <1>1, <1>3 DEF CloseOutboundPeriod, listVars
<1>4. ASSUME NEW v \in Validators, FinishPeriod(v)
      PROVE  RelayedOnce'
  BY <1>1, <1>4 DEF FinishPeriod, ProcessOutboundPeriod, listVars
<1>5. CASE Quiet
  BY <1>1, <1>5 DEF Quiet, listVars
<1> QED
  BY <1>2, <1>3, <1>4, <1>5, NextCases, RelayedClaim, RelayedRelay

-----------------------------------------------------------------------------
(* InboxExact.                                                             *)

\* A claim empties the list of its account and marks what the list held.
LEMMA InboxClaim ==
    ASSUME IndInv, NEW b \in Chains, NEW a \in Accounts,
           ClaimAllBridgedAmounts(b, a)
    PROVE  InboxExact'
<1> DEFINE ids == accountInboundings[b][a]
           n   == Len(inboundings[b])
           f   == [i \in 1..n |-> IF i \in Range(ids)
                                  THEN [inboundings[b][i] EXCEPT !.claimed = TRUE]
                                  ELSE inboundings[b][i]]
<1>1. /\ inboundings' = [inboundings EXCEPT ![b] = f]
      /\ accountInboundings' = [accountInboundings EXCEPT ![b][a] = <<>>]
  BY DEF ClaimAllBridgedAmounts
<1>2. /\ inboundings \in [Chains -> Seq(Inbounding)]
      /\ accountInboundings \in [Chains -> [Accounts -> Seq(Nat \ {0})]]
      /\ ids \in Seq(Nat \ {0})
      /\ n \in Nat
  BY DEF IndInv, TypeOK
<1>3. inboundings'[b] = f /\ Len(f) = n
  <2>1. f \in [1..n -> Inbounding]
    <3>1. \A i \in 1..n : inboundings[b][i] \in Inbounding
      BY <1>2
    <3> QED
      BY <3>1 DEF Inbounding
  <2>2. Len(f) = n
    <3> HIDE DEF f
    <3> QED
      BY <1>2, <2>1, SeqDef
  <2> QED
    BY <1>1, <1>2, <2>2
<1>4. ASSUME NEW i \in 1..n
      PROVE  /\ f[i].account = inboundings[b][i].account
             /\ f[i].claimed <=> inboundings[b][i].claimed \/ i \in Range(ids)
  <2>1. inboundings[b][i] \in Inbounding
    BY <1>2
  <2> QED
    BY <2>1 DEF Inbounding
<1> HIDE DEF f
<1>5. \A k \in Range(ids) : k \in 1..n /\ inboundings[b][k].account = a
  <2> SUFFICES ASSUME NEW k \in Range(ids)
               PROVE  k \in 1..n /\ inboundings[b][k].account = a
    OBVIOUS
  <2>1. PICK j \in 1..Len(ids) : ids[j] = k
    BY <1>2, RangeEquality
  <2> QED
    BY <2>1 DEF IndInv, InboxExact
<1> SUFFICES ASSUME NEW c \in Chains, NEW u \in Accounts
             PROVE  LET list == accountInboundings'[c][u]
                    IN  /\ \A j, k \in 1..Len(list) : list[j] = list[k] => j = k
                        /\ \A k \in 1..Len(list) :
                               /\ list[k] \in 1..Len(inboundings'[c])
                               /\ inboundings'[c][list[k]].account = u
                               /\ ~inboundings'[c][list[k]].claimed
                        /\ \A i \in 1..Len(inboundings'[c]) :
                               /\ inboundings'[c][i].account = u
                               /\ ~inboundings'[c][i].claimed
                               => i \in Range(list)
  BY DEF InboxExact
<1>6. CASE c # b
  <2>1. /\ inboundings'[c] = inboundings[c]
        /\ accountInboundings'[c][u] = accountInboundings[c][u]
    BY <1>1, <1>2, <1>6
  <2> QED
    BY <2>1 DEF IndInv, InboxExact
<1>7. CASE c = b /\ u # a
  <2> DEFINE list == accountInboundings[b][u]
  <2>1. accountInboundings'[b][u] = list
    BY <1>1, <1>2, <1>7
  <2>2. \A j, k \in 1..Len(list) : list[j] = list[k] => j = k
    BY DEF IndInv, InboxExact
  <2>3. ASSUME NEW k \in 1..Len(list)
        PROVE  /\ list[k] \in 1..n
               /\ f[list[k]].account = u
               /\ ~f[list[k]].claimed
    <3>1. /\ list[k] \in 1..n
          /\ inboundings[b][list[k]].account = u
          /\ ~inboundings[b][list[k]].claimed
      BY DEF IndInv, InboxExact
    <3>2. list[k] \notin Range(ids)
      BY <1>5, <1>7, <3>1
    <3> QED
      BY <1>4, <3>1, <3>2
  <2>4. ASSUME NEW i \in 1..n, f[i].account = u, ~f[i].claimed
        PROVE  i \in Range(list)
    BY <1>4, <2>4 DEF IndInv, InboxExact
  <2> QED
    BY <1>3, <1>7, <2>1, <2>2, <2>3, <2>4
<1>8. CASE c = b /\ u = a
  <2>1. accountInboundings'[b][a] = <<>>
    BY <1>1, <1>2
  <2>2. ASSUME NEW i \in 1..n, f[i].account = a
        PROVE  f[i].claimed
    BY <1>4, <2>2 DEF IndInv, InboxExact
  <2> QED
    BY <1>3, <1>8, <2>1, <2>2
<1> QED
  BY <1>6, <1>7, <1>8

\* A batch appends its new ids to the lists of their accounts.
LEMMA InboxRelay ==
    ASSUME IndInv, NEW v \in Validators, NEW d \in Chains, Relay(v, d)
    PROVE  InboxExact'
<1>1. job[v] # NoJob
  BY DEF Relay
<1>2. PICK ids \in SUBSET PendingFor(v, d) : AppendInboundings(v, job[v].src, d, ids)
  BY DEF Relay
<1> DEFINE base == Len(inboundings[d])
           last == Len(inboundings'[d])
           batch == Ascending(ids)
<1>3. /\ \A c \in Chains \ {d} : inboundings'[c] = inboundings[c]
      /\ last = base + Len(batch)
      /\ \A i \in 1..base : inboundings'[d][i] = inboundings[d][i]
      /\ \A k \in 1..Len(batch) : inboundings'[d][base + k].claimed = FALSE
  <2>1. /\ \A c \in Chains \ {d} : inboundings'[c] = inboundings[c]
        /\ last = base + Len(batch)
        /\ \A i \in 1..base : inboundings'[d][i] = inboundings[d][i]
        /\ \A k \in 1..Len(batch) :
               inboundings'[d][base + k] =
                   [account          |-> outboundings[job[v].src][batch[k]].account,
                    amount           |-> outboundings[job[v].src][batch[k]].amount,
                    srcChainId       |-> job[v].src,
                    srcOutboundingId |-> batch[k],
                    claimed          |-> FALSE,
                    sign             |-> outboundings[job[v].src][batch[k]].sign]
    BY ZenonT(30), <1>1, <1>2, RelayEffect
  <2> HIDE DEF base, last, batch
  <2>2. ASSUME NEW k \in 1..Len(batch)
        PROVE  inboundings'[d][base + k].claimed = FALSE
    <3> DEFINE o == outboundings[job[v].src][batch[k]]
               e == [account          |-> o.account,
                     amount           |-> o.amount,
                     srcChainId       |-> job[v].src,
                     srcOutboundingId |-> batch[k],
                     claimed          |-> FALSE,
                     sign             |-> o.sign]
    <3>1. inboundings'[d][base + k] = e
      BY <2>1
    <3>2. e.claimed = FALSE
      OBVIOUS
    <3> HIDE DEF e
    <3> QED
      BY <3>1, <3>2
  <2> QED
    BY <2>1, <2>2
<1>4. /\ \A c \in Chains \ {d} : accountInboundings'[c] = accountInboundings[c]
      /\ \A a \in Accounts : \E t \in Seq(Nat \ {0}) : ListGrows(d, a, t)
  BY <1>1, <1>2, RelayInbox
<1>5. base \in Nat /\ Len(batch) \in Nat
  <2>1. base \in Nat
    BY DEF IndInv, TypeOK
  <2>2. Len(batch) \in Nat
    BY <1>1, RelayFacts
  <2> QED
    BY <2>1, <2>2
<1>6. \A i \in (base + 1)..last : ~inboundings'[d][i].claimed
  <2> SUFFICES ASSUME NEW i \in (base + 1)..last
               PROVE  ~inboundings'[d][i].claimed
    OBVIOUS
  <2> HIDE DEF base, last, batch
  <2>1. i - base \in 1..Len(batch) /\ base + (i - base) = i
    BY <1>3, <1>5
  <2> QED
    BY <1>3, <2>1
<1> SUFFICES ASSUME NEW c \in Chains, NEW u \in Accounts
             PROVE  LET list == accountInboundings'[c][u]
                    IN  /\ \A j, k \in 1..Len(list) : list[j] = list[k] => j = k
                        /\ \A k \in 1..Len(list) :
                               /\ list[k] \in 1..Len(inboundings'[c])
                               /\ inboundings'[c][list[k]].account = u
                               /\ ~inboundings'[c][list[k]].claimed
                        /\ \A i \in 1..Len(inboundings'[c]) :
                               /\ inboundings'[c][i].account = u
                               /\ ~inboundings'[c][i].claimed
                               => i \in Range(list)
  BY DEF InboxExact
<1>7. CASE c # d
  <2>1. /\ inboundings'[c] = inboundings[c]
        /\ accountInboundings'[c][u] = accountInboundings[c][u]
    BY <1>3, <1>4, <1>7
  <2> QED
    BY <2>1 DEF IndInv, InboxExact
<1>8. CASE c = d
  <2> DEFINE s == accountInboundings[d][u]
             list == accountInboundings'[d][u]
  <2>1. PICK t \in Seq(Nat \ {0}) :
                 /\ list = s \o t
                 /\ \A j, k \in 1..Len(t) : t[j] = t[k] => j = k
                 /\ \A i \in Nat :
                        (\E k \in 1..Len(t) : t[k] = i) <=>
                            /\ i \in (base + 1)..last
                            /\ inboundings'[d][i].account = u
    BY <1>4 DEF ListGrows
  <2>2. s \in Seq(Nat \ {0})
    BY DEF IndInv, TypeOK
  <2>3. /\ \A j, k \in 1..Len(s) : s[j] = s[k] => j = k
        /\ \A k \in 1..Len(s) : /\ s[k] \in 1..base
                                /\ inboundings[d][s[k]].account = u
                                /\ ~inboundings[d][s[k]].claimed
        /\ \A i \in 1..base :
               /\ inboundings[d][i].account = u
               /\ ~inboundings[d][i].claimed
               => i \in Range(s)
    BY DEF IndInv, InboxExact
  <2> HIDE DEF s, list, base, last, batch
  <2>4. /\ Len(s) \in Nat /\ Len(t) \in Nat
        /\ Len(list) = Len(s) + Len(t)
        /\ \A k \in 1..(Len(s) + Len(t)) :
               list[k] = IF k <= Len(s) THEN s[k] ELSE t[k - Len(s)]
        /\ list \in Seq(Nat \ {0})
    BY <2>1, <2>2, ConcatProperties, LenProperties
  <2>5. \A k \in 1..Len(t) : /\ t[k] \in (base + 1)..last
                             /\ inboundings'[d][t[k]].account = u
    <3> SUFFICES ASSUME NEW k \in 1..Len(t)
                 PROVE  /\ t[k] \in (base + 1)..last
                        /\ inboundings'[d][t[k]].account = u
      OBVIOUS
    <3>1. t[k] \in Nat
      BY <2>1, ElementOfSeq
    <3> QED
      BY <2>1, <3>1
  <2>6. ASSUME NEW j \in 1..Len(list), NEW k \in 1..Len(list), list[j] = list[k]
        PROVE  j = k
    <3>1. CASE j <= Len(s) /\ k <= Len(s)
      <4>1. j \in 1..Len(s) /\ k \in 1..Len(s)
        BY <2>4, <3>1
      <4>2. s[j] = s[k]
        BY <2>4, <2>6, <3>1
      <4> QED
        BY <2>3, <4>1, <4>2
    <3>2. CASE j <= Len(s) /\ ~(k <= Len(s))
      <4>1. /\ j \in 1..Len(s) /\ list[j] = s[j]
            /\ k - Len(s) \in 1..Len(t) /\ list[k] = t[k - Len(s)]
        BY <2>4, <3>2
      <4>2. list[j] \in 1..base
        BY <2>3, <4>1
      <4>3. list[k] \in (base + 1)..last
        BY <2>5, <4>1
      <4> QED
        BY <1>5, <2>6, <4>2, <4>3
    <3>3. CASE ~(j <= Len(s)) /\ k <= Len(s)
      <4>1. /\ k \in 1..Len(s) /\ list[k] = s[k]
            /\ j - Len(s) \in 1..Len(t) /\ list[j] = t[j - Len(s)]
        BY <2>4, <3>3
      <4>2. list[k] \in 1..base
        BY <2>3, <4>1
      <4>3. list[j] \in (base + 1)..last
        BY <2>5, <4>1
      <4> QED
        BY <1>5, <2>6, <4>2, <4>3
    <3>4. CASE ~(j <= Len(s)) /\ ~(k <= Len(s))
      <4>1. j - Len(s) \in 1..Len(t) /\ k - Len(s) \in 1..Len(t)
        BY <2>4, <3>4
      <4>2. t[j - Len(s)] = t[k - Len(s)]
        BY <2>4, <2>6, <3>4
      <4>3. j - Len(s) = k - Len(s)
        BY <2>1, <4>1, <4>2
      <4> QED
        BY <2>4, <4>3
    <3> QED
      BY <3>1, <3>2, <3>3, <3>4
  <2>7. ASSUME NEW k \in 1..Len(list)
        PROVE  /\ list[k] \in 1..last
               /\ inboundings'[d][list[k]].account = u
               /\ ~inboundings'[d][list[k]].claimed
    <3>1. CASE k <= Len(s)
      <4>1. list[k] = s[k] /\ k \in 1..Len(s)
        BY <2>4, <3>1
      <4>2. /\ s[k] \in 1..base
            /\ inboundings[d][s[k]].account = u
            /\ ~inboundings[d][s[k]].claimed
        BY <2>3, <4>1
      <4>3. s[k] \in 1..last
        BY <1>3, <1>5, <4>2
      <4> QED
        BY <1>3, <4>1, <4>2, <4>3
    <3>2. CASE ~(k <= Len(s))
      <4>1. k - Len(s) \in 1..Len(t) /\ list[k] = t[k - Len(s)]
        BY <2>4, <3>2
      <4>2. list[k] \in (base + 1)..last /\ inboundings'[d][list[k]].account = u
        BY <2>5, <4>1
      <4> QED
        BY <1>5, <1>6, <4>2
    <3> QED
      BY <3>1, <3>2
  <2>8. Range(list) = {list[k] : k \in 1..Len(list)}
    BY <2>4, RangeEquality
  <2>9. ASSUME NEW i \in 1..last, inboundings'[d][i].account = u,
               ~inboundings'[d][i].claimed
        PROVE  i \in Range(list)
    <3>1. CASE i <= base
      <4>1. i \in Range(s)
        BY <1>3, <1>5, <2>3, <2>9, <3>1
      <4>2. PICK k \in 1..Len(s) : s[k] = i
        BY <2>2, <4>1, RangeEquality
      <4>3. k \in 1..Len(list) /\ list[k] = i
        BY <2>4, <4>2
      <4> QED
        BY <2>8, <4>3
    <3>2. CASE ~(i <= base)
      <4>1. i \in (base + 1)..last /\ i \in Nat
        BY <1>5, <3>2
      <4>2. PICK k \in 1..Len(t) : t[k] = i
        BY <2>1, <2>9, <4>1
      <4>3. Len(s) + k \in 1..Len(list) /\ (Len(s) + k) - Len(s) = k
        BY <2>4
      <4>4. list[Len(s) + k] = i
        <5> DEFINE m == Len(s) + k
        <5>1. m \in 1..(Len(s) + Len(t)) /\ ~(m <= Len(s)) /\ m - Len(s) = k
          BY SMTT(30), <2>4
        <5> HIDE DEF m
        <5>2. list[m] = i
          BY <2>4, <4>2, <5>1
        <5> QED
          BY <5>2 DEF m
      <4> QED
        BY <2>8, <4>3, <4>4
    <3> QED
      BY <3>1, <3>2
  <2> QED
    BY <1>8, <2>6, <2>7, <2>9 DEF list, last
<1> QED
  BY <1>7, <1>8

\* Every action keeps the lists exact.
LEMMA InboxStep ==
    ASSUME IndInv, Next
    PROVE  InboxExact'
<1>1. ASSUME UNCHANGED listVars
      PROVE  InboxExact'
  BY <1>1 DEF IndInv, InboxExact, listVars
<1>2. ASSUME NEW c \in Chains, NEW a \in Accounts, NEW amount \in Amounts,
             NEW d \in Chains, NEW sign \in Signatures,
             OverchainTransfer(c, a, amount, d, sign)
      PROVE  InboxExact'
  BY <1>1, <1>2 DEF OverchainTransfer
<1>3. ASSUME NEW v \in Validators, NEW c \in Chains, CloseOutboundPeriod(v, c)
      PROVE  InboxExact'
  BY <1>1, <1>3 DEF CloseOutboundPeriod
<1>4. ASSUME NEW v \in Validators, FinishPeriod(v)
      PROVE  InboxExact'
  BY <1>1, <1>4 DEF FinishPeriod, ProcessOutboundPeriod
<1>5. CASE Quiet
  BY <1>1, <1>5 DEF Quiet
<1> QED
  BY <1>2, <1>3, <1>4, <1>5, NextCases, InboxClaim, InboxRelay

-----------------------------------------------------------------------------
(* PeriodsWellFormed.                                                      *)

WellFormedChain(c) ==
    WellFormed(outboundPeriods[c], outboundPeriodIdsToProcess[c],
               outboundings[c], now)

\* The state of a chain's periods is well-typed, before the step and after it.
LEMMA ChainTypes ==
    ASSUME IndInv, NEW c \in Chains
    PROVE  /\ outboundPeriods[c] \in Seq(Period)
           /\ outboundPeriodIdsToProcess[c] \in Seq(Nat \ {0})
           /\ outboundings[c] \in Seq(Outbounding)
           /\ now \in Nat \ {0}
           /\ WellFormedChain(c)
           /\ Len(outboundPeriods[c]) \in Nat \ {0}
           /\ outboundPeriods[c][Len(outboundPeriods[c])] \in Period
<1>1. /\ outboundPeriods[c] \in Seq(Period)
      /\ outboundPeriodIdsToProcess[c] \in Seq(Nat \ {0})
      /\ outboundings[c] \in Seq(Outbounding)
      /\ now \in Nat \ {0}
  BY DEF IndInv, TypeOK
<1>2. WellFormedChain(c)
  BY WellFormedChains DEF IndInv, WellFormedChain
<1>3. Len(outboundPeriods[c]) \in Nat \ {0}
  BY <1>1, <1>2, LenProperties DEF WellFormedChain, WellFormed
<1> QED
  BY <1>1, <1>2, <1>3, ElementOfSeq

\* The periods are well-formed after a step when those of each chain are.
LEMMA WellFormedNext ==
    ASSUME \A c \in Chains : WellFormed(outboundPeriods'[c],
                                        outboundPeriodIdsToProcess'[c],
                                        outboundings'[c], now')
    PROVE  PeriodsWellFormed'
  BY DEF PeriodsWellFormed, WellFormed, PeriodWellFormed, RequestInPeriod,
         currentOutboundPeriodId

\* A burn lists its request in the open period, or in the one opened after it.
LEMMA PeriodsOverchain ==
    ASSUME IndInv, NEW b \in Chains, NEW a \in Accounts, NEW amount \in Amounts,
           NEW d \in Chains, NEW sign \in Signatures,
           OverchainTransfer(b, a, amount, d, sign)
    PROVE  PeriodsWellFormed'
<1> DEFINE periods == outboundPeriods[b]
           list    == outboundPeriodIdsToProcess[b]
           outs    == outboundings[b]
           cur     == Len(periods)
           open    == periods[cur]
           id      == Len(outs) + 1
           out     == [account |-> a, amount |-> amount, destChainId |-> d,
                       periodId |-> cur, sign |-> sign]
           joined  == [open EXCEPT
                          !.startTime = IF open.outboundingIds = <<>> THEN now
                                        ELSE open.startTime,
                          !.outboundingIds = Append(open.outboundingIds, id)]
           newP    == [periods EXCEPT ![cur] = joined]
<1>1. /\ periods \in Seq(Period)
      /\ list \in Seq(Nat \ {0})
      /\ outs \in Seq(Outbounding)
      /\ now \in Nat \ {0}
      /\ WellFormed(periods, list, outs, now)
      /\ cur \in Nat \ {0}
      /\ open \in Period
  BY ChainTypes DEF WellFormedChain
<1>2. out \in Outbounding /\ out.periodId = cur
  <2> HIDE DEF cur
  <2> QED
    BY <1>1, NumbersAssumption DEF Outbounding
<1>3. open.startTime \in Nat \ {0} /\ open.startTime <= now
      /\ open.outboundingIds \in Seq(Nat \ {0})
  <2>1. PeriodWellFormed(periods, list, outs, now, cur)
    BY <1>1 DEF WellFormed
  <2>2. open.startTime <= now
    BY <2>1 DEF PeriodWellFormed
  <2> QED
    BY <1>1, <2>2 DEF Period
<1>4. id \in Nat \ {0}
  BY <1>1
<1>5. /\ joined \in Period
      /\ joined.startTime <= now
      /\ joined.outboundingIds = Append(open.outboundingIds, id)
      /\ joined.processed = open.processed
  <2> HIDE DEF open, id
  <2>1. Append(open.outboundingIds, id) \in Seq(Nat \ {0})
    BY <1>3, <1>4
  <2>2. joined \in Period
    BY <1>1, <1>3, <2>1 DEF Period
  <2>3. /\ joined.startTime = IF open.outboundingIds = <<>> THEN now
                              ELSE open.startTime
        /\ joined.outboundingIds = Append(open.outboundingIds, id)
        /\ joined.processed = open.processed
    BY <1>1 DEF Period
  <2> HIDE DEF joined
  <2>4. joined.startTime <= now
    BY <1>1, <1>3, <2>3
  <2> QED
    BY <2>2, <2>3, <2>4
<1>6. WellFormed(newP, list, Append(outs, out), now)
  <2> HIDE DEF joined, out
  <2> QED
    BY <1>1, <1>2, <1>5, WellFormedJoined
<1>7. newP \in Seq(Period) /\ Len(newP) = cur /\ newP[cur] = joined
  <2> HIDE DEF joined
  <2>1. cur \in 1..Len(periods)
    BY <1>1
  <2>2. newP \in Seq(Period) /\ Len(newP) = cur
    BY <1>1, <1>5, <2>1, ExceptSeq
  <2>3. DOMAIN periods = 1..cur
    BY <1>1
  <2> QED
    BY <2>1, <2>2, <2>3
<1>8. joined.outboundingIds # <<>>
  <2> HIDE DEF joined, open, id
  <2>1. Len(joined.outboundingIds) = Len(open.outboundingIds) + 1
    BY <1>3, <1>4, <1>5, AppendProperties
  <2>2. Len(open.outboundingIds) \in Nat
    BY <1>3, LenProperties
  <2> QED
    BY <2>1, <2>2
<1>9. outboundings' = [outboundings EXCEPT ![b] = Append(outs, out)] /\ now' = now
  BY DEF OverchainTransfer, currentOutboundPeriodId
<1>10. Append(outs, out) \in Seq(Outbounding)
  BY <1>1, <1>2, AppendProperties
<1>11. /\ outboundPeriods \in [Chains -> Seq(Period)]
       /\ outboundPeriodIdsToProcess \in [Chains -> Seq(Nat \ {0})]
       /\ outboundings \in [Chains -> Seq(Outbounding)]
  BY DEF IndInv, TypeOK
<1>12. \/ /\ outboundPeriodIdsToProcess' =
                 [outboundPeriodIdsToProcess EXCEPT ![b] = Append(list, cur)]
          /\ outboundPeriods' =
                 [outboundPeriods EXCEPT ![b] = Append(newP, NewPeriod(now))]
       \/ /\ outboundPeriods' = [outboundPeriods EXCEPT ![b] = newP]
          /\ outboundPeriodIdsToProcess' = outboundPeriodIdsToProcess
  <2>1. JoinPeriod(b, id)
    BY DEF OverchainTransfer
  <2> QED
    BY <2>1 DEF JoinPeriod, CloseAndOpen, currentOutboundPeriodId
<1>13. WellFormed(outboundPeriods'[b], outboundPeriodIdsToProcess'[b],
                  outboundings'[b], now')
  <2> HIDE DEF newP, out
  <2>1. outboundings'[b] = Append(outs, out)
    BY <1>9, <1>11
  <2>2. CASE /\ outboundPeriodIdsToProcess' =
                 [outboundPeriodIdsToProcess EXCEPT ![b] = Append(list, cur)]
             /\ outboundPeriods' =
                 [outboundPeriods EXCEPT ![b] = Append(newP, NewPeriod(now))]
    <3>1. /\ outboundPeriodIdsToProcess'[b] = Append(list, Len(newP))
          /\ outboundPeriods'[b] = Append(newP, NewPeriod(now))
      BY <1>7, <1>11, <2>2
    <3>2. newP[Len(newP)].outboundingIds # <<>>
      BY <1>7, <1>8
    <3> HIDE DEF list
    <3>3. WellFormed(Append(newP, NewPeriod(now)), Append(list, Len(newP)),
                     Append(outs, out), now)
      BY <1>1, <1>6, <1>7, <1>10, <3>2, WellFormedClosed
    <3> QED
      BY <1>9, <2>1, <3>1, <3>3
  <2>3. CASE /\ outboundPeriods' = [outboundPeriods EXCEPT ![b] = newP]
             /\ outboundPeriodIdsToProcess' = outboundPeriodIdsToProcess
    BY <1>6, <1>9, <1>11, <2>1, <2>3
  <2> QED
    BY <1>12, <2>2, <2>3
<1>14. ASSUME NEW c \in Chains \ {b}
       PROVE  WellFormed(outboundPeriods'[c], outboundPeriodIdsToProcess'[c],
                         outboundings'[c], now')
  <2>1. /\ outboundPeriods'[c] = outboundPeriods[c]
        /\ outboundPeriodIdsToProcess'[c] = outboundPeriodIdsToProcess[c]
        /\ outboundings'[c] = outboundings[c]
    <3> HIDE DEF newP, out
    <3> QED
      BY <1>9, <1>11, <1>12
  <2>2. WellFormed(outboundPeriods[c], outboundPeriodIdsToProcess[c],
                   outboundings[c], now)
    BY ChainTypes DEF WellFormedChain
  <2> QED
    BY <1>9, <2>1, <2>2
<1> QED
  BY <1>13, <1>14, WellFormedNext

\* A period closed by a validator goes on the process list and a new one opens.
LEMMA PeriodsClose ==
    ASSUME IndInv, NEW v \in Validators, NEW b \in Chains,
           CloseOutboundPeriod(v, b)
    PROVE  PeriodsWellFormed'
<1> DEFINE periods == outboundPeriods[b]
           list    == outboundPeriodIdsToProcess[b]
           outs    == outboundings[b]
           cur     == Len(periods)
           open    == periods[cur]
<1>1. /\ periods \in Seq(Period)
      /\ list \in Seq(Nat \ {0})
      /\ outs \in Seq(Outbounding)
      /\ now \in Nat \ {0}
      /\ WellFormed(periods, list, outs, now)
      /\ cur \in Nat \ {0}
  BY ChainTypes DEF WellFormedChain
<1>2. /\ outboundPeriods \in [Chains -> Seq(Period)]
      /\ outboundPeriodIdsToProcess \in [Chains -> Seq(Nat \ {0})]
  BY DEF IndInv, TypeOK
<1>3. [periods EXCEPT ![cur] = open] = periods
  BY <1>1
<1>4. /\ open.outboundingIds # <<>>
      /\ outboundPeriodIdsToProcess' =
             [outboundPeriodIdsToProcess EXCEPT ![b] = Append(list, cur)]
      /\ outboundPeriods' =
             [outboundPeriods EXCEPT
                 ![b] = Append([periods EXCEPT ![cur] = open], NewPeriod(now))]
      /\ outboundings' = outboundings
      /\ now' = now
  BY DEF CloseOutboundPeriod, CloseAndOpen, currentOutboundPeriodId
<1>5. WellFormed(Append(periods, NewPeriod(now)), Append(list, cur), outs, now)
  BY <1>1, <1>4, WellFormedClosed
<1>6. WellFormed(outboundPeriods'[b], outboundPeriodIdsToProcess'[b],
                 outboundings'[b], now')
  BY <1>2, <1>3, <1>4, <1>5
<1>7. ASSUME NEW c \in Chains \ {b}
      PROVE  WellFormed(outboundPeriods'[c], outboundPeriodIdsToProcess'[c],
                        outboundings'[c], now')
  <2>1. WellFormed(outboundPeriods[c], outboundPeriodIdsToProcess[c],
                   outboundings[c], now)
    BY ChainTypes DEF WellFormedChain
  <2> QED
    BY <1>2, <1>4, <2>1
<1> QED
  BY <1>6, <1>7, WellFormedNext

\* A processed period leaves the process list, and only that one does.
LEMMA PeriodsFinish ==
    ASSUME IndInv, NEW v \in Validators, FinishPeriod(v)
    PROVE  PeriodsWellFormed'
<1> DEFINE b    == job[v].src
           p    == job[v].period
           list == outboundPeriodIdsToProcess[b]
           rest == outboundPeriodIdsToProcess'[b]
<1>1. b \in Chains /\ p \in Nat \ {0}
  BY DEF FinishPeriod, IndInv, TypeOK, Job
<1>2. ProcessOutboundPeriod(v, b, p) /\ job[v] # NoJob
  BY DEF FinishPeriod
<1>3. /\ p \in 1..Len(outboundPeriods[b])
      /\ outboundPeriodIdsToProcess' \in [Chains -> Seq(Nat \ {0})]
      /\ \A c \in Chains \ {b} :
             outboundPeriodIdsToProcess'[c] = outboundPeriodIdsToProcess[c]
      /\ \A j, k \in 1..Len(rest) : rest[j] = rest[k] => j = k
      /\ Range(rest) = Range(list) \ {p}
      /\ outboundPeriods' =
             [outboundPeriods EXCEPT
                 ![b] = [outboundPeriods[b] EXCEPT
                            ![p] = [outboundPeriods[b][p] EXCEPT
                                       !.processed = TRUE]]]
  <2> HIDE DEF b, p
  <2>1. /\ p \in 1..Len(outboundPeriods[b])
        /\ outboundPeriodIdsToProcess' \in [Chains -> Seq(Nat \ {0})]
        /\ Range(rest) = Range(list) \ {p}
    BY <1>1, <1>2, ProcessEffect
  <2>2. \A c \in Chains \ {b} :
            outboundPeriodIdsToProcess'[c] = outboundPeriodIdsToProcess[c]
    BY <1>1, <1>2, ProcessEffect
  <2>3. \A j, k \in 1..Len(rest) : rest[j] = rest[k] => j = k
    BY <1>1, <1>2, ProcessEffect
  <2>4. outboundPeriods' =
             [outboundPeriods EXCEPT
                 ![b] = [outboundPeriods[b] EXCEPT
                            ![p] = [outboundPeriods[b][p] EXCEPT
                                       !.processed = TRUE]]]
    BY <1>1, <1>2, ProcessEffect
  <2> QED
    BY <2>1, <2>2, <2>3, <2>4
<1>4. p \in Range(list) /\ outboundings' = outboundings /\ now' = now
  BY <1>2 DEF ProcessOutboundPeriod
<1>5. /\ outboundPeriods[b] \in Seq(Period)
      /\ list \in Seq(Nat \ {0})
      /\ outboundings[b] \in Seq(Outbounding)
      /\ now \in Nat
      /\ WellFormed(outboundPeriods[b], list, outboundings[b], now)
  BY <1>1, ChainTypes DEF WellFormedChain
<1>6. outboundPeriods \in [Chains -> Seq(Period)]
  BY DEF IndInv, TypeOK
<1>7. rest \in Seq(Nat \ {0})
  BY <1>1, <1>3
<1> HIDE DEF b, p, list, rest
<1>8. WellFormed([outboundPeriods[b] EXCEPT
                     ![p] = [outboundPeriods[b][p] EXCEPT !.processed = TRUE]],
                 rest, outboundings[b], now)
  BY <1>3, <1>4, <1>5, <1>7, WellFormedProcessed
<1>9. WellFormed(outboundPeriods'[b], rest, outboundings'[b], now')
  BY <1>1, <1>3, <1>4, <1>6, <1>8
<1>10. ASSUME NEW c \in Chains \ {b}
       PROVE  WellFormed(outboundPeriods'[c], outboundPeriodIdsToProcess'[c],
                         outboundings'[c], now')
  <2>1. WellFormed(outboundPeriods[c], outboundPeriodIdsToProcess[c],
                   outboundings[c], now)
    BY ChainTypes DEF WellFormedChain
  <2> QED
    BY <1>3, <1>4, <1>6, <2>1
<1> QED
  BY <1>9, <1>10, WellFormedNext DEF rest

\* Every action keeps the periods well-formed.
LEMMA PeriodsStep ==
    ASSUME IndInv, Next
    PROVE  PeriodsWellFormed'
<1>1. ASSUME UNCHANGED <<outboundings, periodVars>>, now' \in Nat, now' >= now
      PROVE  PeriodsWellFormed'
  <2>1. ASSUME NEW c \in Chains
        PROVE  WellFormed(outboundPeriods'[c], outboundPeriodIdsToProcess'[c],
                          outboundings'[c], now')
    <3>1. WellFormed(outboundPeriods[c], outboundPeriodIdsToProcess[c],
                     outboundings[c], now')
      BY <1>1, ChainTypes, WellFormedLater DEF WellFormedChain
    <3> QED
      BY <1>1, <3>1 DEF periodVars
  <2> QED
    BY <2>1, WellFormedNext
<1>2. now \in Nat /\ now' \in Nat
  <2>1. TypeOK'
    BY TypeStep
  <2> QED
    BY <2>1 DEF IndInv, TypeOK
<1>3. ASSUME NEW c \in Chains, NEW a \in Accounts, ClaimAllBridgedAmounts(c, a)
      PROVE  PeriodsWellFormed'
  BY <1>1, <1>2, <1>3 DEF ClaimAllBridgedAmounts
<1>4. ASSUME NEW v \in Validators, NEW d \in Chains, Relay(v, d)
      PROVE  PeriodsWellFormed'
  <2>1. UNCHANGED <<outboundings, periodVars, now>>
    BY <1>4 DEF Relay, AppendInboundings
  <2> QED
    BY SMTT(30), <1>1, <1>2, <2>1
<1>5. CASE Quiet
  BY <1>1, <1>2, <1>5 DEF Quiet
<1> QED
  BY <1>3, <1>4, <1>5, NextCases, PeriodsOverchain, PeriodsClose, PeriodsFinish

-----------------------------------------------------------------------------
(* JobsSound and ProcessedMeansRelayed.                                    *)

\* A closed period keeps its requests, and only FinishPeriod marks one processed.
PeriodKept(c, p) ==
    /\ Len(outboundPeriods[c]) <= Len(outboundPeriods'[c])
    /\ p < Len(outboundPeriods[c]) =>
           outboundPeriods'[c][p].outboundingIds = outboundPeriods[c][p].outboundingIds
    /\ \/ outboundPeriods'[c][p].processed = outboundPeriods[c][p].processed
       \/ \E v \in Validators : /\ FinishPeriod(v)
                                /\ job[v].src = c
                                /\ job[v].period = p

\* A step may close a period or add to it: it never reopens one or drops a request.
LEMMA PeriodsKept ==
    ASSUME IndInv, Next, NEW c \in Chains, NEW p \in 1..Len(outboundPeriods[c])
    PROVE  PeriodKept(c, p)
<1>1. ASSUME outboundPeriods'[c] = outboundPeriods[c]
      PROVE  PeriodKept(c, p)
  BY <1>1, ChainTypes DEF PeriodKept
<1>2. /\ outboundPeriods \in [Chains -> Seq(Period)]
      /\ Len(outboundPeriods[c]) \in Nat \ {0}
  BY ChainTypes DEF IndInv, TypeOK
<1>3. ASSUME NEW open \in Period,
             open.processed = outboundPeriods[c][Len(outboundPeriods[c])].processed,
             \/ outboundPeriods'[c] =
                    [outboundPeriods[c] EXCEPT ![Len(outboundPeriods[c])] = open]
             \/ outboundPeriods'[c] =
                    Append([outboundPeriods[c] EXCEPT ![Len(outboundPeriods[c])] = open],
                           NewPeriod(now))
      PROVE  PeriodKept(c, p)
  <2> DEFINE periods == outboundPeriods[c]
             cur     == Len(periods)
             newP    == [periods EXCEPT ![cur] = open]
  <2>1. /\ periods \in Seq(Period)
        /\ cur \in 1..Len(periods)
        /\ DOMAIN periods = 1..cur
    BY <1>2
  <2>2. newP \in Seq(Period) /\ Len(newP) = cur
    BY <2>1, ExceptSeq
  <2>3. newP[p].processed = periods[p].processed /\ (p < cur => newP[p] = periods[p])
    BY <1>3, <2>1
  <2> HIDE DEF newP
  <2>4. \/ outboundPeriods'[c] = newP
        \/ /\ Len(outboundPeriods'[c]) = cur + 1
           /\ outboundPeriods'[c][p] = newP[p]
    <3>1. Len(Append(newP, NewPeriod(now))) = cur + 1
      BY <2>2, AppendProperties
    <3>2. Append(newP, NewPeriod(now))[p] = newP[p]
      BY <2>2, AppendProperties
    <3> QED
      BY <1>3, <3>1, <3>2 DEF newP
  <2> QED
    BY <1>2, <2>2, <2>3, <2>4 DEF PeriodKept
<1>4. ASSUME NEW b \in Chains, NEW a \in Accounts, NEW amount \in Amounts,
             NEW d \in Chains, NEW sign \in Signatures,
             OverchainTransfer(b, a, amount, d, sign)
      PROVE  PeriodKept(c, p)
  <2> DEFINE cur    == Len(outboundPeriods[b])
             open   == outboundPeriods[b][cur]
             id     == Len(outboundings[b]) + 1
             joined == [open EXCEPT
                           !.startTime = IF open.outboundingIds = <<>> THEN now
                                         ELSE open.startTime,
                           !.outboundingIds = Append(open.outboundingIds, id)]
  <2>1. JoinPeriod(b, id)
    BY <1>4 DEF OverchainTransfer
  <2>2. \/ outboundPeriods' =
               [outboundPeriods EXCEPT
                   ![b] = Append([outboundPeriods[b] EXCEPT ![cur] = joined],
                                 NewPeriod(now))]
        \/ outboundPeriods' =
               [outboundPeriods EXCEPT
                   ![b] = [outboundPeriods[b] EXCEPT ![cur] = joined]]
    BY <2>1 DEF JoinPeriod, CloseAndOpen, currentOutboundPeriodId
  <2>3. joined \in Period /\ joined.processed = open.processed
    <3>1. open \in Period /\ now \in Nat \ {0} /\ id \in Nat \ {0}
      BY ChainTypes
    <3> HIDE DEF open, id
    <3>2. Append(open.outboundingIds, id) \in Seq(Nat \ {0})
      BY <3>1 DEF Period
    <3> QED
      BY <3>1, <3>2 DEF Period
  <2> HIDE DEF joined
  <2>4. CASE b = c
    BY <1>2, <1>3, <2>2, <2>3, <2>4
  <2>5. CASE b # c
    BY <1>1, <1>2, <2>2, <2>5
  <2> QED
    BY <2>4, <2>5
<1>5. ASSUME NEW v \in Validators, NEW b \in Chains, CloseOutboundPeriod(v, b)
      PROVE  PeriodKept(c, p)
  <2> DEFINE cur  == Len(outboundPeriods[b])
             open == outboundPeriods[b][cur]
  <2>1. outboundPeriods' =
            [outboundPeriods EXCEPT
                ![b] = Append([outboundPeriods[b] EXCEPT ![cur] = open],
                              NewPeriod(now))]
    BY <1>5 DEF CloseOutboundPeriod, CloseAndOpen, currentOutboundPeriodId
  <2>2. open \in Period
    BY ChainTypes
  <2>3. CASE b = c
    BY <1>2, <1>3, <2>1, <2>2, <2>3
  <2>4. CASE b # c
    BY <1>1, <1>2, <2>1, <2>4
  <2> QED
    BY <2>3, <2>4
<1>6. ASSUME NEW v \in Validators, FinishPeriod(v)
      PROVE  PeriodKept(c, p)
  <2> DEFINE b == job[v].src
             q == job[v].period
             done == [outboundPeriods[b][q] EXCEPT !.processed = TRUE]
  <2>1. b \in Chains /\ q \in Nat \ {0}
    BY <1>6 DEF FinishPeriod, IndInv, TypeOK, Job
  <2>2. /\ q \in 1..Len(outboundPeriods[b])
        /\ outboundPeriods' =
               [outboundPeriods EXCEPT ![b] = [outboundPeriods[b] EXCEPT ![q] = done]]
    <3>1. ProcessOutboundPeriod(v, b, q) /\ job[v] # NoJob
      BY <1>6 DEF FinishPeriod
    <3> HIDE DEF b, q
    <3> QED
      BY <2>1, <3>1, ProcessEffect
  <2>3. done.outboundingIds = outboundPeriods[b][q].outboundingIds
    <3>1. outboundPeriods[b][q] \in Period
      BY <1>2, <2>1, <2>2, ElementOfSeq
    <3> QED
      BY <3>1 DEF Period
  <2> HIDE DEF done
  <2>4. CASE b # c
    BY <1>1, <1>2, <2>2, <2>4
  <2>5. CASE b = c
    <3>1. /\ outboundPeriods'[c] = [outboundPeriods[c] EXCEPT ![q] = done]
          /\ outboundPeriods[c] \in Seq(Period)
      BY <1>2, <2>2, <2>5
    <3>2. /\ Len(outboundPeriods'[c]) = Len(outboundPeriods[c])
          /\ p # q => outboundPeriods'[c][p] = outboundPeriods[c][p]
          /\ p = q => outboundPeriods'[c][p] = done
      <4>1. DOMAIN outboundPeriods[c] = 1..Len(outboundPeriods[c])
        BY <3>1
      <4> HIDE DEF q
      <4> QED
        BY <1>2, <3>1, <4>1, LenProperties
    <3>3. CASE p # q
      BY <1>2, <3>2, <3>3 DEF PeriodKept
    <3>4. CASE p = q
      <4>1. \E w \in Validators : /\ FinishPeriod(w)
                                  /\ job[w].src = c
                                  /\ job[w].period = p
        BY <1>6, <2>5, <3>4
      <4>2. outboundPeriods'[c][p].outboundingIds = outboundPeriods[c][p].outboundingIds
        BY <2>3, <2>5, <3>2, <3>4
      <4>3. Len(outboundPeriods[c]) <= Len(outboundPeriods'[c])
        BY <1>2, <3>2
      <4> QED
        BY <4>1, <4>2, <4>3 DEF PeriodKept
    <3> QED
      BY <3>3, <3>4
  <2> QED
    BY <2>4, <2>5
<1>7. ASSUME NEW b \in Chains, NEW a \in Accounts, ClaimAllBridgedAmounts(b, a)
      PROVE  outboundPeriods' = outboundPeriods
  BY SMTT(30), <1>7 DEF ClaimAllBridgedAmounts, periodVars
<1>8. ASSUME NEW v \in Validators, NEW d \in Chains, Relay(v, d)
      PROVE  outboundPeriods' = outboundPeriods
  BY <1>8 DEF Relay, AppendInboundings, periodVars
<1>9. Quiet => outboundPeriods' = outboundPeriods
  BY DEF Quiet, periodVars
<1> QED
  BY <1>1, <1>4, <1>5, <1>6, <1>7, <1>8, <1>9, NextCases

\* A registered request stays registered.
LEMMA RegisteredKept ==
    ASSUME IndInv, Next, NEW d \in Chains
    PROVE  srcOutboundingIdRegistered[d] \subseteq srcOutboundingIdRegistered'[d]
<1>1. srcOutboundingIdRegistered \in [Chains -> SUBSET (Chains \X (Nat \ {0}))]
  BY DEF IndInv, TypeOK
<1>2. CASE srcOutboundingIdRegistered' = srcOutboundingIdRegistered
  BY <1>2
<1>3. ASSUME NEW v \in Validators, NEW b \in Chains, Relay(v, b)
      PROVE  srcOutboundingIdRegistered[d] \subseteq srcOutboundingIdRegistered'[d]
  <2>1. PICK ids \in SUBSET PendingFor(v, b) : AppendInboundings(v, job[v].src, b, ids)
    BY SMTT(30), <1>3 DEF Relay
  <2>2. srcOutboundingIdRegistered' =
            [srcOutboundingIdRegistered EXCEPT
                ![b] = srcOutboundingIdRegistered[b] \cup
                           {<<job[v].src, o>> : o \in ids}]
    BY <2>1 DEF AppendInboundings
  <2> QED
    BY <1>1, <2>2
<1>4. ASSUME NEW c \in Chains, NEW a \in Accounts, NEW amount \in Amounts,
             NEW b \in Chains, NEW sign \in Signatures,
             OverchainTransfer(c, a, amount, b, sign)
      PROVE  srcOutboundingIdRegistered' = srcOutboundingIdRegistered
  BY <1>4 DEF OverchainTransfer, listVars
<1>5. ASSUME NEW c \in Chains, NEW a \in Accounts, ClaimAllBridgedAmounts(c, a)
      PROVE  srcOutboundingIdRegistered' = srcOutboundingIdRegistered
  BY <1>5 DEF ClaimAllBridgedAmounts
<1>6. ASSUME NEW v \in Validators, NEW c \in Chains, CloseOutboundPeriod(v, c)
      PROVE  srcOutboundingIdRegistered' = srcOutboundingIdRegistered
  BY <1>6 DEF CloseOutboundPeriod, listVars
<1>7. ASSUME NEW v \in Validators, FinishPeriod(v)
      PROVE  srcOutboundingIdRegistered' = srcOutboundingIdRegistered
  BY <1>7 DEF FinishPeriod, ProcessOutboundPeriod, listVars
<1>8. Quiet => srcOutboundingIdRegistered' = srcOutboundingIdRegistered
  BY DEF Quiet, listVars
<1> QED
  BY <1>2, <1>3, <1>4, <1>5, <1>6, <1>7, <1>8, NextCases

\* The part of JobsSound about one validator, of the next state.
NextJobSound(v) ==
    LET c   == job'[v].src
        ids == outboundPeriods'[c][job'[v].period].outboundingIds
    IN  /\ job'[v].period < Len(outboundPeriods'[c])
        /\ job'[v].pending \subseteq Range(ids)
        /\ \A o \in Range(ids) \ job'[v].pending :
               <<c, o>> \in srcOutboundingIdRegistered'[outboundings'[c][o].destChainId]

\* The jobs are sound after a step when the job of each validator is.
LEMMA NextJobs ==
    ASSUME \A v \in Validators : job'[v] # NoJob => NextJobSound(v)
    PROVE  JobsSound'
  BY SMTT(30) DEF NextJobSound, JobsSound, currentOutboundPeriodId

\* A job goes on while its pending requests are relayed, by this validator or by
\* another one.
LEMMA JobGoesOn ==
    ASSUME IndInv, Next, NEW v \in Validators, job[v] # NoJob,
           job'[v].src = job[v].src, job'[v].period = job[v].period,
           job'[v].pending \subseteq job[v].pending,
           \A o \in job[v].pending \ job'[v].pending :
               <<job[v].src, o>> \in
                   srcOutboundingIdRegistered'[outboundings[job[v].src][o].destChainId]
    PROVE  NextJobSound(v)
<1> DEFINE c   == job[v].src
           p   == job[v].period
           ids == outboundPeriods[c][p].outboundingIds
<1>1. c \in Chains /\ p \in Nat \ {0}
  BY DEF IndInv, TypeOK, Job
<1>2. /\ p < Len(outboundPeriods[c])
      /\ job[v].pending \subseteq Range(ids)
      /\ \A o \in Range(ids) \ job[v].pending :
             <<c, o>> \in srcOutboundingIdRegistered[outboundings[c][o].destChainId]
  BY DEF IndInv, JobsSound, currentOutboundPeriodId
<1>3. p \in 1..Len(outboundPeriods[c]) /\ Len(outboundPeriods[c]) \in Nat
  BY <1>1, <1>2, ChainTypes
<1>4. PeriodKept(c, p)
  BY SMTT(30), <1>1, <1>3, PeriodsKept
<1>5. /\ outboundPeriods'[c][p].outboundingIds = ids
      /\ p < Len(outboundPeriods'[c])
  <2>1. Len(outboundPeriods'[c]) \in Nat
    <3>1. TypeOK'
      BY TypeStep
    <3>2. outboundPeriods'[c] \in Seq(Period)
      BY <1>1, <3>1 DEF TypeOK
    <3> QED
      BY <3>2, LenProperties
  <2>2. Len(outboundPeriods[c]) <= Len(outboundPeriods'[c])
    BY SMTT(30), <1>4 DEF PeriodKept
  <2>3. outboundPeriods'[c][p].outboundingIds = ids
    BY Zenon, <1>2, <1>4 DEF PeriodKept
  <2>4. p \in Nat /\ p < Len(outboundPeriods[c])
    BY <1>2, <1>3
  <2>5. p < Len(outboundPeriods'[c])
    BY <1>3, <2>1, <2>2, <2>4
  <2> QED
    BY <2>3, <2>5
<1>6. ASSUME NEW o \in Range(ids)
      PROVE  /\ outboundings'[c][o] = outboundings[c][o]
             /\ outboundings[c][o].destChainId \in Chains
  <2>1. o \in 1..Len(outboundings[c]) /\ outboundings[c][o] \in Outbounding
    BY <1>1, <1>3, PeriodRequests DEF IndInv
  <2> QED
    BY <1>1, <2>1, OutboundingsKept DEF Outbounding
<1>7. ASSUME NEW o \in Range(ids) \ job'[v].pending
      PROVE  <<c, o>> \in srcOutboundingIdRegistered'[outboundings'[c][o].destChainId]
  <2>1. CASE o \in job[v].pending
    BY SMTT(30), <1>6, <2>1
  <2>2. CASE o \notin job[v].pending
    BY <1>2, <1>6, <2>2, RegisteredKept
  <2> QED
    BY SMTT(30), <2>1, <2>2
<1> QED
  BY Zenon, <1>2, <1>5, <1>7 DEF NextJobSound

\* A job that starts holds the requests of the period it read.
LEMMA JobsPick ==
    ASSUME IndInv, Next, NEW v \in Validators, NEW c \in Chains, PickPeriod(v, c),
           job'[v] # NoJob
    PROVE  NextJobSound(v)
<1>1. PICK p \in Range(outboundPeriodIdsToProcess[c]) :
          job' = [job EXCEPT ![v] =
                     [src     |-> c,
                      period  |-> p,
                      pending |->
                        {o \in Range(outboundPeriods[c][p].outboundingIds) :
                           <<c, o>> \notin srcOutboundingIdRegistered
                                              [outboundings[c][o].destChainId]}]]
  BY DEF PickPeriod
<1>2. job'[v] = [src     |-> c,
                 period  |-> p,
                 pending |->
                   {o \in Range(outboundPeriods[c][p].outboundingIds) :
                      <<c, o>> \notin srcOutboundingIdRegistered
                                         [outboundings[c][o].destChainId]}]
  BY <1>1 DEF IndInv, TypeOK
<1>3. UNCHANGED <<outboundings, listVars, periodVars>>
  BY DEF PickPeriod
<1>4. p < Len(outboundPeriods[c])
  <2>1. outboundPeriodIdsToProcess[c] \in Seq(Nat \ {0})
    BY ChainTypes
  <2>2. PICK k \in 1..Len(outboundPeriodIdsToProcess[c]) :
            outboundPeriodIdsToProcess[c][k] = p
    BY <2>1, RangeEquality
  <2> QED
    BY <2>2 DEF IndInv, PeriodsWellFormed, currentOutboundPeriodId
<1> QED
  BY <1>2, <1>3, <1>4 DEF NextJobSound, listVars, periodVars

\* What a batch takes off a job is registered by that batch.
LEMMA JobsRelay ==
    ASSUME IndInv, Next, NEW v \in Validators, NEW d \in Chains, Relay(v, d)
    PROVE  NextJobSound(v)
<1>1. PICK ids \in SUBSET PendingFor(v, d) :
          /\ AppendInboundings(v, job[v].src, d, ids)
          /\ job' = [job EXCEPT ![v].pending = job[v].pending \ ids]
  BY DEF Relay
<1>2. job[v] # NoJob /\ job \in [Validators -> Job \cup {NoJob}]
  BY DEF Relay, IndInv, TypeOK
<1>3. /\ job'[v].src = job[v].src
      /\ job'[v].period = job[v].period
      /\ job'[v].pending = job[v].pending \ ids
  <2>1. job[v] \in Job /\ job'[v] = [job[v] EXCEPT !.pending = job[v].pending \ ids]
    BY <1>1, <1>2
  <2> QED
    BY <2>1 DEF Job
<1>4. ASSUME NEW o \in ids
      PROVE  <<job[v].src, o>> \in
                 srcOutboundingIdRegistered'[outboundings[job[v].src][o].destChainId]
  <2>1. outboundings[job[v].src][o].destChainId = d
    BY SMTT(30) DEF PendingFor
  <2>2. srcOutboundingIdRegistered'[d] =
            srcOutboundingIdRegistered[d] \cup {<<job[v].src, i>> : i \in ids}
    BY <1>1 DEF AppendInboundings, IndInv, TypeOK
  <2> QED
    BY <2>1, <2>2
<1> QED
  BY <1>2, <1>3, <1>4, JobGoesOn

\* What a validator skips it has seen registered.
LEMMA JobsSkip ==
    ASSUME IndInv, Next, NEW v \in Validators, SkipRegistered(v)
    PROVE  NextJobSound(v)
<1>1. PICK o \in job[v].pending :
          /\ <<job[v].src, o>> \in srcOutboundingIdRegistered
                                      [outboundings[job[v].src][o].destChainId]
          /\ job' = [job EXCEPT ![v].pending = job[v].pending \ {o}]
  BY DEF SkipRegistered
<1>2. job[v] # NoJob /\ job \in [Validators -> Job \cup {NoJob}]
  BY DEF SkipRegistered, IndInv, TypeOK
<1>3. /\ job'[v].src = job[v].src
      /\ job'[v].period = job[v].period
      /\ job'[v].pending = job[v].pending \ {o}
  <2>1. job[v] \in Job /\ job'[v] = [job[v] EXCEPT !.pending = job[v].pending \ {o}]
    BY <1>1, <1>2
  <2> QED
    BY <2>1 DEF Job
<1>4. srcOutboundingIdRegistered' = srcOutboundingIdRegistered
  BY DEF SkipRegistered, listVars
<1> QED
  BY <1>1, <1>2, <1>3, <1>4, JobGoesOn

\* The validators whose job a step changes.
LEMMA JobCases ==
    ASSUME IndInv, Next, NEW w \in Validators, job'[w] # NoJob
    PROVE  \/ job'[w] = job[w]
           \/ \E c \in Chains : PickPeriod(w, c) \/ Relay(w, c)
           \/ SkipRegistered(w)
<1>1. job \in [Validators -> Job \cup {NoJob}]
  BY DEF IndInv, TypeOK
<1>2. ASSUME NEW v \in Validators, NEW j, job' = [job EXCEPT ![v] = j], v # w
      PROVE  job'[w] = job[w]
  BY <1>1, <1>2
<1>3. ASSUME NEW v \in Validators, job' = [job EXCEPT ![v] = NoJob]
      PROVE  job'[w] = job[w]
  BY <1>1, <1>3
<1>4. ASSUME UserAction \/ OwnerAction \/ Tick
      PROVE  job' = job
  <2>1. UserAction => job' = job
    <3>1. ASSUME NEW c \in Chains, NEW a \in Accounts, NEW amount \in Amounts,
                 NEW d \in Chains, NEW sign \in Signatures,
                 OverchainTransfer(c, a, amount, d, sign)
          PROVE  job' = job
      BY <3>1 DEF OverchainTransfer
    <3>2. ASSUME NEW c \in Chains, NEW a \in Accounts, ClaimAllBridgedAmounts(c, a)
          PROVE  job' = job
      BY <3>2 DEF ClaimAllBridgedAmounts
    <3> QED
      BY <3>1, <3>2 DEF UserAction
  <2>2. OwnerAction => AdminCall
    BY DEF OwnerAction, SetRole, SetNetworkStatus, SetNumberOfOutboundPerPeriod,
           SetPeriodDuration
  <2> QED
    BY <1>4, <2>1, <2>2 DEF AdminCall, Tick
<1>5. ASSUME NEW v \in Validators, v # w,
             \/ \E c \in Chains : PickPeriod(v, c) \/ Relay(v, c)
             \/ SkipRegistered(v)
      PROVE  job'[w] = job[w]
  BY <1>1, <1>5 DEF PickPeriod, Relay, SkipRegistered
<1>6. ASSUME NEW v \in Validators,
             \/ FinishPeriod(v)
             \/ AbandonPeriod(v)
             \/ Crash(v)
      PROVE  job' = [job EXCEPT ![v] = NoJob]
  BY <1>6 DEF FinishPeriod, AbandonPeriod, Crash
<1>7. ASSUME NEW v \in Validators, NEW c \in Chains, CloseOutboundPeriod(v, c)
      PROVE  job' = job
  BY <1>7 DEF CloseOutboundPeriod
<1> QED
  BY <1>3, <1>4, <1>5, <1>6, <1>7 DEF Next, ValidatorAction, ValidatorStep

\* Every action keeps the jobs sound.
LEMMA JobsStep ==
    ASSUME IndInv, Next
    PROVE  JobsSound'
<1>1. ASSUME NEW w \in Validators, job'[w] # NoJob
      PROVE  NextJobSound(w)
  <2>1. CASE job'[w] = job[w]
    BY <1>1, <2>1, JobGoesOn
  <2>2. CASE \E c \in Chains : PickPeriod(w, c)
    BY <1>1, <2>2, JobsPick
  <2>3. CASE \E c \in Chains : Relay(w, c)
    BY <2>3, JobsRelay
  <2>4. CASE SkipRegistered(w)
    BY <2>4, JobsSkip
  <2> QED
    BY <1>1, <2>1, <2>2, <2>3, <2>4, JobCases
<1> QED
  BY <1>1, NextJobs

\* A request made in this step is of the open period.
LEMMA NewRequest ==
    ASSUME IndInv, Next, NEW c \in Chains, NEW o \in 1..Len(outboundings'[c]),
           o \notin 1..Len(outboundings[c])
    PROVE  /\ outboundings'[c][o].periodId = Len(outboundPeriods[c])
           /\ outboundPeriods'[c][Len(outboundPeriods[c])].processed = FALSE
<1>1. outboundings'[c] # outboundings[c]
  OBVIOUS
<1>2. outboundings \in [Chains -> Seq(Outbounding)]
  BY DEF IndInv, TypeOK
<1>3. PICK b \in Chains, a \in Accounts, amount \in Amounts, d \in Chains,
           sign \in Signatures : OverchainTransfer(b, a, amount, d, sign)
  <2>1. ASSUME NEW x \in Chains, NEW a \in Accounts, ClaimAllBridgedAmounts(x, a)
        PROVE  outboundings' = outboundings
    BY SMTT(30), <2>1 DEF ClaimAllBridgedAmounts
  <2>2. ASSUME NEW v \in Validators, NEW x \in Chains, Relay(v, x)
        PROVE  outboundings' = outboundings
    BY <2>2 DEF Relay, AppendInboundings
  <2>3. ASSUME NEW v \in Validators, NEW x \in Chains, CloseOutboundPeriod(v, x)
        PROVE  outboundings' = outboundings
    BY <2>3 DEF CloseOutboundPeriod
  <2>4. ASSUME NEW v \in Validators, FinishPeriod(v)
        PROVE  outboundings' = outboundings
    BY <2>4 DEF FinishPeriod, ProcessOutboundPeriod
  <2>5. Quiet => outboundings' = outboundings
    BY DEF Quiet
  <2> QED
    BY <1>1, <2>1, <2>2, <2>3, <2>4, <2>5, NextCases
<1> DEFINE out == [account |-> a, amount |-> amount, destChainId |-> d,
                   periodId |-> currentOutboundPeriodId(b), sign |-> sign]
<1>4. outboundings' = [outboundings EXCEPT ![b] = Append(outboundings[b], out)]
  BY <1>3 DEF OverchainTransfer
<1>5. out.periodId = Len(outboundPeriods[b])
  BY DEF currentOutboundPeriodId
<1> HIDE DEF out
<1>6. b = c
  BY <1>1, <1>2, <1>4
<1>7. o = Len(outboundings[c]) + 1 /\ outboundings'[c][o] = out
  <2>1. outboundings'[c] = Append(outboundings[c], out)
    BY <1>2, <1>4, <1>6
  <2>2. Len(outboundings[c]) \in Nat
    BY <1>2
  <2> QED
    BY <1>2, <2>1, <2>2
<1>8. outboundPeriods'[c][Len(outboundPeriods[c])].processed =
          outboundPeriods[c][Len(outboundPeriods[c])].processed
  <2>1. Len(outboundPeriods[c]) \in 1..Len(outboundPeriods[c])
    BY ChainTypes
  <2>2. PeriodKept(c, Len(outboundPeriods[c]))
    BY <2>1, PeriodsKept
  <2>3. \A v \in Validators : ~FinishPeriod(v)
    BY <1>1 DEF FinishPeriod, ProcessOutboundPeriod
  <2> QED
    BY <2>2, <2>3 DEF PeriodKept
<1>9. outboundPeriods[c][Len(outboundPeriods[c])].processed = FALSE
  <2>1. outboundPeriods[c][Len(outboundPeriods[c])].processed \in BOOLEAN
    BY ChainTypes DEF Period
  <2> QED
    BY <2>1 DEF IndInv, PeriodsWellFormed, currentOutboundPeriodId
<1> QED
  BY <1>5, <1>6, <1>7, <1>8, <1>9

\* No action marks a period processed before its requests are registered.
LEMMA ProcessedStep ==
    ASSUME IndInv, Next
    PROVE  ProcessedMeansRelayed'
<1>1. ASSUME NEW c \in Chains, NEW o \in 1..Len(outboundings'[c]),
             outboundPeriods'[c][outboundings'[c][o].periodId].processed
      PROVE  <<c, o>> \in srcOutboundingIdRegistered'[outboundings'[c][o].destChainId]
  <2>1. o \in 1..Len(outboundings[c])
    BY <1>1, NewRequest
  <2> DEFINE q == outboundings[c][o].periodId
             d == outboundings[c][o].destChainId
  <2>2. /\ outboundings'[c][o] = outboundings[c][o]
        /\ q \in Nat \ {0}
        /\ d \in Chains
    <3>1. outboundings[c][o] \in Outbounding
      BY <2>1, ChainTypes, ElementOfSeq
    <3> QED
      BY <2>1, <3>1, OutboundingsKept DEF Outbounding
  <2>3. /\ q \in 1..Len(outboundPeriods[c])
        /\ o \in Range(outboundPeriods[c][q].outboundingIds)
    BY <2>1, <2>2, ChainTypes
    DEF IndInv, PeriodsWellFormed, currentOutboundPeriodId
  <2>4. PeriodKept(c, q)
    BY <2>3, PeriodsKept
  <2>5. CASE outboundPeriods[c][q].processed
    <3>1. <<c, o>> \in srcOutboundingIdRegistered[d]
      BY <2>1, <2>5 DEF IndInv, ProcessedMeansRelayed
    <3> QED
      BY <2>2, <3>1, RegisteredKept
  <2>6. CASE ~outboundPeriods[c][q].processed
    <3>1. PICK v \in Validators : /\ FinishPeriod(v)
                                  /\ job[v].src = c
                                  /\ job[v].period = q
      BY <1>1, <2>2, <2>4, <2>6 DEF PeriodKept
    <3>2. job[v] # NoJob /\ job[v].pending = {}
      BY <3>1 DEF FinishPeriod
    <3>3. <<c, o>> \in srcOutboundingIdRegistered[d]
      BY <2>3, <3>1, <3>2 DEF IndInv, JobsSound
    <3> QED
      BY <2>2, <3>3, RegisteredKept
  <2> QED
    BY <2>5, <2>6
<1> QED
  BY <1>1 DEF ProcessedMeansRelayed

-----------------------------------------------------------------------------
(* The theorems.                                                           *)

\* Every step of the bridge keeps the inductive invariant.
LEMMA IndInvStep == IndInv /\ [Next]_vars => IndInv'
<1> SUFFICES ASSUME IndInv, [Next]_vars PROVE IndInv'
  OBVIOUS
<1>1. CASE Next
  BY <1>1, TypeStep, RelayedStep, InboxStep, PeriodsStep, JobsStep, ProcessedStep
  DEF IndInv
<1>2. CASE UNCHANGED vars
  <2>0. /\ UNCHANGED <<now, outboundings, inboundings, accountInboundings>>
        /\ UNCHANGED <<srcOutboundingIdRegistered, outboundPeriods>>
        /\ UNCHANGED <<outboundPeriodIdsToProcess, job>>
    BY <1>2 DEF vars, listVars, periodVars
  <2>1. TypeOK'
    BY SMTT(30), <1>2 DEF vars, adminVars, listVars, periodVars, tokenVars,
                          IndInv, TypeOK
  <2>2. RelayedOnce'
    <3>1. ASSUME NEW d \in Chains, NEW i \in 1..Len(inboundings[d])
          PROVE  FaithfulEntry(d, i)'
      <4>1. FaithfulEntry(d, i)
        BY DEF IndInv, RelayedOnce
      <4> QED
        BY <2>0, <4>1 DEF FaithfulEntry
    <3> QED
      BY <2>0, <3>1 DEF IndInv, RelayedOnce, SameRequest
  <2>3. InboxExact'
    BY <2>0 DEF IndInv, InboxExact
  <2>4. PeriodsWellFormed'
    <3>1. \A c \in Chains : WellFormed(outboundPeriods[c],
                                       outboundPeriodIdsToProcess[c],
                                       outboundings[c], now)
      BY WellFormedChains DEF IndInv
    <3> QED
      BY <2>0, <3>1, WellFormedNext
  <2>5. JobsSound'
    BY <2>0 DEF IndInv, JobsSound, currentOutboundPeriodId
  <2>6. ProcessedMeansRelayed'
    BY <2>0 DEF IndInv, ProcessedMeansRelayed
  <2> QED
    BY <2>1, <2>2, <2>3, <2>4, <2>5, <2>6 DEF IndInv
<1> QED
  BY <1>1, <1>2

\* The inductive invariant holds in every reachable state.
LEMMA Inductive == Spec => []IndInv
  BY InitIndInv, IndInvStep, PTL DEF Spec

\* Every variable of the bridge keeps its type: no step leaves an id that is not
\* the index of an entry, or a balance, a supply or a total below zero.
THEOREM TypeCorrect == Spec => []TypeOK
<1>1. IndInv => TypeOK
  BY DEF IndInv
<1> QED
  BY <1>1, Inductive, PTL

\* However many validators race, retry or restart, BridgeState registers a request
\* of another chain at most once, unchanged, and pays only what was signed for.
THEOREM RelayedAtMostOnce == Spec => []RelayedOnce
<1>1. IndInv => RelayedOnce
  BY DEF IndInv
<1> QED
  BY <1>1, Inductive, PTL

\* The list of claimable ids and the claimed flags of BridgeState never disagree.
THEOREM InboxAlwaysExact == Spec => []InboxExact
<1>1. IndInv => InboxExact
  BY DEF IndInv
<1> QED
  BY <1>1, Inductive, PTL

\* Every request belongs to one period, and a closed period waits on the process
\* list until it is processed, and no longer.
THEOREM PeriodsAlwaysWellFormed == Spec => []PeriodsWellFormed
<1>1. IndInv => PeriodsWellFormed
  BY DEF IndInv
<1> QED
  BY <1>1, Inductive, PTL

\* What a validator holds of a closed period is never wrong, only late.
THEOREM JobsAlwaysSound == Spec => []JobsSound
<1>1. IndInv => JobsSound
  BY DEF IndInv
<1> QED
  BY <1>1, Inductive, PTL

\* A period is marked processed only when each of its requests is registered at its
\* destination.
THEOREM ProcessedOnlyWhenRelayed == Spec => []ProcessedMeansRelayed
<1>1. IndInv => ProcessedMeansRelayed
  BY DEF IndInv
<1> QED
  BY <1>1, Inductive, PTL

-----------------------------------------------------------------------------
(* The loop of claimAllBridgedAmounts.                                     *)

\* The list and the flags after n iterations over the list `read`, when
\* `before` are the ids claimed before the call.
LoopState(read, before, n, state) ==
    /\ state \in [ids : Seq(Nat), reverted : BOOLEAN, claimed : SUBSET Nat]
    /\ ~state.reverted
    /\ Len(state.ids) = Len(read) - n
    /\ \A j, k \in 1..Len(state.ids) : state.ids[j] = state.ids[k] => j = k
    /\ Range(state.ids) = Range(read) \ {read[k] : k \in 1..n}
    /\ state.claimed = before \cup {read[k] : k \in 1..n}

\* An iteration finds its id in the list, unclaimed, and takes it off.
LEMMA LoopGoesOn ==
    ASSUME NEW read \in Seq(Nat), NEW before \in SUBSET Nat,
           \A j, k \in 1..Len(read) : read[j] = read[k] => j = k,
           \A k \in 1..Len(read) : read[k] \notin before,
           NEW n \in Nat, n < Len(read),
           NEW state, LoopState(read, before, n, state)
    PROVE  LoopState(read, before, n + 1, ClaimInbound(state, read[n + 1]))
<1>0. PICK id, list, done : /\ id = read[n + 1]
                            /\ list = state.ids
                            /\ done = {read[k] : k \in 1..n}
  OBVIOUS
<1>1. /\ Len(read) \in Nat /\ n + 1 \in 1..Len(read)
      /\ Range(read) = {read[k] : k \in 1..Len(read)}
      /\ id \in Nat
  <2>1. Len(read) \in Nat /\ Range(read) = {read[k] : k \in 1..Len(read)}
    BY LenProperties, RangeEquality
  <2>2. n + 1 \in 1..Len(read)
    BY <2>1
  <2> QED
    BY <1>0, <2>1, <2>2, ElementOfSeq
<1>2. /\ list \in Seq(Nat)
      /\ ~state.reverted
      /\ Len(list) = Len(read) - n
      /\ \A j, k \in 1..Len(list) : list[j] = list[k] => j = k
      /\ Range(list) = Range(read) \ done
      /\ state.claimed = before \cup done
      /\ state \in [ids : Seq(Nat), reverted : BOOLEAN, claimed : SUBSET Nat]
  BY <1>0 DEF LoopState
<1>3. id \in Range(read) /\ id \notin done /\ id \notin before
  <2>1. id \in Range(read)
    BY <1>0, <1>1
  <2>2. \A k \in 1..n : read[k] # id
    BY <1>0, <1>1
  <2> QED
    BY <1>0, <1>1, <2>1, <2>2
<1>4. {read[k] : k \in 1..(n + 1)} = done \cup {id}
  <2>1. 1..(n + 1) = 1..n \cup {n + 1}
    OBVIOUS
  <2> QED
    BY <1>0, <2>1
<1>5. id \in Range(list) /\ list # <<>>
  <2>1. id \in Range(list)
    BY <1>2, <1>3
  <2>2. Len(list) # 0
    BY <1>1, <1>2
  <2> QED
    BY <2>1, <2>2
<1>6. PICK rest, next, left : /\ rest = RemoveId(list, id)
                              /\ next = ClaimInbound(state, id)
                              /\ left = Len(rest)
  OBVIOUS
<1>7. /\ rest \in Seq(Nat)
      /\ left = Len(list) - 1
      /\ \A j, k \in 1..Len(rest) : rest[j] = rest[k] => j = k
      /\ Range(rest) = Range(list) \ {id}
  <2>1. /\ RemoveId(list, id) \in Seq(Nat)
        /\ Len(RemoveId(list, id)) = Len(list) - 1
        /\ \A j, k \in 1..Len(RemoveId(list, id)) :
               RemoveId(list, id)[j] = RemoveId(list, id)[k] => j = k
        /\ Range(RemoveId(list, id)) = Range(list) \ {id}
    BY <1>2, <1>5, RemoveIdProperties
  <2> QED
    BY <1>6, <2>1
<1>8. next = [state EXCEPT !.claimed = state.claimed \cup {id}, !.ids = rest]
  <2>1. ~(state.reverted \/ id \in state.claimed \/ state.ids = <<>>)
    BY <1>0, <1>2, <1>3, <1>5
  <2> QED
    BY <1>0, <1>6, <2>1 DEF ClaimInbound
<1>9. /\ next \in [ids : Seq(Nat), reverted : BOOLEAN, claimed : SUBSET Nat]
      /\ next.ids = rest
      /\ next.claimed = state.claimed \cup {id}
      /\ ~next.reverted
  <2>1. state \in [ids : Seq(Nat), reverted : BOOLEAN, claimed : SUBSET Nat]
    BY <1>2
  <2>2. state.claimed \cup {id} \in SUBSET Nat
    BY <1>1, <2>1
  <2>3. ~state.reverted /\ rest \in Seq(Nat)
    BY <1>2, <1>7
  <2> QED
    BY <1>8, <2>1, <2>2, <2>3
<1>10. Len(next.ids) = Len(read) - (n + 1)
  <2>1. Len(list) = Len(read) - n /\ left = Len(list) - 1 /\ Len(next.ids) = left
    BY <1>2, <1>6, <1>7, <1>9
  <2>2. Len(read) \in Nat
    BY <1>1
  <2> QED
    BY <2>1, <2>2
<1>11. /\ Range(next.ids) = Range(read) \ (done \cup {id})
       /\ next.claimed = before \cup (done \cup {id})
  BY <1>2, <1>7, <1>9
<1>12. \A j, k \in 1..Len(next.ids) : next.ids[j] = next.ids[k] => j = k
  BY <1>7, <1>9
<1> QED
  BY <1>0, <1>4, <1>6, <1>9, <1>10, <1>11, <1>12 DEF LoopState

\* Each iteration up to the m-th starts from the state the last one left.
Iterates(g, start, read, m) ==
    g[0] = start /\ \A n \in 1..m : g[n] = ClaimInbound(g[n - 1], read[n])

\* The iterations are defined.
LEMMA LoopExists ==
    ASSUME NEW read, NEW start, NEW L \in Nat
    PROVE  \E g : Iterates(g, start, read, L)
<1> DEFINE Has == {m \in Nat : \E g : Iterates(g, start, read, m)}
<1>1. 0 \in Has
  <2> DEFINE h == [n \in {0} |-> start]
  <2>1. h[0] = start
    OBVIOUS
  <2> HIDE DEF h
  <2>2. Iterates(h, start, read, 0)
    BY <2>1 DEF Iterates
  <2> QED
    BY <2>2
<1>2. ASSUME NEW m \in Nat, m \in Has
      PROVE  m + 1 \in Has
  <2>1. PICK g : Iterates(g, start, read, m)
    BY <1>2
  <2> DEFINE h == [n \in 0..(m + 1) |-> IF n = m + 1
                                        THEN ClaimInbound(g[m], read[m + 1])
                                        ELSE g[n]]
  <2>2. h[0] = start /\ \A n \in 0..m : h[n] = g[n]
    BY <2>1 DEF Iterates
  <2>3. h[m + 1] = ClaimInbound(g[m], read[m + 1])
    OBVIOUS
  <2> HIDE DEF h
  <2>4. ASSUME NEW n \in 1..(m + 1)
        PROVE  h[n] = ClaimInbound(h[n - 1], read[n])
    <3>1. CASE n = m + 1
      <4>1. n - 1 = m /\ h[m] = g[m]
        BY <2>2, <3>1
      <4> QED
        BY <2>3, <3>1, <4>1
    <3>2. CASE n \in 1..m
      <4>1. h[n - 1] = g[n - 1] /\ h[n] = g[n]
        BY <2>2, <3>2
      <4> QED
        BY <2>1, <3>2, <4>1 DEF Iterates
    <3> QED
      BY <3>1, <3>2
  <2>5. Iterates(h, start, read, m + 1)
    BY <2>2, <2>4 DEF Iterates
  <2> QED
    BY <2>5
<1>3. L \in Has
  <2> HIDE DEF Has
  <2> QED
    BY <1>1, <1>2, NatInductionSet
<1> QED
  BY <1>3

\* Every iteration leaves what LoopState says.
LEMMA LoopStates ==
    ASSUME NEW read \in Seq(Nat), NEW before \in SUBSET Nat,
           \A j, k \in 1..Len(read) : read[j] = read[k] => j = k,
           \A k \in 1..Len(read) : read[k] \notin before,
           NEW start, start = [ids |-> read, reverted |-> FALSE, claimed |-> before],
           NEW after, Iterates(after, start, read, Len(read))
    PROVE  \A n \in 0..Len(read) : LoopState(read, before, n, after[n])
<1> DEFINE L == Len(read)
           Good == {n \in Nat : n <= L => LoopState(read, before, n, after[n])}
<1>1. L \in Nat
  BY LenProperties
<1>2. 0 \in Good
  <2>1. {read[k] : k \in 1..0} = {}
    OBVIOUS
  <2>2. start \in [ids : Seq(Nat), reverted : BOOLEAN, claimed : SUBSET Nat]
    OBVIOUS
  <2>3. LoopState(read, before, 0, start)
    BY <1>1, <2>1, <2>2 DEF LoopState
  <2> QED
    BY <2>3 DEF Iterates
<1>3. ASSUME NEW n \in Nat, n \in Good
      PROVE  n + 1 \in Good
  <2>1. SUFFICES ASSUME n + 1 <= L
                 PROVE  LoopState(read, before, n + 1, after[n + 1])
    OBVIOUS
  <2>2. n + 1 \in 1..L /\ (n + 1) - 1 = n /\ n < L
    BY <1>1, <2>1
  <2>3. after[n + 1] = ClaimInbound(after[n], read[n + 1])
    BY <2>2 DEF Iterates
  <2>4. LoopState(read, before, n, after[n])
    BY <1>3, <2>2
  <2> QED
    BY <2>2, <2>3, <2>4, LoopGoesOn
<1>4. Nat \subseteq Good
  <2> HIDE DEF Good
  <2> QED
    BY <1>2, <1>3, NatInductionSet
<1> QED
  BY <1>1, <1>4

\* What the lists hold is what the loop needs.
LEMMA LoopSound == IndInv => ClaimLoopEmptiesInbox
<1> SUFFICES ASSUME IndInv, NEW c \in Chains, NEW a \in Accounts,
                    NEW n \in 0..Len(accountInboundings[c][a])
             PROVE  LET read  == accountInboundings[c][a]
                        after == ClaimLoop(c, a)
                        Done(m) == {read[k] : k \in 1..m}
                    IN  /\ ~after[n].reverted
                        /\ Len(after[n].ids) = Len(read) - n
                        /\ Range(after[n].ids) = Range(read) \ Done(n)
                        /\ after[n].claimed =
                               {i \in 1..Len(inboundings[c]) : inboundings[c][i].claimed}
                                   \cup Done(n)
  BY DEF ClaimLoopEmptiesInbox
<1>1. PICK read, before, start, after :
          /\ read = accountInboundings[c][a]
          /\ before = {i \in 1..Len(inboundings[c]) : inboundings[c][i].claimed}
          /\ start = [ids |-> read, reverted |-> FALSE, claimed |-> before]
          /\ after = ClaimLoop(c, a)
  OBVIOUS
<1>2. read \in Seq(Nat) /\ before \in SUBSET Nat
  <2>1. accountInboundings[c][a] \in Seq(Nat \ {0}) /\ inboundings[c] \in Seq(Inbounding)
    BY DEF IndInv, TypeOK
  <2>2. Len(inboundings[c]) \in Nat
    BY <2>1, LenProperties
  <2>3. read \in Seq(Nat)
    BY <1>1, <2>1
  <2> QED
    BY <1>1, <2>2, <2>3
<1>3. /\ \A j, k \in 1..Len(read) : read[j] = read[k] => j = k
      /\ \A k \in 1..Len(read) : read[k] \notin before
  BY <1>1 DEF IndInv, InboxExact
<1> DEFINE L == Len(read)
           Is(f) == f = [m \in 0..L |-> IF m = 0 THEN start
                                        ELSE ClaimInbound(f[m - 1], read[m])]
<1>4. after = CHOOSE f : Is(f)
  BY <1>1 DEF ClaimLoop
<1>5. L \in Nat
  BY <1>2, LenProperties
<1>6. PICK g : Iterates(g, start, read, L)
  BY <1>5, LoopExists
<1>7. Is([m \in 0..L |-> g[m]])
  <2> DEFINE h == [m \in 0..L |-> g[m]]
  <2>1. ASSUME NEW m \in 0..L
        PROVE  h[m] = IF m = 0 THEN start ELSE ClaimInbound(h[m - 1], read[m])
    <3>1. CASE m = 0
      BY <1>6, <3>1 DEF Iterates
    <3>2. CASE m # 0
      <4>1. m \in 1..L /\ m - 1 \in 0..L
        BY <1>5, <3>2
      <4>2. h[m - 1] = g[m - 1] /\ h[m] = g[m]
        BY <4>1
      <4> HIDE DEF h
      <4> QED
        BY <1>6, <3>2, <4>1, <4>2 DEF Iterates
    <3> QED
      BY <3>1, <3>2
  <2>2. h = [m \in 0..L |-> h[m]]
    OBVIOUS
  <2> HIDE DEF h
  <2>3. Is(h)
    BY <2>1, <2>2
  <2> QED
    BY <2>3 DEF h
<1>8. Is(after)
  <2> HIDE DEF Is
  <2> QED
    BY <1>4, <1>7
<1>9. Iterates(after, start, read, L)
  <2>1. \A m \in 0..L : after[m] = IF m = 0 THEN start
                                   ELSE ClaimInbound(after[m - 1], read[m])
    BY <1>8
  <2>2. 0 \in 0..L /\ \A m \in 1..L : m \in 0..L /\ m # 0
    BY <1>5
  <2> QED
    BY <2>1, <2>2 DEF Iterates
<1>10. LoopState(read, before, n, after[n])
  BY <1>1, <1>2, <1>3, <1>9, LoopStates
<1> QED
  BY <1>1, <1>10 DEF LoopState

\* The loop of claimAllBridgedAmounts, whatever list it starts from, is never
\* stopped by what it has itself changed: after n ids those n have left the
\* stored list and are claimed.
THEOREM ClaimLoopAlwaysEmptiesInbox == Spec => []ClaimLoopEmptiesInbox
<1>1. Spec => []IndInv
  BY Inductive
<1>2. IndInv => ClaimLoopEmptiesInbox
  BY LoopSound
<1> QED
  BY <1>1, <1>2, PTL
=============================================================================
