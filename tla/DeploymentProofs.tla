-------------------------- MODULE DeploymentProofs --------------------------
(***************************************************************************)
(* What the files and the chain know of each other, what contracts lead to,*)
(* and what a run changes, for any script whose steps are in the order that*)
(* ScriptAssumption asks for, any network, any releases, and however often *)
(* a run dies and however late the owner is.  Four arguments:              *)
(*                                                                         *)
(* 1. Inv.  An address is known when deployment.json has held it.  Every   *)
(*    value a run can come by (what it has deployed or reused, the last    *)
(*    version of a contract, what a contract stores, what waits for the    *)
(*    owner) is a known address or no address at all: of a contract that   *)
(*    was deployed but not recorded, only the step that sent it knows.     *)
(*                                                                         *)
(* 2. WiringInv.  What a run is past is wired to what it has deployed or   *)
(*    reused, or a call to wire it waits for the owner; and no call that   *)
(*    waits leads back to an older instance than one that follows it.      *)
(*                                                                         *)
(* 3. SettingInv.  After a run that ended clean all that the script sets   *)
(*    is set, whatever the owner and governance do next; so a run with     *)
(*    nothing to deploy passes over every step.                            *)
(*                                                                         *)
(* 4. TunedInv.  At most one call waits for a setting.  Once governance    *)
(*    has chosen that setting, the call is from a settings contract that   *)
(*    the proxy of resolvers and the resolver have gone beyond, and they   *)
(*    do not come back: the storage takes it no more.                      *)
(***************************************************************************)
EXTENDS Deployment, SequenceTheorems, TLAPS

NoAddresses == {None, Fixed, Tuned, Some}
Values == recorded \cup NoAddresses

Within(f, S) == \A x \in DOMAIN f : f[x] \in S

\* The files, the chain, and where a run is between them.
FilesInv ==
    /\ recorded \subseteq chain
    /\ Within(targets, recorded)
    /\ \A n \in DOMAIN config : config[n] \/ n \in DOMAIN targets
    /\ stage # "step" => sent \in chain
    /\ stage = "recorded" => Step.name \in DOMAIN targets

\* A sequence, of whatever it holds.
IsSequence(s) == s \in Seq({s[i] : i \in DOMAIN s})

\* What is left to the owner.
ActionsInv ==
    /\ IsSequence(actions)
    /\ \A i \in DOMAIN actions : Within(actions[i].write.sets, Values)

\* What is known.
ValuesInv ==
    /\ chain \cap NoAddresses = {}
    /\ Within(versions, recorded)
    /\ Within(deployed, recorded)
    /\ Within(slots, Values)
    /\ \A key \in DOMAIN old : old[key].supply \in Values

Inv == FilesInv /\ ValuesInv /\ ActionsInv

-----------------------------------------------------------------------------
(* Functions written over others, and what contracts store.                *)

\* Writing over a function adds to its domain.
LEMMA DomainOver ==
    ASSUME NEW f, NEW g
    PROVE  DOMAIN Over(f, g) = DOMAIN f \cup DOMAIN g
  BY DEF Over

\* The values of a function written over another are those of the two.
LEMMA OverWithin ==
    ASSUME NEW f, NEW g, NEW S, Within(f, S), Within(g, S)
    PROVE  Within(Over(f, g), S)
  BY DEF Over, Within

\* So are those of a function with one more value.
LEMMA PutWithin ==
    ASSUME NEW f, NEW k, NEW v, NEW S, Within(f, S), v \in S
    PROVE  Within(Put(f, k, v), S) /\ DOMAIN Put(f, k, v) = DOMAIN f \cup {k}
<1>1. Within(Single(k, v), S) /\ DOMAIN Single(k, v) = {k}
  BY DEF Single, Within
<1> QED
  BY <1>1, OverWithin, DomainOver DEF Put

\* A wider set holds what a narrower one does.
LEMMA WithinWider ==
    ASSUME NEW f, NEW S, NEW T, Within(f, S), S \subseteq T
    PROVE  Within(f, T)
  BY DEF Within

\* What a slot holds is known.
LEMMA SlotKnown ==
    ASSUME ValuesInv, NEW a, NEW f
    PROVE  Slot(a, f) \in Values
  BY DEF ValuesInv, Within, Slot, Values, NoAddresses

\* What a name or a parameter stands for is known.
LEMMA AddressKnown ==
    ASSUME ValuesInv, NEW n
    PROVE  AddressOf(n) \in Values /\ ValueOf(n) \in Values
  BY DEF ValuesInv, Within, AddressOf, ValueOf, Values, NoAddresses

\* So is the supply that a pynth had.
LEMMA OriginalKnown ==
    ASSUME ValuesInv, NEW key
    PROVE  Original(key) \in Values
  BY DEF ValuesInv, Original, Values, NoAddresses

-----------------------------------------------------------------------------
(* Writes, sent or left to the owner.                                      *)

\* A function on 1..n is a sequence.
LEMMA OwnSequence ==
    ASSUME NEW s, NEW n \in Nat, s = [j \in 1..n |-> s[j]]
    PROVE  IsSequence(s)
<1>1. \A j \in 1..n : s[j] \in {s[k] : k \in DOMAIN s}
  OBVIOUS
<1> QED
  BY <1>1, IsASeq DEF IsSequence

\* Staging a write leaves a sequence of actions.
LEMMA StagedWrites ==
    ASSUME ActionsInv, NEW w, Within(w.sets, Values)
    PROVE  /\ IsSequence(Staged(w))
           /\ \A i \in DOMAIN Staged(w) : Within(Staged(w)[i].write.sets, Values)
<1> DEFINE entry == [write |-> w, complete |-> FALSE]
           same(e) == Key(e.write) = Key(w)
           R == {actions[i] : i \in DOMAIN actions}
           replaced == [i \in DOMAIN actions |-> IF same(actions[i]) THEN entry ELSE actions[i]]
           appended == Append(actions, entry)
<1>1. actions \in Seq(R) /\ Len(actions) \in Nat /\ DOMAIN actions = 1..Len(actions)
  BY DEF ActionsInv, IsSequence
<1>2. /\ IsSequence(replaced)
      /\ \A i \in DOMAIN replaced : Within(replaced[i].write.sets, Values)
  <2>1. replaced = [i \in 1..Len(actions) |-> replaced[i]]
    BY <1>1
  <2>2. IsSequence(replaced)
    BY <1>1, <2>1, OwnSequence
  <2>3. entry.write = w
    OBVIOUS
  <2>4. \A i \in DOMAIN replaced : Within(replaced[i].write.sets, Values)
    BY <2>3 DEF ActionsInv
  <2> QED
    BY <2>2, <2>4
<1>3. /\ IsSequence(appended)
      /\ \A i \in DOMAIN appended : Within(appended[i].write.sets, Values)
  <2>1. actions \in Seq(R \cup {entry})
    BY <1>1
  <2>2. /\ Len(appended) = Len(actions) + 1
        /\ DOMAIN appended = 1..(Len(actions) + 1)
        /\ \A i \in 1..Len(actions) : appended[i] = actions[i]
        /\ appended[Len(actions) + 1] = entry
        /\ appended = [i \in 1..(Len(actions) + 1) |-> appended[i]]
    BY <2>1, <1>1, AppendProperties
  <2>3. /\ Len(actions) + 1 \in Nat
        /\ appended = [i \in 1..(Len(actions) + 1) |-> appended[i]]
    BY <1>1, <2>2
  <2> HIDE DEF appended
  <2>4. IsSequence(appended)
    BY <2>3, OwnSequence
  <2>5. ASSUME NEW i \in DOMAIN appended PROVE Within(appended[i].write.sets, Values)
    <3>1. CASE i \in 1..Len(actions)
      BY <1>1, <2>2, <3>1 DEF ActionsInv
    <3>2. CASE i = Len(actions) + 1
      BY <2>2, <3>2
    <3> QED
      BY <1>1, <2>2, <3>1, <3>2
  <2> QED
    BY <2>4, <2>5
<1>4. Staged(w) = replaced \/ Staged(w) = appended
  BY DEF Staged
<1> HIDE DEF replaced, appended
<1> QED
  BY <1>2, <1>3, <1>4

\* A write of known values keeps what is known and what is staged in order,
\* whether it is sent or left to the owner.
LEMMA InvokeKeeps ==
    ASSUME ValuesInv, ActionsInv, NEW w, Within(w.sets, Values), Invoke(w),
           UNCHANGED recorded
    PROVE  Within(slots', Values') /\ ActionsInv'
<1>1. Values' = Values
  BY DEF Values, NoAddresses, None, Fixed, Tuned, Some
<1>2. CASE w.target \in handedOver
  <2>1. actions' = Staged(w) /\ slots' = slots
    BY <1>2 DEF Invoke
  <2>2. ActionsInv'
    BY <2>1, <1>1, StagedWrites DEF ActionsInv
  <2> QED
    BY <2>1, <2>2, <1>1 DEF ValuesInv
<1>3. CASE w.target \notin handedOver
  <2>1. slots' = Over(slots, w.sets) /\ actions' = actions
    BY <1>3 DEF Invoke
  <2>2. Within(slots, Values)
    BY DEF ValuesInv
  <2>3. Within(slots', Values)
    BY <2>1, <2>2, OverWithin
  <2> QED
    BY <2>1, <2>3, <1>1 DEF ActionsInv
<1> QED
  BY <1>2, <1>3

\* A step that writes known values, or nothing, and otherwise only moves on.
LEMMA WriteKeeps ==
    ASSUME Inv, NEW w, Within(w.sets, Values), Invoke(w) \/ NothingToDo,
           UNCHANGED <<recorded, chain, targets, versions, config, deployed, old>>,
           stage' = "step"
    PROVE  Inv'
<1>1. Values' = Values
  BY DEF Values, NoAddresses, None, Fixed, Tuned, Some
<1>2. Within(slots', Values') /\ ActionsInv'
  <2>1. CASE Invoke(w)
    BY <2>1, InvokeKeeps DEF Inv
  <2>2. CASE NothingToDo
    BY <2>2, <1>1 DEF NothingToDo, Inv, ValuesInv, ActionsInv
  <2> QED
    BY <2>1, <2>2
<1>3. FilesInv'
  BY DEF Inv, FilesInv, Within
<1>4. ValuesInv'
  BY <1>1, <1>2 DEF Inv, ValuesInv, Within, NoAddresses, None, Fixed, Tuned, Some
<1> QED
  BY <1>2, <1>3, <1>4 DEF Inv

\* A step that finds nothing to do only moves on.
LEMMA NothingKeeps ==
    ASSUME Inv, NothingToDo,
           UNCHANGED <<recorded, chain, targets, versions, config, deployed, old>>,
           stage' = "step"
    PROVE  Inv'
<1> DEFINE w == Write("", "", None, <<>>)
<1>1. Within(w.sets, Values)
  BY DEF Within, Write
<1> HIDE DEF w
<1> QED
  BY <1>1, WriteKeeps

\* A step that sends nothing and records nothing: at most it recalls what it
\* knows, or forgets.
LEMMA ReadKeeps ==
    ASSUME Inv, UNCHANGED <<recorded, chain, slots, targets, versions, config, actions>>,
           deployed' = deployed \/ deployed' = <<>>,
           old' = old \/ old' = <<>>,
           (stage' = stage /\ pc' = pc /\ sent' = sent) \/ stage' = "step"
    PROVE  Inv'
<1>1. Values' = Values
  BY DEF Values, NoAddresses, None, Fixed, Tuned, Some
<1>2. FilesInv'
  BY DEF Inv, FilesInv, Within, Step, Script
<1>3. ValuesInv'
  <2>1. Within(deployed', recorded) /\ \A key \in DOMAIN old' : old'[key].supply \in Values
    BY DEF Inv, ValuesInv, Within
  <2> QED
    BY <1>1, <2>1 DEF Inv, ValuesInv, Within, NoAddresses, None, Fixed, Tuned, Some
<1>4. ActionsInv'
  BY <1>1 DEF Inv, ActionsInv
<1> QED
  BY <1>2, <1>3, <1>4 DEF Inv

-----------------------------------------------------------------------------
(* The steps.                                                              *)

\* The first state has nothing that could be wrong.
LEMMA InvInit == Init => Inv
<1> SUFFICES ASSUME Init PROVE Inv
  OBVIOUS
<1>1. Within(<<>>, recorded) /\ Within(<<>>, Values)
  BY DEF Within
<1>2. IsSequence(actions)
  BY DEF Init, IsSequence
<1>3. FilesInv
  BY <1>1 DEF Init, FilesInv
<1>4. ValuesInv
  BY <1>1 DEF Init, ValuesInv
<1>5. ActionsInv
  BY <1>2 DEF Init, ActionsInv
<1> QED
  BY <1>3, <1>4, <1>5 DEF Inv

\* A deployment adds a contract that nothing names yet.
LEMMA SendKeeps == Inv /\ SendDeployment => Inv'
<1> SUFFICES ASSUME Inv, SendDeployment PROVE Inv'
  OBVIOUS
<1> PICK k \in 1..MaxInstances :
         /\ chain' = chain \cup {<<Step.name, k>>}
         /\ slots' = Over(slots, Constructed(<<Step.name, k>>, Step))
         /\ sent' = <<Step.name, k>>
  BY DEF SendDeployment
<1>1. Values' = Values
  BY DEF SendDeployment, Values, NoAddresses, None, Fixed, Tuned, Some
<1>2. FilesInv'
  BY DEF SendDeployment, Inv, FilesInv, Within, fileVars
<1>3. Within(Constructed(<<Step.name, k>>, Step), Values)
  <2> DEFINE args == [x \in {<<<<Step.name, k>>, f>> : f \in DOMAIN Step.ctor} |->
                          AddressOf(Step.ctor[x[2]])]
  <2>1. Within(args, Values)
    BY AddressKnown DEF Inv, Within
  <2>2. Original(Step.key) \in Values
    BY OriginalKnown DEF Inv
  <2>3. Constructed(<<Step.name, k>>, Step)
            = Put(args, <<<<Step.name, k>>, "supply">>, Original(Step.key))
    BY DEF Constructed
  <2> DEFINE supply == <<<<Step.name, k>>, "supply">>
  <2> HIDE DEF args, supply
  <2>4. Within(Put(args, supply, Original(Step.key)), Values)
    BY <2>1, <2>2, PutWithin
  <2> QED
    BY <2>3, <2>4 DEF supply
<1>4. Within(slots', Values')
  BY <1>1, <1>3, OverWithin DEF Inv, ValuesInv
<1>5. chain' \cap NoAddresses' = {}
  <2>1. <<Step.name, k>> \notin NoAddresses
    BY DEF NoAddresses, None, Fixed, Tuned, Some
  <2> QED
    BY <2>1 DEF Inv, ValuesInv, NoAddresses, None, Fixed, Tuned, Some
<1>6. ValuesInv'
  BY <1>1, <1>4, <1>5 DEF SendDeployment, Inv, ValuesInv, fileVars
<1>7. ActionsInv'
  BY <1>1 DEF SendDeployment, Inv, ActionsInv, fileVars
<1> QED
  BY <1>2, <1>6, <1>7 DEF Inv

\* Recording it makes its address known.
LEMMA RecordKeeps == Inv /\ RecordDeployment => Inv'
<1> SUFFICES ASSUME Inv, RecordDeployment PROVE Inv'
  OBVIOUS
<1> USE DEF RecordDeployment, chainVars
<1>1. sent \in chain /\ recorded' = recorded \cup {sent}
  BY DEF Inv, FilesInv
<1>2. Values \subseteq Values'
  BY <1>1 DEF Values, NoAddresses, None, Fixed, Tuned, Some
<1>3. Within(targets, recorded') /\ Within(deployed, recorded') /\ Within(versions, recorded')
  BY <1>1 DEF Inv, FilesInv, ValuesInv, Within
<1>4. /\ Within(targets', recorded') /\ DOMAIN targets' = DOMAIN targets \cup {Step.name}
      /\ Within(deployed', recorded')
  BY <1>1, <1>3, PutWithin
<1>5. FilesInv'
  BY <1>1, <1>4 DEF Inv, FilesInv, Step
<1>6. ValuesInv'
  <2>1. Within(slots', Values')
    BY <1>2, WithinWider DEF Inv, ValuesInv
  <2>2. \A key \in DOMAIN old' : old'[key].supply \in Values'
    BY <1>2 DEF Inv, ValuesInv
  <2> QED
    BY <1>3, <1>4, <2>1, <2>2 DEF Inv, ValuesInv, NoAddresses, None, Fixed, Tuned, Some
<1>7. ActionsInv'
  <2>1. ASSUME NEW i \in DOMAIN actions' PROVE Within(actions'[i].write.sets, Values')
    BY <1>2, <2>1, WithinWider DEF Inv, ActionsInv
  <2> QED
    BY <2>1 DEF Inv, ActionsInv
<1> QED
  BY <1>5, <1>6, <1>7 DEF Inv

\* The flag is cleared only after deployment.json has the address.
LEMMA ConfigKeeps == Inv /\ RecordConfig => Inv'
<1> SUFFICES ASSUME Inv, RecordConfig PROVE Inv'
  OBVIOUS
<1> USE DEF RecordConfig, chainVars, Advance
<1>1. Values' = Values
  BY DEF Values, NoAddresses, None, Fixed, Tuned, Some
<1>2. Step.name \in DOMAIN targets
  BY DEF Inv, FilesInv
<1>3. \A n \in DOMAIN config' : config'[n] \/ n \in DOMAIN targets'
  BY <1>2 DEF Inv, FilesInv, Put, Over, Single
<1>4. FilesInv'
  BY <1>3 DEF Inv, FilesInv
<1>5. ValuesInv' /\ ActionsInv'
  BY <1>1 DEF Inv, ValuesInv, ActionsInv, NoAddresses, None, Fixed, Tuned, Some
<1> QED
  BY <1>4, <1>5 DEF Inv

\* An address that is reused is one of deployment.json.
LEMMA ReuseKeeps == Inv /\ ReuseContract => Inv'
<1> SUFFICES ASSUME Inv, ReuseContract PROVE Inv'
  OBVIOUS
<1> USE DEF ReuseContract, chainVars, fileVars, Advance
<1>1. Values' = Values
  BY DEF Values, NoAddresses, None, Fixed, Tuned, Some
<1>2. targets[Step.name] \in recorded
  BY DEF Inv, FilesInv, Within
<1>3. Within(deployed', recorded)
  BY <1>2, PutWithin DEF Inv, ValuesInv
<1>4. FilesInv' /\ ActionsInv'
  BY <1>1 DEF Inv, FilesInv, ActionsInv
<1>5. ValuesInv'
  BY <1>1, <1>3 DEF Inv, ValuesInv, NoAddresses, None, Fixed, Tuned, Some
<1> QED
  BY <1>4, <1>5 DEF Inv

\* The writes of the steps hold what is known.
LEMMA SetStepKeeps == Inv /\ SetStep => Inv'
<1> SUFFICES ASSUME Inv, SetStep PROVE Inv'
  OBVIOUS
<1>1. Within(SetWrite(Step).sets, Values)
  BY AddressKnown DEF Inv, Within, Single, Write, SetWrite
<1>2. Invoke(SetWrite(Step))
  BY DEF SetStep
<1> QED
  BY <1>1, <1>2, WriteKeeps DEF SetStep, Advance

\* The old fee pool is an address of versions.json.
LEMMA PeriodsKeep == Inv /\ ImportFeePeriods => Inv'
<1> SUFFICES ASSUME Inv, ImportFeePeriods PROVE Inv'
  OBVIOUS
<1>1. CASE Flagged("FeePool") /\ Previous("FeePool") # None
  <2>1. Within(PeriodsWrite.sets, Values)
    BY <1>1 DEF Inv, ValuesInv, Within, Single, Write, PeriodsWrite, Values, Previous
  <2>2. Invoke(PeriodsWrite)
    BY <1>1 DEF ImportFeePeriods
  <2> QED
    BY <2>1, <2>2, WriteKeeps DEF ImportFeePeriods, Advance
<1>2. CASE ~(Flagged("FeePool") /\ Previous("FeePool") # None)
  <2>1. NothingToDo
    BY <1>2 DEF ImportFeePeriods
  <2>2. UNCHANGED <<recorded, chain, targets, versions, config, deployed, old>>
        /\ stage' = "step"
    BY DEF ImportFeePeriods, Advance
  <2> QED
    BY <2>1, <2>2, NothingKeeps
<1> QED
  BY <1>1, <1>2

\* A supply is set to zero.
LEMMA RetireKeeps == Inv /\ RetirePynth => Inv'
<1> SUFFICES ASSUME Inv, RetirePynth PROVE Inv'
  OBVIOUS
<1>1. Within(RetireWrite.sets, Values)
  BY DEF Within, Single, Write, RetireWrite, Values, NoAddresses
<1>2. Invoke(RetireWrite) \/ NothingToDo
  BY DEF RetirePynth
<1> QED
  BY <1>1, <1>2, WriteKeeps DEF RetirePynth, Advance

\* The issuer forgets a pynth.
LEMMA RemoveKeeps == Inv /\ RemovePynth => Inv'
<1> SUFFICES ASSUME Inv, RemovePynth PROVE Inv'
  OBVIOUS
<1>1. Within(RemoveWrite.sets, Values)
  BY DEF Within, Single, Write, Values, NoAddresses, RemoveWrite
<1>2. Invoke(RemoveWrite) \/ NothingToDo
  BY DEF RemovePynth
<1> QED
  BY <1>1, <1>2, WriteKeeps DEF RemovePynth, Advance

\* The issuer lists addresses of this run.
LEMMA AddKeeps == Inv /\ AddPynths => Inv'
<1> SUFFICES ASSUME Inv, AddPynths PROVE Inv'
  OBVIOUS
<1>1. Within(AddWrite.sets, Values)
  BY AddressKnown DEF Inv, Within, Write, AddWrite, PynthOf
<1>2. Invoke(AddWrite) \/ NothingToDo
  BY DEF AddPynths
<1> QED
  BY <1>1, <1>2, WriteKeeps DEF AddPynths, Advance

\* Writes on the chain of what is known, by whomever.
LEMMA ChainKeeps ==
    ASSUME Inv, NEW g, Within(g, Values), slots' = Over(slots, g),
           UNCHANGED <<recorded, chain, targets, versions, config, deployed, old>>,
           actions' = actions \/ ActionsInv',
           (stage' = stage /\ pc' = pc /\ sent' = sent) \/ stage' = "step"
    PROVE  Inv'
<1>1. Values' = Values
  BY DEF Values, NoAddresses, None, Fixed, Tuned, Some
<1>2. FilesInv'
  BY DEF Inv, FilesInv, Within, Step, Script
<1>3. Within(slots', Values')
  BY <1>1, OverWithin DEF Inv, ValuesInv
<1>4. ValuesInv'
  BY <1>1, <1>3 DEF Inv, ValuesInv, NoAddresses, None, Fixed, Tuned, Some
<1>5. ActionsInv'
  BY <1>1 DEF Inv, ActionsInv
<1> QED
  BY <1>2, <1>4, <1>5 DEF Inv

\* The resolver is told addresses of this run.
LEMMA ImportKeeps == Inv /\ ImportAddresses => Inv'
<1> SUFFICES ASSUME Inv, ImportAddresses PROVE Inv'
  OBVIOUS
<1>1. Within(ImportWrite.sets, Values)
  BY DEF Inv, ValuesInv, Within, Write, ImportWrite, Unimported, Values
<1>2. CASE Resolver \in handedOver /\ Unimported # {}
  <2>1. /\ actions' = Staged(ImportWrite)
        /\ UNCHANGED <<slots, recorded, chain, targets, versions, config>>
        /\ deployed' = <<>> /\ old' = <<>> /\ stage' = "step"
    BY <1>2 DEF ImportAddresses, EndWith
  <2>2. Values' = Values
    BY <2>1 DEF Values, NoAddresses, None, Fixed, Tuned, Some
  <2>3. ActionsInv'
    BY <1>1, <2>1, <2>2, StagedWrites DEF Inv, ActionsInv
  <2>4. FilesInv'
    BY <2>1 DEF Inv, FilesInv, Within
  <2>5. ValuesInv'
    BY <2>1, <2>2 DEF Inv, ValuesInv, Within, NoAddresses, None, Fixed, Tuned, Some
  <2> QED
    BY <2>3, <2>4, <2>5 DEF Inv
<1>3. CASE ~(Resolver \in handedOver /\ Unimported # {})
  <2>1. /\ slots' = slots \/ slots' = Over(slots, ImportWrite.sets)
        /\ UNCHANGED <<actions, deployed, old, recorded, chain, targets, versions, config>>
        /\ stage' = "step"
    BY <1>3 DEF ImportAddresses, Advance
  <2>2. CASE slots' = slots
    BY <2>1, <2>2, ReadKeeps
  <2>3. CASE slots' = Over(slots, ImportWrite.sets)
    BY <1>1, <2>1, <2>3, ChainKeeps
  <2> QED
    BY <2>1, <2>2, <2>3
<1> QED
  BY <1>2, <1>3

\* Caches copy what the resolver holds.
LEMMA RebuildKeeps == Inv /\ RebuildCaches => Inv'
<1> SUFFICES ASSUME Inv, RebuildCaches PROVE Inv'
  OBVIOUS
<1> DEFINE g == [x \in UNION {{<<deployed[n], r>> : r \in Required[n]} : n \in ToRebuild} |->
                     Resolved(x[2])]
<1>1. Within(g, Values)
  BY SlotKnown DEF Inv, Within, Resolved
<1>2. slots' = Over(slots, g)
  BY DEF RebuildCaches
<1> HIDE DEF g
<1> QED
  BY <1>1, <1>2, ChainKeeps DEF RebuildCaches, Advance, fileVars

\* A pynth is recalled with what its slot holds.
LEMMA RecallKeeps == Inv /\ RecallPynth => Inv'
<1> SUFFICES ASSUME Inv, RecallPynth PROVE Inv'
  OBVIOUS
<1> USE DEF RecallPynth, chainVars, fileVars, Advance
<1>1. Values' = Values
  BY DEF Values, NoAddresses, None, Fixed, Tuned, Some
<1>2. \A key \in DOMAIN old' : old'[key].supply \in Values
  <2>1. CASE Flagged(Pynths[Step.key])
    <3> DEFINE p == Previous(Pynths[Step.key])
               r == [pynth |-> p, supply |-> Slot(p, "supply")]
    <3>1. r.supply \in Values
      BY SlotKnown DEF Inv
    <3>2. old' = Put(old, Step.key, r)
      BY <2>1
    <3> HIDE DEF r
    <3> QED
      BY <3>1, <3>2 DEF Inv, ValuesInv, Put, Over, Single
  <2>2. CASE ~Flagged(Pynths[Step.key])
    BY <2>2 DEF Inv, ValuesInv
  <2> QED
    BY <2>1, <2>2
<1>3. FilesInv' /\ ActionsInv'
  BY <1>1 DEF Inv, FilesInv, ActionsInv
<1>4. ValuesInv'
  BY <1>1, <1>2 DEF Inv, ValuesInv, NoAddresses, None, Fixed, Tuned, Some
<1> QED
  BY <1>3, <1>4 DEF Inv

\* The owner sends what was staged.
LEMMA OwnerKeeps == Inv /\ OwnerActs => Inv'
<1> SUFFICES ASSUME Inv, OwnerActs PROVE Inv'
  OBVIOUS
<1> PICK i \in Pending :
         /\ slots' = Over(slots, actions[i].write.sets)
         /\ actions' = [actions EXCEPT ![i].complete = TRUE]
  BY DEF OwnerActs
<1>1. i \in DOMAIN actions /\ Within(actions[i].write.sets, Values)
  BY DEF Pending, Inv, ActionsInv
<1>2. Values' = Values
  BY DEF OwnerActs, Values, NoAddresses, None, Fixed, Tuned, Some
<1>3. Len(actions) \in Nat /\ DOMAIN actions = 1..Len(actions)
  BY DEF Inv, ActionsInv, IsSequence
<1> DEFINE e == [actions[i] EXCEPT !.complete = TRUE]
<1>4. /\ DOMAIN actions' = DOMAIN actions
      /\ actions' = [j \in 1..Len(actions) |-> IF j = i THEN e ELSE actions[j]]
  BY <1>1, <1>3
<1>5. \A j \in DOMAIN actions' : Within(actions'[j].write.sets, Values)
  <2>1. e.write = actions[i].write
    OBVIOUS
  <2> HIDE DEF e
  <2>2. \A j \in DOMAIN actions : Within(actions[j].write.sets, Values)
    BY DEF Inv, ActionsInv
  <2> QED
    BY <1>1, <1>3, <1>4, <2>1, <2>2
<1> HIDE DEF e
<1>6. IsSequence(actions')
  <2>1. actions' = [j \in 1..Len(actions) |-> actions'[j]]
    BY <1>4
  <2> QED
    BY <1>3, <2>1, OwnSequence
<1>7. ActionsInv'
  BY <1>2, <1>5, <1>6 DEF ActionsInv
<1> QED
  BY <1>1, <1>7, ChainKeeps DEF OwnerActs, runVars

\* Governance writes a value of its own.
LEMMA TuneKeeps == Inv /\ TuneSetting => Inv'
<1> SUFFICES ASSUME Inv, TuneSetting PROVE Inv'
  OBVIOUS
<1> PICK f \in Settings : slots' = Put(slots, <<Slot(MaySet, "FlexibleStorage"), f>>, Tuned)
  BY DEF TuneSetting
<1> DEFINE g == Single(<<Slot(MaySet, "FlexibleStorage"), f>>, Tuned)
<1>1. Within(g, Values) /\ slots' = Over(slots, g)
  BY DEF Within, Single, Values, NoAddresses, Put
<1> HIDE DEF g
<1> QED
  BY <1>1, ChainKeeps DEF TuneSetting, fileVars, runVars

\* Users come to hold pynths.
LEMMA IssueKeeps == Inv /\ IssuePynths => Inv'
<1> SUFFICES ASSUME Inv, IssuePynths PROVE Inv'
  OBVIOUS
<1> DEFINE listed == {Slot(TargetOf("Issuer"), key) : key \in DOMAIN Pynths} \ {None}
           unused == {p \in listed : Slot(p, "supply") = None}
           g == [x \in {<<p, "supply">> : p \in unused} |-> Some]
<1>1. Within(g, Values) /\ slots' = Over(slots, g)
  BY DEF Within, Values, NoAddresses, IssuePynths
<1> HIDE DEF g
<1> QED
  BY <1>1, ChainKeeps DEF IssuePynths, fileVars, runVars

\* versions.json copies deployment.json.
LEMMA VersionsKeep == Inv /\ UpdateVersions => Inv'
<1> SUFFICES ASSUME Inv, UpdateVersions PROVE Inv'
  OBVIOUS
<1> USE DEF UpdateVersions, chainVars, runVars
<1>1. Values' = Values
  BY DEF Values, NoAddresses, None, Fixed, Tuned, Some
<1>2. Within(versions', recorded)
  BY OverWithin DEF Inv, FilesInv, ValuesInv
<1>3. FilesInv' /\ ActionsInv'
  BY <1>1 DEF Inv, FilesInv, ActionsInv, Step, Script
<1>4. ValuesInv'
  BY <1>1, <1>2 DEF Inv, ValuesInv, NoAddresses, None, Fixed, Tuned, Some
<1> QED
  BY <1>3, <1>4 DEF Inv

\* A release only sets flags of contracts.
LEMMA PrepareKeeps == Inv /\ PrepareDeploy => Inv'
<1> SUFFICES ASSUME Inv, PrepareDeploy PROVE Inv'
  OBVIOUS
<1> USE DEF PrepareDeploy, chainVars, runVars
<1>1. Values' = Values
  BY DEF Values, NoAddresses, None, Fixed, Tuned, Some
<1>2. \A n \in DOMAIN config' : config'[n] \/ n \in DOMAIN targets
  BY DEF Inv, FilesInv, Over
<1>3. FilesInv' /\ ActionsInv'
  BY <1>1, <1>2 DEF Inv, FilesInv, ActionsInv, Step, Script
<1>4. ValuesInv'
  BY <1>1 DEF Inv, ValuesInv, NoAddresses, None, Fixed, Tuned, Some
<1> QED
  BY <1>3, <1>4 DEF Inv

\* The other steps write nothing that the invariant is about.
LEMMA OthersKeep ==
    Inv /\ (StartRun \/ Crash \/ Finish \/ Fail \/ PassOver \/ QueuePynth \/ SortPynths
            \/ HandOver \/ UNCHANGED vars) => Inv'
<1> SUFFICES ASSUME Inv PROVE (StartRun \/ Crash \/ Finish \/ Fail \/ PassOver \/ QueuePynth
                               \/ SortPynths \/ HandOver \/ UNCHANGED vars) => Inv'
  OBVIOUS
<1> USE DEF chainVars, fileVars
<1>1. StartRun => Inv'
  BY ReadKeeps DEF StartRun, NewDeployer
<1>2. Crash \/ Finish \/ Fail => Inv'
  BY ReadKeeps DEF Crash, Finish, Fail, EndWith
<1>3. PassOver => Inv'
  BY ReadKeeps DEF PassOver
<1>4. QueuePynth \/ SortPynths => Inv'
  BY ReadKeeps DEF QueuePynth, SortPynths, Advance
<1>5. HandOver => Inv'
  BY ReadKeeps DEF HandOver, runVars
<1>6. UNCHANGED vars => Inv'
  BY ReadKeeps DEF vars, runVars
<1> QED
  BY <1>1, <1>2, <1>3, <1>4, <1>5, <1>6

\* So every step keeps the invariant.
LEMMA InvStep == Inv /\ [Next]_vars => Inv'
  BY SendKeeps, RecordKeeps, ConfigKeeps, ReuseKeeps, SetStepKeeps, PeriodsKeep,
     ImportKeeps, RebuildKeeps, RecallKeeps, RetireKeeps, RemoveKeeps, AddKeeps,
     OwnerKeeps, TuneKeeps, IssueKeeps, VersionsKeep, PrepareKeeps, OthersKeep
  DEF Next, RunStep

\* The invariant holds in every reachable state.
LEMMA InvAlways == Spec => []Inv
<1>1. Inv /\ [Next]_vars => Inv'
  BY InvStep
<1> QED
  BY InvInit, <1>1, PTL DEF Spec

-----------------------------------------------------------------------------

\* Each address in deployment.json holds a contract, and each contract that
\* config.json no longer flags has one: the order in which _updateResults writes
\* the two files is safe at every point at which a run may die.
THEOREM FilesAlwaysKnowTheChain == Spec => []FilesKnowTheChain
<1>1. Inv => FilesKnowTheChain
  BY DEF Inv, FilesInv, FilesKnowTheChain, Within
<1> QED
  BY <1>1, InvAlways, PTL

\* No contract, resolver or action for the owner names a contract that no file
\* has ever known, whatever a dead run has left on the chain.
THEOREM WiredIsAlwaysRecorded == Spec => []WiredIsRecorded
<1>1. Inv => WiredIsRecorded
  <2> SUFFICES ASSUME Inv PROVE WiredIsRecorded
    OBVIOUS
  <2>1. \A v \in Values : v \in chain => v \in recorded
    BY DEF Inv, ValuesInv, Values
  <2>2. \A x \in DOMAIN slots : slots[x] \in Values
    BY DEF Inv, ValuesInv, Within
  <2>3. \A i \in DOMAIN actions : \A x \in DOMAIN actions[i].write.sets :
            actions[i].write.sets[x] \in Values
    BY DEF Inv, ActionsInv, Within
  <2> QED
    BY <2>1, <2>2, <2>3 DEF WiredIsRecorded
<1> QED
  BY <1>1, InvAlways, PTL

-----------------------------------------------------------------------------
\* What a slot holds, among these slots.
Held(s, a, f) == IF <<a, f>> \in DOMAIN s THEN s[<<a, f>>] ELSE None

Rank(a) == a[2]

\* The run is past a step of this kind, and of this key.
Done(op) == \E i \in 1..(pc - 1) : Script[i].op = op
DoneFor(op, key) == \E i \in 1..(pc - 1) : Script[i].op = op /\ Script[i].key = key

\* Instances of a contract are numbered in the order in which they are
\* deployed, and deployment.json has the last one that was recorded.
ChainInv ==
    /\ \A a \in chain : /\ a = <<NameOf(a), Rank(a)>> /\ Rank(a) \in Nat \ {0}
                        /\ \A j \in 1..(Rank(a) - 1) : <<NameOf(a), j>> \in chain
    /\ handedOver \subseteq recorded
    /\ \A n \in DOMAIN targets : NameOf(targets[n]) = n
    /\ \A a \in recorded : /\ NameOf(a) \in DOMAIN targets
                           /\ Rank(a) <= Rank(targets[NameOf(a)])
    /\ stage = "sent" =>
           /\ NameOf(sent) = Step.name
           /\ \A a \in recorded : NameOf(a) = NameOf(sent) => Rank(a) < Rank(sent)

\* The lists of names, and the step that a run is at.
ListInv ==
    /\ pc \in 0..(Len(Script) + 1)
    /\ Idle => stage = "step" /\ deployed = <<>>
    /\ stage # "step" => pc \in Deploys /\ Relevant(Step) /\ DepsMet(Step) /\ Known(Step)
    /\ DOMAIN targets \subseteq Names
    /\ Core \subseteq DOMAIN config
    /\ DOMAIN flags \subseteq DOMAIN config
    /\ ~Idle => Core \subseteq DOMAIN flags
    /\ \A i \in Deploys : Script[i].name \in DOMAIN targets =>
           /\ Script[i].given \cup Script[i].deps \subseteq DOMAIN targets
           /\ Script[i].force \/ Script[i].name \in DOMAIN config
           /\ ~Idle => Known(Script[i])

\* A contract that every run has.
Certain(i) == /\ Script[i].given = {} /\ Script[i].when = {}
              /\ Script[i].force \/ Script[i].name \in Core

\* A run has the contracts of the steps that it is past.
DeployedInv ==
    /\ \A n \in DOMAIN deployed : n \in DOMAIN targets /\ deployed[n] = targets[n]
    /\ stage = "recorded" => Step.name \in DOMAIN deployed
    /\ \A i \in Deploys : Script[i].name \in DOMAIN deployed =>
           i < pc \/ (i = pc /\ stage = "recorded")
    /\ \A i \in Deploys :
           (i < pc /\ (Certain(i) \/ Script[i].name \in DOMAIN targets \ Optional))
               => Script[i].name \in DOMAIN deployed

NetInv == ChainInv /\ ListInv /\ DeployedInv

\* Unless it has left something to the owner: the links that the run is past.
LinkInv ==
    clean => \A i \in Links : LET s == Script[i] IN
                 (i < pc /\ s.given \subseteq DOMAIN deployed)
                     => Held(slots, deployed[s.on], s.field) = deployed[s.to]

\* The names that the resolver has when they are imported.
ImportInv == Done("import") =>
    \A n \in DOMAIN deployed : Held(slots, Resolver, n) = deployed[n]

\* The caches when they are rebuilt.
CacheInv == (Done("rebuild") /\ clean) =>
    \A n \in DOMAIN Required \cap DOMAIN deployed :
        Required[n] \subseteq DOMAIN deployed =>
            \A r \in Required[n] : Held(slots, deployed[n], r) = deployed[r]

Lists(key) == Held(slots, Issuer, key) = PynthOf(key)

\* A step that queues a pynth after its contract and the issuer.
Queues(i, key) == /\ Script[i].op = "queue" /\ Script[i].key = key
                  /\ Before(Pynths[key], i) /\ Before("Issuer", i)

\* Each pynth is queued, then listed already or to be added, or to be replaced
\* and then added, and at the end it is listed.
PynthInv ==
    /\ adding \subseteq Keys /\ replacing \subseteq Keys
    /\ ~Done("sort") => \A key \in Keys :
           (\E i \in 1..(pc - 1) : Queues(i, key)) => key \in adding
    /\ (Done("sort") /\ ~Done("add")) => \A key \in Keys :
           \/ Lists(key)
           \/ key \in adding
           \/ key \in replacing /\ ~DoneFor("remove", key)
    /\ (Done("add") /\ clean) => \A key \in Keys : Lists(key)

WireInv == LinkInv /\ ImportInv /\ CacheInv /\ PynthInv

-----------------------------------------------------------------------------
(* The script.                                                             *)

\* Its steps are numbered.
LEMMA ScriptSteps ==
    /\ Len(Script) \in Nat /\ DOMAIN Script = 1..Len(Script)
    /\ Deploys \subseteq 1..Len(Script) /\ Sets \subseteq 1..Len(Script)
    /\ Links \subseteq Sets /\ Deploys \cap Sets = {}
  BY ScriptAssumption DEF ScriptInOrder, StepsInOrder, Deploys, Sets, Links

\* What is not optional is deployed by a step without a condition on flags.
LEMMA NotOptional ==
    ASSUME NEW i \in Deploys
    PROVE  Script[i].name \notin Optional => Script[i].when = {}
  BY DEF Optional

\* Each name has one step.
LEMMA StepOfName ==
    ASSUME NEW n \in Names
    PROVE  \E i \in Deploys : /\ Script[i].name = n
                              /\ \A j \in Deploys : Script[j].name = n => j = i
  BY ScriptAssumption DEF ScriptInOrder, ContractsInOrder, Names

-----------------------------------------------------------------------------
(* The files and the chain.                                                *)

\* Steps that are passed over leave out only contracts that are not there.
LEMMA PassedOver ==
    ASSUME NetInv, ~Idle, NEW q \in pc..(Len(Script) + 1),
           \A j \in pc..(q - 1) : j \in Deploys => Passed(Script[j])
    PROVE  \A i \in Deploys :
               (i < q /\ (Certain(i) \/ Script[i].name \in DOMAIN targets \ Optional))
                   => Script[i].name \in DOMAIN deployed
<1>0. pc \in 1..(Len(Script) + 1) /\ Len(Script) \in Nat /\ Deploys \subseteq 1..Len(Script)
  BY ScriptSteps DEF NetInv, ListInv, Idle
<1>1. ASSUME NEW i \in Deploys, i < q, Certain(i) PROVE Script[i].name \in DOMAIN deployed
  <2>1. CASE i < pc
    BY <1>1, <2>1 DEF NetInv, DeployedInv
  <2>2. CASE i >= pc
    <3>1. Passed(Script[i]) /\ Script[i].op = "deploy"
      BY <1>0, <1>1, <2>2 DEF Deploys
    <3>2. Relevant(Script[i])
      BY <1>1 DEF Certain, Relevant
    <3>3. Known(Script[i])
      BY <1>1 DEF Certain, Known, NetInv, ListInv
    <3> QED
      BY <3>1, <3>2, <3>3 DEF Passed
  <2> QED
    BY <1>0, <2>1, <2>2
<1>2. ASSUME NEW i \in Deploys, i < q, Script[i].given = {}, Script[i].when = {},
             Script[i].name \in DOMAIN targets
      PROVE  Script[i].name \in DOMAIN deployed
  <2>1. CASE i < pc
    <3>1. Script[i].name \notin Optional
      BY <1>2, ScriptAssumption DEF Optional, ScriptInOrder, ContractsInOrder
    <3> QED
      BY <1>2, <2>1, <3>1 DEF NetInv, DeployedInv
  <2>2. CASE i >= pc
    <3>1. Passed(Script[i]) /\ Script[i].op = "deploy"
      BY <1>0, <1>2, <2>2 DEF Deploys
    <3>2. Relevant(Script[i])
      BY <1>2 DEF Relevant
    <3>3. Known(Script[i])
      BY <1>2 DEF NetInv, ListInv
    <3> QED
      BY <3>1, <3>2, <3>3 DEF Passed
  <2> QED
    BY <1>0, <2>1, <2>2
<1>3. ASSUME NEW i \in Deploys, i < q, Script[i].name \in DOMAIN targets \ Optional
      PROVE  Script[i].name \in DOMAIN deployed
  <2>1. CASE i < pc
    BY <1>3, <2>1 DEF NetInv, DeployedInv
  <2>2. CASE i >= pc
    <3>1. Passed(Script[i]) /\ Script[i].op = "deploy"
      BY <1>0, <1>3, <2>2 DEF Deploys
    <3>2. Known(Script[i]) /\ Script[i].given \subseteq DOMAIN targets
      BY <1>3 DEF NetInv, ListInv
    <3>3. ~Relevant(Script[i])
      BY <3>1, <3>2 DEF Passed
    <3>4. PICK n \in Script[i].given : n \notin DOMAIN deployed
      BY <1>3, <3>3, NotOptional DEF Relevant
    <3>5. FirstOf(n) /\ Before(n, i)
      BY ScriptAssumption DEF ScriptInOrder, ContractsInOrder
    <3>6. PICK j \in Deploys : Script[j].name = n /\ j < i /\ Script[j].given = {}
                               /\ Script[j].when = {}
      BY <3>5, StepOfName DEF FirstOf, Before
    <3>7. j < q
      BY <1>0, <1>3, <3>6
    <3> QED
      BY <1>2, <3>2, <3>4, <3>6, <3>7
  <2> QED
    BY <1>0, <2>1, <2>2
<1> QED
  BY <1>1, <1>3

\* A step that is no deployment, or is passed over, moves the run on.
LEMMA MoveKeeps ==
    ASSUME NetInv, ~Idle, stage = "step", stage' = "step",
           pc' \in (pc + 1)..(Len(Script) + 1),
           \A j \in pc..(pc' - 1) : j \in Deploys => Passed(Script[j]),
           UNCHANGED <<chain, handedOver, config, targets, recorded, flags, deployed>>
    PROVE  NetInv'
<1>0. Len(Script) \in Nat /\ pc \in 1..(Len(Script) + 1) /\ pc' \in pc..(Len(Script) + 1)
      /\ pc' # 0 /\ Deploys \subseteq 1..Len(Script)
  BY ScriptSteps DEF NetInv, ListInv, Idle
<1>1. ChainInv'
  BY DEF NetInv, ChainInv
<1>2. ListInv'
  <2>1. \A s : Known(s)' <=> Known(s)
    BY DEF Known
  <2> QED
    BY <1>0, <2>1 DEF NetInv, ListInv, Idle
<1>3. DeployedInv'
  <2>1. \A i \in Deploys :
            (i < pc' /\ (Certain(i) \/ Script[i].name \in DOMAIN targets \ Optional))
                => Script[i].name \in DOMAIN deployed
    BY <1>0, PassedOver
  <2>2. \A i \in Deploys : Script[i].name \in DOMAIN deployed => i < pc'
    BY <1>0 DEF NetInv, DeployedInv
  <2> QED
    BY <2>1, <2>2 DEF NetInv, DeployedInv
<1> QED
  BY <1>1, <1>2, <1>3 DEF NetInv

\* A run that ends, or has not begun, has no contracts yet.
LEMMA EndKeeps ==
    ASSUME NetInv, pc' = 0, stage' = "step", flags' = <<>>, deployed' = <<>>,
           UNCHANGED <<chain, handedOver, config, targets, recorded>>
    PROVE  NetInv'
<1>0. Len(Script) \in Nat /\ Deploys \subseteq 1..Len(Script)
  BY ScriptSteps
<1>1. ChainInv'
  BY DEF NetInv, ChainInv
<1>2. ListInv'
  BY <1>0 DEF NetInv, ListInv, Idle
<1>3. DeployedInv'
  <2>1. DOMAIN deployed' = {}
    OBVIOUS
  <2>2. \A i \in Deploys : ~(i < 0)
    BY <1>0
  <2> QED
    BY <2>1, <2>2 DEF DeployedInv
<1> QED
  BY <1>1, <1>2, <1>3 DEF NetInv

\* What happens between runs: at most more contracts are flagged, or handed over.
LEMMA BetweenKeeps ==
    ASSUME NetInv, Idle, UNCHANGED <<chain, targets, recorded, runVars>>,
           handedOver' \subseteq recorded,
           DOMAIN config \subseteq DOMAIN config'
    PROVE  NetInv'
<1>1. ChainInv'
  BY DEF NetInv, ChainInv, runVars, Idle, ListInv
<1>2. ListInv'
  BY DEF NetInv, ListInv, Idle, runVars
<1>3. DeployedInv'
  BY DEF NetInv, DeployedInv, ListInv, Idle, runVars
<1> QED
  BY <1>1, <1>2, <1>3 DEF NetInv

\* At first there is nothing.
LEMMA NetInit == Init => NetInv
<1> SUFFICES ASSUME Init PROVE NetInv
  OBVIOUS
<1>0. Len(Script) \in Nat /\ Deploys \subseteq 1..Len(Script)
  BY ScriptSteps
<1>1. ChainInv
  BY DEF Init, ChainInv
<1>2. ListInv
  <2>1. Core \subseteq DOMAIN config
    BY NetworkAssumption DEF Init
  <2> QED
    BY <1>0, <2>1 DEF Init, ListInv, Idle
<1>3. DeployedInv
  <2>1. DOMAIN deployed = {} /\ pc = 0 /\ stage = "step"
    BY DEF Init
  <2>2. \A i \in Deploys : ~(i < 0)
    BY <1>0
  <2> QED
    BY <2>1, <2>2 DEF DeployedInv
<1> QED
  BY <1>1, <1>2, <1>3 DEF NetInv

\* A run begins with the flags of config.json.
LEMMA StartNet == NetInv /\ StartRun => NetInv'
<1> SUFFICES ASSUME NetInv, StartRun PROVE NetInv'
  OBVIOUS
<1> USE DEF StartRun, NewDeployer, chainVars, fileVars
<1>0. Len(Script) \in Nat /\ Deploys \subseteq 1..Len(Script)
  BY ScriptSteps
<1>1. ChainInv'
  BY DEF NetInv, ChainInv
<1>2. ListInv'
  <2>1. \A s : Known(s)' <=> (s.name \in DOMAIN config \/ s.force)
    BY DEF Known
  <2> QED
    BY <1>0, <2>1 DEF NetInv, ListInv, Idle
<1>3. DeployedInv'
  BY <1>0 DEF DeployedInv
<1> QED
  BY <1>1, <1>2, <1>3 DEF NetInv

\* A transaction adds the next instance of a contract.
LEMMA SendNet == Inv /\ NetInv /\ SendDeployment => NetInv'
<1> SUFFICES ASSUME Inv, NetInv, SendDeployment PROVE NetInv'
  OBVIOUS
<1> USE DEF SendDeployment, fileVars
<1> PICK k \in 1..MaxInstances :
         LET a == <<Step.name, k>>
         IN  /\ a \notin chain
             /\ \A j \in 1..(k - 1) : <<Step.name, j>> \in chain
             /\ chain' = chain \cup {a}
             /\ sent' = a
  OBVIOUS
<1> DEFINE a == <<Step.name, k>>
<1>0. k \in Nat \ {0} /\ NameOf(a) = Step.name /\ Rank(a) = k
  BY NetworkAssumption DEF NameOf, Rank
<1>1. ChainInv'
  <2>1. \A b \in chain' :
            /\ b = <<NameOf(b), Rank(b)>> /\ Rank(b) \in Nat \ {0}
            /\ \A j \in 1..(Rank(b) - 1) : <<NameOf(b), j>> \in chain'
    BY <1>0 DEF NetInv, ChainInv, NameOf, Rank
  <2>2. ASSUME NEW b \in recorded, NameOf(b) = NameOf(a) PROVE Rank(b) < Rank(a)
    <3>1. b \in chain
      BY DEF Inv, FilesInv
    <3>2. b = <<Step.name, Rank(b)>> /\ Rank(b) \in Nat \ {0}
          /\ \A j \in 1..(Rank(b) - 1) : <<Step.name, j>> \in chain
      BY <1>0, <2>2, <3>1 DEF NetInv, ChainInv
    <3>3. Rank(b) # k
      BY <3>1, <3>2
    <3>4. ~(k < Rank(b))
      <4>1. k < Rank(b) => k \in 1..(Rank(b) - 1)
        BY <1>0, <3>2
      <4> QED
        BY <3>2, <4>1
    <3> QED
      BY <1>0, <3>2, <3>3, <3>4
  <2>3. NameOf(sent') = Step'.name
    BY <1>0 DEF Step
  <2>4. /\ handedOver' \subseteq recorded'
        /\ \A n \in DOMAIN targets' : NameOf(targets'[n]) = n
        /\ \A b \in recorded' : /\ NameOf(b) \in DOMAIN targets'
                               /\ Rank(b) <= Rank(targets'[NameOf(b)])
    BY DEF NetInv, ChainInv
  <2>5. \A b \in recorded' : NameOf(b) = NameOf(sent') => Rank(b) < Rank(sent')
    BY <2>2
  <2> HIDE DEF a
  <2> QED
    BY <2>1, <2>3, <2>4, <2>5 DEF ChainInv
<1>2. ListInv'
  <2>1. pc \in Deploys /\ Relevant(Step) /\ Known(Step) /\ DepsMet(Step)
    BY DEF At, Deploys, Step, Passed
  <2>2. Step' = Step /\ Relevant(Step)' /\ Known(Step)' /\ DepsMet(Step)'
    BY <2>1 DEF Step, Relevant, Known, DepsMet, Flagged
  <2>3. \A s : Known(s)' <=> Known(s)
    BY DEF Known
  <2>4. pc # 0
    BY <2>1, ScriptSteps
  <2> QED
    BY <2>1, <2>2, <2>3, <2>4 DEF NetInv, ListInv, Idle
<1>3. DeployedInv'
  BY DEF NetInv, DeployedInv, At
<1> QED
  BY <1>1, <1>2, <1>3 DEF NetInv

\* The contract of a step is not yet among those of the run.
LEMMA NotYetDeployed ==
    ASSUME NetInv, pc \in Deploys, stage # "recorded"
    PROVE  Step.name \notin DOMAIN deployed
<1>1. pc \in 1..Len(Script) /\ Len(Script) \in Nat
  BY ScriptSteps
<1>2. ~(pc < pc)
  BY <1>1
<1> QED
  BY <1>2 DEF NetInv, DeployedInv, Step

\* Nor is it the contract of an earlier step.
LEMMA OwnStep ==
    ASSUME pc \in Deploys, NEW i \in Deploys, Script[i].name = Step.name
    PROVE  i = pc
  BY ScriptAssumption DEF ScriptInOrder, ContractsInOrder, Step

\* Once it is recorded, its address is the one of deployment.json.
LEMMA RecordNet == Inv /\ NetInv /\ RecordDeployment => NetInv'
<1> SUFFICES ASSUME Inv, NetInv, RecordDeployment PROVE NetInv'
  OBVIOUS
<1> USE DEF RecordDeployment, chainVars
<1>0. pc \in Deploys /\ Relevant(Step) /\ DepsMet(Step) /\ Known(Step) /\ Step' = Step
  BY DEF NetInv, ListInv, Step
<1>1. /\ DOMAIN targets' = DOMAIN targets \cup {Step.name} /\ targets'[Step.name] = sent
      /\ \A n \in DOMAIN targets : n # Step.name => targets'[n] = targets[n]
      /\ DOMAIN deployed' = DOMAIN deployed \cup {Step.name} /\ deployed'[Step.name] = sent
      /\ \A n \in DOMAIN deployed : n # Step.name => deployed'[n] = deployed[n]
  <2>1. targets' = Put(targets, Step.name, sent) /\ deployed' = Put(deployed, Step.name, sent)
    OBVIOUS
  <2> QED
    BY ONLY <2>1 DEF Put, Over, Single
<1>2. sent \in chain /\ Rank(sent) \in Nat /\ NameOf(sent) = Step.name
  BY DEF NetInv, ChainInv, Inv, FilesInv
<1>3. ChainInv'
  <2>1. ASSUME NEW a \in recorded'
        PROVE  NameOf(a) \in DOMAIN targets' /\ Rank(a) <= Rank(targets'[NameOf(a)])
    <3>1. CASE a = sent
      BY <1>1, <1>2, <3>1
    <3>2. CASE a \in recorded /\ NameOf(a) # Step.name
      BY <1>1, <3>2 DEF NetInv, ChainInv
    <3>3. CASE a \in recorded /\ NameOf(a) = Step.name
      <4>1. Rank(a) < Rank(sent) /\ a \in chain
        BY <1>2, <3>3 DEF NetInv, ChainInv, Inv, FilesInv
      <4>2. Rank(a) \in Nat
        BY <4>1 DEF NetInv, ChainInv
      <4> QED
        BY <1>1, <1>2, <3>3, <4>1, <4>2
    <3> QED
      BY <3>1, <3>2, <3>3
  <2>2. \A n \in DOMAIN targets' : NameOf(targets'[n]) = n
    BY <1>1, <1>2 DEF NetInv, ChainInv
  <2> QED
    BY <2>1, <2>2 DEF NetInv, ChainInv
<1>4. ListInv'
  <2>1. Relevant(Step)' /\ DepsMet(Step)' /\ Known(Step)'
    BY <1>0, <1>1 DEF Relevant, DepsMet, Known, Flagged
  <2>2. DOMAIN targets' \subseteq Names
    BY <1>0, <1>1 DEF NetInv, ListInv, Names, Step
  <2>3. ASSUME NEW i \in Deploys, Script[i].name \in DOMAIN targets'
        PROVE  /\ Script[i].given \cup Script[i].deps \subseteq DOMAIN targets'
               /\ Script[i].force \/ Script[i].name \in DOMAIN config'
               /\ ~Idle' => Known(Script[i])'
    <3>1. CASE Script[i].name = Step.name
      <4>1. Script[i] = Step
        BY <1>0, <3>1, OwnStep DEF Step
      <4>2. DOMAIN deployed \subseteq DOMAIN targets
        BY DEF NetInv, DeployedInv
      <4>3. Step.given \cup Step.deps \subseteq DOMAIN targets'
        BY <1>0, <1>1, <4>2 DEF Relevant, DepsMet
      <4>4. Step.force \/ Step.name \in DOMAIN config'
        BY <1>0 DEF Known, NetInv, ListInv
      <4> QED
        BY <2>1, <1>0, <4>1, <4>3, <4>4 DEF Known
    <3>2. CASE Script[i].name \in DOMAIN targets
      BY <1>1, <3>2 DEF NetInv, ListInv, Known, Idle
    <3> QED
      BY <1>1, <2>3, <3>1, <3>2
  <2> QED
    BY <1>0, <2>1, <2>2, <2>3 DEF NetInv, ListInv, Idle
<1>5. DeployedInv'
  <2>0. Step.name \notin DOMAIN deployed
    BY <1>0, NotYetDeployed
  <2>1. \A n \in DOMAIN deployed' : n \in DOMAIN targets' /\ deployed'[n] = targets'[n]
    BY <1>1 DEF NetInv, DeployedInv
  <2>2. ASSUME NEW i \in Deploys, Script[i].name \in DOMAIN deployed' PROVE i < pc \/ i = pc
    BY <1>0, <1>1, <2>2, OwnStep DEF NetInv, DeployedInv
  <2>3. ASSUME NEW i \in Deploys, i < pc,
               Certain(i) \/ Script[i].name \in DOMAIN targets' \ Optional
        PROVE  Script[i].name \in DOMAIN deployed'
    BY <1>0, <1>1, <2>3, OwnStep DEF NetInv, DeployedInv
  <2> QED
    BY <1>0, <1>1, <2>1, <2>2, <2>3 DEF DeployedInv
<1> QED
  BY <1>3, <1>4, <1>5 DEF NetInv

\* Its flag is cleared, and the run goes on.
LEMMA ConfigNet == NetInv /\ RecordConfig => NetInv'
<1> SUFFICES ASSUME NetInv, RecordConfig PROVE NetInv'
  OBVIOUS
<1> USE DEF RecordConfig, chainVars, Advance
<1>0. /\ pc \in Deploys /\ Deploys \subseteq 1..Len(Script) /\ Len(Script) \in Nat
      /\ pc \in 1..Len(Script) /\ pc' = pc + 1 /\ stage' = "step"
  BY ScriptSteps DEF NetInv, ListInv
<1>1. DOMAIN config' = DOMAIN config \cup {Step.name}
  <2>1. config' = Put(config, Step.name, FALSE)
    OBVIOUS
  <2> QED
    BY ONLY <2>1 DEF Put, Over, Single
<1>2. ChainInv'
  BY DEF NetInv, ChainInv
<1>3. ListInv'
  <2>1. \A s : Known(s)' <=> Known(s)
    BY DEF Known
  <2>2. /\ pc' \in 0..(Len(Script) + 1) /\ stage' = "step" /\ ~Idle /\ ~Idle'
        /\ UNCHANGED <<targets, flags>>
    BY <1>0 DEF Idle
  <2>3. Core \subseteq DOMAIN config' /\ DOMAIN flags \subseteq DOMAIN config'
    BY <1>1 DEF NetInv, ListInv
  <2>4. \A i \in Deploys : Script[i].name \in DOMAIN targets =>
            /\ Script[i].given \cup Script[i].deps \subseteq DOMAIN targets
            /\ Script[i].force \/ Script[i].name \in DOMAIN config'
            /\ Known(Script[i])
    BY <1>1, <2>2 DEF NetInv, ListInv
  <2>5. DOMAIN targets \subseteq Names /\ Core \subseteq DOMAIN flags
    BY <2>2 DEF NetInv, ListInv
  <2> QED
    BY ONLY <2>1, <2>2, <2>3, <2>4, <2>5 DEF ListInv
<1>4. DeployedInv'
  <2>1. ASSUME NEW i \in Deploys, i < pc',
               Certain(i) \/ Script[i].name \in DOMAIN targets \ Optional
        PROVE  Script[i].name \in DOMAIN deployed
    <3>1. CASE i = pc
      BY <3>1 DEF NetInv, DeployedInv, Step
    <3>2. CASE i < pc
      BY <2>1, <3>2 DEF NetInv, DeployedInv
    <3> QED
      BY <1>0, <2>1, <3>1, <3>2
  <2>2. \A i \in Deploys : Script[i].name \in DOMAIN deployed => i < pc'
    BY <1>0 DEF NetInv, DeployedInv
  <2> QED
    BY <2>1, <2>2 DEF NetInv, DeployedInv
<1> QED
  BY <1>2, <1>3, <1>4 DEF NetInv

\* A contract that is reused is at the address of deployment.json.
LEMMA ReuseNet == NetInv /\ ReuseContract => NetInv'
<1> SUFFICES ASSUME NetInv, ReuseContract PROVE NetInv'
  OBVIOUS
<1> USE DEF ReuseContract, chainVars, fileVars, Advance
<1>0. /\ pc \in Deploys /\ Deploys \subseteq 1..Len(Script) /\ Len(Script) \in Nat
      /\ pc \in 1..Len(Script) /\ pc' = pc + 1 /\ stage' = "step" /\ stage = "step"
  BY ScriptSteps DEF At, Deploys, Step
<1>1. /\ DOMAIN deployed' = DOMAIN deployed \cup {Step.name}
      /\ deployed'[Step.name] = targets[Step.name]
      /\ \A n \in DOMAIN deployed : n # Step.name => deployed'[n] = deployed[n]
  <2>1. deployed' = Put(deployed, Step.name, targets[Step.name])
    OBVIOUS
  <2> QED
    BY ONLY <2>1 DEF Put, Over, Single
<1>2. ChainInv'
  BY DEF NetInv, ChainInv
<1>3. ListInv'
  <2>1. \A s : Known(s)' <=> Known(s)
    BY DEF Known
  <2> QED
    BY <1>0, <2>1 DEF NetInv, ListInv, Idle
<1>4. DeployedInv'
  <2>1. ASSUME NEW i \in Deploys, i < pc',
               Certain(i) \/ Script[i].name \in DOMAIN targets \ Optional
        PROVE  Script[i].name \in DOMAIN deployed'
    <3>1. CASE i = pc
      BY <1>1, <3>1 DEF Step
    <3>2. CASE i < pc
      BY <1>1, <2>1, <3>2 DEF NetInv, DeployedInv
    <3> QED
      BY <1>0, <2>1, <3>1, <3>2
  <2>2. ASSUME NEW i \in Deploys, Script[i].name \in DOMAIN deployed' PROVE i < pc'
    <3>1. CASE Script[i].name = Step.name
      BY <1>0, <3>1, OwnStep
    <3>2. CASE Script[i].name \in DOMAIN deployed
      BY <1>0, <3>2 DEF NetInv, DeployedInv
    <3> QED
      BY <1>1, <2>2, <3>1, <3>2
  <2>3. \A n \in DOMAIN deployed' : n \in DOMAIN targets /\ deployed'[n] = targets[n]
    BY <1>1 DEF NetInv, DeployedInv
  <2> QED
    BY <1>0, <2>1, <2>2, <2>3 DEF DeployedInv
<1> QED
  BY <1>2, <1>3, <1>4 DEF NetInv

\* A step that is no deployment moves the run on by one.
LEMMA AdvanceNet ==
    ASSUME NetInv, NEW op, op # "deploy", At(op), Advance,
           UNCHANGED <<chain, handedOver, config, targets, recorded, flags, deployed>>
    PROVE  NetInv'
<1>1. /\ pc \in 1..Len(Script) /\ Len(Script) \in Nat /\ pc' = pc + 1
      /\ stage = "step" /\ stage' = "step" /\ pc \notin Deploys /\ ~Idle
  BY ScriptSteps DEF At, Advance, Deploys, Step, Idle
<1>2. pc' \in (pc + 1)..(Len(Script) + 1) /\ \A j \in pc..(pc' - 1) : j = pc
  BY <1>1
<1> QED
  BY <1>1, <1>2, MoveKeeps

\* So each step keeps the lists, the numbers and what a run has.
LEMMA NetStep == Inv /\ NetInv /\ [Next]_vars => NetInv'
<1> SUFFICES ASSUME Inv, NetInv, [Next]_vars PROVE NetInv'
  OBVIOUS
<1>1. PassOver => NetInv'
  <2> SUFFICES ASSUME PassOver PROVE NetInv'
    OBVIOUS
  <2>1. /\ pc \in 1..Len(Script) /\ stage = "step" /\ stage' = "step" /\ ~Idle
        /\ UNCHANGED <<chain, handedOver, config, targets, recorded, flags, deployed>>
    BY ScriptSteps DEF PassOver, chainVars, fileVars, Idle
  <2>2. /\ pc' \in (pc + 1)..(Len(Script) + 1)
        /\ \A j \in pc..(pc' - 1) : Passed(Script[j])
    BY DEF PassOver
  <2> QED
    BY <2>1, <2>2, MoveKeeps
<1>2. SetStep \/ ImportFeePeriods \/ RebuildCaches \/ RecallPynth => NetInv'
  BY AdvanceNet DEF SetStep, ImportFeePeriods, RebuildCaches, RecallPynth, chainVars, fileVars
<1>3. QueuePynth \/ SortPynths \/ RetirePynth \/ RemovePynth \/ AddPynths => NetInv'
  BY AdvanceNet DEF QueuePynth, SortPynths, RetirePynth, RemovePynth, AddPynths,
                    chainVars, fileVars
<1>4. ImportAddresses => NetInv'
  <2> SUFFICES ASSUME ImportAddresses PROVE NetInv'
    OBVIOUS
  <2>1. CASE Resolver \in handedOver /\ Unimported # {}
    BY <2>1, EndKeeps DEF ImportAddresses, EndWith
  <2>2. CASE ~(Resolver \in handedOver /\ Unimported # {})
    BY <2>2, AdvanceNet DEF ImportAddresses
  <2> QED
    BY <2>1, <2>2
<1>5. Crash \/ Finish \/ Fail => NetInv'
  BY EndKeeps DEF Crash, Finish, Fail, EndWith, chainVars, fileVars
<1>6. OwnerActs \/ TuneSetting \/ IssuePynths \/ UpdateVersions => NetInv'
  BY BetweenKeeps DEF OwnerActs, TuneSetting, IssuePynths, UpdateVersions, chainVars,
                      fileVars, NetInv, ChainInv
<1>7. HandOver => NetInv'
  BY BetweenKeeps DEF HandOver, fileVars, NetInv, ChainInv, Inv, FilesInv, Within
<1>8. PrepareDeploy => NetInv'
  <2> SUFFICES ASSUME PrepareDeploy PROVE NetInv'
    OBVIOUS
  <2>1. DOMAIN config \subseteq DOMAIN config'
    BY DEF PrepareDeploy, Over
  <2> QED
    BY <2>1, BetweenKeeps DEF PrepareDeploy, chainVars, NetInv, ChainInv
<1>9. UNCHANGED vars => NetInv'
  <2> SUFFICES ASSUME UNCHANGED vars PROVE NetInv'
    OBVIOUS
  <2> USE DEF vars, chainVars, fileVars, runVars
  <2>1. ChainInv'
    BY DEF NetInv, ChainInv, Step
  <2>2. ListInv'
    BY DEF NetInv, ListInv, Step, Idle, Known, Relevant, DepsMet, Flagged
  <2>3. DeployedInv'
    BY DEF NetInv, DeployedInv, Step
  <2> QED
    BY <2>1, <2>2, <2>3 DEF NetInv
<1> QED
  BY <1>1, <1>2, <1>3, <1>4, <1>5, <1>6, <1>7, <1>8, <1>9, StartNet, SendNet, RecordNet,
     ConfigNet, ReuseNet DEF Next, RunStep

-----------------------------------------------------------------------------
(* What slots hold after a write, and how far a run is.                    *)

\* A slot holds what is in the slots.
LEMMA SlotHeld ==
    ASSUME NEW a, NEW f
    PROVE  Slot(a, f) = Held(slots, a, f)
  BY DEF Slot, Held

\* After a write a slot holds what was written, or what it held.
LEMMA HeldOver ==
    ASSUME NEW s, NEW g, NEW a, NEW f
    PROVE  Held(Over(s, g), a, f) = IF <<a, f>> \in DOMAIN g THEN g[<<a, f>>]
                                    ELSE Held(s, a, f)
  BY DEF Held, Over

\* A step leaves these fields of known contracts as they are.
SameFields(F) == \A a \in recorded, f \in F : Held(slots', a, f) = Held(slots, a, f)

\* A step of this kind is not among those that the run takes.
Skips(op) == \A j \in pc..(pc' - 1) : Script[j].op # op

\* A range and a longer one.
LEMMA LongerRange ==
    ASSUME NEW p \in Nat, NEW q \in Nat, p >= 1, q >= p
    PROVE  /\ \A i \in 1..(q - 1) : i \in 1..(p - 1) \/ i \in p..(q - 1)
           /\ \A i \in 1..(p - 1) : i \in 1..(q - 1)
  OBVIOUS

\* So the run is past a step of this kind only if it was.
LEMMA SkipsDone ==
    ASSUME NetInv, ~Idle, pc' \in pc..(Len(Script) + 1), NEW op, Skips(op)
    PROVE  Done(op)' <=> Done(op)
<1>0. pc \in 1..(Len(Script) + 1) /\ Len(Script) \in Nat
  BY ScriptSteps DEF NetInv, ListInv, Idle
<1>1. pc \in Nat /\ pc' \in Nat /\ pc >= 1 /\ pc' >= pc
  BY <1>0
<1>2. /\ \A i \in 1..(pc' - 1) : i \in 1..(pc - 1) \/ i \in pc..(pc' - 1)
      /\ \A i \in 1..(pc - 1) : i \in 1..(pc' - 1)
  BY <1>1, LongerRange
<1> QED
  BY <1>2 DEF Done, Skips

\* What a run has is known and not nothing.
LEMMA DeployedKnown ==
    ASSUME Inv, NetInv, NEW n \in DOMAIN deployed
    PROVE  /\ deployed[n] \in recorded /\ deployed[n] # None
           /\ deployed[n] = targets[n] /\ AddressOf(n) = deployed[n]
           /\ NameOf(deployed[n]) = n
<1>1. deployed[n] \in recorded /\ deployed[n] = targets[n] /\ n \in DOMAIN targets
  BY DEF Inv, ValuesInv, Within, NetInv, DeployedInv
<1>2. deployed[n] # None
  BY <1>1 DEF Inv, FilesInv, ValuesInv, NoAddresses
<1> QED
  BY <1>1, <1>2 DEF AddressOf, NetInv, ChainInv

\* Past its steps, a run has the contracts of the core and of the pynths.
LEMMA CertainDeployed ==
    ASSUME NetInv, NEW n, n \in Core \/ \E key \in Keys : n = Pynths[key],
           \A j \in Deploys : Script[j].name = n => j < pc
    PROVE  n \in DOMAIN deployed
<1>1. FirstOf(n)
  BY ScriptAssumption DEF ScriptInOrder, ContractsInOrder, PynthsInOrder
<1>2. PICK i \in Deploys : Script[i].name = n
  BY <1>1, StepOfName DEF FirstOf
<1>3. Script[i].force \/ n \in Core
  BY <1>2, ScriptAssumption DEF ScriptInOrder, PynthsInOrder
<1>4. Certain(i)
  BY <1>1, <1>2, <1>3 DEF FirstOf, Certain
<1> QED
  BY <1>2, <1>4 DEF NetInv, DeployedInv

\* The resolver is there when names are imported.
LEMMA PastDeploys ==
    ASSUME NetInv, NEW op \in {"import", "rebuild", "sort", "add"},
           Done(op) \/ (pc \in DOMAIN Script /\ Script[pc].op = op)
    PROVE  \A j \in Deploys : j < pc
<1>1. pc \in 0..(Len(Script) + 1) /\ Len(Script) \in Nat /\ DOMAIN Script = 1..Len(Script)
      /\ Deploys \subseteq 1..Len(Script)
  BY ScriptSteps DEF NetInv, ListInv
<1>2. PICK i \in 1..Len(Script) : Script[i].op = op /\ i <= pc
  BY <1>1 DEF Done
<1>3. ASSUME NEW j \in Deploys PROVE j < i
  <2>1. Script[j].op = "deploy" /\ j \in 1..Len(Script)
    BY <1>1 DEF Deploys
  <2>2. CASE op \in {"import", "sort"}
    BY <1>1, <1>2, <2>1, <2>2, ScriptAssumption
    DEF ScriptInOrder, StepsInOrder, Precede
  <2>3. CASE op = "rebuild"
    <3>1. PICK k \in 1..Len(Script) : Script[k].op = "import"
      BY <1>1, ScriptAssumption DEF ScriptInOrder, StepsInOrder, Once
    <3>2. j < k /\ k < i
      BY <1>1, <1>2, <2>1, <2>3, <3>1, ScriptAssumption
      DEF ScriptInOrder, StepsInOrder, Precede
    <3> QED
      BY <1>1, <1>2, <2>1, <3>1, <3>2
  <2>4. CASE op = "add"
    <3>1. PICK k \in 1..Len(Script) : Script[k].op = "sort"
      BY <1>1, ScriptAssumption DEF ScriptInOrder, StepsInOrder, Once
    <3>2. j < k /\ k < i
      BY <1>1, <1>2, <2>1, <2>4, <3>1, ScriptAssumption
      DEF ScriptInOrder, StepsInOrder, Precede
    <3> QED
      BY <1>1, <1>2, <2>1, <3>1, <3>2
  <2> QED
    BY <2>2, <2>3, <2>4
<1> QED
  BY <1>1, <1>2, <1>3

\* What a link needs to be there is there when its given contracts are.
LEMMA LinkTo ==
    ASSUME NetInv, ~Idle, NEW q \in pc..(Len(Script) + 1),
           \A j \in pc..(q - 1) : j \in Deploys => Passed(Script[j]),
           NEW i \in Links, i < q, Script[i].given \subseteq DOMAIN deployed
    PROVE  {Script[i].on, Script[i].to} \subseteq DOMAIN deployed
<1> DEFINE s == Script[i]
<1>0. pc \in 1..(Len(Script) + 1) /\ Len(Script) \in Nat /\ Deploys \subseteq 1..Len(Script)
      /\ i \in 1..Len(Script)
  BY ScriptSteps DEF NetInv, ListInv, Idle
<1>1. /\ s.to \notin Optional /\ Before(s.to, i) /\ s.on \in s.given
      /\ s.to \in s.given \cup UNION {NeedsOf(n) : n \in s.given}
  BY ScriptAssumption DEF ScriptInOrder, LinksInOrder
<1>2. s.to \in DOMAIN targets
  <2>1. DOMAIN deployed \subseteq DOMAIN targets
    BY DEF NetInv, DeployedInv
  <2>2. ASSUME NEW n \in s.given, s.to \in NeedsOf(n) PROVE s.to \in DOMAIN targets
    <3>1. PICK j \in Deploys : Script[j].name = n /\ s.to \in Script[j].given \cup Script[j].deps
      BY <2>2 DEF NeedsOf
    <3> QED
      BY <2>1, <3>1 DEF NetInv, ListInv
  <2> QED
    BY <1>1, <2>1, <2>2
<1>3. PICK j \in Deploys : Script[j].name = s.to /\ j < i
  BY <1>1, StepOfName DEF Before
<1>4. j < q
  BY <1>0, <1>3
<1>5. s.to \in DOMAIN deployed
  BY <1>1, <1>2, <1>3, <1>4, PassedOver
<1> QED
  BY <1>1, <1>5

-----------------------------------------------------------------------------
(* The wires, at steps that leave them alone.                              *)

\* The fields of wires.
LEMMA WireFields ==
    /\ \A i \in Links : /\ Script[i].op = "set" /\ Script[i].field \in LinkFields
                        /\ Script[i].to \in Names /\ Script[i].to # "fixed"
                        /\ Script[i].at = Script[i].on /\ ~Script[i].via /\ ~Script[i].keep
                        /\ Script[i].when = {} /\ Script[i].on \in Script[i].given
    /\ LinkFields \cap Names = {} /\ LinkFields \cap Keys = {} /\ Names \cap Keys = {}
<1>1. \A i \in Links : /\ Script[i].op = "set" /\ Script[i].field \in LinkFields
                       /\ Script[i].to \in Names /\ ~Script[i].via /\ ~Script[i].keep
                       /\ Script[i].when = {} /\ i \in Sets
  BY DEF Links, Sets, LinkFields
<1>2. "fixed" \notin Names
  BY ScriptAssumption DEF ScriptInOrder, ContractsInOrder
<1>3. \A i \in Links : Script[i].on \in Script[i].given
  BY ScriptAssumption DEF ScriptInOrder, LinksInOrder
<1>4. \A i \in Links : Script[i].at = Script[i].on
  BY <1>1, ScriptAssumption DEF ScriptInOrder, FieldsApart
<1> QED
  BY <1>1, <1>2, <1>3, <1>4, ScriptAssumption DEF ScriptInOrder, FieldsApart

\* A link that is passed over holds.
LEMMA PassedHolds ==
    ASSUME Inv, NetInv, NEW i \in Links, Script[i].given \subseteq DOMAIN deployed,
           {Script[i].on, Script[i].to} \subseteq DOMAIN deployed, Passed(Script[i])
    PROVE  Held(slots, deployed[Script[i].on], Script[i].field) = deployed[Script[i].to]
<1> DEFINE s == Script[i]
<1>1. /\ s.op = "set" /\ s.at = s.on /\ ~s.via /\ ~s.keep /\ s.when = {} /\ s.to # "fixed"
  BY WireFields
<1>2. Relevant(s)
  BY <1>1 DEF Relevant
<1>3. Holder(s) = deployed[s.on] /\ deployed[s.on] # None
  BY <1>1, DeployedKnown DEF Holder
<1>4. Expected(s)
  BY <1>1, <1>2, <1>3 DEF Passed
<1>5. ValueOf(s.to) = deployed[s.to]
  BY <1>1, DeployedKnown DEF ValueOf
<1> QED
  BY <1>1, <1>3, <1>4, <1>5, SlotHeld DEF Expected

\* Links stay, and more of them hold when they are passed over.
LEMMA LinkMoves ==
    ASSUME Inv, NetInv, LinkInv, ~Idle, clean' => clean, UNCHANGED deployed,
           pc' \in pc..(Len(Script) + 1), SameFields(LinkFields),
           \A j \in pc..(pc' - 1) : j \in Deploys \cup Links => Passed(Script[j])
    PROVE  LinkInv'
<1>0. pc \in 1..(Len(Script) + 1) /\ Len(Script) \in Nat /\ Links \subseteq 1..Len(Script)
  BY ScriptSteps DEF NetInv, ListInv, Idle
<1>1. SUFFICES ASSUME clean, NEW i \in Links, i < pc',
                      Script[i].given \subseteq DOMAIN deployed
               PROVE  Held(slots', deployed[Script[i].on], Script[i].field)
                          = deployed[Script[i].to]
  BY DEF LinkInv
<1>2. {Script[i].on, Script[i].to} \subseteq DOMAIN deployed
  BY <1>1, LinkTo
<1>3. deployed[Script[i].on] \in recorded /\ Script[i].field \in LinkFields
  BY <1>2, DeployedKnown, WireFields
<1>4. Held(slots, deployed[Script[i].on], Script[i].field) = deployed[Script[i].to]
  <2>1. CASE i < pc
    BY <1>1, <2>1 DEF LinkInv
  <2>2. CASE i >= pc
    <3>1. i \in pc..(pc' - 1)
      BY <1>0, <1>1, <2>2
    <3> QED
      BY <1>1, <1>2, <3>1, PassedHolds
  <2> QED
    BY <1>0, <2>1, <2>2
<1> QED
  BY <1>3, <1>4 DEF SameFields

\* The names of the resolver stay.
LEMMA ImportMoves ==
    ASSUME Inv, NetInv, ImportInv, ~Idle, UNCHANGED deployed,
           pc' \in pc..(Len(Script) + 1), SameFields(Names), Skips("import")
    PROVE  ImportInv'
<1>1. SUFFICES ASSUME Done("import"), NEW n \in DOMAIN deployed
               PROVE  Held(slots', Resolver, n) = deployed[n]
  BY SkipsDone DEF ImportInv, Resolver, AddressOf
<1>2. "AddressResolver" \in DOMAIN deployed
  BY <1>1, PastDeploys, CertainDeployed DEF Core
<1>3. Resolver \in recorded
  BY <1>2, DeployedKnown DEF Resolver
<1>4. n \in Names
  BY DEF NetInv, DeployedInv, ListInv
<1> QED
  BY <1>1, <1>3, <1>4 DEF SameFields, ImportInv

\* The caches stay.
LEMMA CacheMoves ==
    ASSUME Inv, NetInv, CacheInv, ~Idle, clean' => clean, UNCHANGED deployed,
           pc' \in pc..(Len(Script) + 1), SameFields(Names), Skips("rebuild")
    PROVE  CacheInv'
<1>1. SUFFICES ASSUME Done("rebuild"), clean,
                      NEW n \in DOMAIN Required \cap DOMAIN deployed,
                      Required[n] \subseteq DOMAIN deployed, NEW r \in Required[n]
               PROVE  Held(slots', deployed[n], r) = deployed[r]
  BY SkipsDone DEF CacheInv
<1>2. deployed[n] \in recorded /\ r \in Names
  BY <1>1, DeployedKnown DEF NetInv, DeployedInv, ListInv
<1> QED
  BY <1>1, <1>2 DEF SameFields, CacheInv

\* What is to be done for the pynths stays.
LEMMA PynthMoves ==
    ASSUME Inv, NetInv, PynthInv, ~Idle, clean' => clean,
           UNCHANGED <<deployed, adding, replacing>>,
           pc' \in pc..(Len(Script) + 1), SameFields(Keys), Skips("queue"),
           Skips("sort"), Skips("remove"), Skips("add")
    PROVE  PynthInv'
<1>0. /\ pc \in 1..(Len(Script) + 1) /\ Len(Script) \in Nat
      /\ pc \in Nat /\ pc' \in Nat /\ pc >= 1 /\ pc' >= pc
  BY ScriptSteps DEF NetInv, ListInv, Idle
<1>1. /\ \A i \in 1..(pc' - 1) : i \in 1..(pc - 1) \/ i \in pc..(pc' - 1)
      /\ \A i \in 1..(pc - 1) : i \in 1..(pc' - 1)
  BY <1>0, LongerRange
<1>2. (Done("sort")' <=> Done("sort")) /\ (Done("add")' <=> Done("add"))
  BY SkipsDone
<1>3. \A key : DoneFor("remove", key)' <=> DoneFor("remove", key)
  BY <1>1 DEF DoneFor, Skips
<1>4. \A key : (\E i \in 1..(pc' - 1) : Queues(i, key))
                   => \E i \in 1..(pc - 1) : Queues(i, key)
  BY <1>1 DEF Queues, Skips
<1>5. ASSUME Done("sort") \/ Done("add"), NEW key \in Keys PROVE Lists(key)' <=> Lists(key)
  <2>1. "Issuer" \in DOMAIN deployed
    BY <1>5, PastDeploys, CertainDeployed DEF Core
  <2>2. Issuer \in recorded
    BY <2>1, DeployedKnown DEF Issuer
  <2>3. Held(slots', Issuer, key) = Held(slots, Issuer, key)
    BY <2>2 DEF SameFields
  <2> QED
    BY <2>3 DEF Lists, Issuer, PynthOf, AddressOf
<1> QED
  BY <1>2, <1>3, <1>4, <1>5 DEF PynthInv

-----------------------------------------------------------------------------
(* The order of the last steps.                                            *)

\* The steps at the end of a script come one kind after the other.
LEMMA LastSteps ==
    /\ \A op \in {"import", "rebuild", "sort", "add"} : Once(op)
    /\ Precede({"import"}, {"rebuild"}) /\ Precede({"queue"}, {"sort"})
    /\ Precede({"sort"}, {"remove"}) /\ Precede({"sort"}, {"add"})
    /\ Precede({"remove"}, {"add"})
  BY ScriptAssumption DEF ScriptInOrder, StepsInOrder, Precede

\* At a step of one kind, no later kind is done, and it is not yet after it.
LEMMA LaterNotDone ==
    ASSUME NEW first, NEW second, first # second, Precede({first}, {second}), At(first)
    PROVE  ~Done(second) /\ (pc' = pc + 1 => ~Done(second)')
<1>1. pc \in 1..Len(Script) /\ Len(Script) \in Nat /\ Script[pc].op = first
      /\ DOMAIN Script = 1..Len(Script)
  BY ScriptSteps DEF At, Step
<1>2. \A i \in 1..pc : Script[i].op # second
  BY <1>1 DEF Precede
<1>3. \A i \in 1..(pc - 1) : i \in 1..pc
  BY <1>1
<1>4. ASSUME pc' = pc + 1 PROVE pc' - 1 = pc
  BY <1>1, <1>4
<1> QED
  BY <1>2, <1>3, <1>4 DEF Done

\* And each earlier kind is done.
LEMMA EarlierDone ==
    ASSUME NEW first, NEW second, Precede({first}, {second}), At(second), Once(first)
    PROVE  Done(first)
<1>1. pc \in 1..Len(Script) /\ Len(Script) \in Nat /\ Script[pc].op = second
      /\ DOMAIN Script = 1..Len(Script)
  BY ScriptSteps DEF At, Step
<1>2. PICK i \in 1..Len(Script) : Script[i].op = first
  BY <1>1 DEF Once
<1>3. i < pc
  BY <1>1, <1>2 DEF Precede
<1> QED
  BY <1>1, <1>2, <1>3 DEF Done

\* What comes once is not done when the run is at it.
LEMMA OnceNotDone ==
    ASSUME NEW op, At(op), Once(op)
    PROVE  ~Done(op)
<1>1. pc \in 1..Len(Script) /\ Len(Script) \in Nat /\ Script[pc].op = op
      /\ DOMAIN Script = 1..Len(Script)
  BY ScriptSteps DEF At, Step
<1>2. \A i \in 1..(pc - 1) : i # pc /\ i \in 1..Len(Script)
  BY <1>1
<1> QED
  BY <1>1, <1>2 DEF Done, Once

\* The run is then past it.
LEMMA NowDone ==
    ASSUME NEW op, At(op), pc' = pc + 1
    PROVE  /\ Done(op)' /\ \A other : Done(other) => Done(other)'
           /\ \A other : (other # op /\ Done(other)') => Done(other)
<1>1. pc \in 1..Len(Script) /\ Len(Script) \in Nat /\ Script[pc].op = op
  BY ScriptSteps DEF At, Step
<1>2. pc' - 1 = pc /\ pc \in 1..pc /\ \A i \in 1..(pc - 1) : i \in 1..pc
  BY <1>1
<1>3. \A i \in 1..pc : i \in 1..(pc - 1) \/ i = pc
  BY <1>1
<1> QED
  BY <1>1, <1>2, <1>3 DEF Done

-----------------------------------------------------------------------------
(* The wires, at the other steps.                                          *)

\* No step comes before the first.
LEMMA NoneBefore ==
    ASSUME NEW q \in {0, 1}
    PROVE  \A i \in 1..(q - 1) : FALSE
  OBVIOUS

\* A run that has not begun, or is at its first step, has wired nothing.
LEMMA NoneWired ==
    ASSUME pc' \in {0, 1}, adding' \subseteq Keys, replacing' \subseteq Keys
    PROVE  WireInv'
<1>1. \A i \in 1..(pc' - 1) : FALSE
  BY NoneBefore
<1>2. \A i \in Links : ~(i < pc')
  BY ScriptSteps
<1> QED
  BY <1>1, <1>2 DEF WireInv, LinkInv, ImportInv, CacheInv, PynthInv, Done, DoneFor

\* A write, sent or not, leaves alone the fields that it does not name.
LEMMA InvokeSame ==
    ASSUME NEW w, NEW F, \A x \in DOMAIN w.sets : x[2] \notin F, Invoke(w) \/ NothingToDo
    PROVE  SameFields(F) /\ (clean' => clean)
<1>1. slots' = slots \/ slots' = Over(slots, w.sets)
  BY DEF Invoke, NothingToDo
<1>2. ASSUME NEW a \in recorded, NEW f \in F
      PROVE  Held(slots', a, f) = Held(slots, a, f)
  <2>1. <<a, f>> \notin DOMAIN w.sets
    OBVIOUS
  <2> QED
    BY <1>1, <2>1, HeldOver
<1>3. clean' => clean
  BY DEF Invoke, NothingToDo
<1> QED
  BY <1>2, <1>3 DEF SameFields

\* A deployment is nothing that an earlier step has wired.
LEMMA DeployWires ==
    ASSUME Inv, NetInv, WireInv, pc \in Deploys, pc' \in {pc, pc + 1},
           UNCHANGED <<slots, adding, replacing, clean>>,
           \/ deployed' = deployed
           \/ /\ Step.name \notin DOMAIN deployed
              /\ DOMAIN deployed' = DOMAIN deployed \cup {Step.name}
              /\ \A n \in DOMAIN deployed : deployed'[n] = deployed[n]
    PROVE  WireInv'
<1>0. /\ pc \in 1..Len(Script) /\ Len(Script) \in Nat /\ pc \notin Links /\ ~Idle
      /\ Links \subseteq 1..Len(Script) /\ pc \in pc..(Len(Script) + 1)
      /\ \A j \in pc..(pc - 1) : FALSE
  BY ScriptSteps DEF Idle
<1>1. Script[pc].op = "deploy" /\ Step.name = Script[pc].name
  BY DEF Deploys, Step
<1>2. \A op \in {"import", "rebuild", "sort", "add"} : ~Done(op)
  BY <1>0, PastDeploys
<1>3. \A op \in {"import", "rebuild", "sort", "add"} : ~Done(op)'
  <2>1. CASE pc' = pc
    BY <1>2, <2>1 DEF Done
  <2>2. CASE pc' = pc + 1
    <3>1. pc' - 1 = pc /\ \A i \in 1..pc : i \in 1..(pc - 1) \/ i = pc
      BY <1>0, <2>2
    <3> QED
      BY <1>1, <1>2, <3>1 DEF Done
  <2> QED
    BY <2>1, <2>2
<1>4. LinkInv'
  <2>1. SUFFICES ASSUME clean, NEW i \in Links, i < pc',
                        Script[i].given \subseteq DOMAIN deployed'
                 PROVE  Held(slots, deployed'[Script[i].on], Script[i].field)
                            = deployed'[Script[i].to]
    BY DEF LinkInv
  <2>2. i < pc
    BY <1>0, <2>1
  <2>3. ASSUME NEW n \in Script[i].given PROVE n # Step.name
    <3>1. Before(n, i)
      BY ScriptAssumption DEF ScriptInOrder, LinksInOrder
    <3>2. ASSUME n = Step.name PROVE FALSE
      <4>1. pc < i
        BY <1>1, <3>1, <3>2 DEF Before
      <4> QED
        BY <1>0, <2>2, <4>1
    <3> QED
      BY <3>2
  <2>4. Script[i].given \subseteq DOMAIN deployed
    BY <2>1, <2>3
  <2>5. {Script[i].on, Script[i].to} \subseteq DOMAIN deployed
    BY <1>0, <2>2, <2>4, LinkTo
  <2>6. Held(slots, deployed[Script[i].on], Script[i].field) = deployed[Script[i].to]
    BY <2>1, <2>2, <2>4 DEF WireInv, LinkInv
  <2> QED
    BY <2>5, <2>6
<1>5. ImportInv' /\ CacheInv'
  BY <1>3 DEF ImportInv, CacheInv
<1>6. PynthInv'
  <2>1. \A key : (\E i \in 1..(pc' - 1) : Queues(i, key))
                     => \E i \in 1..(pc - 1) : Queues(i, key)
    <3>1. CASE pc' = pc
      BY <3>1
    <3>2. CASE pc' = pc + 1
      <4>1. pc' - 1 = pc /\ \A i \in 1..pc : i \in 1..(pc - 1) \/ i = pc
        BY <1>0, <3>2
      <4>2. \A key : ~Queues(pc, key)
        BY <1>1 DEF Queues
      <4> QED
        BY <4>1, <4>2
    <3> QED
      BY <3>1, <3>2
  <2> QED
    BY <1>2, <1>3, <2>1 DEF WireInv, PynthInv
<1> QED
  BY <1>4, <1>5, <1>6 DEF WireInv

\* Recording, clearing a flag and reusing are such steps.
LEMMA DeploymentWires ==
    ASSUME Inv, NetInv, WireInv, RecordDeployment \/ RecordConfig \/ ReuseContract
    PROVE  WireInv'
<1>1. pc \in Deploys
  BY DEF NetInv, ListInv, RecordDeployment, RecordConfig, ReuseContract, At, Deploys, Step
<1>2. CASE RecordDeployment \/ ReuseContract
  <2>1. Step.name \notin DOMAIN deployed
    BY <1>1, <1>2, NotYetDeployed DEF RecordDeployment, ReuseContract, At
  <2>2. \E v : deployed' = Put(deployed, Step.name, v)
    BY <1>2 DEF RecordDeployment, ReuseContract
  <2>3. /\ DOMAIN deployed' = DOMAIN deployed \cup {Step.name}
        /\ \A n \in DOMAIN deployed : deployed'[n] = deployed[n]
    BY ONLY <2>1, <2>2 DEF Put, Over, Single
  <2>4. pc' \in {pc, pc + 1} /\ UNCHANGED <<slots, adding, replacing, clean>>
    BY <1>2 DEF RecordDeployment, ReuseContract, Advance, chainVars
  <2> QED
    BY <1>1, <2>1, <2>3, <2>4, DeployWires
<1>3. CASE RecordConfig
  BY <1>1, <1>3, DeployWires DEF RecordConfig, Advance, chainVars
<1> QED
  BY <1>2, <1>3

\* What a new contract stores is in no known contract.
LEMMA SendWires == Inv /\ NetInv /\ WireInv /\ SendDeployment => WireInv'
<1> SUFFICES ASSUME Inv, NetInv, WireInv, SendDeployment PROVE WireInv'
  OBVIOUS
<1>0. /\ pc \in 1..Len(Script) /\ Len(Script) \in Nat /\ ~Idle /\ pc' = pc
      /\ pc' \in pc..(Len(Script) + 1) /\ \A j \in pc..(pc' - 1) : FALSE
      /\ UNCHANGED <<deployed, adding, replacing, clean>>
  BY ScriptSteps DEF SendDeployment, At, Idle
<1> PICK k \in 1..MaxInstances :
         /\ <<Step.name, k>> \notin chain
         /\ slots' = Over(slots, Constructed(<<Step.name, k>>, Step))
  BY DEF SendDeployment
<1>1. ASSUME NEW a \in recorded, NEW f PROVE Held(slots', a, f) = Held(slots, a, f)
  <2>1. a # <<Step.name, k>>
    BY DEF Inv, FilesInv
  <2>2. \A x \in DOMAIN Constructed(<<Step.name, k>>, Step) : x[1] = <<Step.name, k>>
    BY DEF Constructed, Put, Over, Single
  <2>3. <<a, f>> \notin DOMAIN Constructed(<<Step.name, k>>, Step)
    BY <2>1, <2>2
  <2> QED
    BY <2>3, HeldOver
<1>2. \A F : SameFields(F)
  BY <1>1 DEF SameFields
<1>3. \A op : Skips(op)
  BY <1>0 DEF Skips
<1> QED
  BY <1>0, <1>2, <1>3, LinkMoves, ImportMoves, CacheMoves, PynthMoves DEF WireInv

\* At a step that moves on by one, only its own kind of step is taken.
LEMMA AdvanceSkips ==
    ASSUME NEW op, At(op), Advance
    PROVE  /\ ~Idle /\ pc \in 1..Len(Script) /\ Len(Script) \in Nat /\ pc' = pc + 1
           /\ pc' \in pc..(Len(Script) + 1) /\ pc \in 1..(pc' - 1)
           /\ \A j \in pc..(pc' - 1) : j = pc
           /\ \A other : other # op => Skips(other)
           /\ op # "deploy" => pc \notin Deploys
           /\ op # "set" => pc \notin Sets
<1>1. /\ pc \in 1..Len(Script) /\ Len(Script) \in Nat /\ pc' = pc + 1
      /\ Script[pc].op = op
  BY ScriptSteps DEF At, Step, Advance
<1>2. /\ pc' \in pc..(Len(Script) + 1) /\ pc \in 1..(pc' - 1) /\ pc # 0
      /\ \A j \in pc..(pc' - 1) : j = pc
  BY <1>1
<1> QED
  BY <1>1, <1>2 DEF Skips, Idle, Deploys, Sets

\* A step that writes no wires, whether it sends or not.
LEMMA PlainWires ==
    ASSUME Inv, NetInv, WireInv, NEW op, At(op), Advance,
           op \notin {"deploy", "set", "import", "rebuild", "queue", "sort", "remove", "add"},
           SameFields(LinkFields \cup Names \cup Keys), clean' => clean,
           UNCHANGED <<deployed, adding, replacing>>
    PROVE  WireInv'
<1>1. /\ ~Idle /\ pc' \in pc..(Len(Script) + 1)
      /\ \A j \in pc..(pc' - 1) : j \notin Deploys \cup Links
      /\ \A other : other # op => Skips(other)
  BY AdvanceSkips, ScriptSteps
<1>2. SameFields(LinkFields) /\ SameFields(Names) /\ SameFields(Keys)
  BY DEF SameFields
<1> QED
  BY <1>1, <1>2, LinkMoves, ImportMoves, CacheMoves, PynthMoves DEF WireInv

\* Supplies and histories are in fields of their own.
LEMMA PlainFields ==
    /\ Plainly \cap (LinkFields \cup Names \cup Keys) = {}
    /\ "supply" \in Plainly /\ "periods" \in Plainly /\ Settings \subseteq Plainly
  BY ScriptAssumption DEF ScriptInOrder, FieldsApart, Plainly

\* What reads, or writes supplies and histories, keeps the wires.
LEMMA OtherWires ==
    ASSUME Inv, NetInv, WireInv, PassOver \/ RecallPynth \/ ImportFeePeriods \/ RetirePynth
    PROVE  WireInv'
<1>1. CASE PassOver
  <2>1. /\ pc \in 1..Len(Script) /\ Len(Script) \in Nat /\ ~Idle
        /\ UNCHANGED <<slots, deployed, adding, replacing, clean>>
    BY <1>1, ScriptSteps DEF PassOver, chainVars, Idle
  <2>2. pc' \in (pc + 1)..(Len(Script) + 1) /\ \A j \in pc..(pc' - 1) : Passed(Script[j])
    BY <1>1 DEF PassOver
  <2>3. pc' \in pc..(Len(Script) + 1)
    BY <2>1, <2>2
  <2>4. \A s : Passed(s) => s.op \in {"deploy", "set"}
    BY DEF Passed
  <2>5. Skips("import") /\ Skips("rebuild") /\ Skips("queue") /\ Skips("sort")
        /\ Skips("remove") /\ Skips("add")
    BY <2>2, <2>4 DEF Skips
  <2>6. \A F : SameFields(F)
    BY <2>1 DEF SameFields
  <2> QED
    BY <2>1, <2>2, <2>3, <2>5, <2>6, LinkMoves, ImportMoves, CacheMoves, PynthMoves DEF WireInv
<1>2. CASE RecallPynth
  <2>1. UNCHANGED <<slots, deployed, adding, replacing, clean>> /\ At("recall") /\ Advance
    BY <1>2 DEF RecallPynth, chainVars
  <2>2. SameFields(LinkFields \cup Names \cup Keys)
    BY <2>1 DEF SameFields
  <2> QED
    BY <2>1, <2>2, PlainWires
<1>3. CASE ImportFeePeriods
  <2>1. UNCHANGED <<deployed, adding, replacing>> /\ At("periods") /\ Advance
        /\ (Invoke(PeriodsWrite) \/ NothingToDo)
    BY <1>3 DEF ImportFeePeriods
  <2>2. \A x \in DOMAIN PeriodsWrite.sets : x[2] \notin LinkFields \cup Names \cup Keys
    BY PlainFields DEF PeriodsWrite, Write, Single
  <2> QED
    BY <2>1, <2>2, InvokeSame, PlainWires
<1>4. CASE RetirePynth
  <2>1. UNCHANGED <<deployed, adding, replacing>> /\ At("retire") /\ Advance
        /\ (Invoke(RetireWrite) \/ NothingToDo)
    BY <1>4 DEF RetirePynth
  <2>2. \A x \in DOMAIN RetireWrite.sets : x[2] \notin LinkFields \cup Names \cup Keys
    BY PlainFields DEF RetireWrite, Write, Single
  <2> QED
    BY <2>1, <2>2, InvokeSame, PlainWires
<1> QED
  BY <1>1, <1>2, <1>3, <1>4

\* A link is a slot of its own, which only its step writes.
LEMMA SetWires == Inv /\ NetInv /\ WireInv /\ SetStep => WireInv'
<1> SUFFICES ASSUME Inv, NetInv, WireInv, SetStep PROVE WireInv'
  OBVIOUS
<1>0. /\ At("set") /\ Advance /\ Step.on \in DOMAIN deployed /\ ~Passed(Step)
      /\ Invoke(SetWrite(Step)) /\ UNCHANGED <<deployed, adding, replacing>>
      /\ Step = Script[pc]
  BY DEF SetStep, Step
<1>1. /\ ~Idle /\ pc \in 1..Len(Script) /\ Len(Script) \in Nat /\ pc' = pc + 1
      /\ pc' \in pc..(Len(Script) + 1) /\ \A j \in pc..(pc' - 1) : j = pc
      /\ pc \notin Deploys
      /\ Skips("import") /\ Skips("rebuild") /\ Skips("queue") /\ Skips("sort")
      /\ Skips("remove") /\ Skips("add")
  BY <1>0, AdvanceSkips
<1>2. pc \in Sets /\ Links \subseteq 1..Len(Script)
  BY <1>0, <1>1, ScriptSteps DEF At, Step, Sets
<1>3. /\ Step.field \notin Names \cup Keys
      /\ IF Step.via THEN Step.field \notin LinkFields ELSE Step.at = Step.on
  BY <1>0, <1>2, ScriptAssumption DEF ScriptInOrder, FieldsApart
<1>4. \A x : x \in DOMAIN SetWrite(Step).sets <=> x = <<Holder(Step), Step.field>>
  BY DEF SetWrite, Write, Single
<1>5. SameFields(Names) /\ SameFields(Keys) /\ (clean' => clean)
  BY <1>0, <1>3, <1>4, InvokeSame
<1>6. LinkInv'
  <2>1. SUFFICES ASSUME clean', NEW i \in Links, i < pc',
                        Script[i].given \subseteq DOMAIN deployed
                 PROVE  Held(slots', deployed[Script[i].on], Script[i].field)
                            = deployed[Script[i].to]
    BY <1>0 DEF LinkInv
  <2>2. clean /\ slots' = Over(slots, SetWrite(Step).sets)
    BY <1>0, <1>5, <2>1 DEF Invoke
  <2>3. {Script[i].on, Script[i].to} \subseteq DOMAIN deployed
    BY <1>1, <2>1, LinkTo
  <2>4. Script[i].field \in LinkFields /\ Script[i].at = Script[i].on
        /\ ~Script[i].via /\ Script[i].to # "fixed"
    BY WireFields
  <2>5. CASE i = pc
    <3>1. Holder(Step) = deployed[Step.on] /\ ValueOf(Step.to) = deployed[Step.to]
      BY <1>0, <2>3, <2>4, <2>5, DeployedKnown DEF Holder, ValueOf
    <3>2. SetWrite(Step).sets[<<deployed[Step.on], Step.field>>] = deployed[Step.to]
      BY <3>1 DEF SetWrite, Write, Single
    <3> QED
      BY <1>0, <1>4, <2>2, <2>5, <3>1, <3>2, HeldOver
  <2>6. CASE i # pc
    <3>1. i < pc
      BY <1>1, <1>2, <2>1, <2>6
    <3>2. Held(slots, deployed[Script[i].on], Script[i].field) = deployed[Script[i].to]
      BY <2>1, <2>2, <3>1 DEF WireInv, LinkInv
    <3>3. <<deployed[Script[i].on], Script[i].field>> # <<Holder(Step), Step.field>>
      <4>1. SUFFICES ASSUME deployed[Script[i].on] = Holder(Step),
                            Script[i].field = Step.field
                     PROVE  FALSE
        OBVIOUS
      <4>2. ~Step.via /\ Step.at = Step.on
        BY <1>3, <2>4, <4>1
      <4>3. Holder(Step) = deployed[Step.on]
        BY <1>0, <4>2, DeployedKnown DEF Holder
      <4>4. Script[i].at = Step.at
        BY <1>0, <2>3, <2>4, <4>1, <4>2, <4>3, DeployedKnown
      <4>5. \A m \in Links, j \in Sets :
                (Script[m].field = Script[j].field /\ Script[m].at = Script[j].at) => m = j
        BY ScriptAssumption DEF ScriptInOrder, FieldsApart
      <4> QED
        BY <1>0, <1>2, <2>6, <4>1, <4>4, <4>5
    <3> QED
      BY <1>4, <2>2, <3>2, <3>3, HeldOver
  <2> QED
    BY <2>5, <2>6
<1> QED
  BY <1>0, <1>1, <1>5, <1>6, ImportMoves, CacheMoves, PynthMoves DEF WireInv

\* The resolver gets the addresses that the run has.
LEMMA ImportWires ==
    ASSUME Inv, NetInv, WireInv, ImportAddresses, pc' = pc + 1
    PROVE  WireInv'
<1>0. /\ At("import") /\ Advance /\ UNCHANGED <<deployed, adding, replacing, clean>>
      /\ slots' = IF Unimported = {} THEN slots ELSE Over(slots, ImportWrite.sets)
  <2>1. pc \in 1..Len(Script) /\ Len(Script) \in Nat
    BY ScriptSteps DEF ImportAddresses, At
  <2>2. pc' # 0
    BY <2>1
  <2> QED
    BY <2>2 DEF ImportAddresses, EndWith
<1>1. /\ ~Idle /\ pc' \in pc..(Len(Script) + 1)
      /\ \A j \in pc..(pc' - 1) : j \notin Deploys \cup Links
      /\ Skips("queue") /\ Skips("sort") /\ Skips("remove") /\ Skips("add")
  BY <1>0, AdvanceSkips, ScriptSteps
<1>2. DOMAIN deployed \subseteq Names
  BY DEF NetInv, DeployedInv, ListInv
<1>3. /\ \A x : x \in DOMAIN ImportWrite.sets <=> \E n \in Unimported : x = <<Resolver, n>>
      /\ \A n \in Unimported : ImportWrite.sets[<<Resolver, n>>] = deployed[n]
  BY DEF ImportWrite, Write
<1>4. \A a, f : Held(slots', a, f) = IF a = Resolver /\ f \in Unimported THEN deployed[f]
                                     ELSE Held(slots, a, f)
  <2> TAKE a, f
  <2>1. CASE Unimported = {}
    BY <1>0, <2>1
  <2>2. CASE Unimported # {}
    <3>1. Held(slots', a, f) = IF <<a, f>> \in DOMAIN ImportWrite.sets
                               THEN ImportWrite.sets[<<a, f>>] ELSE Held(slots, a, f)
      BY <1>0, <2>2, HeldOver
    <3>2. <<a, f>> \in DOMAIN ImportWrite.sets <=> a = Resolver /\ f \in Unimported
      BY <1>3
    <3> QED
      BY <1>3, <3>1, <3>2
  <2> QED
    BY <2>1, <2>2
<1>5. SameFields(LinkFields) /\ SameFields(Keys)
  BY <1>2, <1>4, WireFields DEF SameFields, Unimported
<1>6. ImportInv'
  <2>1. ASSUME NEW n \in DOMAIN deployed PROVE Held(slots', Resolver, n) = deployed[n]
    BY <1>4, SlotHeld DEF Unimported
  <2> QED
    BY <1>0, <2>1 DEF ImportInv, Resolver, AddressOf
<1>7. CacheInv'
  <2>1. ~Done("rebuild")'
    BY <1>0, LastSteps, LaterNotDone
  <2> QED
    BY <2>1 DEF CacheInv
<1> QED
  BY <1>0, <1>1, <1>5, <1>6, <1>7, LinkMoves, PynthMoves DEF WireInv

\* Contracts resolve names with the resolver of the run.
LEMMA ProxyResolves ==
    ASSUME Inv, NetInv, LinkInv, ImportInv, clean, At("rebuild"), NEW r \in DOMAIN deployed
    PROVE  Slot(Resolver, r) = deployed[r] /\ Resolved(r) = deployed[r]
<1>0. /\ pc \in 1..Len(Script) /\ Len(Script) \in Nat /\ ~Idle
      /\ pc \in pc..(Len(Script) + 1) /\ \A j \in pc..(pc - 1) : FALSE
  BY ScriptSteps DEF At, Idle
<1>1. Core \subseteq DOMAIN deployed
  BY PastDeploys, CertainDeployed DEF At, Step
<1>2. Done("import")
  BY LastSteps, EarlierDone
<1>3. Slot(Resolver, r) = deployed[r]
  BY <1>2, SlotHeld DEF ImportInv
<1>4. PICK i \in Links :
          /\ Script[i].on = "ReadProxyAddressResolver" /\ Script[i].field = "target"
          /\ Script[i].to = "AddressResolver" /\ Script[i].given \subseteq Core
          /\ \A j \in DOMAIN Script : Script[j].op = "rebuild" => i < j
  BY ScriptAssumption DEF ScriptInOrder, LinksInOrder
<1>5. i < pc
  BY <1>4 DEF At, Step
<1>6. Script[i].given \subseteq DOMAIN deployed
  BY <1>1, <1>4
<1>7. Held(slots, deployed["ReadProxyAddressResolver"], "target") = deployed["AddressResolver"]
  BY <1>4, <1>5, <1>6 DEF LinkInv
<1>8. AddressOf("ReadProxyAddressResolver") = deployed["ReadProxyAddressResolver"]
      /\ Resolver = deployed["AddressResolver"]
  BY <1>1, DeployedKnown DEF Core, Resolver
<1> QED
  BY <1>3, <1>7, <1>8, SlotHeld DEF Resolved

\* Caches that are not as they should be are rebuilt.
LEMMA RebuildWires == Inv /\ NetInv /\ WireInv /\ RebuildCaches => WireInv'
<1> SUFFICES ASSUME Inv, NetInv, WireInv, RebuildCaches PROVE WireInv'
  OBVIOUS
<1> DEFINE written == UNION {{<<deployed[n], r>> : r \in Required[n]} : n \in ToRebuild}
           g == [x \in written |-> Resolved(x[2])]
<1>0. /\ At("rebuild") /\ Advance /\ slots' = Over(slots, g)
      /\ UNCHANGED <<deployed, adding, replacing, clean>>
  BY DEF RebuildCaches
<1>1. /\ ~Idle /\ pc' = pc + 1 /\ pc' \in pc..(Len(Script) + 1)
      /\ \A j \in pc..(pc' - 1) : j \notin Deploys \cup Links
      /\ Skips("queue") /\ Skips("sort") /\ Skips("remove") /\ Skips("add") /\ Skips("import")
  BY <1>0, AdvanceSkips, ScriptSteps
<1>2. /\ \A n \in DOMAIN Required : Required[n] \subseteq Names /\ n # "AddressResolver"
      /\ ToRebuild \subseteq DOMAIN Required \cap DOMAIN deployed
  BY ScriptAssumption DEF ScriptInOrder, ContractsInOrder, ToRebuild
<1>3. \A x \in written : \E n \in ToRebuild : \E r \in Required[n] : x = <<deployed[n], r>>
  OBVIOUS
<1>4. \A n \in ToRebuild : \A r \in Required[n] : <<deployed[n], r>> \in written
  OBVIOUS
<1>5. DOMAIN g = written /\ \A x \in written : g[x] = Resolved(x[2])
  OBVIOUS
<1> HIDE DEF written, g
<1>6. SameFields(LinkFields) /\ SameFields(Keys)
  <2>1. ASSUME NEW a, NEW f, f \in LinkFields \/ f \in Keys
        PROVE  Held(slots', a, f) = Held(slots, a, f)
    <3>1. <<a, f>> \notin written
      BY <1>2, <1>3, <2>1, WireFields
    <3> QED
      BY <1>0, <1>5, <3>1, HeldOver
  <2> QED
    BY <2>1 DEF SameFields
<1>7. ImportInv'
  <2>1. ASSUME NEW n \in DOMAIN deployed, Done("import")
        PROVE  Held(slots', Resolver, n) = deployed[n]
    <3>1. "AddressResolver" \in DOMAIN deployed
      BY <2>1, PastDeploys, CertainDeployed DEF Core
    <3>2. NameOf(Resolver) = "AddressResolver"
      BY <3>1, DeployedKnown DEF Resolver
    <3>3. <<Resolver, n>> \notin written
      BY <1>2, <1>3, <3>2, DeployedKnown
    <3>4. Held(slots', Resolver, n) = Held(slots, Resolver, n)
      BY <1>0, <1>5, <3>3, HeldOver
    <3> QED
      BY <2>1, <3>4 DEF WireInv, ImportInv
  <2>2. Done("import")' => Done("import")
    BY <1>1, SkipsDone
  <2> QED
    BY <1>0, <2>1, <2>2 DEF ImportInv, Resolver, AddressOf
<1>8. CacheInv'
  <2>1. SUFFICES ASSUME clean, NEW n \in DOMAIN Required \cap DOMAIN deployed,
                        Required[n] \subseteq DOMAIN deployed, NEW r \in Required[n]
                 PROVE  Held(slots', deployed[n], r) = deployed[r]
    BY <1>0 DEF CacheInv
  <2>2. \A q \in Required[n] : Slot(Resolver, q) = deployed[q] /\ Resolved(q) = deployed[q]
                               /\ deployed[q] # None
    BY <1>0, <2>1, ProxyResolves, DeployedKnown DEF WireInv
  <2>3. CASE <<deployed[n], r>> \in written
    BY <1>0, <1>5, <2>1, <2>2, <2>3, HeldOver
  <2>4. CASE <<deployed[n], r>> \notin written
    <3>1. n \notin ToRebuild
      BY <1>4, <2>1, <2>4
    <3>2. Cached(n)
      BY <2>1, <2>2, <3>1 DEF ToRebuild
    <3>3. Held(slots, deployed[n], r) = deployed[r]
      BY <2>1, <2>2, <3>2, SlotHeld DEF Cached
    <3> QED
      BY <1>0, <1>5, <2>4, <3>3, HeldOver
  <2> QED
    BY <2>3, <2>4
<1> QED
  BY <1>0, <1>1, <1>6, <1>7, <1>8, LinkMoves, PynthMoves DEF WireInv

\* A run past the steps of the contracts has the issuer and the pynths.
LEMMA PynthsThere ==
    ASSUME Inv, NetInv, NEW op \in {"import", "rebuild", "sort", "add"}, Done(op) \/ At(op)
    PROVE  /\ "Issuer" \in DOMAIN deployed /\ Issuer = deployed["Issuer"]
           /\ Issuer \in recorded /\ NameOf(Issuer) = "Issuer" /\ Issuer = TargetOf("Issuer")
           /\ \A key \in Keys : /\ Pynths[key] \in DOMAIN deployed
                                /\ PynthOf(key) = deployed[Pynths[key]]
                                /\ PynthOf(key) \in recorded /\ PynthOf(key) # None
                                /\ PynthOf(key) = TargetOf(Pynths[key])
<1>1. \A j \in Deploys : j < pc
  BY PastDeploys DEF At, Step
<1>2. "Issuer" \in DOMAIN deployed /\ \A key \in Keys : Pynths[key] \in DOMAIN deployed
  BY <1>1, CertainDeployed DEF Core
<1>3. DOMAIN deployed \subseteq DOMAIN targets
  BY DEF NetInv, DeployedInv
<1> QED
  BY <1>2, <1>3, DeployedKnown DEF Issuer, PynthOf, TargetOf

\* A pynth whose contracts the run is past is queued.
LEMMA QueueWires == Inv /\ NetInv /\ WireInv /\ QueuePynth => WireInv'
<1> SUFFICES ASSUME Inv, NetInv, WireInv, QueuePynth PROVE WireInv'
  OBVIOUS
<1>0. /\ At("queue") /\ Advance /\ UNCHANGED <<slots, deployed, replacing, clean>>
      /\ adding' = IF {Pynths[Step.key], "Issuer"} \subseteq DOMAIN deployed
                   THEN adding \cup {Step.key} ELSE adding
      /\ Step = Script[pc]
  BY DEF QueuePynth, chainVars, Step
<1>1. /\ ~Idle /\ pc \in 1..Len(Script) /\ Len(Script) \in Nat
      /\ pc' = pc + 1 /\ pc' \in pc..(Len(Script) + 1)
      /\ \A j \in pc..(pc' - 1) : j \notin Deploys \cup Links
      /\ Skips("import") /\ Skips("rebuild")
  BY <1>0, AdvanceSkips, ScriptSteps
<1>2. \A F : SameFields(F)
  BY <1>0 DEF SameFields
<1>3. ~Done("sort") /\ ~Done("sort")'
  BY <1>0, <1>1, LastSteps, LaterNotDone
<1>4. ~Done("add")'
  <2>1. PICK i \in 1..Len(Script) : Script[i].op = "sort"
    BY LastSteps, ScriptSteps DEF Once
  <2>2. \A k \in 1..Len(Script) : Script[k].op = "add" => i < k
    BY <2>1, LastSteps, ScriptSteps DEF Precede
  <2>3. pc < i
    BY <1>0, <1>1, <2>1, LastSteps, ScriptSteps DEF Precede, At, Step
  <2>4. \A k \in 1..(pc' - 1) : k \in 1..Len(Script) /\ ~(i < k)
    BY <1>1, <2>1, <2>3
  <2> QED
    BY <2>2, <2>4 DEF Done
<1>5. PynthInv'
  <2>1. adding \subseteq adding' /\ adding' \subseteq Keys
    BY <1>0, <1>1, ScriptSteps, ScriptAssumption
    DEF WireInv, PynthInv, ScriptInOrder, PynthsInOrder, At
  <2>2. ASSUME NEW key \in Keys, NEW i \in 1..(pc' - 1), Queues(i, key)
        PROVE  key \in adding'
    <3>1. CASE i \in 1..(pc - 1)
      BY <1>3, <2>1, <2>2, <3>1 DEF WireInv, PynthInv
    <3>2. CASE i = pc
      <4>1. key = Step.key /\ Before(Pynths[key], pc) /\ Before("Issuer", pc)
        BY <1>0, <2>2, <3>2 DEF Queues
      <4>2. Pynths[key] \in DOMAIN deployed /\ "Issuer" \in DOMAIN deployed
        BY <4>1, CertainDeployed DEF Core, Before
      <4> QED
        BY <1>0, <4>1, <4>2
    <3> QED
      BY <1>1, <3>1, <3>2
  <2> QED
    BY <1>0, <1>3, <1>4, <2>1, <2>2 DEF WireInv, PynthInv
<1> QED
  BY <1>0, <1>1, <1>2, <1>5, LinkMoves, ImportMoves, CacheMoves DEF WireInv

\* All pynths have been queued when they are sorted.
LEMMA SortWires == Inv /\ NetInv /\ WireInv /\ SortPynths => WireInv'
<1> SUFFICES ASSUME Inv, NetInv, WireInv, SortPynths PROVE WireInv'
  OBVIOUS
<1> DEFINE unlisted == {key \in adding : Slot(Issuer, key) # PynthOf(key)}
<1>0. /\ At("sort") /\ Advance /\ UNCHANGED <<slots, deployed, clean>>
      /\ adding' = {key \in unlisted : Original(key) = None}
      /\ replacing' = {key \in unlisted : Original(key) # None}
  BY DEF SortPynths, chainVars
<1>1. /\ ~Idle /\ pc \in 1..Len(Script) /\ Len(Script) \in Nat
      /\ pc' = pc + 1 /\ pc' \in pc..(Len(Script) + 1)
      /\ \A j \in pc..(pc' - 1) : j \notin Deploys \cup Links
      /\ Skips("import") /\ Skips("rebuild")
  BY <1>0, AdvanceSkips, ScriptSteps
<1>2. \A F : SameFields(F)
  BY <1>0 DEF SameFields
<1>3. Done("sort")' /\ ~Done("sort") /\ ~Done("add")' /\ ~Done("remove")'
  BY <1>0, <1>1, LastSteps, LaterNotDone, OnceNotDone, NowDone
<1>4. \A key \in Keys : key \in adding
  <2> TAKE key \in Keys
  <2>1. PICK i \in DOMAIN Script : Queues(i, key)
    BY ScriptAssumption DEF ScriptInOrder, PynthsInOrder, Queues
  <2>2. i < pc
    BY <1>0, <2>1, LastSteps DEF Precede, Queues, At, Step
  <2>3. i \in 1..(pc - 1)
    BY <1>1, <2>1, <2>2, ScriptSteps
  <2> QED
    BY <1>3, <2>1, <2>3 DEF WireInv, PynthInv
<1>5. PynthInv'
  <2>1. adding' \subseteq Keys /\ replacing' \subseteq Keys
    BY <1>0 DEF WireInv, PynthInv
  <2>2. ASSUME NEW key \in Keys PROVE Lists(key)' \/ key \in adding' \/ key \in replacing'
    <3>1. Lists(key) \/ key \in adding' \/ key \in replacing'
      BY <1>0, <1>4, SlotHeld DEF Lists
    <3>2. Lists(key)' <=> Lists(key)
      BY <1>0 DEF Lists, Issuer, PynthOf, AddressOf
    <3> QED
      BY <3>1, <3>2
  <2>3. \A key : ~DoneFor("remove", key)'
    BY <1>3 DEF Done, DoneFor
  <2> QED
    BY <1>3, <2>1, <2>2, <2>3 DEF PynthInv
<1> QED
  BY <1>0, <1>1, <1>2, <1>5, LinkMoves, ImportMoves, CacheMoves DEF WireInv

\* A pynth that is replaced is added again.
LEMMA RemoveWires == Inv /\ NetInv /\ WireInv /\ RemovePynth => WireInv'
<1> SUFFICES ASSUME Inv, NetInv, WireInv, RemovePynth PROVE WireInv'
  OBVIOUS
<1>0. /\ At("remove") /\ Advance /\ UNCHANGED <<deployed, replacing>>
      /\ adding' = adding \cup ({Step.key} \cap replacing)
      /\ IF Step.key \in replacing /\ Slot(Issuer, Step.key) # None
         THEN Invoke(RemoveWrite) ELSE NothingToDo
      /\ Step = Script[pc]
  BY DEF RemovePynth, Step
<1>1. /\ ~Idle /\ pc \in 1..Len(Script) /\ Len(Script) \in Nat
      /\ pc' = pc + 1 /\ pc' \in pc..(Len(Script) + 1)
      /\ \A j \in pc..(pc' - 1) : j \notin Deploys \cup Links
      /\ Skips("import") /\ Skips("rebuild")
  BY <1>0, AdvanceSkips, ScriptSteps
<1>2. Step.key \in Keys
  BY <1>0, <1>1, ScriptSteps, ScriptAssumption DEF ScriptInOrder, PynthsInOrder, At
<1>3. /\ Invoke(RemoveWrite) \/ NothingToDo
      /\ \A x \in DOMAIN RemoveWrite.sets : x = <<Issuer, Step.key>>
      /\ \A x \in DOMAIN RemoveWrite.sets : x[2] \notin LinkFields /\ x[2] \notin Names
  BY <1>0, <1>2, WireFields DEF RemoveWrite, Write, Single
<1>4. SameFields(LinkFields) /\ SameFields(Names) /\ (clean' => clean)
  BY <1>3, InvokeSame
<1>5. Done("sort") /\ ~Done("add") /\ ~Done("add")' /\ Done("sort")'
  BY <1>0, <1>1, LastSteps, LaterNotDone, EarlierDone, NowDone
<1>6. PynthInv'
  <2>1. adding' \subseteq Keys /\ adding \subseteq adding' /\ replacing' \subseteq Keys
    BY <1>0 DEF WireInv, PynthInv
  <2>2. ASSUME NEW key \in Keys
        PROVE  Lists(key)' \/ key \in adding' \/ (key \in replacing' /\ ~DoneFor("remove", key)')
    <3>1. Lists(key) \/ key \in adding \/ (key \in replacing /\ ~DoneFor("remove", key))
      BY <1>5 DEF WireInv, PynthInv
    <3>2. CASE key = Step.key /\ key \in replacing
      BY <1>0, <3>2
    <3>3. CASE ~(key = Step.key /\ key \in replacing)
      <4>1. Held(slots', Issuer, key) = Held(slots, Issuer, key)
        <5>1. CASE UNCHANGED slots
          BY <5>1
        <5>2. CASE slots' = Over(slots, RemoveWrite.sets) /\ key # Step.key
          <6>1. <<Issuer, key>> \notin DOMAIN RemoveWrite.sets
            BY <1>3, <5>2
          <6> QED
            BY <5>2, <6>1, HeldOver
        <5>3. CASE slots' = Over(slots, RemoveWrite.sets) /\ key = Step.key
          <6>1. slots' = slots
            BY <1>0, <3>3, <5>3 DEF NothingToDo
          <6> QED
            BY <6>1
        <5> QED
          BY <1>3, <5>1, <5>2, <5>3 DEF Invoke, NothingToDo
      <4>2. Lists(key)' <=> Lists(key)
        BY <1>0, <4>1 DEF Lists, Issuer, PynthOf, AddressOf
      <4>3. key # Step.key => (DoneFor("remove", key)' => DoneFor("remove", key))
        <5>1. pc' - 1 = pc /\ \A i \in 1..pc : i \in 1..(pc - 1) \/ i = pc
          BY <1>1
        <5> QED
          BY <1>0, <5>1 DEF DoneFor
      <4> QED
        BY <1>0, <2>1, <3>1, <3>3, <4>2, <4>3
    <3> QED
      BY <3>2, <3>3
  <2> QED
    BY <1>5, <2>1, <2>2 DEF PynthInv
<1> QED
  BY <1>0, <1>1, <1>4, <1>6, LinkMoves, ImportMoves, CacheMoves DEF WireInv

\* What is not listed is added at the end.
LEMMA AddWires == Inv /\ NetInv /\ WireInv /\ AddPynths => WireInv'
<1> SUFFICES ASSUME Inv, NetInv, WireInv, AddPynths PROVE WireInv'
  OBVIOUS
<1>0. /\ At("add") /\ Advance /\ UNCHANGED <<deployed, adding, replacing>>
      /\ IF AllListed THEN NothingToDo ELSE Invoke(AddWrite)
  BY DEF AddPynths
<1>1. /\ ~Idle /\ pc \in 1..Len(Script) /\ Len(Script) \in Nat
      /\ pc' = pc + 1 /\ pc' \in pc..(Len(Script) + 1)
      /\ \A j \in pc..(pc' - 1) : j \notin Deploys \cup Links
      /\ Skips("import") /\ Skips("rebuild")
  BY <1>0, AdvanceSkips, ScriptSteps
<1>2. adding \subseteq Keys /\ replacing \subseteq Keys
  BY DEF WireInv, PynthInv
<1>3. /\ Invoke(AddWrite) \/ NothingToDo
      /\ \A x : x \in DOMAIN AddWrite.sets <=> \E key \in adding : x = <<Issuer, key>>
      /\ \A key \in adding : AddWrite.sets[<<Issuer, key>>] = PynthOf(key)
  BY <1>0 DEF AddWrite, Write
<1>4. SameFields(LinkFields) /\ SameFields(Names) /\ (clean' => clean)
  <2>1. \A x \in DOMAIN AddWrite.sets : x[2] \notin LinkFields /\ x[2] \notin Names
    BY <1>2, <1>3, WireFields
  <2> QED
    BY <1>3, <2>1, InvokeSame
<1>5. Done("sort") /\ ~Done("add") /\ Done("add")'
  BY <1>0, <1>1, LastSteps, OnceNotDone, EarlierDone, NowDone
<1>6. ASSUME clean', NEW key \in Keys PROVE Lists(key)'
  <2>1. Lists(key) \/ key \in adding
    <3>1. PICK i \in DOMAIN Script : Script[i].op = "remove" /\ Script[i].key = key
      BY ScriptAssumption DEF ScriptInOrder, PynthsInOrder
    <3>2. i < pc
      BY <1>0, <3>1, LastSteps DEF Precede, At, Step
    <3>3. i \in 1..(pc - 1)
      BY <1>1, <3>1, <3>2, ScriptSteps
    <3>4. DoneFor("remove", key)
      BY <3>1, <3>3 DEF DoneFor
    <3> QED
      BY <1>5, <3>4 DEF WireInv, PynthInv
  <2>2. CASE AllListed
    <3>1. Held(slots, Issuer, key) = PynthOf(key) /\ slots' = slots
      BY <1>0, <2>1, <2>2, SlotHeld DEF AllListed, Lists, NothingToDo
    <3> QED
      BY <1>0, <3>1 DEF Lists, Issuer, PynthOf, AddressOf
  <2>3. CASE ~AllListed
    <3>1. slots' = Over(slots, AddWrite.sets)
      BY <1>0, <1>6, <2>3 DEF Invoke
    <3>2. Held(slots', Issuer, key) = PynthOf(key)
      <4>1. CASE key \in adding
        BY <1>3, <3>1, <4>1, HeldOver
      <4>2. CASE key \notin adding
        <5>1. Held(slots, Issuer, key) = PynthOf(key)
          BY <2>1, <4>2 DEF Lists
        <5>2. <<Issuer, key>> \notin DOMAIN AddWrite.sets
          BY <1>3, <4>2
        <5> QED
          BY <3>1, <5>1, <5>2, HeldOver
      <4> QED
        BY <4>1, <4>2
    <3> QED
      BY <1>0, <3>2 DEF Lists, Issuer, PynthOf, AddressOf
  <2> QED
    BY <2>2, <2>3
<1>7. PynthInv'
  <2>1. Done("sort")'
    BY <1>0, <1>1, <1>5, NowDone
  <2> QED
    BY <1>0, <1>2, <1>5, <1>6, <2>1 DEF PynthInv
<1> QED
  BY <1>0, <1>1, <1>4, <1>7, LinkMoves, ImportMoves, CacheMoves DEF WireInv

\* So each step keeps the wires.
LEMMA WireStep == Inv /\ NetInv /\ WireInv /\ [Next]_vars => WireInv'
<1> SUFFICES ASSUME Inv, NetInv, WireInv, [Next]_vars PROVE WireInv'
  OBVIOUS
<1>0. adding \subseteq Keys /\ replacing \subseteq Keys
  BY DEF WireInv, PynthInv
<1>1. StartRun => WireInv'
  BY <1>0, NoneWired DEF StartRun
<1>2. Crash \/ Finish \/ Fail => WireInv'
  BY NoneWired DEF Crash, Finish, Fail, EndWith
<1>3. ImportAddresses => WireInv'
  <2>1. ASSUME ImportAddresses PROVE pc' = pc + 1 \/ (pc' = 0 /\ adding' = {} /\ replacing' = {})
    BY <2>1 DEF ImportAddresses, EndWith, Advance
  <2> QED
    BY <2>1, NoneWired, ImportWires
<1>4. OwnerActs \/ HandOver \/ TuneSetting \/ IssuePynths \/ UpdateVersions \/ PrepareDeploy
          => WireInv'
  BY <1>0, NoneWired DEF OwnerActs, HandOver, TuneSetting, IssuePynths, UpdateVersions,
                         PrepareDeploy, runVars, Idle
<1>5. UNCHANGED vars => WireInv'
  <2> SUFFICES ASSUME UNCHANGED vars PROVE WireInv'
    OBVIOUS
  <2> USE DEF vars, chainVars, runVars
  <2>1. LinkInv'
    BY DEF WireInv, LinkInv
  <2>2. ImportInv' /\ CacheInv'
    BY DEF WireInv, ImportInv, CacheInv, Done, Resolver, AddressOf
  <2>3. PynthInv'
    BY DEF WireInv, PynthInv, Done, DoneFor, Lists, Issuer, PynthOf, AddressOf
  <2> QED
    BY <2>1, <2>2, <2>3 DEF WireInv
<1> QED
  BY <1>1, <1>2, <1>3, <1>4, <1>5, DeploymentWires, SendWires, OtherWires, SetWires,
     RebuildWires, QueueWires, SortWires, RemoveWires, AddWires DEF Next, RunStep

\* At first nothing is wired.
LEMMA WireInit == Init => WireInv
<1> SUFFICES ASSUME Init PROVE WireInv
  OBVIOUS
<1>1. pc = 0 /\ adding = {} /\ replacing = {}
  BY DEF Init
<1>2. \A i \in 1..(pc - 1) : FALSE
  BY <1>1, NoneBefore
<1>3. \A i \in Links : ~(i < pc)
  BY <1>1, ScriptSteps
<1> QED
  BY <1>1, <1>2, <1>3 DEF WireInv, LinkInv, ImportInv, CacheInv, PynthInv, Done, DoneFor

-----------------------------------------------------------------------------
(* The end of a run.                                                       *)

\* A run that is through, and has left nothing to the owner, has wired the
\* network.
LEMMA EndWired ==
    ASSUME Inv, NetInv, WireInv, pc = Len(Script) + 1, clean
    PROVE  Wired
<1>0. /\ Len(Script) \in Nat /\ DOMAIN Script = 1..Len(Script)
      /\ Deploys \subseteq 1..Len(Script) /\ Links \subseteq 1..Len(Script)
      /\ \A i \in 1..Len(Script) : i < pc /\ i \in 1..(pc - 1)
  BY ScriptSteps
<1>1. \A op \in {"import", "rebuild", "sort", "add"} : Done(op)
  BY <1>0, LastSteps DEF Once, Done
<1>2. ASSUME NEW n \in DOMAIN targets \ Optional PROVE n \in DOMAIN deployed
  <2>1. PICK i \in Deploys : Script[i].name = n
    BY StepOfName DEF NetInv, ListInv
  <2> QED
    BY <1>0, <2>1 DEF NetInv, DeployedInv
<1>3. \A n \in DOMAIN deployed : n \in DOMAIN targets /\ deployed[n] = targets[n]
                                 /\ AddressOf(n) = targets[n] /\ TargetOf(n) = targets[n]
  BY DeployedKnown DEF TargetOf, NetInv, DeployedInv
<1>4. Resolver = TargetOf("AddressResolver") /\ "AddressResolver" \in DOMAIN deployed
  BY <1>0, <1>3, CertainDeployed DEF Core, Resolver
<1>5. ASSUME NEW i \in DOMAIN Script PROVE LinkHolds(Script[i])
  <2> DEFINE s == Script[i]
  <2>1. SUFFICES ASSUME s.op = "set", ~s.keep, s.when = {}, ~s.via,
                        s.given \cup {s.on, s.to, s.at} \subseteq DOMAIN targets
                 PROVE  Slot(targets[s.at], s.field) = targets[s.to]
    BY DEF LinkHolds
  <2>2. i \in Links
    BY <2>1 DEF Links, Sets, NetInv, ListInv
  <2>3. \A n \in s.given : n \notin Optional
    BY <2>2, ScriptAssumption DEF ScriptInOrder, LinksInOrder
  <2>4. s.given \subseteq DOMAIN deployed
    BY <1>2, <2>1, <2>3
  <2>5. {s.on, s.to} \subseteq DOMAIN deployed
    <3>1. pc \in pc..(Len(Script) + 1) /\ \A j \in pc..(pc - 1) : FALSE
      BY <1>0
    <3> QED
      BY <1>0, <2>2, <2>4, <3>1, LinkTo DEF Idle
  <2>6. Held(slots, deployed[s.on], s.field) = deployed[s.to]
    BY <1>0, <2>2, <2>4 DEF WireInv, LinkInv
  <2>7. s.at = s.on
    BY <2>2, WireFields
  <2> QED
    BY <1>3, <2>5, <2>6, <2>7, SlotHeld
<1>6. ResolverHolds
  BY <1>1, <1>2, <1>3, <1>4, SlotHeld DEF ResolverHolds, WireInv, ImportInv
<1>7. CachesHold
  <2>1. SUFFICES ASSUME NEW n \in DOMAIN Required \cap DOMAIN targets,
                        Required[n] \subseteq DOMAIN targets, NEW r \in Required[n]
                 PROVE  Slot(targets[n], r) = TargetOf(r)
    BY DEF CachesHold
  <2>2. n \notin Optional /\ \A m \in Required[n] : m \notin Optional
    BY ScriptAssumption DEF ScriptInOrder, ContractsInOrder
  <2>3. n \in DOMAIN deployed /\ Required[n] \subseteq DOMAIN deployed
    BY <1>2, <2>1, <2>2
  <2>4. Held(slots, deployed[n], r) = deployed[r]
    BY <1>1, <2>3 DEF WireInv, CacheInv
  <2> QED
    BY <1>3, <2>3, <2>4, SlotHeld
<1>8. ListedHold
  <2>1. SUFFICES ASSUME NEW key \in Keys
                 PROVE  Slot(TargetOf("Issuer"), key) = TargetOf(Pynths[key])
    BY DEF ListedHold, Keys
  <2>2. Lists(key)
    BY <1>1 DEF WireInv, PynthInv
  <2>3. Issuer = TargetOf("Issuer") /\ PynthOf(key) = TargetOf(Pynths[key])
    BY <1>1, PynthsThere
  <2> QED
    BY <2>2, <2>3, SlotHeld DEF Lists
<1> QED
  BY <1>5, <1>6, <1>7, <1>8 DEF Wired

-----------------------------------------------------------------------------
(* What is left to the owner.                                              *)

\* The recorded instances of a contract.
Of(n) == {a \in recorded : NameOf(a) = n}

\* A slot leads to contract n: a link of the script, or a name of the resolver.
Leads(x, n) ==
    \/ \E i \in Links : /\ NameOf(x[1]) = Script[i].at /\ x[2] = Script[i].field
                        /\ n = Script[i].to
    \/ NameOf(x[1]) = "AddressResolver" /\ x[2] \in Names /\ n = x[2]

\* It holds no other contract's address.
SlotsLead == \A x \in DOMAIN slots : \A n : Leads(x, n) => slots[x] \in Of(n) \cup {None}

\* What a write does to wires is to slots of the contract that it is for: it
\* leads them where they lead, names are those of the resolver, and a pynth is
\* added with its address, or removed.
Fits(w) == \A x \in DOMAIN w.sets :
    /\ \A n : Leads(x, n) => x[1] = w.target /\ w.sets[x] \in Of(n)
    /\ x[2] \in Names => NameOf(x[1]) = "AddressResolver"
    /\ x[2] \in Keys => /\ x[1] = w.target
                        /\ \/ w.sets[x] = None
                           \/ w.method = "addPynths" /\ w.sets[x] \in Of(Pynths[x[2]])

SetsOf(i) == actions[i].write.sets

ActionsFit == \A i \in DOMAIN actions :
    /\ Fits(actions[i].write) /\ actions[i].write.target \in handedOver
    /\ DOMAIN actions[i] = {"write", "complete"}

\* Of two instances the later one is not staged first.
Follows(w, v) == \A x \in DOMAIN w.sets, y \in DOMAIN v.sets :
    (/\ x[2] # "periods" /\ y[2] # "periods"
     /\ w.sets[x] \in recorded /\ v.sets[y] \in recorded
     /\ NameOf(w.sets[x]) = NameOf(v.sets[y])) => Rank(w.sets[x]) <= Rank(v.sets[y])

ActionsOrdered == \A i, j \in DOMAIN actions :
                      i < j => Follows(actions[i].write, actions[j].write)

\* What is pending leads no slot to an earlier instance than it leads to.
PendingAhead == \A i \in Pending : \A x \in DOMAIN SetsOf(i) : \A n :
    Leads(x, n) => Rank(Held(slots, x[1], x[2])) <= Rank(SetsOf(i)[x])

\* A pynth that is to be removed is not the one of deployment.json, and will not
\* be by then.
PendingRemoves == \A i \in Pending : \A x \in DOMAIN SetsOf(i) :
    (x[2] \in Keys /\ SetsOf(i)[x] = None) =>
        LET p == TargetOf(Pynths[x[2]]) IN
        /\ p # None /\ Held(slots, x[1], x[2]) # p
        /\ \A j \in DOMAIN actions : j < i =>
               \A y \in DOMAIN SetsOf(j) : y[2] = x[2] => SetsOf(j)[y] # p

OwnInv == /\ SlotsLead /\ ActionsFit /\ ActionsOrdered /\ PendingAhead /\ PendingRemoves

\* A pynth that had a supply is deployed again, and nothing that is staged has
\* its new address before it is added.
FreshInv ==
    /\ Idle => DOMAIN old = {}
    /\ \A key \in DOMAIN old : key \in Keys /\ Flagged(Pynths[key])
    /\ ~Done("add") => \A key \in DOMAIN old : Pynths[key] \in DOMAIN deployed =>
           \A i \in DOMAIN actions : \A x \in DOMAIN SetsOf(i) :
               x[2] \in Keys => SetsOf(i)[x] # PynthOf(key)

\* Only such a pynth is replaced, where the issuer lists another one.
ReplacingInv ==
    /\ ~Done("sort") => replacing = {}
    /\ ~Done("add") => \A key \in replacing : key \in DOMAIN old /\ ~Lists(key)

-----------------------------------------------------------------------------
(* Staging.                                                                *)

\* Staging puts a write where one with its key is, or at the end, and leaves
\* the other actions where they are.
LEMMA StagedAt ==
    ASSUME IsSequence(actions), NEW w
    PROVE  /\ DOMAIN actions \subseteq Nat /\ DOMAIN Staged(w) \subseteq Nat
           /\ \A i \in DOMAIN Staged(w) :
                  \/ i \in DOMAIN actions /\ Staged(w)[i] = actions[i]
                  \/ /\ i \in DOMAIN actions /\ Staged(w)[i].write = w
                     /\ Key(actions[i].write) = Key(w)
                  \/ Staged(w)[i].write = w /\ \A j \in DOMAIN Staged(w) : j <= i
           /\ \A i \in DOMAIN Staged(w) :
                  (i \in DOMAIN actions /\ Staged(w)[i] = actions[i])
                      \/ DOMAIN Staged(w)[i] = {"write", "complete"}
           /\ \A i, j \in DOMAIN Staged(w) : i < j => i \in DOMAIN actions
<1> DEFINE entry == [write |-> w, complete |-> FALSE]
           same(e) == Key(e.write) = Key(w)
           R == {actions[i] : i \in DOMAIN actions}
           replaced == [i \in DOMAIN actions |-> IF same(actions[i]) THEN entry ELSE actions[i]]
           appended == Append(actions, entry)
<1>1. actions \in Seq(R \cup {entry}) /\ Len(actions) \in Nat /\ DOMAIN actions = 1..Len(actions)
  BY DEF IsSequence
<1>2. entry.write = w /\ DOMAIN entry = {"write", "complete"}
  OBVIOUS
<1>3. CASE \E i \in DOMAIN actions : same(actions[i])
  <2>1. Staged(w) = replaced
    BY <1>3 DEF Staged
  <2>2. DOMAIN replaced = DOMAIN actions /\ \A i \in DOMAIN actions :
            replaced[i] = IF same(actions[i]) THEN entry ELSE actions[i]
    OBVIOUS
  <2> HIDE DEF replaced, entry
  <2> QED
    BY <1>1, <1>2, <2>1, <2>2
<1>4. CASE ~ \E i \in DOMAIN actions : same(actions[i])
  <2>1. Staged(w) = appended
    BY <1>4 DEF Staged
  <2>2. /\ DOMAIN appended = 1..(Len(actions) + 1)
        /\ \A i \in 1..Len(actions) : appended[i] = actions[i]
        /\ appended[Len(actions) + 1] = entry
    BY <1>1, AppendProperties
  <2> HIDE DEF appended, entry
  <2>3. \A i \in DOMAIN appended : i \in DOMAIN actions \/ i = Len(actions) + 1
    BY <1>1, <2>2
  <2>4. \A i, j \in DOMAIN appended : j <= Len(actions) + 1 /\ (i < j => i \in DOMAIN actions)
    BY <1>1, <2>2
  <2> QED
    BY <1>1, <1>2, <2>1, <2>2, <2>3, <2>4
<1> QED
  BY <1>3, <1>4

\* Writes with the same key write the same values to the same fields.
LEMMA KeySame ==
    ASSUME NEW v, NEW w, Key(v) = Key(w), NEW x \in DOMAIN v.sets
    PROVE  \E y \in DOMAIN w.sets : y[2] = x[2] /\ w.sets[y] = v.sets[x]
<1> DEFINE pairs(u) == {<<z[2], u.sets[z]>> : z \in DOMAIN u.sets}
<1>1. pairs(v) = pairs(w)
  BY DEF Key
<1>2. <<x[2], v.sets[x]>> \in pairs(w)
  BY <1>1
<1> QED
  BY <1>2

\* So one takes the place of the other in the order.
LEMMA FollowsSame ==
    ASSUME NEW v, NEW w, NEW u, Key(v) = Key(w)
    PROVE  /\ Follows(w, u) => Follows(v, u)
           /\ Follows(u, w) => Follows(u, v)
<1>1. ASSUME Follows(w, u) PROVE Follows(v, u)
  <2>1. ASSUME NEW x \in DOMAIN v.sets
        PROVE  \E y \in DOMAIN w.sets : y[2] = x[2] /\ w.sets[y] = v.sets[x]
    BY KeySame
  <2> QED
    BY <1>1, <2>1 DEF Follows
<1>2. ASSUME Follows(u, w) PROVE Follows(u, v)
  <2>1. ASSUME NEW x \in DOMAIN v.sets
        PROVE  \E y \in DOMAIN w.sets : y[2] = x[2] /\ w.sets[y] = v.sets[x]
    BY KeySame
  <2> QED
    BY <1>2, <2>1 DEF Follows
<1> QED
  BY <1>1, <1>2

\* Values that nothing else is, but for the history of a pool: addresses of
\* deployment.json.
Current(w) == \A x \in DOMAIN w.sets :
    \/ x[2] = "periods"
    \/ w.sets[x] \in NoAddresses
    \/ \E n \in DOMAIN targets : w.sets[x] = targets[n]

\* They follow whatever is staged.
LEMMA CurrentFollows ==
    ASSUME Inv, NetInv, NEW v, NEW w, Current(w)
    PROVE  Follows(v, w)
<1> SUFFICES ASSUME NEW x \in DOMAIN v.sets, NEW y \in DOMAIN w.sets, y[2] # "periods",
                    v.sets[x] \in recorded, w.sets[y] \in recorded,
                    NameOf(v.sets[x]) = NameOf(w.sets[y])
             PROVE  Rank(v.sets[x]) <= Rank(w.sets[y])
  BY DEF Follows
<1>1. PICK n \in DOMAIN targets : w.sets[y] = targets[n]
  BY DEF Current, Inv, FilesInv, ValuesInv
<1>2. NameOf(v.sets[x]) = n /\ Rank(v.sets[x]) <= Rank(targets[n])
  BY <1>1 DEF NetInv, ChainInv
<1> QED
  BY <1>1, <1>2

\* A slot that leads somewhere holds no history.
LEMMA LeadsApart ==
    ASSUME NEW x, NEW n, Leads(x, n)
    PROVE  x[2] \notin Plainly /\ x[2] \notin Keys /\ x[2] \in LinkFields \cup Names
<1>1. x[2] \in LinkFields \cup Names
  BY DEF Leads, LinkFields
<1> QED
  BY <1>1, PlainFields, WireFields

\* An instance is at most the one of deployment.json.
LEMMA OfRank ==
    ASSUME NetInv, Inv, NEW n, NEW a \in Of(n)
    PROVE  /\ n \in DOMAIN targets /\ Rank(a) <= Rank(targets[n]) /\ Rank(a) \in Nat \ {0}
           /\ targets[n] \in Of(n) /\ a = <<n, Rank(a)>> /\ a \in recorded /\ a # None
<1>1. a \in recorded /\ NameOf(a) = n /\ a \in chain
  BY DEF Of, Inv, FilesInv
<1>2. a # None
  BY <1>1 DEF Inv, ValuesInv, NoAddresses
<1>3. n \in DOMAIN targets /\ Rank(a) <= Rank(targets[n]) /\ NameOf(targets[n]) = n
      /\ a = <<NameOf(a), Rank(a)>> /\ Rank(a) \in Nat \ {0}
  BY <1>1 DEF NetInv, ChainInv
<1>4. targets[n] \in recorded
  BY <1>3 DEF Inv, FilesInv, Within
<1> QED
  BY <1>1, <1>2, <1>3, <1>4 DEF Of

\* What a slot holds that leads to a contract.
LEMMA LeadsTo ==
    ASSUME SlotsLead, NEW a, NEW f, NEW n, Leads(<<a, f>>, n)
    PROVE  Held(slots, a, f) \in Of(n) \cup {None}
  BY DEF SlotsLead, Held

\* A write that would remove a pynth removes none that it should not.
Removes(w) == \A x \in DOMAIN w.sets : (x[2] \in Keys /\ w.sets[x] = None) =>
    LET p == TargetOf(Pynths[x[2]]) IN
    /\ p # None /\ Held(slots, x[1], x[2]) # p
    /\ \A j \in DOMAIN actions : \A y \in DOMAIN SetsOf(j) :
           y[2] = x[2] => SetsOf(j)[y] # p

\* What is current may be left to the owner.
LEMMA StageOwn ==
    ASSUME Inv, NetInv, OwnInv, NEW w, Fits(w), Current(w), Removes(w),
           w.target \in handedOver, actions' = Staged(w),
           UNCHANGED <<slots, targets, recorded, handedOver>>
    PROVE  OwnInv'
<1>0. IsSequence(actions)
  BY DEF Inv, ActionsInv
<1>1. /\ DOMAIN actions \subseteq Nat /\ DOMAIN actions' \subseteq Nat
      /\ \A i \in DOMAIN actions' :
             \/ i \in DOMAIN actions /\ actions'[i] = actions[i]
             \/ /\ i \in DOMAIN actions /\ actions'[i].write = w
                /\ Key(actions[i].write) = Key(w)
             \/ actions'[i].write = w /\ \A j \in DOMAIN actions' : j <= i
      /\ \A i \in DOMAIN actions' :
             (i \in DOMAIN actions /\ actions'[i] = actions[i])
                 \/ DOMAIN actions'[i] = {"write", "complete"}
      /\ \A i, j \in DOMAIN actions' : i < j => i \in DOMAIN actions
  BY <1>0, StagedAt
<1>2. \A v : Fits(v)' <=> Fits(v)
  BY DEF Fits, Of
<1>3. \A v, u : Follows(v, u)' <=> Follows(v, u)
  BY DEF Follows
<1>4. ASSUME NEW i \in DOMAIN actions', NEW j \in DOMAIN actions', i < j
      PROVE  i \in DOMAIN actions /\ Key(actions'[i].write) = Key(actions[i].write)
  BY <1>1, <1>4
<1>5. SlotsLead'
  BY DEF OwnInv, SlotsLead, Of
<1>6. ActionsFit'
  BY <1>1, <1>2 DEF OwnInv, ActionsFit
<1>7. ActionsOrdered'
  <2>1. SUFFICES ASSUME NEW i \in DOMAIN actions', NEW j \in DOMAIN actions', i < j
                 PROVE  Follows(actions'[i].write, actions'[j].write)
    BY <1>3 DEF ActionsOrdered
  <2>2. i \in DOMAIN actions /\ Key(actions'[i].write) = Key(actions[i].write)
    BY <1>4, <2>1
  <2>3. CASE j \in DOMAIN actions /\ Key(actions'[j].write) = Key(actions[j].write)
    <3>1. Follows(actions[i].write, actions[j].write)
      BY <2>1, <2>2, <2>3 DEF OwnInv, ActionsOrdered
    <3> QED
      BY <2>2, <2>3, <3>1, FollowsSame
  <2>4. CASE actions'[j].write = w
    BY <2>4, CurrentFollows
  <2> QED
    BY <1>1, <2>3, <2>4
<1>8. PendingAhead'
  <2>1. SUFFICES ASSUME NEW i \in Pending', NEW x \in DOMAIN SetsOf(i)', NEW n, Leads(x, n)
                 PROVE  Rank(Held(slots, x[1], x[2])) <= Rank(SetsOf(i)'[x])
    BY DEF PendingAhead
  <2>2. CASE i \in DOMAIN actions /\ actions'[i] = actions[i]
    BY <2>1, <2>2 DEF OwnInv, PendingAhead, Pending, SetsOf
  <2>3. CASE actions'[i].write = w
    <3>1. x \in DOMAIN w.sets /\ SetsOf(i)' = w.sets
      BY <2>1, <2>3 DEF SetsOf
    <3>2. w.sets[x] \in Of(n)
      BY <2>1, <3>1 DEF Fits
    <3>3. w.sets[x] = targets[n]
      <4>1. x[2] # "periods" /\ w.sets[x] \in recorded /\ NameOf(w.sets[x]) = n
        BY <2>1, <3>2, LeadsApart, PlainFields DEF Of
      <4>2. PICK m \in DOMAIN targets : w.sets[x] = targets[m]
        BY <3>1, <4>1 DEF Current, Inv, FilesInv, ValuesInv
      <4> QED
        BY <4>1, <4>2 DEF NetInv, ChainInv
    <3>4. Leads(<<x[1], x[2]>>, n)
      BY <2>1 DEF Leads
    <3>5. Held(slots, x[1], x[2]) \in Of(n) \cup {None}
      BY <3>4, LeadsTo DEF OwnInv
    <3>6. Rank(targets[n]) \in Nat /\ Rank(None) = 0
          /\ \A a \in Of(n) : Rank(a) <= Rank(targets[n])
      BY <3>2, <3>3, OfRank DEF Rank, None
    <3> QED
      BY <3>1, <3>3, <3>5, <3>6
  <2> QED
    BY <1>1, <2>2, <2>3 DEF Pending
<1>9. PendingRemoves'
  <2>1. SUFFICES ASSUME NEW i \in Pending', NEW x \in DOMAIN SetsOf(i)',
                        x[2] \in Keys, SetsOf(i)'[x] = None
                 PROVE  LET p == TargetOf(Pynths[x[2]]) IN
                        /\ p # None /\ Held(slots, x[1], x[2]) # p
                        /\ \A j \in DOMAIN actions' : j < i =>
                               \A y \in DOMAIN SetsOf(j)' : y[2] = x[2] => SetsOf(j)'[y] # p
    BY DEF PendingRemoves, TargetOf
  <2> DEFINE p == TargetOf(Pynths[x[2]])
  <2>2. i \in DOMAIN actions' /\ ~actions'[i].complete
    BY DEF Pending
  <2>3. p # None /\ Held(slots, x[1], x[2]) # p
        /\ \A j \in DOMAIN actions : j < i =>
               \A y \in DOMAIN SetsOf(j) : y[2] = x[2] => SetsOf(j)[y] # p
    <3>1. CASE i \in DOMAIN actions /\ actions'[i] = actions[i]
      BY <2>1, <2>2, <3>1 DEF OwnInv, PendingRemoves, Pending, SetsOf
    <3>2. CASE actions'[i].write = w
      BY <2>1, <3>2 DEF Removes, SetsOf
    <3> QED
      BY <1>1, <2>2, <3>1, <3>2
  <2>4. ASSUME NEW j \in DOMAIN actions', j < i, NEW y \in DOMAIN SetsOf(j)', y[2] = x[2]
        PROVE  SetsOf(j)'[y] # p
    <3>1. j \in DOMAIN actions /\ Key(actions'[j].write) = Key(actions[j].write)
      BY <1>4, <2>2, <2>4
    <3>2. PICK z \in DOMAIN SetsOf(j) : z[2] = y[2] /\ SetsOf(j)[z] = SetsOf(j)'[y]
      <4> DEFINE v == actions'[j].write
                 u == actions[j].write
      <4>1. y \in DOMAIN v.sets /\ Key(v) = Key(u)
        BY <2>4, <3>1 DEF SetsOf
      <4> HIDE DEF v, u
      <4>2. \E z \in DOMAIN u.sets : z[2] = y[2] /\ u.sets[z] = v.sets[y]
        BY <4>1, KeySame
      <4> USE DEF v, u
      <4> QED
        BY <4>2 DEF SetsOf
    <3> QED
      BY <2>3, <2>4, <3>1, <3>2
  <2> QED
    BY <2>3, <2>4
<1> QED
  BY <1>5, <1>6, <1>7, <1>8, <1>9 DEF OwnInv

\* A call of the deployer, of its own contracts, is to nothing that is staged.
LEMMA CallOwn ==
    ASSUME OwnInv, NEW g, slots' = Over(slots, g),
           \A x \in DOMAIN g :
               /\ \A n : Leads(x, n) => x[1] \notin handedOver /\ g[x] \in Of(n) \cup {None}
               /\ x[2] \in Keys => x[1] \notin handedOver,
           UNCHANGED <<actions, targets, recorded, handedOver>>
    PROVE  OwnInv'
<1>1. SlotsLead'
  <2>1. SUFFICES ASSUME NEW x \in DOMAIN slots', NEW n, Leads(x, n)
                 PROVE  slots'[x] \in Of(n) \cup {None}
    BY DEF SlotsLead, Of
  <2>2. /\ DOMAIN slots' = DOMAIN slots \cup DOMAIN g
        /\ slots'[x] = IF x \in DOMAIN g THEN g[x] ELSE slots[x]
    BY DEF Over
  <2> QED
    BY <2>1, <2>2 DEF OwnInv, SlotsLead
<1>2. ActionsFit' /\ ActionsOrdered'
  BY DEF OwnInv, ActionsFit, ActionsOrdered, Fits, Follows, Of
<1>3. ASSUME NEW i \in DOMAIN actions, NEW x \in DOMAIN SetsOf(i),
             x[2] \in Keys \/ \E n : Leads(x, n)
      PROVE  Held(slots', x[1], x[2]) = Held(slots, x[1], x[2])
  <2>1. x[1] \in handedOver
    BY <1>3 DEF OwnInv, ActionsFit, Fits, SetsOf
  <2>2. <<x[1], x[2]>> \notin DOMAIN g
    BY <1>3, <2>1 DEF Leads
  <2> QED
    BY <2>2, HeldOver
<1>4. PendingAhead'
  BY <1>3 DEF OwnInv, PendingAhead, Pending, SetsOf
<1>5. PendingRemoves'
  <2>1. SUFFICES ASSUME NEW i \in Pending, NEW x \in DOMAIN SetsOf(i),
                        x[2] \in Keys, SetsOf(i)[x] = None
                 PROVE  LET p == TargetOf(Pynths[x[2]]) IN
                        /\ p # None /\ Held(slots', x[1], x[2]) # p
                        /\ \A j \in DOMAIN actions : j < i =>
                               \A y \in DOMAIN SetsOf(j) : y[2] = x[2] => SetsOf(j)[y] # p
    BY DEF PendingRemoves, Pending, SetsOf, TargetOf
  <2>2. Held(slots', x[1], x[2]) = Held(slots, x[1], x[2])
    BY <1>3, <2>1 DEF Pending
  <2> QED
    BY <2>1, <2>2 DEF OwnInv, PendingRemoves
<1> QED
  BY <1>1, <1>2, <1>4, <1>5 DEF OwnInv
\* New addresses are nothing that a slot holds or an action writes.
LEMMA MoreOwn ==
    ASSUME Inv, OwnInv, UNCHANGED <<slots, actions>>,
           handedOver \subseteq handedOver', recorded \subseteq recorded',
           recorded' \cap Values \subseteq recorded, DOMAIN targets \subseteq DOMAIN targets',
           \A n \in DOMAIN targets' :
               (n \in DOMAIN targets /\ targets'[n] = targets[n]) \/ targets'[n] \notin Values
    PROVE  OwnInv'
<1>1. SlotsLead'
  BY DEF OwnInv, SlotsLead, Of
<1>2. ActionsFit'
  BY DEF OwnInv, ActionsFit, Fits, Of
<1>3. \A i \in DOMAIN actions : \A x \in DOMAIN SetsOf(i) : SetsOf(i)[x] \in Values
  BY DEF Inv, ActionsInv, Within, SetsOf
<1>4. ActionsOrdered'
  <2>1. SUFFICES ASSUME NEW i \in DOMAIN actions, NEW j \in DOMAIN actions, i < j,
                        NEW x \in DOMAIN SetsOf(i), NEW y \in DOMAIN SetsOf(j),
                        x[2] # "periods", y[2] # "periods",
                        SetsOf(i)[x] \in recorded', SetsOf(j)[y] \in recorded',
                        NameOf(SetsOf(i)[x]) = NameOf(SetsOf(j)[y])
                 PROVE  Rank(SetsOf(i)[x]) <= Rank(SetsOf(j)[y])
    BY DEF ActionsOrdered, Follows, SetsOf
  <2>2. SetsOf(i)[x] \in recorded /\ SetsOf(j)[y] \in recorded
    BY <1>3, <2>1
  <2> QED
    BY <2>1, <2>2 DEF OwnInv, ActionsOrdered, Follows, SetsOf
<1>5. PendingAhead'
  BY DEF OwnInv, PendingAhead, Pending, SetsOf
<1>6. PendingRemoves'
  <2>1. SUFFICES ASSUME NEW i \in Pending, NEW x \in DOMAIN SetsOf(i),
                        x[2] \in Keys, SetsOf(i)[x] = None
                 PROVE  LET p == TargetOf(Pynths[x[2]])' IN
                        /\ p # None /\ Held(slots, x[1], x[2]) # p
                        /\ \A j \in DOMAIN actions : j < i =>
                               \A y \in DOMAIN SetsOf(j) : y[2] = x[2] => SetsOf(j)[y] # p
    BY DEF PendingRemoves, Pending, SetsOf
  <2> DEFINE n == Pynths[x[2]]
  <2>2. LET p == TargetOf(n) IN
        /\ p # None /\ Held(slots, x[1], x[2]) # p
        /\ \A j \in DOMAIN actions : j < i =>
               \A y \in DOMAIN SetsOf(j) : y[2] = x[2] => SetsOf(j)[y] # p
    BY <2>1 DEF OwnInv, PendingRemoves
  <2>3. n \in DOMAIN targets /\ n \in DOMAIN targets' /\ TargetOf(n)' = targets'[n]
    BY <2>2 DEF TargetOf
  <2>4. CASE targets'[n] = targets[n]
    BY <2>2, <2>3, <2>4 DEF TargetOf
  <2>5. CASE targets'[n] \notin Values
    <3>1. None \in Values /\ Held(slots, x[1], x[2]) \in Values
      BY SlotKnown, SlotHeld DEF Inv, Values, NoAddresses
    <3> QED
      BY <1>3, <2>3, <2>5, <3>1
  <2> QED
    BY <2>3, <2>4, <2>5
<1> QED
  BY <1>1, <1>2, <1>4, <1>5, <1>6 DEF OwnInv

\* The first that the owner sends is nothing that the others would undo.
LEMMA OwnerOwn == Inv /\ NetInv /\ OwnInv /\ OwnerActs => OwnInv'
<1> SUFFICES ASSUME Inv, NetInv, OwnInv, OwnerActs PROVE OwnInv'
  OBVIOUS
<1>0. PICK i \in Pending :
          /\ \A j \in Pending : i <= j
          /\ slots' = Over(slots, SetsOf(i))
          /\ actions' = [actions EXCEPT ![i].complete = TRUE]
  BY DEF OwnerActs, SetsOf
<1>1. UNCHANGED <<targets, recorded, handedOver>>
  BY DEF OwnerActs
<1>2. /\ DOMAIN actions' = DOMAIN actions /\ i \in DOMAIN actions /\ DOMAIN actions \subseteq Nat
      /\ \A j \in DOMAIN actions : actions'[j].write = actions[j].write
      /\ \A j \in DOMAIN actions : SetsOf(j)' = SetsOf(j)
  <2>1. DOMAIN actions \subseteq Nat
    BY DEF Inv, ActionsInv, IsSequence
  <2> QED
    BY <1>0, <2>1 DEF Pending, SetsOf
<1>3. \A j \in Pending' : j \in Pending /\ i < j
  <2>1. \A j \in DOMAIN actions : j # i => actions'[j] = actions[j]
    BY <1>0
  <2>2. actions'[i].complete
    BY <1>0, <1>2 DEF OwnInv, ActionsFit
  <2> QED
    BY <1>0, <1>2, <2>1, <2>2 DEF Pending
<1>4. \A a, f : Held(slots', a, f) = IF <<a, f>> \in DOMAIN SetsOf(i) THEN SetsOf(i)[<<a, f>>]
                                     ELSE Held(slots, a, f)
  <2>1. \A a, f : Held(Over(slots, SetsOf(i)), a, f)
                       = IF <<a, f>> \in DOMAIN SetsOf(i) THEN SetsOf(i)[<<a, f>>]
                         ELSE Held(slots, a, f)
    BY HeldOver
  <2> QED
    BY <1>0, <2>1
<1>5. SlotsLead'
  <2>1. SUFFICES ASSUME NEW x \in DOMAIN slots', NEW n, Leads(x, n)
                 PROVE  slots'[x] \in Of(n) \cup {None}
    BY <1>1 DEF SlotsLead, Of
  <2>2. /\ DOMAIN slots' = DOMAIN slots \cup DOMAIN SetsOf(i)
        /\ slots'[x] = IF x \in DOMAIN SetsOf(i) THEN SetsOf(i)[x] ELSE slots[x]
    BY <1>0 DEF Over
  <2>3. x \in DOMAIN SetsOf(i) => SetsOf(i)[x] \in Of(n)
    BY <1>2, <2>1 DEF OwnInv, ActionsFit, Fits, SetsOf
  <2> QED
    BY <2>1, <2>2, <2>3 DEF OwnInv, SlotsLead
<1>6. ActionsFit' /\ ActionsOrdered'
  <2>1. \A j \in DOMAIN actions : DOMAIN actions'[j] = DOMAIN actions[j]
    BY <1>0
  <2> QED
    BY <1>1, <1>2, <2>1 DEF OwnInv, ActionsFit, ActionsOrdered, Fits, Follows, Of
<1>7. PendingAhead'
  <2>1. SUFFICES ASSUME NEW j \in Pending, i < j, NEW x \in DOMAIN SetsOf(j), NEW n, Leads(x, n)
                 PROVE  Rank(Held(slots', x[1], x[2])) <= Rank(SetsOf(j)[x])
    BY <1>2, <1>3 DEF PendingAhead, Pending
  <2>2. j \in DOMAIN actions
    BY DEF Pending
  <2>3. CASE <<x[1], x[2]>> \in DOMAIN SetsOf(i)
    <3> DEFINE y == <<x[1], x[2]>>
    <3>1. Leads(y, n) /\ y[2] = x[2]
      BY <2>1 DEF Leads
    <3> HIDE DEF y
    <3>2. SetsOf(i)[y] \in Of(n) /\ SetsOf(j)[x] \in Of(n)
      BY <1>2, <2>1, <2>2, <2>3, <3>1 DEF OwnInv, ActionsFit, Fits, SetsOf, y
    <3>3. x[2] # "periods" /\ y[2] # "periods"
      BY <2>1, <3>1, LeadsApart, PlainFields
    <3>4. Follows(actions[i].write, actions[j].write)
      BY <1>2, <2>1, <2>2 DEF OwnInv, ActionsOrdered
    <3>5. Rank(SetsOf(i)[y]) <= Rank(SetsOf(j)[x])
      BY <2>1, <2>3, <3>2, <3>3, <3>4 DEF Follows, SetsOf, Of, y
    <3> QED
      BY <1>4, <2>3, <3>5 DEF y
  <2>4. CASE <<x[1], x[2]>> \notin DOMAIN SetsOf(i)
    BY <1>4, <2>1, <2>4 DEF OwnInv, PendingAhead
  <2> QED
    BY <2>3, <2>4
<1>8. PendingRemoves'
  <2>1. SUFFICES ASSUME NEW j \in Pending, i < j, NEW x \in DOMAIN SetsOf(j),
                        x[2] \in Keys, SetsOf(j)[x] = None
                 PROVE  LET p == TargetOf(Pynths[x[2]]) IN
                        /\ p # None /\ Held(slots', x[1], x[2]) # p
                        /\ \A k \in DOMAIN actions : k < j =>
                               \A y \in DOMAIN SetsOf(k) : y[2] = x[2] => SetsOf(k)[y] # p
    BY <1>1, <1>2, <1>3 DEF PendingRemoves, Pending, TargetOf
  <2>2. LET p == TargetOf(Pynths[x[2]]) IN
        /\ p # None /\ Held(slots, x[1], x[2]) # p
        /\ \A k \in DOMAIN actions : k < j =>
               \A y \in DOMAIN SetsOf(k) : y[2] = x[2] => SetsOf(k)[y] # p
    BY <2>1 DEF OwnInv, PendingRemoves
  <2>3. Held(slots', x[1], x[2]) # TargetOf(Pynths[x[2]])
    <3>1. CASE <<x[1], x[2]>> \in DOMAIN SetsOf(i)
      <4>1. <<x[1], x[2]>>[2] = x[2]
        OBVIOUS
      <4> QED
        BY <1>2, <1>4, <2>1, <2>2, <3>1, <4>1
    <3>2. CASE <<x[1], x[2]>> \notin DOMAIN SetsOf(i)
      BY <1>4, <2>2, <3>2
    <3> QED
      BY <3>1, <3>2
  <2> QED
    BY <2>2, <2>3
<1> QED
  BY <1>5, <1>6, <1>7, <1>8 DEF OwnInv

\* It leaves a wired network wired.
LEMMA OwnerWired == Inv /\ NetInv /\ OwnInv /\ Wired /\ OwnerActs => Wired'
<1> SUFFICES ASSUME Inv, NetInv, OwnInv, Wired, OwnerActs PROVE Wired'
  OBVIOUS
<1>0. PICK i \in Pending :
          /\ ~Reverts(actions[i].write)
          /\ slots' = Over(slots, SetsOf(i))
  BY DEF OwnerActs, SetsOf
<1>1. i \in DOMAIN actions /\ Fits(actions[i].write) /\ UNCHANGED targets
  BY DEF Pending, OwnInv, ActionsFit, OwnerActs
<1>2. \A a, f : Held(slots', a, f) = IF <<a, f>> \in DOMAIN SetsOf(i) THEN SetsOf(i)[<<a, f>>]
                                     ELSE Held(slots, a, f)
  <2>1. \A a, f : Held(Over(slots, SetsOf(i)), a, f)
                       = IF <<a, f>> \in DOMAIN SetsOf(i) THEN SetsOf(i)[<<a, f>>]
                         ELSE Held(slots, a, f)
    BY HeldOver
  <2> QED
    BY <1>0, <2>1
<1>3. ASSUME NEW a, NEW f, NEW n, Leads(<<a, f>>, n), n \in DOMAIN targets,
             Held(slots, a, f) = targets[n]
      PROVE  Held(slots', a, f) = targets[n]
  <2>1. CASE <<a, f>> \in DOMAIN SetsOf(i)
    <3> DEFINE v == SetsOf(i)[<<a, f>>]
    <3>1. v \in Of(n)
      BY <1>1, <1>3, <2>1 DEF Fits, SetsOf
    <3>2. Rank(targets[n]) <= Rank(v)
      <4>1. Rank(Held(slots, <<a, f>>[1], <<a, f>>[2])) <= Rank(v)
        BY <1>3, <2>1 DEF OwnInv, PendingAhead
      <4> QED
        BY <1>3, <4>1
    <3> HIDE DEF v
    <3>3. /\ v = <<n, Rank(v)>> /\ Rank(v) \in Nat /\ Rank(v) <= Rank(targets[n])
          /\ targets[n] = <<n, Rank(targets[n])>> /\ Rank(targets[n]) \in Nat
      BY <3>1, OfRank
    <3>4. v = targets[n]
      <4>1. Rank(v) = Rank(targets[n])
        BY <3>2, <3>3
      <4> QED
        BY <3>3, <4>1
    <3> QED
      BY <1>2, <2>1, <3>4 DEF v
  <2>2. CASE <<a, f>> \notin DOMAIN SetsOf(i)
    BY <1>2, <1>3, <2>2
  <2> QED
    BY <2>1, <2>2
<1>4. \A n \in DOMAIN targets : NameOf(targets[n]) = n
  BY DEF NetInv, ChainInv
<1>5. \A a, f : Slot(a, f)' = Held(slots', a, f) /\ Slot(a, f) = Held(slots, a, f)
  BY DEF Slot, Held
<1>6. ASSUME NEW s \in {Script[m] : m \in DOMAIN Script} PROVE LinkHolds(s)'
  <2>1. PICK m \in DOMAIN Script : s = Script[m]
    OBVIOUS
  <2>2. SUFFICES ASSUME s.op = "set", ~s.keep, s.when = {}, ~s.via,
                        s.given \cup {s.on, s.to, s.at} \subseteq DOMAIN targets
                 PROVE  Held(slots', targets[s.at], s.field) = targets[s.to]
    BY <1>1, <1>5 DEF LinkHolds
  <2>3. m \in Links
    BY <2>1, <2>2 DEF Links, Sets, NetInv, ListInv
  <2>4. Held(slots, targets[s.at], s.field) = targets[s.to]
    BY <1>5, <2>1, <2>2 DEF Wired, LinkHolds
  <2>5. Leads(<<targets[s.at], s.field>>, s.to)
    BY <1>4, <2>1, <2>2, <2>3 DEF Leads
  <2> QED
    BY <1>3, <2>2, <2>4, <2>5
<1>7. ResolverHolds'
  <2>1. SUFFICES ASSUME NEW n \in DOMAIN targets \ Optional
                 PROVE  Held(slots', TargetOf("AddressResolver"), n) = targets[n]
    BY <1>1, <1>5 DEF ResolverHolds, TargetOf
  <2> DEFINE a == TargetOf("AddressResolver")
  <2>2. Held(slots, a, n) = targets[n] /\ n \in Names
    BY <1>5 DEF Wired, ResolverHolds, NetInv, ListInv
  <2>3. CASE NameOf(a) = "AddressResolver"
    <3>1. Leads(<<a, n>>, n)
      BY <2>2, <2>3 DEF Leads
    <3> QED
      BY <1>3, <2>2, <3>1
  <2>4. CASE NameOf(a) # "AddressResolver"
    <3>1. <<a, n>> \notin DOMAIN SetsOf(i)
      BY <1>1, <2>2, <2>4 DEF Fits, SetsOf
    <3> QED
      BY <1>2, <2>2, <3>1
  <2> QED
    BY <2>3, <2>4
<1>8. CachesHold'
  <2>1. SUFFICES ASSUME NEW n \in DOMAIN Required \cap DOMAIN targets,
                        Required[n] \subseteq DOMAIN targets, NEW r \in Required[n]
                 PROVE  Held(slots', targets[n], r) = TargetOf(r)
    BY <1>1, <1>5 DEF CachesHold, TargetOf
  <2>2. Held(slots, targets[n], r) = TargetOf(r)
    BY <1>5, <2>1 DEF Wired, CachesHold
  <2>3. n # "AddressResolver" /\ r \in Names
    BY ScriptAssumption DEF ScriptInOrder, ContractsInOrder
  <2>4. <<targets[n], r>> \notin DOMAIN SetsOf(i)
    BY <1>1, <1>4, <2>3 DEF Fits, SetsOf
  <2> QED
    BY <1>2, <2>2, <2>4
<1>9. ListedHold'
  <2>1. SUFFICES ASSUME NEW key \in Keys
                 PROVE  Held(slots', TargetOf("Issuer"), key) = TargetOf(Pynths[key])
    BY <1>1, <1>5 DEF ListedHold, TargetOf, Keys
  <2> DEFINE x == <<TargetOf("Issuer"), key>>
  <2>2. Held(slots, TargetOf("Issuer"), key) = TargetOf(Pynths[key])
    BY <1>5 DEF Wired, ListedHold, Keys
  <2>3. ASSUME x \in DOMAIN SetsOf(i) PROVE FALSE
    <3>1. x[1] = TargetOf("Issuer") /\ x[2] = key
      OBVIOUS
    <3> HIDE DEF x
    <3>2. CASE SetsOf(i)[x] = None
      BY <2>1, <2>2, <2>3, <3>1, <3>2 DEF OwnInv, PendingRemoves
    <3>3. CASE actions[i].write.method = "addPynths" /\ SetsOf(i)[x] \in Of(Pynths[key])
      <4>1. TargetOf(Pynths[key]) # None
        BY <3>3, OfRank DEF TargetOf
      <4>2. Slot(x[1], x[2]) # None
        BY <1>5, <2>2, <3>1, <4>1
      <4> QED
        BY <1>0, <2>3, <3>3, <4>2 DEF Reverts, SetsOf
    <3> QED
      BY <1>1, <2>3, <3>1, <3>2, <3>3 DEF Fits, SetsOf
  <2> QED
    BY <1>2, <2>2, <2>3
<1> QED
  BY <1>6, <1>7, <1>8, <1>9 DEF Wired

-----------------------------------------------------------------------------
(* What is left to the owner, at each step.                                *)

\* A step that neither writes nor stages.
LEMMA SameOwn ==
    ASSUME Inv, OwnInv, handedOver \subseteq handedOver',
           UNCHANGED <<slots, actions, targets, recorded>>
    PROVE  OwnInv'
  BY MoreOwn

\* A write that fits is kept in order, whether it is sent or staged.
LEMMA InvokeOwn ==
    ASSUME Inv, NetInv, OwnInv, NEW w, Fits(w), Current(w), Removes(w), Invoke(w),
           UNCHANGED <<targets, recorded, handedOver>>
    PROVE  OwnInv'
<1>1. CASE w.target \in handedOver
  BY <1>1, StageOwn DEF Invoke
<1>2. CASE w.target \notin handedOver
  BY <1>2, CallOwn DEF Invoke, Fits
<1> QED
  BY <1>1, <1>2

\* A write to fields that are no wires fits, and removes nothing.
LEMMA PlainFits ==
    ASSUME NEW w, \A x \in DOMAIN w.sets : x[2] \notin LinkFields \cup Names \cup Keys
    PROVE  Fits(w) /\ Removes(w)
<1>1. \A x \in DOMAIN w.sets : \A n : ~Leads(x, n)
  BY LeadsApart
<1> QED
  BY <1>1 DEF Fits, Removes

\* A run knows a contract by the address of deployment.json, or not at all.
LEMMA ValueCurrent ==
    ASSUME Inv, NetInv, NEW ref
    PROVE  /\ AddressOf(ref) = None \/ \E n \in DOMAIN targets : AddressOf(ref) = targets[n]
           /\ ValueOf(ref) \in NoAddresses \/ \E n \in DOMAIN targets : ValueOf(ref) = targets[n]
<1>1. AddressOf(ref) = None \/ \E n \in DOMAIN targets : AddressOf(ref) = targets[n]
  BY DEF AddressOf, NetInv, DeployedInv
<1> QED
  BY <1>1 DEF ValueOf, NoAddresses

\* A contract that has just been recorded was known to nothing before.
LEMMA RecordOwn == Inv /\ NetInv /\ OwnInv /\ RecordDeployment => OwnInv'
<1> SUFFICES ASSUME Inv, NetInv, OwnInv, RecordDeployment PROVE OwnInv'
  OBVIOUS
<1>1. /\ stage = "sent" /\ UNCHANGED <<slots, actions, handedOver>>
      /\ recorded' = recorded \cup {sent}
      /\ targets' = Put(targets, Step.name, sent)
  BY DEF RecordDeployment, chainVars
<1>2. sent \in chain /\ sent \notin NoAddresses
  BY <1>1 DEF Inv, FilesInv, ValuesInv
<1>3. sent \notin recorded
  <2>1. Rank(sent) \in Nat
    BY <1>2 DEF NetInv, ChainInv
  <2>2. ~(Rank(sent) < Rank(sent))
    BY <2>1
  <2> QED
    BY <1>1, <2>2 DEF NetInv, ChainInv
<1>4. sent \notin Values
  BY <1>2, <1>3 DEF Values
<1>5. /\ DOMAIN targets \subseteq DOMAIN targets'
      /\ \A n \in DOMAIN targets' :
             (n \in DOMAIN targets /\ targets'[n] = targets[n]) \/ targets'[n] = sent
  BY ONLY <1>1 DEF Put, Over, Single
<1>6. recorded' \cap Values \subseteq recorded
  BY <1>1, <1>4
<1> QED
  BY <1>1, <1>4, <1>5, <1>6, MoreOwn

\* The slots of a new contract lead where they should, and nobody else has it.
LEMMA SendOwn == Inv /\ NetInv /\ OwnInv /\ SendDeployment => OwnInv'
<1> SUFFICES ASSUME Inv, NetInv, OwnInv, SendDeployment PROVE OwnInv'
  OBVIOUS
<1> PICK k \in 1..MaxInstances :
         /\ <<Step.name, k>> \notin chain
         /\ slots' = Over(slots, Constructed(<<Step.name, k>>, Step))
  BY DEF SendDeployment
<1> DEFINE g == Constructed(<<Step.name, k>>, Step)
<1>1. /\ pc \in Deploys /\ UNCHANGED <<actions, targets, recorded, handedOver>>
      /\ \A f \in DOMAIN Step.ctor : Step.ctor[f] \in DOMAIN deployed
  BY DEF SendDeployment, At, Deploys, Step, fileVars
<1>2. <<Step.name, k>> \notin handedOver
  BY DEF NetInv, ChainInv, Inv, FilesInv
<1>3. \A x \in DOMAIN g :
          /\ x[1] = <<Step.name, k>>
          /\ x[2] = "supply" \/ (x[2] \in DOMAIN Step.ctor
                                 /\ (x[2] # "supply" => g[x] = AddressOf(Step.ctor[x[2]])))
  BY DEF Constructed, Put, Over, Single
<1>4. DOMAIN Step.ctor \cap (Names \cup Keys) = {}
  BY <1>1, ScriptAssumption DEF ScriptInOrder, FieldsApart, Step
<1>5. ASSUME NEW x \in DOMAIN g, NEW n, Leads(x, n) PROVE g[x] \in Of(n) \cup {None}
  <2>1. x[2] # "supply" /\ x[2] \in DOMAIN Step.ctor /\ x[2] \notin Names
    BY <1>3, <1>4, <1>5, LeadsApart, PlainFields
  <2>2. PICK i \in Links : NameOf(x[1]) = Script[i].at /\ x[2] = Script[i].field
                           /\ n = Script[i].to
    BY <1>5, <2>1 DEF Leads
  <2>3. Script[i].at = Step.name
    BY <1>3, <2>2 DEF NameOf
  <2>4. Step.ctor[x[2]] = n
    BY <1>1, <2>1, <2>2, <2>3, ScriptAssumption DEF ScriptInOrder, FieldsApart, Step
  <2>5. g[x] = AddressOf(n) /\ n \in DOMAIN deployed
    BY <1>1, <1>3, <2>1, <2>4
  <2> QED
    BY <2>5, DeployedKnown DEF Of
<1>6. \A x \in DOMAIN g : x[2] \notin Keys
  BY <1>3, <1>4, PlainFields
<1> HIDE DEF g
<1> QED
  BY <1>1, <1>2, <1>3, <1>5, <1>6, CallOwn DEF g

\* A step that sets a slot.
LEMMA SetFits ==
    ASSUME Inv, NetInv, SetStep
    PROVE  Fits(SetWrite(Step)) /\ Current(SetWrite(Step)) /\ Removes(SetWrite(Step))
<1> DEFINE w == SetWrite(Step)
<1>0. /\ At("set") /\ Advance /\ Step.on \in DOMAIN deployed /\ ~Passed(Step) /\ Invoke(w)
      /\ UNCHANGED <<targets, recorded, handedOver>> /\ Step = Script[pc]
  BY DEF SetStep, Step
<1>1. /\ ~Idle /\ pc \in 1..Len(Script) /\ Len(Script) \in Nat /\ pc \in Sets
      /\ pc \notin Deploys /\ pc + 1 \in pc..(Len(Script) + 1)
      /\ \A j \in pc..((pc + 1) - 1) : j = pc
  BY <1>0, ScriptSteps DEF At, Step, Sets, Deploys, Idle
<1>2. /\ Step.field \notin Names \cup Keys
      /\ IF Step.via THEN Step.field \notin LinkFields ELSE Step.at = Step.on
  BY <1>0, <1>1, ScriptAssumption DEF ScriptInOrder, FieldsApart
<1>3. /\ w.target = deployed[Step.on]
      /\ \A x \in DOMAIN w.sets : x = <<Holder(Step), Step.field>>
                                  /\ w.sets[x] = ValueOf(Step.to)
  BY DEF SetWrite, Write, Single
<1>4. ASSUME NEW x \in DOMAIN w.sets, NEW n, Leads(x, n)
      PROVE  x[1] = w.target /\ w.sets[x] \in Of(n)
  <2>1. PICK i \in Links : NameOf(Holder(Step)) = Script[i].at /\ Step.field = Script[i].field
                           /\ n = Script[i].to
    BY <1>2, <1>3, <1>4 DEF Leads
  <2>2. ~Step.via /\ Step.at = Step.on
    BY <1>2, <2>1 DEF LinkFields
  <2>3. Holder(Step) = deployed[Step.on] /\ NameOf(deployed[Step.on]) = Step.at
    BY <1>0, <2>2, DeployedKnown DEF Holder
  <2>4. \A m \in Links, j \in Sets :
            (Script[m].field = Script[j].field /\ Script[m].at = Script[j].at) => m = j
    BY ScriptAssumption DEF ScriptInOrder, FieldsApart
  <2>5. i = pc
    BY <1>0, <1>1, <2>1, <2>3, <2>4
  <2>6. Step.given \subseteq DOMAIN deployed
    BY <1>0 DEF Passed, Relevant, At
  <2>7. n \in DOMAIN deployed
    <3>1. pc < pc + 1
      BY <1>1
    <3> QED
      BY <1>0, <1>1, <2>1, <2>5, <2>6, <3>1, LinkTo
  <2>8. ValueOf(Step.to) = deployed[n] /\ deployed[n] \in Of(n)
    BY <1>0, <2>1, <2>5, <2>7, WireFields, DeployedKnown DEF ValueOf, Of
  <2> QED
    BY <1>3, <2>3, <2>8
<1>5. Fits(w)
  BY <1>2, <1>3, <1>4 DEF Fits
<1>6. Current(w)
  BY <1>3, ValueCurrent DEF Current
<1>7. Removes(w)
  BY <1>2, <1>3 DEF Removes
<1> QED
  BY <1>5, <1>6, <1>7

\* It wires as the script says.
LEMMA SetOwn == Inv /\ NetInv /\ OwnInv /\ SetStep => OwnInv'
<1> SUFFICES ASSUME Inv, NetInv, OwnInv, SetStep PROVE OwnInv'
  OBVIOUS
<1>1. Invoke(SetWrite(Step)) /\ UNCHANGED <<targets, recorded, handedOver>>
  BY DEF SetStep
<1> QED
  BY <1>1, SetFits, InvokeOwn

\* Supplies and histories.
LEMMA PlainOwn ==
    ASSUME Inv, NetInv, OwnInv, ImportFeePeriods \/ RetirePynth
    PROVE  OwnInv'
<1>1. CASE ImportFeePeriods
  <2>1. \A x \in DOMAIN PeriodsWrite.sets : x[2] = "periods"
    BY DEF PeriodsWrite, Write, Single
  <2>2. Fits(PeriodsWrite) /\ Removes(PeriodsWrite) /\ Current(PeriodsWrite)
    BY <2>1, PlainFits, PlainFields DEF Current
  <2>3. UNCHANGED <<targets, recorded, handedOver>> /\ (Invoke(PeriodsWrite) \/ NothingToDo)
    BY <1>1 DEF ImportFeePeriods
  <2> QED
    BY <2>2, <2>3, InvokeOwn, SameOwn DEF NothingToDo
<1>2. CASE RetirePynth
  <2>1. \A x \in DOMAIN RetireWrite.sets : x[2] = "supply" /\ RetireWrite.sets[x] = None
    BY DEF RetireWrite, Write, Single
  <2>2. Fits(RetireWrite) /\ Removes(RetireWrite) /\ Current(RetireWrite)
    BY <2>1, PlainFits, PlainFields DEF Current, NoAddresses
  <2>3. UNCHANGED <<targets, recorded, handedOver>> /\ (Invoke(RetireWrite) \/ NothingToDo)
    BY <1>2 DEF RetirePynth
  <2> QED
    BY <2>2, <2>3, InvokeOwn, SameOwn DEF NothingToDo
<1> QED
  BY <1>1, <1>2

\* The names that the resolver is to import.
LEMMA ImportFits ==
    ASSUME Inv, NetInv, ImportAddresses
    PROVE  /\ Fits(ImportWrite) /\ Current(ImportWrite) /\ Removes(ImportWrite)
           /\ ImportWrite.target = Resolver /\ Resolver # None
           /\ \A x \in DOMAIN ImportWrite.sets : x[1] = Resolver /\ x[2] \in Names
<1>0. At("import")
  BY DEF ImportAddresses
<1>1. "AddressResolver" \in DOMAIN deployed
  BY <1>0, PastDeploys, CertainDeployed DEF Core, At, Step
<1>2. NameOf(Resolver) = "AddressResolver"
  BY <1>1, DeployedKnown DEF Resolver
<1>3. DOMAIN deployed \subseteq Names /\ Unimported \subseteq DOMAIN deployed
  BY DEF NetInv, DeployedInv, ListInv, Unimported
<1>4. /\ ImportWrite.target = Resolver
      /\ \A x \in DOMAIN ImportWrite.sets :
             /\ x = <<Resolver, x[2]>> /\ x[2] \in DOMAIN deployed /\ x[2] \in Names
             /\ ImportWrite.sets[x] = deployed[x[2]]
  BY <1>3 DEF ImportWrite, Write
<1>5. ASSUME NEW x \in DOMAIN ImportWrite.sets, NEW n, Leads(x, n) PROVE n = x[2]
  BY <1>4, <1>5, WireFields DEF Leads
<1>6. Fits(ImportWrite)
  <2>1. ASSUME NEW x \in DOMAIN ImportWrite.sets
        PROVE  x[1] = Resolver /\ x[2] \notin Keys /\ ImportWrite.sets[x] \in Of(x[2])
    BY <1>4, WireFields, DeployedKnown DEF Of
  <2> QED
    BY <1>2, <1>4, <1>5, <2>1 DEF Fits
<1>7. Current(ImportWrite)
  BY <1>4 DEF Current, NetInv, DeployedInv
<1>8. Removes(ImportWrite)
  BY <1>4, WireFields DEF Removes
<1>9. Resolver # None
  BY <1>1, DeployedKnown DEF Resolver
<1> QED
  BY <1>4, <1>6, <1>7, <1>8, <1>9

\* It is given them, or they are left to the owner.
LEMMA ImportOwn == Inv /\ NetInv /\ OwnInv /\ ImportAddresses => OwnInv'
<1> SUFFICES ASSUME Inv, NetInv, OwnInv, ImportAddresses PROVE OwnInv'
  OBVIOUS
<1>0. UNCHANGED <<targets, handedOver, recorded>>
  BY DEF ImportAddresses, EndWith
<1>1. CASE Resolver \in handedOver /\ Unimported # {}
  <2>1. actions' = Staged(ImportWrite) /\ UNCHANGED slots
    BY <1>1 DEF ImportAddresses
  <2> QED
    BY <1>0, <1>1, <2>1, ImportFits, StageOwn
<1>2. CASE Unimported = {}
  <2>1. UNCHANGED <<actions, slots>>
    BY <1>2 DEF ImportAddresses
  <2> QED
    BY <1>0, <2>1, SameOwn
<1>3. CASE Resolver \notin handedOver /\ Unimported # {}
  <2>1. UNCHANGED actions /\ slots' = Over(slots, ImportWrite.sets)
    BY <1>3 DEF ImportAddresses
  <2> QED
    BY <1>0, <1>3, <2>1, ImportFits, CallOwn DEF Fits
<1> QED
  BY <1>1, <1>2, <1>3

\* Caches are no names of a resolver.
LEMMA RebuildWrites ==
    ASSUME Inv, NetInv, RebuildCaches
    PROVE  \E g : /\ slots' = Over(slots, g)
                  /\ \A x \in DOMAIN g : /\ x[1] # None /\ x[2] \in Names \ Keys
                                          /\ g[x] = Resolved(x[2])
                                          /\ \A n : ~Leads(x, n)
<1> DEFINE S == UNION {{<<deployed[n], r>> : r \in Required[n]} : n \in ToRebuild}
           g == [x \in S |-> Resolved(x[2])]
<1>0. slots' = Over(slots, g)
  BY DEF RebuildCaches
<1>1. ASSUME NEW x \in DOMAIN g
      PROVE  /\ NameOf(x[1]) # "AddressResolver" /\ x[1] # None /\ x[2] \in Names
             /\ g[x] = Resolved(x[2])
  <2>1. PICK n \in ToRebuild : \E r \in Required[n] : x = <<deployed[n], r>>
    OBVIOUS
  <2>2. n \in DOMAIN Required \cap DOMAIN deployed
    BY <2>1 DEF ToRebuild
  <2>3. n # "AddressResolver" /\ Required[n] \subseteq Names
    BY <2>2, ScriptAssumption DEF ScriptInOrder, ContractsInOrder
  <2> QED
    BY <2>1, <2>2, <2>3, DeployedKnown
<1> HIDE DEF g
<1>2. \A x \in DOMAIN g : x[2] \notin Keys /\ \A n : ~Leads(x, n)
  BY <1>1, WireFields DEF Leads
<1> QED
  BY <1>0, <1>1, <1>2

\* So nothing of what waits is undone.
LEMMA RebuildOwn == Inv /\ NetInv /\ OwnInv /\ RebuildCaches => OwnInv'
<1> SUFFICES ASSUME Inv, NetInv, OwnInv, RebuildCaches PROVE OwnInv'
  OBVIOUS
<1>1. UNCHANGED <<actions, targets, recorded, handedOver>>
  BY DEF RebuildCaches, fileVars
<1>2. PICK g : /\ slots' = Over(slots, g)
               /\ \A x \in DOMAIN g : x[2] \notin Keys /\ \A n : ~Leads(x, n)
  BY RebuildWrites
<1> QED
  BY <1>1, <1>2, CallOwn

\* Users and governance write supplies and settings.
LEMMA TuneWrites ==
    ASSUME TuneSetting \/ IssuePynths
    PROVE  \E g : slots' = Over(slots, g) /\ \A x \in DOMAIN g : x[2] \in Plainly
<1>1. CASE TuneSetting
  <2>1. PICK f \in Settings : slots' = Put(slots, <<Slot(MaySet, "FlexibleStorage"), f>>, Tuned)
    BY <1>1 DEF TuneSetting
  <2>2. slots' = Over(slots, Single(<<Slot(MaySet, "FlexibleStorage"), f>>, Tuned))
    BY <2>1 DEF Put
  <2>3. \A x \in DOMAIN Single(<<Slot(MaySet, "FlexibleStorage"), f>>, Tuned) : x[2] \in Plainly
    BY PlainFields DEF Single
  <2> QED
    BY <2>2, <2>3
<1>2. CASE IssuePynths
  <2>1. \E P : slots' = Over(slots, [x \in {<<p, "supply">> : p \in P} |-> Some])
    BY <1>2 DEF IssuePynths
  <2>2. \A P : \A x \in DOMAIN [x \in {<<p, "supply">> : p \in P} |-> Some] : x[2] \in Plainly
    BY PlainFields
  <2> QED
    BY <2>1, <2>2
<1> QED
  BY <1>1, <1>2

\* They are no wires.
LEMMA TuneOwn == OwnInv /\ (TuneSetting \/ IssuePynths) => OwnInv'
<1> SUFFICES ASSUME OwnInv, TuneSetting \/ IssuePynths PROVE OwnInv'
  OBVIOUS
<1>1. UNCHANGED <<actions, targets, recorded, handedOver>>
  BY DEF TuneSetting, IssuePynths, fileVars
<1>3. PICK g : slots' = Over(slots, g) /\ \A x \in DOMAIN g : x[2] \in Plainly
  BY TuneWrites
<1>4. \A x \in DOMAIN g : x[2] \notin Keys /\ \A n : ~Leads(x, n)
  BY <1>3, LeadsApart, PlainFields
<1> QED
  BY <1>1, <1>3, <1>4, CallOwn

-----------------------------------------------------------------------------
(* Pynths that are replaced.                                               *)

\* What is staged has no new values in the fields of pynths.
NoneAdded == \A i \in DOMAIN actions' : \A x \in DOMAIN SetsOf(i)' : x[2] \in Keys =>
    \/ SetsOf(i)'[x] = None
    \/ \E j \in DOMAIN actions : \E y \in DOMAIN SetsOf(j) :
           y[2] \in Keys /\ SetsOf(j)[y] = SetsOf(i)'[x]

\* So it is when a write adds no pynth.
LEMMA StageNone ==
    ASSUME Inv, NEW w, \A x \in DOMAIN w.sets : x[2] \in Keys => w.sets[x] = None,
           actions' = Staged(w) \/ UNCHANGED actions
    PROVE  NoneAdded
<1>1. IsSequence(actions)
  BY DEF Inv, ActionsInv
<1>2. \A i \in DOMAIN actions' :
          (i \in DOMAIN actions /\ actions'[i] = actions[i]) \/ actions'[i].write = w
  BY <1>1, StagedAt
<1> QED
  BY <1>2 DEF NoneAdded, SetsOf

\* The run goes on, and what it is past stays so.
LEMMA StillDone ==
    ASSUME NetInv, ~Idle, pc' \in pc..(Len(Script) + 1)
    PROVE  (\A op : Done(op) => Done(op)') /\ ~Idle'
<1>1. pc \in Nat /\ pc' \in Nat /\ pc >= 1 /\ pc' >= pc
  BY ScriptSteps DEF NetInv, ListInv, Idle
<1>2. \A i \in 1..(pc - 1) : i \in 1..(pc' - 1)
  BY <1>1, LongerRange
<1>3. \A op : Done(op) => Done(op)'
  BY <1>2 DEF Done
<1> QED
  BY <1>1, <1>3 DEF Idle

\* Old pynths stay fresh when none is added.
LEMMA FreshKept ==
    ASSUME Inv, NetInv, FreshInv, ~Idle, pc' \in pc..(Len(Script) + 1),
           UNCHANGED <<old, flags, deployed>>, NoneAdded
    PROVE  FreshInv'
<1>1. (Done("add") => Done("add")') /\ ~Idle'
  BY StillDone
<1>2. \A key \in DOMAIN old' : key \in Keys /\ Flagged(Pynths[key])'
  BY DEF FreshInv, Flagged
<1>3. ASSUME ~Done("add"), NEW key \in DOMAIN old, Pynths[key] \in DOMAIN deployed,
             NEW i \in DOMAIN actions', NEW x \in DOMAIN SetsOf(i)', x[2] \in Keys
      PROVE  SetsOf(i)'[x] # PynthOf(key)
  <2>1. PynthOf(key) # None
    BY <1>3, DeployedKnown DEF PynthOf
  <2> QED
    BY <1>3, <2>1 DEF NoneAdded, FreshInv
<1>4. \A key : PynthOf(key)' = PynthOf(key)
  BY DEF PynthOf, AddressOf
<1> QED
  BY <1>1, <1>2, <1>3, <1>4 DEF FreshInv

\* A run that ends, or has not begun, has none.
LEMMA FreshNone ==
    ASSUME DOMAIN old' = {}
    PROVE  FreshInv'
  BY DEF FreshInv

\* A contract that is deployed is new, and one that is reused was not flagged.
LEMMA FreshDeployed ==
    ASSUME Inv, NetInv, FreshInv, RecordDeployment \/ ReuseContract
    PROVE  FreshInv'
<1>0. /\ pc \in Deploys /\ ~Idle /\ pc' \in pc..(Len(Script) + 1)
      /\ UNCHANGED <<old, flags, actions>>
  <2>1. pc \in Deploys /\ pc' \in {pc, pc + 1} /\ UNCHANGED <<old, flags, actions>>
    BY DEF NetInv, ListInv, RecordDeployment, ReuseContract, At, Deploys, Step, Advance, fileVars
  <2> QED
    BY <2>1, ScriptSteps DEF Idle
<1>1. Step.name \notin DOMAIN deployed
  BY <1>0, NotYetDeployed DEF RecordDeployment, ReuseContract, At
<1>2. PICK v : /\ deployed' = Put(deployed, Step.name, v)
               /\ RecordDeployment => v = sent
               /\ ReuseContract => v = targets[Step.name]
  BY DEF RecordDeployment, ReuseContract, At
<1>3. /\ DOMAIN deployed' = DOMAIN deployed \cup {Step.name} /\ deployed'[Step.name] = v
      /\ \A n \in DOMAIN deployed : n # Step.name => deployed'[n] = deployed[n]
  BY ONLY <1>2 DEF Put, Over, Single
<1>4. (Done("add") => Done("add")') /\ ~Idle'
  BY <1>0, StillDone
<1>5. ASSUME ~Done("add"), NEW key \in DOMAIN old, Pynths[key] \in DOMAIN deployed',
             NEW i \in DOMAIN actions, NEW x \in DOMAIN SetsOf(i), x[2] \in Keys
      PROVE  SetsOf(i)[x] # PynthOf(key)'
  <2>1. PynthOf(key)' = deployed'[Pynths[key]]
    BY <1>5 DEF PynthOf, AddressOf
  <2>2. CASE Pynths[key] \in DOMAIN deployed
    <3>1. PynthOf(key)' = PynthOf(key)
      BY <1>1, <1>3, <2>1, <2>2 DEF PynthOf, AddressOf
    <3> QED
      BY <1>5, <2>2, <3>1 DEF FreshInv
  <2>3. CASE Pynths[key] = Step.name /\ RecordDeployment
    <3>1. sent \notin Values
      <4>1. stage = "sent"
        BY <2>3 DEF RecordDeployment
      <4>2. sent \in chain /\ sent \notin NoAddresses
        BY <4>1 DEF Inv, FilesInv, ValuesInv
      <4>3. sent \notin recorded
        <5>1. ~(Rank(sent) < Rank(sent))
          BY <4>2 DEF NetInv, ChainInv
        <5> QED
          BY <4>1, <5>1 DEF NetInv, ChainInv
      <4> QED
        BY <4>2, <4>3 DEF Values
    <3>2. SetsOf(i)[x] \in Values
      BY DEF Inv, ActionsInv, Within, SetsOf
    <3> QED
      BY <1>2, <1>3, <2>1, <2>3, <3>1, <3>2
  <2>4. CASE Pynths[key] = Step.name /\ ReuseContract
    <3>1. Flagged(Step.name)
      BY <2>4 DEF FreshInv
    <3> QED
      BY <2>4, <3>1 DEF ReuseContract, ToDeploy, Flagged
  <2> QED
    BY <1>3, <1>5, <2>2, <2>3, <2>4
<1>6. \A i : SetsOf(i)' = SetsOf(i)
  BY <1>0 DEF SetsOf
<1>7. \A key \in DOMAIN old' : key \in Keys /\ Flagged(Pynths[key])'
  BY <1>0 DEF FreshInv, Flagged
<1> QED
  BY <1>0, <1>4, <1>5, <1>6, <1>7 DEF FreshInv

\* A pynth is recalled before its contract is deployed.
LEMMA RecallFirst ==
    ASSUME NetInv, At("recall")
    PROVE  /\ Step.key \in Keys /\ Pynths[Step.key] \notin DOMAIN deployed
           /\ ~Done("sort") /\ ~Done("add")
<1>0. pc \in 1..Len(Script) /\ Len(Script) \in Nat /\ Script[pc].op = "recall"
      /\ Step = Script[pc] /\ pc \in DOMAIN Script
  BY ScriptSteps DEF At, Step
<1>1. Step.key \in Keys
  BY <1>0, ScriptAssumption DEF ScriptInOrder, PynthsInOrder
<1>2. \A j \in Deploys : Script[j].name = Pynths[Step.key] => pc < j
  BY <1>0, <1>1, ScriptAssumption DEF ScriptInOrder, PynthsInOrder
<1>3. PICK j \in Deploys : Script[j].name = Pynths[Step.key] /\ pc < j
  <2>1. Pynths[Step.key] \in Names
    BY <1>1, ScriptAssumption DEF ScriptInOrder, PynthsInOrder, FirstOf
  <2> QED
    BY <1>2, <2>1, StepOfName
<1>4. ~(j < pc) /\ j # pc
  BY <1>0, <1>3, ScriptSteps
<1>5. Pynths[Step.key] \notin DOMAIN deployed
  BY <1>3, <1>4 DEF NetInv, DeployedInv
<1>6. ~Done("sort") /\ ~Done("add")
  BY <1>4, PastDeploys
<1> QED
  BY <1>1, <1>5, <1>6

\* What is recalled is flagged.
LEMMA FreshRecalled == Inv /\ NetInv /\ FreshInv /\ RecallPynth => FreshInv'
<1> SUFFICES ASSUME Inv, NetInv, FreshInv, RecallPynth PROVE FreshInv'
  OBVIOUS
<1>0. /\ At("recall") /\ Advance /\ UNCHANGED <<flags, deployed, actions>>
      /\ \/ old' = old
         \/ Flagged(Pynths[Step.key]) /\ \E v : old' = Put(old, Step.key, v)
  BY DEF RecallPynth, fileVars
<1>1. ~Idle /\ pc' \in pc..(Len(Script) + 1)
  BY <1>0, AdvanceSkips
<1>2. (Done("add") => Done("add")') /\ ~Idle'
  BY <1>1, StillDone
<1>3. Step.key \in Keys /\ Pynths[Step.key] \notin DOMAIN deployed
  BY <1>0, RecallFirst
<1>4. \A key \in DOMAIN old' : key \in DOMAIN old \/ (key = Step.key /\ Flagged(Pynths[key]))
  <2>1. \A v : DOMAIN Put(old, Step.key, v) = DOMAIN old \cup {Step.key}
    BY DEF Put, Over, Single
  <2> QED
    BY <1>0, <2>1
<1>5. \A n : Flagged(n)' <=> Flagged(n)
  BY <1>0 DEF Flagged
<1>6. \A key : PynthOf(key)' = PynthOf(key)
  BY <1>0 DEF PynthOf, AddressOf
<1>7. \A i : SetsOf(i)' = SetsOf(i)
  BY <1>0 DEF SetsOf
<1> QED
  BY <1>0, <1>2, <1>3, <1>4, <1>5, <1>6, <1>7 DEF FreshInv

\* Nothing is replaced before the pynths are sorted.
LEMMA ReplacingNone ==
    ASSUME replacing' = {}
    PROVE  ReplacingInv'
  BY DEF ReplacingInv

\* What is replaced stays unlisted while the lists of the issuer are the same.
LEMMA ReplacingKept ==
    ASSUME Inv, NetInv, FreshInv, ReplacingInv, ~Idle, pc' \in pc..(Len(Script) + 1),
           UNCHANGED <<old, deployed, replacing>>, SameFields(Keys)
    PROVE  ReplacingInv'
<1>1. CASE ~Done("sort")
  BY <1>1, ReplacingNone DEF ReplacingInv
<1>2. CASE Done("sort")
  <2>1. Done("sort")' /\ (Done("add") => Done("add")')
    BY <1>2, StillDone
  <2>2. Issuer \in recorded
    BY <1>2, PynthsThere
  <2>3. ASSUME NEW key \in Keys PROVE Lists(key)' <=> Lists(key)
    <3>1. Held(slots', Issuer, key) = Held(slots, Issuer, key)
      BY <2>2 DEF SameFields
    <3> QED
      BY <3>1 DEF Lists, Issuer, PynthOf, AddressOf
  <2> QED
    BY <2>1, <2>3 DEF ReplacingInv, FreshInv
<1> QED
  BY <1>1, <1>2

\* Steps that change no pynth of the issuer.
LEMMA PlainReplacing ==
    ASSUME Inv, NetInv, FreshInv, ReplacingInv,
           \/ PassOver \/ SendDeployment \/ RecordConfig \/ SetStep \/ ImportFeePeriods
           \/ RebuildCaches \/ QueuePynth \/ RetirePynth \/ (ImportAddresses /\ pc' = pc + 1)
    PROVE  FreshInv' /\ ReplacingInv'
<1>1. CASE PassOver
  <2>1. /\ pc \in 1..Len(Script) /\ Len(Script) \in Nat /\ ~Idle
        /\ UNCHANGED <<slots, actions, old, flags, deployed, replacing>>
    BY <1>1, ScriptSteps DEF PassOver, chainVars, fileVars, Idle
  <2>2. pc' \in pc..(Len(Script) + 1)
    BY <1>1, <2>1 DEF PassOver
  <2>3. SameFields(Keys) /\ NoneAdded
    BY <2>1 DEF SameFields, NoneAdded, SetsOf
  <2> QED
    BY <2>1, <2>2, <2>3, FreshKept, ReplacingKept
<1>2. CASE SendDeployment
  <2>1. pc \in 1..Len(Script) /\ Len(Script) \in Nat /\ ~Idle /\ pc' \in pc..(Len(Script) + 1)
        /\ UNCHANGED <<actions, old, flags, deployed, replacing>> /\ pc \in Deploys
    BY <1>2, ScriptSteps DEF SendDeployment, At, Idle, fileVars, Deploys, Step
  <2>2. ~Done("sort")
    <3>1. ~(pc < pc)
      BY <2>1
    <3> QED
      BY <2>1, <3>1, PastDeploys
  <2>3. replacing' = {} /\ NoneAdded
    BY <2>1, <2>2 DEF ReplacingInv, NoneAdded, SetsOf
  <2> QED
    BY <2>1, <2>3, FreshKept, ReplacingNone
<1>3. CASE RecordConfig
  <2>1. pc \in Deploys /\ pc' = pc + 1
        /\ UNCHANGED <<slots, actions, old, flags, deployed, replacing>>
    BY <1>3 DEF NetInv, ListInv, RecordConfig, Advance, chainVars
  <2>2. ~Idle /\ pc' \in pc..(Len(Script) + 1)
    BY <2>1, ScriptSteps DEF Idle
  <2>3. SameFields(Keys) /\ NoneAdded
    BY <2>1 DEF SameFields, NoneAdded, SetsOf
  <2> QED
    BY <2>1, <2>2, <2>3, FreshKept, ReplacingKept
<1>4. ASSUME NEW op, At(op), Advance, UNCHANGED <<old, flags, deployed, replacing>>,
             NEW w, Invoke(w) \/ NothingToDo, \A x \in DOMAIN w.sets : x[2] \notin Keys
      PROVE  FreshInv' /\ ReplacingInv'
  <2>1. ~Idle /\ pc' \in pc..(Len(Script) + 1)
    BY <1>4, AdvanceSkips
  <2>2. SameFields(Keys)
    BY <1>4, InvokeSame
  <2>3. NoneAdded
    BY <1>4, StageNone DEF Invoke, NothingToDo
  <2> QED
    BY <1>4, <2>1, <2>2, <2>3, FreshKept, ReplacingKept
<1>5. CASE SetStep
  <2>1. At("set") /\ Advance /\ UNCHANGED <<old, flags, deployed, replacing>>
        /\ Invoke(SetWrite(Step)) /\ pc \in Sets /\ Step = Script[pc]
    BY <1>5 DEF SetStep, At, Sets, Step
  <2>2. Step.field \notin Keys
    BY <2>1, ScriptAssumption DEF ScriptInOrder, FieldsApart
  <2>3. \A x \in DOMAIN SetWrite(Step).sets : x[2] \notin Keys
    BY <2>2 DEF SetWrite, Write, Single
  <2> QED
    BY <1>4, <2>1, <2>3
<1>6. CASE ImportFeePeriods
  <2>1. At("periods") /\ Advance /\ UNCHANGED <<old, flags, deployed, replacing>>
        /\ (Invoke(PeriodsWrite) \/ NothingToDo)
    BY <1>6 DEF ImportFeePeriods
  <2>2. \A x \in DOMAIN PeriodsWrite.sets : x[2] \notin Keys
    BY PlainFields DEF PeriodsWrite, Write, Single
  <2> QED
    BY <1>4, <2>1, <2>2
<1>7. CASE RetirePynth
  <2>1. At("retire") /\ Advance /\ UNCHANGED <<old, flags, deployed, replacing>>
        /\ (Invoke(RetireWrite) \/ NothingToDo)
    BY <1>7 DEF RetirePynth
  <2>2. \A x \in DOMAIN RetireWrite.sets : x[2] \notin Keys
    BY PlainFields DEF RetireWrite, Write, Single
  <2> QED
    BY <1>4, <2>1, <2>2
<1>8. ASSUME NEW op, At(op), Advance,
             UNCHANGED <<actions, old, flags, deployed, replacing>>, SameFields(Keys)
      PROVE  FreshInv' /\ ReplacingInv'
  <2>1. ~Idle /\ pc' \in pc..(Len(Script) + 1)
    BY <1>8, AdvanceSkips
  <2>2. NoneAdded
    BY <1>8 DEF NoneAdded, SetsOf
  <2> QED
    BY <1>8, <2>1, <2>2, FreshKept, ReplacingKept
<1>9. CASE QueuePynth
  <2>1. At("queue") /\ Advance /\ UNCHANGED <<slots, actions, old, flags, deployed, replacing>>
    BY <1>9 DEF QueuePynth, chainVars, fileVars
  <2> QED
    BY <1>8, <2>1 DEF SameFields
<1>10. CASE RebuildCaches
  <2> DEFINE S == UNION {{<<deployed[n], r>> : r \in Required[n]} : n \in ToRebuild}
             g == [x \in S |-> Resolved(x[2])]
  <2>1. At("rebuild") /\ Advance /\ UNCHANGED <<actions, old, flags, deployed, replacing>>
        /\ slots' = Over(slots, g)
    BY <1>10 DEF RebuildCaches, fileVars
  <2>2. ASSUME NEW x \in DOMAIN g PROVE x[2] \notin Keys
    <3>1. PICK n \in ToRebuild : x[2] \in Required[n]
      OBVIOUS
    <3>2. x[2] \in Names
      BY <3>1, ScriptAssumption DEF ScriptInOrder, ContractsInOrder, ToRebuild
    <3> QED
      BY <3>2, WireFields
  <2> HIDE DEF g
  <2>3. SameFields(Keys)
    <3>1. ASSUME NEW a \in recorded, NEW f \in Keys
          PROVE  Held(slots', a, f) = Held(slots, a, f)
      <4>1. <<a, f>> \notin DOMAIN g
        BY <2>2
      <4> QED
        BY <2>1, <4>1, HeldOver
    <3> QED
      BY <3>1 DEF SameFields
  <2> QED
    BY <1>8, <2>1, <2>3
<1>11. CASE ImportAddresses /\ pc' = pc + 1
  <2>1. At("import") /\ pc' # 0
    BY <1>11, ScriptSteps DEF ImportAddresses, At
  <2>2. /\ Advance /\ UNCHANGED <<actions, old, flags, deployed, replacing>>
        /\ UNCHANGED slots \/ slots' = Over(slots, ImportWrite.sets)
    BY <1>11, <2>1 DEF ImportAddresses, EndWith
  <2>3. SameFields(Keys)
    <3>1. \A x \in DOMAIN ImportWrite.sets : x[2] \in Names
      BY DEF ImportWrite, Write, Unimported, NetInv, DeployedInv, ListInv
    <3>2. ASSUME NEW a \in recorded, NEW f \in Keys
          PROVE  Held(slots', a, f) = Held(slots, a, f)
      <4>1. <<a, f>> \notin DOMAIN ImportWrite.sets
        BY <3>1, WireFields
      <4> QED
        BY <2>2, <4>1, HeldOver
    <3> QED
      BY <3>2 DEF SameFields
  <2> QED
    BY <1>8, <2>1, <2>2, <2>3
<1> QED
  BY <1>1, <1>2, <1>3, <1>5, <1>6, <1>7, <1>9, <1>10, <1>11

\* Steps at the contracts of a pynth come before the pynths are sorted.
LEMMA DeployReplacing ==
    ASSUME Inv, NetInv, FreshInv, ReplacingInv,
           RecordDeployment \/ ReuseContract \/ RecallPynth
    PROVE  FreshInv' /\ ReplacingInv'
<1>1. UNCHANGED replacing
  BY DEF RecordDeployment, ReuseContract, RecallPynth
<1>2. ~Done("sort")
  <2>1. CASE RecallPynth
    BY <2>1, RecallFirst DEF RecallPynth
  <2>2. CASE RecordDeployment \/ ReuseContract
    <3>1. pc \in Deploys
      BY <2>2 DEF NetInv, ListInv, RecordDeployment, ReuseContract, At, Deploys, Step
    <3>2. ~(pc < pc)
      BY <3>1, ScriptSteps
    <3> QED
      BY <3>1, <3>2, PastDeploys
  <2> QED
    BY <2>1, <2>2
<1> QED
  BY <1>1, <1>2, ReplacingNone, FreshDeployed, FreshRecalled DEF ReplacingInv

\* Of the pynths whose contracts are new, those are replaced that had a supply.
LEMMA SortReplacing == Inv /\ NetInv /\ FreshInv /\ SortPynths => FreshInv' /\ ReplacingInv'
<1> SUFFICES ASSUME Inv, NetInv, FreshInv, SortPynths PROVE FreshInv' /\ ReplacingInv'
  OBVIOUS
<1>1. /\ At("sort") /\ Advance /\ UNCHANGED <<slots, actions, old, flags, deployed>>
      /\ \A key \in replacing' : Original(key) # None /\ Slot(Issuer, key) # PynthOf(key)
  BY DEF SortPynths, chainVars, fileVars
<1>2. ~Idle /\ pc' \in pc..(Len(Script) + 1) /\ pc' = pc + 1
  BY <1>1, AdvanceSkips DEF Advance
<1>3. NoneAdded
  BY <1>1 DEF NoneAdded, SetsOf
<1>4. Done("sort")'
  BY <1>1, <1>2, NowDone
<1>5. ASSUME NEW key \in replacing' PROVE key \in DOMAIN old' /\ ~Lists(key)'
  <2>1. key \in DOMAIN old
    BY <1>1 DEF Original
  <2>2. Lists(key)' <=> Lists(key)
    BY <1>1 DEF Lists, Issuer, PynthOf, AddressOf
  <2> QED
    BY <1>1, <2>1, <2>2, SlotHeld DEF Lists
<1> QED
  BY <1>1, <1>2, <1>3, <1>4, <1>5, FreshKept DEF ReplacingInv

\* What is removed is no longer listed.
LEMMA RemoveReplacing ==
    Inv /\ NetInv /\ FreshInv /\ ReplacingInv /\ RemovePynth => FreshInv' /\ ReplacingInv'
<1> SUFFICES ASSUME Inv, NetInv, FreshInv, ReplacingInv, RemovePynth
             PROVE  FreshInv' /\ ReplacingInv'
  OBVIOUS
<1>0. /\ At("remove") /\ Advance /\ UNCHANGED <<old, flags, deployed, replacing>>
      /\ Invoke(RemoveWrite) \/ NothingToDo
  BY DEF RemovePynth
<1>1. ~Idle /\ pc' \in pc..(Len(Script) + 1) /\ pc' = pc + 1
  BY <1>0, AdvanceSkips DEF Advance
<1>2. \A x \in DOMAIN RemoveWrite.sets : RemoveWrite.sets[x] = None
  BY DEF RemoveWrite, Write, Single
<1>3. FreshInv'
  <2>1. NoneAdded
    BY <1>0, <1>2, StageNone DEF Invoke, NothingToDo
  <2> QED
    BY <1>0, <1>1, <2>1, FreshKept
<1>4. Done("sort") /\ Done("sort")' /\ (Done("add") => Done("add")')
  <2>1. Done("sort")
    BY <1>0, LastSteps, EarlierDone
  <2> QED
    BY <1>1, <2>1, StillDone
<1>5. ASSUME NEW key \in replacing, ~Lists(key) PROVE ~Lists(key)'
  <2>1. key \in Keys /\ PynthOf(key) # None
    <3>1. ~Done("add")
      BY <1>0, LastSteps, LaterNotDone
    <3> QED
      BY <1>4, <3>1, PynthsThere DEF ReplacingInv, FreshInv
  <2>2. Held(slots', Issuer, key) = Held(slots, Issuer, key) \/ Held(slots', Issuer, key) = None
    <3>1. slots' = slots \/ slots' = Over(slots, RemoveWrite.sets)
      BY <1>0 DEF Invoke, NothingToDo
    <3>2. Held(Over(slots, RemoveWrite.sets), Issuer, key)
              = IF <<Issuer, key>> \in DOMAIN RemoveWrite.sets
                THEN RemoveWrite.sets[<<Issuer, key>>] ELSE Held(slots, Issuer, key)
      BY HeldOver
    <3> QED
      BY <1>2, <3>1, <3>2
  <2>3. PynthOf(key)' = PynthOf(key) /\ Issuer' = Issuer
    BY <1>0 DEF PynthOf, Issuer, AddressOf
  <2>4. Held(slots', Issuer, key) # PynthOf(key)
    BY <1>5, <2>1, <2>2 DEF Lists
  <2> QED
    BY <2>3, <2>4, <1>5 DEF Lists
<1> QED
  BY <1>0, <1>3, <1>4, <1>5 DEF ReplacingInv

\* At the end nothing is replaced any more.
LEMMA AddReplacing == NetInv /\ FreshInv /\ AddPynths => FreshInv' /\ ReplacingInv'
<1> SUFFICES ASSUME NetInv, FreshInv, AddPynths PROVE FreshInv' /\ ReplacingInv'
  OBVIOUS
<1>0. At("add") /\ Advance /\ UNCHANGED <<old, flags>>
  BY DEF AddPynths
<1>1. ~Idle /\ pc' \in pc..(Len(Script) + 1) /\ pc' = pc + 1
  BY <1>0, AdvanceSkips DEF Advance
<1>2. Done("sort")' /\ Done("add")' /\ ~Idle'
  <2>1. Done("sort")
    BY <1>0, LastSteps, EarlierDone
  <2> QED
    BY <1>0, <1>1, <2>1, NowDone, StillDone
<1>3. \A key \in DOMAIN old' : key \in Keys /\ Flagged(Pynths[key])'
  BY <1>0 DEF FreshInv, Flagged
<1> QED
  BY <1>2, <1>3 DEF FreshInv, ReplacingInv

-----------------------------------------------------------------------------
\* A pynth that is removed is one that has been deployed again.
LEMMA RemoveOwn ==
    ASSUME Inv, NetInv, OwnInv, FreshInv, ReplacingInv, RemovePynth
    PROVE  OwnInv'
<1>0. /\ At("remove") /\ UNCHANGED <<targets, recorded, handedOver>> /\ Step = Script[pc]
      /\ (Step.key \in replacing /\ Invoke(RemoveWrite)) \/ NothingToDo
  BY DEF RemovePynth, Step
<1>1. CASE NothingToDo
  BY <1>0, <1>1, SameOwn DEF NothingToDo
<1>2. CASE Step.key \in replacing /\ Invoke(RemoveWrite)
  <2>1. Done("sort") /\ ~Done("add")
    BY <1>0, LastSteps, EarlierDone, LaterNotDone
  <2>2. Step.key \in DOMAIN old /\ Step.key \in Keys /\ ~Lists(Step.key)
    BY <1>2, <2>1 DEF ReplacingInv, FreshInv
  <2>3. /\ RemoveWrite.target = Issuer
        /\ \A x \in DOMAIN RemoveWrite.sets :
               x = <<Issuer, Step.key>> /\ RemoveWrite.sets[x] = None
    BY DEF RemoveWrite, Write, Single
  <2>4. Fits(RemoveWrite)
    <3>1. \A x \in DOMAIN RemoveWrite.sets : x[2] \in Keys /\ x[2] \notin Names
      BY <2>2, <2>3, WireFields
    <3>2. \A x \in DOMAIN RemoveWrite.sets : \A n : ~Leads(x, n)
      BY <3>1, LeadsApart
    <3> QED
      BY <2>3, <3>1, <3>2 DEF Fits
  <2>5. Current(RemoveWrite)
    BY <2>3 DEF Current, NoAddresses
  <2>6. Removes(RemoveWrite)
    <3>1. /\ TargetOf(Pynths[Step.key]) = PynthOf(Step.key) /\ PynthOf(Step.key) # None
          /\ Pynths[Step.key] \in DOMAIN deployed
      BY <2>1, <2>2, PynthsThere
    <3>2. Held(slots, Issuer, Step.key) # PynthOf(Step.key)
      BY <2>2 DEF Lists
    <3>3. \A j \in DOMAIN actions : \A y \in DOMAIN SetsOf(j) :
              y[2] \in Keys => SetsOf(j)[y] # PynthOf(Step.key)
      BY <2>1, <2>2, <3>1 DEF FreshInv
    <3> QED
      BY <2>2, <2>3, <3>1, <3>2, <3>3 DEF Removes
  <2> QED
    BY <1>0, <1>2, <2>4, <2>5, <2>6, InvokeOwn
<1> QED
  BY <1>0, <1>1, <1>2

\* A pynth is added with the address of deployment.json.
LEMMA AddOwn == Inv /\ NetInv /\ WireInv /\ OwnInv /\ AddPynths => OwnInv'
<1> SUFFICES ASSUME Inv, NetInv, WireInv, OwnInv, AddPynths PROVE OwnInv'
  OBVIOUS
<1>0. /\ At("add") /\ UNCHANGED <<targets, recorded, handedOver>>
      /\ Invoke(AddWrite) \/ NothingToDo
  BY DEF AddPynths
<1>1. adding \subseteq Keys
  BY DEF WireInv, PynthInv
<1>2. /\ AddWrite.target = Issuer /\ AddWrite.method = "addPynths"
      /\ \A x \in DOMAIN AddWrite.sets :
             x = <<Issuer, x[2]>> /\ x[2] \in Keys /\ AddWrite.sets[x] = PynthOf(x[2])
  BY <1>1 DEF AddWrite, Write
<1>3. \A key \in Keys :
          /\ PynthOf(key) \in Of(Pynths[key]) /\ PynthOf(key) # None
          /\ Pynths[key] \in DOMAIN targets /\ PynthOf(key) = targets[Pynths[key]]
  <2>1. ASSUME NEW key \in Keys
        PROVE  /\ Pynths[key] \in DOMAIN deployed /\ PynthOf(key) = deployed[Pynths[key]]
               /\ PynthOf(key) \in recorded /\ PynthOf(key) # None
    BY <1>0, PynthsThere
  <2> QED
    BY <2>1, DeployedKnown DEF Of, NetInv, DeployedInv
<1>4. Fits(AddWrite)
  <2>1. \A x \in DOMAIN AddWrite.sets : x[2] \notin Names /\ \A n : ~Leads(x, n)
    BY <1>2, WireFields, LeadsApart
  <2>2. \A x \in DOMAIN AddWrite.sets : x[1] = Issuer
    BY <1>2
  <2> QED
    BY <1>2, <1>3, <2>1, <2>2 DEF Fits
<1>5. Current(AddWrite)
  BY <1>2, <1>3 DEF Current
<1>6. Removes(AddWrite)
  BY <1>2, <1>3 DEF Removes
<1> QED
  BY <1>0, <1>4, <1>5, <1>6, InvokeOwn, SameOwn DEF NothingToDo

PynthsInv == FreshInv /\ ReplacingInv

\* Between runs, and when one begins or ends, no pynth is being replaced.
LEMMA RestOwn ==
    ASSUME Inv, NetInv, OwnInv, PynthsInv,
           \/ StartRun \/ Crash \/ Finish \/ Fail \/ UNCHANGED vars
           \/ HandOver \/ TuneSetting \/ IssuePynths \/ UpdateVersions \/ PrepareDeploy
           \/ OwnerActs
    PROVE  OwnInv' /\ PynthsInv'
<1>1. CASE Crash \/ Finish \/ Fail
  <2>1. UNCHANGED <<slots, actions, targets, recorded, handedOver>>
        /\ old' = <<>> /\ replacing' = {}
    BY <1>1 DEF Crash, Finish, Fail, EndWith, chainVars, fileVars
  <2> QED
    BY <2>1, SameOwn, FreshNone, ReplacingNone DEF PynthsInv
<1>2. CASE UNCHANGED vars
  <2> USE <1>2 DEF vars, chainVars, fileVars, runVars
  <2>1. OwnInv'
    BY SameOwn
  <2>2. FreshInv'
    BY DEF PynthsInv, FreshInv, Idle, Flagged, Done, SetsOf, PynthOf, AddressOf
  <2>3. ReplacingInv'
    BY DEF PynthsInv, ReplacingInv, Done, Lists, Issuer, PynthOf, AddressOf
  <2> QED
    BY <2>1, <2>2, <2>3 DEF PynthsInv
<1>3. CASE StartRun \/ HandOver \/ TuneSetting \/ IssuePynths \/ UpdateVersions
           \/ PrepareDeploy \/ OwnerActs
  <2>1. Idle /\ UNCHANGED <<old, replacing>>
    BY <1>3 DEF StartRun, HandOver, TuneSetting, IssuePynths, UpdateVersions, PrepareDeploy,
                OwnerActs, runVars
  <2>2. replacing = {} /\ DOMAIN old = {}
    <3>1. \A i \in 1..(pc - 1) : FALSE
      BY <2>1, NoneBefore DEF Idle
    <3> QED
      BY <2>1, <3>1 DEF PynthsInv, FreshInv, ReplacingInv, Done
  <2>3. OwnInv'
    <3>1. CASE StartRun \/ UpdateVersions \/ PrepareDeploy
      BY <3>1, SameOwn DEF StartRun, UpdateVersions, PrepareDeploy, chainVars, fileVars
    <3>2. CASE HandOver
      BY <3>2, SameOwn DEF HandOver, fileVars
    <3> QED
      BY <1>3, <3>1, <3>2, TuneOwn, OwnerOwn
  <2> QED
    BY <2>1, <2>2, <2>3, FreshNone, ReplacingNone DEF PynthsInv
<1> QED
  BY <1>1, <1>2, <1>3

\* Steps that read, and deployments that are through.
LEMMA ReadOwn ==
    ASSUME Inv, OwnInv, PassOver \/ RecordConfig \/ ReuseContract \/ RecallPynth
                        \/ QueuePynth \/ SortPynths
    PROVE  OwnInv'
<1>1. UNCHANGED <<slots, actions, targets, recorded, handedOver>>
  BY DEF PassOver, RecordConfig, ReuseContract, RecallPynth, QueuePynth, SortPynths,
         chainVars, fileVars
<1> QED
  BY <1>1, SameOwn

\* So each step keeps what is left to the owner.
LEMMA OwnNext ==
    Inv /\ NetInv /\ WireInv /\ OwnInv /\ PynthsInv /\ [Next]_vars => OwnInv' /\ PynthsInv'
<1> SUFFICES ASSUME Inv, NetInv, WireInv, OwnInv, PynthsInv, [Next]_vars
             PROVE  OwnInv' /\ PynthsInv'
  OBVIOUS
<1> USE DEF PynthsInv
<1>1. CASE PassOver \/ RecordConfig \/ QueuePynth
  BY <1>1, ReadOwn, PlainReplacing
<1>2. CASE ReuseContract \/ RecallPynth
  BY <1>2, ReadOwn, DeployReplacing
<1>3. CASE SortPynths
  BY <1>3, ReadOwn, SortReplacing
<1>4. CASE SendDeployment
  BY <1>4, SendOwn, PlainReplacing
<1>5. CASE RecordDeployment
  BY <1>5, RecordOwn, DeployReplacing
<1>6. CASE SetStep
  BY <1>6, SetOwn, PlainReplacing
<1>7. CASE ImportFeePeriods \/ RetirePynth
  BY <1>7, PlainOwn, PlainReplacing
<1>8. CASE RebuildCaches
  BY <1>8, RebuildOwn, PlainReplacing
<1>9. CASE RemovePynth
  BY <1>9, RemoveOwn, RemoveReplacing
<1>10. CASE AddPynths
  BY <1>10, AddOwn, AddReplacing
<1>11. CASE ImportAddresses
  <2>1. CASE pc' = pc + 1
    BY <1>11, <2>1, ImportOwn, PlainReplacing
  <2>2. CASE old' = <<>> /\ replacing' = {}
    BY <1>11, <2>2, ImportOwn, FreshNone, ReplacingNone
  <2> QED
    BY <1>11, <2>1, <2>2 DEF ImportAddresses, EndWith, Advance
<1>12. CASE \/ StartRun \/ Crash \/ Finish \/ Fail \/ UNCHANGED vars
            \/ HandOver \/ TuneSetting \/ IssuePynths \/ UpdateVersions \/ PrepareDeploy
            \/ OwnerActs
  BY <1>12, RestOwn
<1> QED
  BY <1>1, <1>2, <1>3, <1>4, <1>5, <1>6, <1>7, <1>8, <1>9, <1>10, <1>11, <1>12
  DEF Next, RunStep

\* At first nothing is left to the owner.
LEMMA OwnInit == Init => OwnInv /\ PynthsInv
<1> SUFFICES ASSUME Init PROVE OwnInv /\ PynthsInv
  OBVIOUS
<1>1. /\ DOMAIN slots = {} /\ DOMAIN actions = {} /\ DOMAIN old = {} /\ replacing = {}
  BY DEF Init
<1> QED
  BY <1>1 DEF OwnInv, SlotsLead, ActionsFit, ActionsOrdered, PendingAhead, PendingRemoves,
              Pending, PynthsInv, FreshInv, ReplacingInv

-----------------------------------------------------------------------------
(* A run that ends clean leaves the network wired.                         *)

\* What is wired is in fields of wires.
LEMMA WiredSame ==
    ASSUME NetInv, Wired, UNCHANGED targets,
           \A a : \A f \in LinkFields \cup Names \cup Keys :
               Held(slots', a, f) = Held(slots, a, f)
    PROVE  Wired'
<1>1. \A a, f : Slot(a, f)' = Held(slots', a, f) /\ Slot(a, f) = Held(slots, a, f)
  BY DEF Slot, Held
<1>2. \A n : TargetOf(n)' = TargetOf(n)
  BY DEF TargetOf
<1>3. \A i \in DOMAIN Script : LinkHolds(Script[i])'
  <2>1. SUFFICES ASSUME NEW i \in DOMAIN Script, Script[i].op = "set", ~Script[i].keep,
                        Script[i].when = {}, ~Script[i].via,
                        Script[i].given \cup {Script[i].on, Script[i].to, Script[i].at}
                            \subseteq DOMAIN targets
                 PROVE  Held(slots', targets[Script[i].at], Script[i].field)
                            = targets[Script[i].to]
    BY <1>1 DEF LinkHolds
  <2>2. i \in Links
    BY <2>1 DEF Links, Sets, NetInv, ListInv
  <2>3. Held(slots, targets[Script[i].at], Script[i].field) = targets[Script[i].to]
    BY <1>1, <2>1 DEF Wired, LinkHolds
  <2>4. Script[i].field \in LinkFields
    BY <2>2 DEF LinkFields
  <2> QED
    BY <2>3, <2>4
<1>4. ResolverHolds'
  BY <1>1, <1>2 DEF Wired, ResolverHolds, NetInv, ListInv
<1>5. CachesHold'
  <2>1. \A n \in DOMAIN Required : Required[n] \subseteq Names
    BY ScriptAssumption DEF ScriptInOrder, ContractsInOrder
  <2> QED
    BY <1>1, <1>2, <2>1 DEF Wired, CachesHold
<1>6. ListedHold'
  BY <1>1, <1>2 DEF Wired, ListedHold, Keys
<1> QED
  BY <1>3, <1>4, <1>5, <1>6 DEF Wired

\* A run that does not end is at a step, or past the last.
LEMMA StepGoesOn ==
    ASSUME NetInv, StartRun \/ (RunStep /\ ~Finish /\ ~Fail /\ ~ImportAddresses)
    PROVE  pc' # 0
<1>0. pc \in Nat /\ Len(Script) \in Nat
  BY ScriptSteps DEF NetInv, ListInv
<1>1. CASE PassOver
  <2>1. pc' \in (pc + 1)..(Len(Script) + 1)
    BY <1>1 DEF PassOver
  <2> QED
    BY <1>0, <2>1
<1>2. CASE SendDeployment \/ RecordDeployment
  <2>1. pc \in Deploys /\ pc' = pc
    BY <1>2 DEF SendDeployment, RecordDeployment, At, Deploys, Step, NetInv, ListInv
  <2> QED
    BY <2>1, ScriptSteps
<1>3. CASE RecordConfig \/ ReuseContract \/ SetStep \/ ImportFeePeriods \/ RebuildCaches
           \/ RecallPynth \/ QueuePynth \/ SortPynths \/ RetirePynth \/ RemovePynth \/ AddPynths
  <2>1. pc' = pc + 1
    BY <1>3 DEF RecordConfig, ReuseContract, SetStep, ImportFeePeriods, RebuildCaches, RecallPynth,
                QueuePynth, SortPynths, RetirePynth, RemovePynth, AddPynths, Advance
  <2> QED
    BY <1>0, <2>1
<1>4. CASE StartRun
  BY <1>4 DEF StartRun
<1> QED
  BY <1>1, <1>2, <1>3, <1>4 DEF RunStep

\* A step keeps what a clean run has wired.
LEMMA WiredNext ==
    Inv /\ NetInv /\ WireInv /\ OwnInv /\ WiredWhenClean /\ [Next]_vars => WiredWhenClean'
<1> SUFFICES ASSUME Inv, NetInv, WireInv, OwnInv, WiredWhenClean, [Next]_vars,
                    Idle', outcome' = "clean"
             PROVE  Wired'
  BY DEF WiredWhenClean
<1>1. CASE Finish
  <2>1. clean /\ pc = Len(Script) + 1 /\ UNCHANGED <<slots, targets>>
    BY <1>1 DEF Finish, EndWith, chainVars, fileVars
  <2> QED
    BY <2>1, EndWired, WiredSame
<1>2. CASE Crash \/ Fail \/ ImportAddresses
  <2>1. Idle' => outcome' # "clean" \/ pc' = pc + 1
    BY <1>2 DEF Crash, Fail, ImportAddresses, EndWith, Advance
  <2>2. pc' # pc + 1
    BY ScriptSteps DEF Idle, NetInv, ListInv
  <2> QED
    BY <2>1, <2>2
<1>3. CASE OwnerActs
  BY <1>3, OwnerWired DEF OwnerActs, WiredWhenClean, runVars, Idle
<1>4. CASE HandOver \/ UpdateVersions \/ PrepareDeploy \/ UNCHANGED vars
  <2>1. Wired /\ UNCHANGED <<slots, targets>>
    BY <1>4 DEF HandOver, UpdateVersions, PrepareDeploy, WiredWhenClean, vars, chainVars,
                fileVars, runVars, Idle
  <2> QED
    BY <2>1, WiredSame
<1>5. CASE TuneSetting \/ IssuePynths
  <2>1. Wired /\ UNCHANGED targets
    BY <1>5 DEF TuneSetting, IssuePynths, WiredWhenClean, fileVars, runVars, Idle
  <2>2. PICK g : slots' = Over(slots, g) /\ \A x \in DOMAIN g : x[2] \in Plainly
    BY <1>5, TuneWrites
  <2>3. ASSUME NEW a, NEW f \in LinkFields \cup Names \cup Keys
        PROVE  Held(slots', a, f) = Held(slots, a, f)
    <3>1. <<a, f>> \notin DOMAIN g
      BY <2>2, PlainFields
    <3> QED
      BY <2>2, <3>1, HeldOver
  <2> QED
    BY <2>1, <2>3, WiredSame
<1>6. CASE StartRun \/ (RunStep /\ ~Finish /\ ~Fail /\ ~ImportAddresses)
  <2>1. pc' # 0
    BY <1>6, StepGoesOn
  <2> QED
    BY <2>1 DEF Idle
<1> QED
  BY <1>1, <1>2, <1>3, <1>4, <1>5, <1>6 DEF Next

\* What a run keeps, and what it leaves.
WiringInv == Inv /\ NetInv /\ WireInv /\ OwnInv /\ PynthsInv /\ WiredWhenClean

\* A run that ends without leaving anything to the owner leaves the network wired,
\* whatever dies before it and whatever the owner still sends after it.
THEOREM WiredAlwaysWhenClean == Spec => []WiredWhenClean
<1>1. Init => WiringInv
  BY InvInit, NetInit, WireInit, OwnInit DEF WiringInv, WiredWhenClean, Init
<1>2. WiringInv /\ [Next]_vars => WiringInv'
  BY InvStep, NetStep, WireStep, OwnNext, WiredNext DEF WiringInv
<1>3. WiringInv => WiredWhenClean
  BY DEF WiringInv
<1> QED
  BY <1>1, <1>2, <1>3, PTL DEF Spec

-----------------------------------------------------------------------------
(* Slots that are set to what is no contract, or kept.                     *)

\* The steps that set such slots in every run, and the fields of all steps.
Params    == {i \in Sets \ Links : Script[i].when = {}}
SetFields == {Script[i].field : i \in Sets}

\* The contracts that a step needs.
NeededBy(s) == s.given \cup {s.on}

\* The contract that has the slot of a step, as deployment.json lists it.
Keeper(s) == IF s.via THEN Held(slots, TargetOf(s.on), s.at) ELSE TargetOf(s.at)

\* The values that a step leaves as they are.
Right(s, v) == IF s.keep THEN v # None ELSE v = IF s.to = "fixed" THEN Fixed ELSE None
IsSet(s) == Keeper(s) = None \/ Right(s, Held(slots, Keeper(s), s.field))

\* Unless it has left something to the owner: what the run is past is set.
SetInv == clean => \A i \in Params :
    (i < pc /\ NeededBy(Script[i]) \subseteq DOMAIN deployed) => IsSet(Script[i])

\* All is set that deployment.json has the contracts for.
Settled == \A i \in Params : NeededBy(Script[i]) \subseteq DOMAIN targets => IsSet(Script[i])

\* Resolver and caches have, under a name, contracts of that name.
NamesLead == \A x \in DOMAIN slots : x[2] \in Names =>
                 x[1] # None /\ slots[x] \in Of(x[2]) \cup {None}

\* A write sets slots of the steps to what these leave as it is.
SetsRight(w) == \A x \in DOMAIN w.sets : \A i \in Params :
    (NameOf(x[1]) = Script[i].at /\ x[2] = Script[i].field) => Right(Script[i], w.sets[x])

\* So does all that is staged.
ActionsRight == \A i \in DOMAIN actions : SetsRight(actions[i].write)

-----------------------------------------------------------------------------
(* The steps that set them.                                                *)

\* What the script says of them.
LEMMA ParamSteps ==
    /\ Params \subseteq Sets /\ Sets \subseteq 1..Len(Script) /\ Len(Script) \in Nat
    /\ \A i \in Sets : LET s == Script[i] IN
           /\ s.op = "set" /\ s.field \in SetFields
           /\ s.via \/ s.at = s.on
           /\ s.keep => s.to \in s.given \cup {"fixed"}
           /\ s.field \in Settings => s.keep
           /\ s.via => /\ s.on \in DOMAIN Required /\ s.on # "AddressResolver"
                       /\ s.at \in Required[s.on] /\ s.at \in Names
    /\ \A i \in Params : LET s == Script[i] IN
           /\ s.when = {} /\ (s.keep \/ s.to \notin Names)
           /\ \A n \in NeededBy(s) : n \notin Optional /\ Before(n, i)
    /\ SetFields \cap (Names \cup Keys \cup {"supply", "periods"}) = {}
    /\ "fixed" \notin Names
<1>1. /\ Params \subseteq Sets /\ Sets \subseteq 1..Len(Script) /\ Len(Script) \in Nat
  BY ScriptSteps DEF Params
<1>2. /\ SettingsInOrder /\ FieldsApart /\ ContractsInOrder
  BY ScriptAssumption DEF ScriptInOrder
<1>3. ASSUME NEW i \in Sets
      PROVE  LET s == Script[i] IN
             /\ s.op = "set" /\ s.field \in SetFields
             /\ s.via \/ s.at = s.on
             /\ s.keep => s.to \in s.given \cup {"fixed"}
             /\ s.field \in Settings => s.keep
             /\ s.via => /\ s.on \in DOMAIN Required /\ s.on # "AddressResolver"
                         /\ s.at \in Required[s.on] /\ s.at \in Names
  <2>1. Script[i].op = "set" /\ Script[i].field \in SetFields
    BY DEF Sets, SetFields
  <2>2. Script[i].via \/ Script[i].at = Script[i].on
    BY <1>2 DEF FieldsApart
  <2>3. /\ Script[i].keep => Script[i].to \in Script[i].given \cup {"fixed"}
        /\ Script[i].field \in Settings => Script[i].keep
        /\ Script[i].via => /\ Script[i].on \in DOMAIN Required
                            /\ Script[i].at \in Required[Script[i].on]
    BY <1>2 DEF SettingsInOrder
  <2>4. \A n \in DOMAIN Required : n # "AddressResolver" /\ Required[n] \subseteq Names
    BY <1>2 DEF ContractsInOrder
  <2> QED
    BY <2>1, <2>2, <2>3, <2>4
<1>4. ASSUME NEW i \in Params
      PROVE  LET s == Script[i] IN
             /\ s.when = {} /\ (s.keep \/ s.to \notin Names)
             /\ \A n \in NeededBy(s) : n \notin Optional /\ Before(n, i)
  <2>1. i \in Sets /\ i \notin Links /\ Script[i].when = {}
    BY DEF Params
  <2>2. /\ i \in Links \/ Script[i].keep \/ Script[i].to \notin Names
        /\ \A n \in Script[i].given \cup {Script[i].on} : n \notin Optional /\ Before(n, i)
    BY <1>2, <2>1 DEF SettingsInOrder
  <2> QED
    BY <2>1, <2>2 DEF NeededBy
<1>5. SetFields \cap (Names \cup Keys \cup {"supply", "periods"}) = {}
  BY <1>2 DEF SettingsInOrder, FieldsApart, SetFields
<1>6. "fixed" \notin Names
  BY <1>2 DEF ContractsInOrder
<1> QED
  BY <1>1, <1>3, <1>4, <1>5, <1>6

\* Steps that set the same slot agree on what it is to hold.
LEMMA SameSlot ==
    ASSUME NEW i \in Sets, NEW j \in Sets, Script[i].field = Script[j].field,
           Script[i].at = Script[j].at
    PROVE  Script[i].to = Script[j].to /\ Script[i].keep = Script[j].keep
  BY ScriptAssumption DEF ScriptInOrder, SettingsInOrder

\* Settings are set when the caches are rebuilt.
LEMMA AfterRebuild ==
    ASSUME NetInv, NEW i \in Sets, i < pc, Script[i].via
    PROVE  Done("rebuild")
<1>1. pc \in 0..(Len(Script) + 1) /\ Len(Script) \in Nat /\ DOMAIN Script = 1..Len(Script)
      /\ i \in 1..Len(Script)
  BY ScriptSteps DEF NetInv, ListInv
<1>2. \A j \in DOMAIN Script : Script[j].op = "rebuild" => j < i
  BY ScriptAssumption DEF ScriptInOrder, SettingsInOrder
<1>3. PICK j \in DOMAIN Script : Script[j].op = "rebuild"
  BY LastSteps DEF Once
<1>4. j \in 1..(pc - 1)
  BY <1>1, <1>2, <1>3
<1> QED
  BY <1>3, <1>4 DEF Done

\* The contract that has a slot is known, and has the name that the step says.
LEMMA KeeperKnown ==
    ASSUME Inv, NetInv, NamesLead, NEW i \in Sets, Keeper(Script[i]) # None
    PROVE  Keeper(Script[i]) \in recorded /\ NameOf(Keeper(Script[i])) = Script[i].at
<1>1. CASE Script[i].via
  <2>1. Script[i].at \in Names
    BY <1>1, ParamSteps
  <2>2. Keeper(Script[i]) = Held(slots, TargetOf(Script[i].on), Script[i].at)
    BY <1>1 DEF Keeper
  <2>3. <<TargetOf(Script[i].on), Script[i].at>> \in DOMAIN slots
        /\ Keeper(Script[i]) = slots[<<TargetOf(Script[i].on), Script[i].at>>]
    BY <2>2 DEF Held
  <2>4. Keeper(Script[i]) \in Of(Script[i].at)
    BY <2>1, <2>3 DEF NamesLead
  <2> QED
    BY <2>4 DEF Of
<1>2. CASE ~Script[i].via
  BY <1>2 DEF Keeper, TargetOf, Inv, FilesInv, Within, NetInv, ChainInv
<1> QED
  BY <1>1, <1>2

\* A run finds it where deployment.json has it.
LEMMA KeeperHolds ==
    ASSUME Inv, NetInv, NEW i \in Sets, Script[i].on \in DOMAIN deployed
    PROVE  Holder(Script[i]) = Keeper(Script[i])
<1>1. AddressOf(Script[i].on) = TargetOf(Script[i].on)
  BY DeployedKnown DEF TargetOf, NetInv, DeployedInv
<1>2. Script[i].via \/ Script[i].at = Script[i].on
  BY ParamSteps
<1> QED
  BY <1>1, <1>2, SlotHeld DEF Holder, Keeper

\* What a step that is not kept sets its slot to.
LEMMA ParamValue ==
    ASSUME NetInv, NEW i \in Params, ~Script[i].keep
    PROVE  ValueOf(Script[i].to) = IF Script[i].to = "fixed" THEN Fixed ELSE None
<1>1. Script[i].to \notin Names
  BY ParamSteps
<1>2. DOMAIN deployed \subseteq Names
  BY DEF NetInv, DeployedInv, ListInv
<1> QED
  BY <1>1, <1>2 DEF ValueOf, AddressOf

\* A step that is passed over, in a run that has its contracts, is set.
LEMMA PassedSet ==
    ASSUME Inv, NetInv, NEW i \in Params, NeededBy(Script[i]) \subseteq DOMAIN deployed,
           Passed(Script[i])
    PROVE  IsSet(Script[i])
<1>1. Script[i].op = "set" /\ Script[i].when = {}
  BY ParamSteps
<1>2. Relevant(Script[i]) /\ Script[i].on \in DOMAIN deployed
  BY <1>1 DEF NeededBy, Relevant
<1>3. Holder(Script[i]) = None \/ Expected(Script[i])
  BY <1>1, <1>2 DEF Passed
<1>4. Holder(Script[i]) = Keeper(Script[i]) /\ i \in Sets
  BY <1>2, ParamSteps, KeeperHolds
<1>5. ~Script[i].keep =>
          ValueOf(Script[i].to) = IF Script[i].to = "fixed" THEN Fixed ELSE None
  BY ParamValue
<1> QED
  BY <1>3, <1>4, <1>5, SlotHeld DEF IsSet, Right, Expected

\* What a step writes is as all steps leave the slot.
LEMMA WriteRight ==
    ASSUME Inv, NetInv, NamesLead, pc \in Sets, Step.on \in DOMAIN deployed, ~Passed(Step)
    PROVE  /\ SetsRight(SetWrite(Step))
           /\ pc \in Params => Right(Step, ValueOf(Step.to))
<1>0. Step = Script[pc] /\ Step.op = "set"
  BY ParamSteps DEF Step
<1>1. Relevant(Step) /\ Holder(Step) # None
  BY <1>0 DEF Passed
<1>2. NameOf(Holder(Step)) = Step.at
  BY <1>0, <1>1, KeeperHolds, KeeperKnown
<1>3. ASSUME NEW i \in Params, Script[i].at = Step.at, Script[i].field = Step.field
      PROVE  Right(Script[i], ValueOf(Step.to))
  <2>1. Script[i].to = Step.to /\ Script[i].keep = Step.keep /\ i \in Sets
    BY <1>0, <1>3, ParamSteps, SameSlot
  <2>2. CASE Script[i].keep
    <3>1. Step.to \in Step.given \cup {"fixed"}
      BY <1>0, <2>1, <2>2, ParamSteps
    <3>2. CASE Step.to = "fixed"
      BY <2>2, <3>2 DEF Right, ValueOf, Fixed, None
    <3>3. CASE Step.to # "fixed"
      <4>1. Step.to \in DOMAIN deployed
        BY <1>1, <3>1, <3>3 DEF Relevant
      <4>2. ValueOf(Step.to) # None
        BY <3>3, <4>1, DeployedKnown DEF ValueOf
      <4> QED
        BY <2>2, <4>2 DEF Right
    <3> QED
      BY <3>2, <3>3
  <2>3. CASE ~Script[i].keep
    BY <2>1, <2>3, ParamValue DEF Right
  <2> QED
    BY <2>2, <2>3
<1>4. \A x : x \in DOMAIN SetWrite(Step).sets =>
          x = <<Holder(Step), Step.field>> /\ SetWrite(Step).sets[x] = ValueOf(Step.to)
  BY DEF SetWrite, Write, Single
<1>5. SetsRight(SetWrite(Step))
  BY <1>2, <1>3, <1>4 DEF SetsRight
<1> QED
  BY <1>0, <1>3, <1>5

-----------------------------------------------------------------------------
(* Names and what is staged, at each step.                                 *)

\* The calls that are no setting write supplies, periods and pynths.
LEMMA OtherWrites ==
    ASSUME Inv, WireInv, ImportFeePeriods \/ RetirePynth \/ RemovePynth \/ AddPynths
    PROVE  \E w : /\ Invoke(w) \/ NothingToDo
                  /\ \A x \in DOMAIN w.sets : /\ x[2] \in Keys \cup {"supply", "periods"}
                                               /\ w.sets[x] \in recorded \cup {None}
<1> DEFINE Fine(w) == \A x \in DOMAIN w.sets : /\ x[2] \in Keys \cup {"supply", "periods"}
                                              /\ w.sets[x] \in recorded \cup {None}
<1>1. CASE ImportFeePeriods
  <2>1. Previous("FeePool") \in recorded \cup {None}
    BY DEF Previous, Inv, ValuesInv, Within
  <2>2. Fine(PeriodsWrite)
    BY <2>1 DEF PeriodsWrite, Write, Single
  <2> QED
    BY <1>1, <2>2 DEF ImportFeePeriods
<1>2. CASE RetirePynth
  <2>1. Fine(RetireWrite)
    BY DEF RetireWrite, Write, Single
  <2> QED
    BY <1>2, <2>1 DEF RetirePynth
<1>3. CASE RemovePynth
  <2>1. Step.key \in Keys
    BY <1>3, ScriptAssumption DEF RemovePynth, At, Step, ScriptInOrder, PynthsInOrder
  <2>2. Fine(RemoveWrite)
    BY <2>1 DEF RemoveWrite, Write, Single
  <2> QED
    BY <1>3, <2>2 DEF RemovePynth
<1>4. CASE AddPynths
  <2>1. \A n : AddressOf(n) \in recorded \cup {None}
    BY DEF AddressOf, Inv, ValuesInv, Within
  <2>2. Fine(AddWrite)
    BY <2>1 DEF AddWrite, Write, WireInv, PynthInv, PynthOf
  <2> QED
    BY <1>4, <2>2 DEF AddPynths
<1> QED
  BY <1>1, <1>2, <1>3, <1>4

\* What the owner sends are the slots of an action, which is then complete.
LEMMA OwnerWrites ==
    ASSUME Inv, OwnerActs
    PROVE  \E i \in Pending :
               /\ i \in DOMAIN actions /\ slots' = Over(slots, SetsOf(i))
               /\ DOMAIN actions' = DOMAIN actions
               /\ \A j \in DOMAIN actions : actions'[j].write = actions[j].write
<1>0. PICK i \in Pending :
          /\ slots' = Over(slots, SetsOf(i))
          /\ actions' = [actions EXCEPT ![i].complete = TRUE]
  BY DEF OwnerActs, SetsOf
<1> QED
  BY <1>0 DEF Pending

\* Names lead on after a write that leads them.
LEMMA NamesOver ==
    ASSUME NamesLead, NEW g, slots' = Over(slots, g), recorded \subseteq recorded',
           \A x \in DOMAIN g : x[2] \in Names => x[1] # None /\ g[x] \in Of(x[2]) \cup {None}
    PROVE  NamesLead'
<1>1. ASSUME NEW x \in DOMAIN slots', x[2] \in Names
      PROVE  x[1] # None /\ slots'[x] \in Of(x[2]) \cup {None}
  <2>1. /\ DOMAIN slots' = DOMAIN slots \cup DOMAIN g
        /\ slots'[x] = IF x \in DOMAIN g THEN g[x] ELSE slots[x]
    BY DEF Over
  <2> QED
    BY <1>1, <2>1 DEF NamesLead
<1> QED
  BY <1>1 DEF NamesLead, Of

\* So do they where nothing is written.
LEMMA NamesSame ==
    ASSUME NamesLead, recorded \subseteq recorded', UNCHANGED slots
    PROVE  NamesLead'
  BY DEF NamesLead, Of

\* Each step leads names to contracts of that name.
LEMMA NamesNext ==
    Inv /\ NetInv /\ WireInv /\ OwnInv /\ NamesLead /\ [Next]_vars => NamesLead'
<1> SUFFICES ASSUME Inv, NetInv, WireInv, OwnInv, NamesLead, [Next]_vars PROVE NamesLead'
  OBVIOUS
<1>1. CASE \/ StartRun \/ PassOver \/ RecordDeployment \/ RecordConfig \/ ReuseContract
           \/ RecallPynth \/ QueuePynth \/ SortPynths \/ Fail \/ Finish \/ Crash
           \/ HandOver \/ UpdateVersions \/ PrepareDeploy \/ UNCHANGED vars
  BY <1>1, NamesSame DEF StartRun, PassOver, RecordDeployment, RecordConfig, ReuseContract,
     RecallPynth, QueuePynth, SortPynths, Fail, Finish, Crash, EndWith, HandOver,
     UpdateVersions, PrepareDeploy, vars, chainVars
<1>2. CASE SendDeployment
  <2>1. PICK k : slots' = Over(slots, Constructed(<<Step.name, k>>, Step))
    BY <1>2 DEF SendDeployment
  <2>2. DOMAIN Step.ctor \cap Names = {}
    BY <1>2, ScriptAssumption DEF SendDeployment, At, Step, Deploys, ScriptInOrder, FieldsApart
  <2>3. \A x \in DOMAIN Constructed(<<Step.name, k>>, Step) : x[2] \notin Names
    BY <2>2, PlainFields DEF Constructed, Put, Over, Single
  <2> QED
    BY <1>2, <2>1, <2>3, NamesOver DEF SendDeployment
<1>3. CASE SetStep
  <2>1. pc \in Sets /\ Step = Script[pc]
    BY <1>3 DEF SetStep, At, Step, Sets
  <2>2. \A x \in DOMAIN SetWrite(Step).sets : x[2] \notin Names
    BY <2>1, ParamSteps DEF SetWrite, Write, Single
  <2> QED
    BY <1>3, <2>2, NamesOver, NamesSame DEF SetStep, Invoke
<1>4. CASE ImportFeePeriods \/ RetirePynth \/ RemovePynth \/ AddPynths
  <2>1. PICK w : /\ Invoke(w) \/ NothingToDo
                 /\ \A x \in DOMAIN w.sets : x[2] \in Keys \cup {"supply", "periods"}
    BY <1>4, OtherWrites
  <2>2. \A x \in DOMAIN w.sets : x[2] \notin Names
    BY <2>1, WireFields, PlainFields
  <2>3. UNCHANGED recorded
    BY <1>4 DEF ImportFeePeriods, RetirePynth, RemovePynth, AddPynths
  <2> QED
    BY <2>1, <2>2, <2>3, NamesOver, NamesSame DEF Invoke, NothingToDo
<1>5. CASE ImportAddresses
  <2>1. slots' = slots \/ slots' = Over(slots, ImportWrite.sets)
    BY <1>5 DEF ImportAddresses
  <2>2. \A x \in DOMAIN ImportWrite.sets : x[1] # None /\ ImportWrite.sets[x] \in Of(x[2])
    <3>1. \A x \in DOMAIN ImportWrite.sets : ImportWrite.sets[x] \in Of(x[2])
      BY DeployedKnown DEF ImportWrite, Write, Unimported, Of
    <3> QED
      BY <1>5, <3>1, ImportFits
  <2>3. UNCHANGED recorded
    BY <1>5 DEF ImportAddresses, EndWith
  <2> QED
    BY <2>1, <2>2, <2>3, NamesOver, NamesSame
<1>6. CASE RebuildCaches
  <2>1. PICK g : /\ slots' = Over(slots, g)
                 /\ \A x \in DOMAIN g : x[1] # None /\ g[x] = Resolved(x[2])
    BY <1>6, RebuildWrites
  <2>2. ASSUME NEW r \in Names PROVE Resolved(r) \in Of(r) \cup {None}
    <3>1. \E a : Resolved(r) = Held(slots, a, r)
      BY SlotHeld DEF Resolved
    <3> QED
      BY <3>1 DEF Held, NamesLead
  <2>3. UNCHANGED recorded
    BY <1>6 DEF RebuildCaches
  <2> QED
    BY <2>1, <2>2, <2>3, NamesOver
<1>7. CASE OwnerActs
  <2>1. PICK i \in DOMAIN actions : slots' = Over(slots, SetsOf(i))
    BY <1>7, OwnerWrites
  <2>2. \A x \in DOMAIN SetsOf(i) : x[2] \in Names => x[1] # None /\ SetsOf(i)[x] \in Of(x[2])
    BY DEF OwnInv, ActionsFit, Fits, Leads, SetsOf, NameOf, None
  <2>3. UNCHANGED recorded
    BY <1>7 DEF OwnerActs
  <2> QED
    BY <2>1, <2>2, <2>3, NamesOver
<1>8. CASE TuneSetting \/ IssuePynths
  <2>1. PICK g : slots' = Over(slots, g) /\ \A x \in DOMAIN g : x[2] \in Plainly
    BY <1>8, TuneWrites
  <2>2. UNCHANGED recorded
    BY <1>8 DEF TuneSetting, IssuePynths
  <2> QED
    BY <2>1, <2>2, NamesOver, PlainFields
<1> QED
  BY <1>1, <1>2, <1>3, <1>4, <1>5, <1>6, <1>7, <1>8 DEF Next, RunStep

\* A write to no field of a setting.
LEMMA OthersRight ==
    ASSUME NEW w, \A x \in DOMAIN w.sets : x[2] \notin SetFields
    PROVE  SetsRight(w)
<1>1. \A i \in Params : Script[i].field \in SetFields
  BY ParamSteps
<1> QED
  BY <1>1 DEF SetsRight

\* Staging a right write.
LEMMA StageRight ==
    ASSUME Inv, ActionsRight, NEW w, SetsRight(w), actions' = Staged(w)
    PROVE  ActionsRight'
<1>1. IsSequence(actions)
  BY DEF Inv, ActionsInv
<1>2. \A i \in DOMAIN actions' :
          (i \in DOMAIN actions /\ actions'[i] = actions[i]) \/ actions'[i].write = w
  BY <1>1, StagedAt
<1> QED
  BY <1>2 DEF ActionsRight, SetsRight

\* What is staged is right at each step.
LEMMA RightNext ==
    Inv /\ NetInv /\ WireInv /\ NamesLead /\ ActionsRight /\ [Next]_vars => ActionsRight'
<1> SUFFICES ASSUME Inv, NetInv, WireInv, NamesLead, ActionsRight, [Next]_vars
             PROVE  ActionsRight'
  OBVIOUS
<1>0. UNCHANGED actions => ActionsRight'
  BY DEF ActionsRight, SetsRight
<1>1. CASE \/ StartRun \/ PassOver \/ SendDeployment \/ RecordDeployment \/ RecordConfig
           \/ ReuseContract \/ RecallPynth \/ QueuePynth \/ SortPynths \/ RebuildCaches
           \/ Fail \/ Finish \/ Crash \/ HandOver \/ UpdateVersions \/ PrepareDeploy
           \/ TuneSetting \/ IssuePynths \/ UNCHANGED vars
  BY <1>0, <1>1 DEF StartRun, PassOver, SendDeployment, RecordDeployment, RecordConfig,
     ReuseContract, RecallPynth, QueuePynth, SortPynths, RebuildCaches, Fail, Finish, Crash,
     HandOver, UpdateVersions, PrepareDeploy, TuneSetting, IssuePynths, vars, fileVars
<1>2. CASE SetStep
  <2>1. pc \in Sets /\ Step.on \in DOMAIN deployed /\ ~Passed(Step) /\ Invoke(SetWrite(Step))
    BY <1>2 DEF SetStep, At, Step, Sets
  <2> QED
    BY <1>0, <2>1, WriteRight, StageRight DEF Invoke
<1>3. CASE ImportFeePeriods \/ RetirePynth \/ RemovePynth \/ AddPynths
  <2>1. PICK w : /\ Invoke(w) \/ NothingToDo
                 /\ \A x \in DOMAIN w.sets : x[2] \in Keys \cup {"supply", "periods"}
    BY <1>3, OtherWrites
  <2>2. SetsRight(w)
    BY <2>1, ParamSteps, OthersRight
  <2> QED
    BY <1>0, <2>1, <2>2, StageRight DEF Invoke, NothingToDo
<1>4. CASE ImportAddresses
  <2>1. DOMAIN deployed \subseteq Names
    BY DEF NetInv, DeployedInv, ListInv
  <2>2. \A x \in DOMAIN ImportWrite.sets : x[2] \in Names
    BY <2>1 DEF ImportWrite, Write, Unimported
  <2>3. SetsRight(ImportWrite)
    BY <2>2, ParamSteps, OthersRight
  <2>4. actions' = Staged(ImportWrite) \/ UNCHANGED actions
    BY <1>4 DEF ImportAddresses
  <2> QED
    BY <1>0, <2>3, <2>4, StageRight
<1>5. CASE OwnerActs
  BY <1>5, OwnerWrites DEF ActionsRight, SetsRight
<1> QED
  BY <1>1, <1>2, <1>3, <1>4, <1>5 DEF Next, RunStep

-----------------------------------------------------------------------------
(* What a run has set.                                                     *)

\* A slot that was set stays so if the contract that has it does, and if what
\* is written is right.
LEMMA RightKept ==
    ASSUME Inv, NetInv, NamesLead, NEW i \in Params, IsSet(Script[i]),
           Keeper(Script[i])' = Keeper(Script[i]), NEW g, slots' = Over(slots, g),
           \A x \in DOMAIN g : (NameOf(x[1]) = Script[i].at /\ x[2] = Script[i].field)
               => Right(Script[i], g[x])
    PROVE  IsSet(Script[i])'
<1> DEFINE k == Keeper(Script[i])
           f == Script[i].field
<1>1. CASE k = None
  BY <1>1 DEF IsSet
<1>2. CASE k # None
  <2>1. NameOf(<<k, f>>[1]) = Script[i].at /\ <<k, f>>[2] = f
    BY <1>2, ParamSteps, KeeperKnown
  <2>2. Right(Script[i], Held(slots, k, f))
    BY <1>2 DEF IsSet
  <2>3. Held(slots', k, f) = IF <<k, f>> \in DOMAIN g THEN g[<<k, f>>] ELSE Held(slots, k, f)
    BY HeldOver
  <2>4. Right(Script[i], Held(slots', k, f))
    BY <2>1, <2>2, <2>3
  <2> QED
    BY <2>4 DEF IsSet, Right
<1> QED
  BY <1>1, <1>2

\* So it does if its field is left alone.
LEMMA SetKept ==
    ASSUME Inv, NetInv, NamesLead, NEW i \in Params, IsSet(Script[i]),
           Keeper(Script[i])' = Keeper(Script[i]), SameFields({Script[i].field})
    PROVE  IsSet(Script[i])'
<1>1. CASE Keeper(Script[i]) = None
  BY <1>1 DEF IsSet
<1>2. CASE Keeper(Script[i]) # None
  <2>1. Keeper(Script[i]) \in recorded
    BY <1>2, ParamSteps, KeeperKnown
  <2>2. Held(slots', Keeper(Script[i]), Script[i].field)
            = Held(slots, Keeper(Script[i]), Script[i].field)
    BY <2>1 DEF SameFields
  <2> QED
    BY <1>2, <2>2 DEF IsSet, Right
<1> QED
  BY <1>1, <1>2

\* The contract that has a slot is another one only if deployment.json or a
\* cache has another one.
LEMMA KeeperSame ==
    ASSUME NEW i \in Params, TargetOf(Script[i].on)' = TargetOf(Script[i].on),
           Script[i].via => Held(slots', TargetOf(Script[i].on), Script[i].at)
                                = Held(slots, TargetOf(Script[i].on), Script[i].at)
    PROVE  Keeper(Script[i])' = Keeper(Script[i])
<1>1. Script[i].via \/ Script[i].at = Script[i].on
  BY ParamSteps
<1> QED
  BY <1>1 DEF Keeper

\* What is not below a range and below its end is in it.
LEMMA InRange ==
    ASSUME NEW p \in Nat, NEW q \in Nat, NEW i \in Nat, ~(i < p), i < q
    PROVE  i \in p..(q - 1)
  OBVIOUS

\* At a step that sets nothing, or is passed over.
LEMMA SetMoves ==
    ASSUME Inv, NetInv, NamesLead, SetInv, ~Idle, clean' => clean,
           UNCHANGED <<deployed, targets>>, pc' \in pc..(Len(Script) + 1),
           SameFields(SetFields),
           \/ SameFields(Names) /\ \A j \in pc..(pc' - 1) : j \in Params => Passed(Script[j])
           \/ ~Done("rebuild") /\ \A j \in pc..(pc' - 1) : j \notin Params
    PROVE  SetInv'
<1> SUFFICES ASSUME clean', NEW i \in Params, i < pc',
                    NeededBy(Script[i]) \subseteq DOMAIN deployed
             PROVE  IsSet(Script[i])'
  BY DEF SetInv
<1>0. pc \in 1..(Len(Script) + 1) /\ Len(Script) \in Nat /\ i \in 1..Len(Script) /\ i \in Sets
  BY ParamSteps DEF NetInv, ListInv, Idle
<1>1. IsSet(Script[i]) /\ (Script[i].via => SameFields(Names))
  <2>1. CASE i < pc
    BY <1>0, <2>1, AfterRebuild DEF SetInv
  <2>2. CASE ~(i < pc)
    <3>1. i \in pc..(pc' - 1)
      <4>1. pc' \in Nat /\ pc \in Nat /\ i \in Nat
        BY <1>0
      <4> QED
        BY <2>2, <4>1, InRange
    <3> QED
      BY <3>1, PassedSet
  <2> QED
    BY <2>1, <2>2
<1>2. Script[i].on \in DOMAIN deployed
  BY DEF NeededBy
<1>3. TargetOf(Script[i].on) \in recorded
  BY <1>2, DeployedKnown DEF TargetOf, NetInv, DeployedInv
<1>4. Script[i].via => Held(slots', TargetOf(Script[i].on), Script[i].at)
                           = Held(slots, TargetOf(Script[i].on), Script[i].at)
  BY <1>0, <1>1, <1>3, ParamSteps DEF SameFields
<1>5. Keeper(Script[i])' = Keeper(Script[i])
  BY <1>4, KeeperSame DEF TargetOf
<1>6. SameFields({Script[i].field})
  BY <1>0, ParamSteps DEF SameFields
<1> QED
  BY <1>1, <1>5, <1>6, SetKept

\* A deployment is of a contract that no earlier step needs.
LEMMA DeploySets ==
    ASSUME Inv, NetInv, NamesLead, SetInv, pc \in Deploys, pc' \in {pc, pc + 1},
           UNCHANGED clean, \A F : SameFields(F),
           \A n \in DOMAIN deployed' : n # Step.name => n \in DOMAIN deployed,
           \A n : n # Step.name => TargetOf(n)' = TargetOf(n)
    PROVE  SetInv'
<1> SUFFICES ASSUME clean', NEW i \in Params, i < pc',
                    NeededBy(Script[i]) \subseteq DOMAIN deployed'
             PROVE  IsSet(Script[i])'
  BY DEF SetInv
<1>0. /\ pc \in 1..Len(Script) /\ Len(Script) \in Nat /\ i \in 1..Len(Script) /\ i \in Sets
      /\ pc \notin Sets /\ Step = Script[pc]
  BY ParamSteps, ScriptSteps DEF Step
<1>1. i < pc
  BY <1>0
<1>2. \A n \in NeededBy(Script[i]) : n # Step.name
  <2>1. ASSUME NEW n \in NeededBy(Script[i]), n = Step.name PROVE FALSE
    <3>1. Before(n, i)
      BY ParamSteps
    <3>2. pc < i
      BY <1>0, <2>1, <3>1 DEF Before
    <3> QED
      BY <1>0, <1>1, <3>2
  <2> QED
    BY <2>1
<1>3. IsSet(Script[i])
  BY <1>1, <1>2 DEF SetInv
<1>4. Script[i].on \in DOMAIN deployed /\ TargetOf(Script[i].on)' = TargetOf(Script[i].on)
  BY <1>2 DEF NeededBy
<1>5. TargetOf(Script[i].on) \in recorded
  BY <1>4, DeployedKnown DEF TargetOf, NetInv, DeployedInv
<1>6. \A f : Held(slots', TargetOf(Script[i].on), f) = Held(slots, TargetOf(Script[i].on), f)
  <2>1. \A f : SameFields({f})
    OBVIOUS
  <2> QED
    BY <1>5, <2>1 DEF SameFields
<1>7. Keeper(Script[i])' = Keeper(Script[i])
  BY <1>4, <1>6, KeeperSame
<1> QED
  BY <1>3, <1>7, SetKept

\* What a new contract stores is in no known contract.
LEMMA SendSame ==
    ASSUME Inv, SendDeployment
    PROVE  \A F : SameFields(F)
<1> PICK k \in 1..MaxInstances :
         /\ <<Step.name, k>> \notin chain
         /\ slots' = Over(slots, Constructed(<<Step.name, k>>, Step))
  BY DEF SendDeployment
<1>1. ASSUME NEW a \in recorded, NEW f PROVE Held(slots', a, f) = Held(slots, a, f)
  <2>1. a # <<Step.name, k>>
    BY DEF Inv, FilesInv
  <2>2. \A x \in DOMAIN Constructed(<<Step.name, k>>, Step) : x[1] = <<Step.name, k>>
    BY DEF Constructed, Put, Over, Single
  <2>3. <<a, f>> \notin DOMAIN Constructed(<<Step.name, k>>, Step)
    BY <2>1, <2>2
  <2> QED
    BY <2>3, HeldOver
<1> QED
  BY <1>1 DEF SameFields

\* Deployments leave what is set.
LEMMA DeploymentSets ==
    ASSUME Inv, NetInv, NamesLead, SetInv,
           SendDeployment \/ RecordDeployment \/ RecordConfig \/ ReuseContract
    PROVE  SetInv'
<1>1. pc \in Deploys
  BY DEF NetInv, ListInv, SendDeployment, RecordDeployment, RecordConfig, ReuseContract, At,
         Deploys, Step
<1>2. pc' \in {pc, pc + 1} /\ UNCHANGED clean
  BY DEF SendDeployment, RecordDeployment, RecordConfig, ReuseContract, Advance
<1>3. \A F : SameFields(F)
  <2>1. CASE RecordDeployment \/ RecordConfig \/ ReuseContract
    BY <2>1 DEF RecordDeployment, RecordConfig, ReuseContract, chainVars, SameFields
  <2> QED
    BY <2>1, SendSame
<1>4. \A n \in DOMAIN deployed' : n # Step.name => n \in DOMAIN deployed
  BY DEF SendDeployment, RecordDeployment, RecordConfig, ReuseContract, Put, Over, Single
<1>5. \A n : n # Step.name => TargetOf(n)' = TargetOf(n)
  BY DEF SendDeployment, RecordDeployment, RecordConfig, ReuseContract, Put, Over, Single,
         TargetOf, fileVars
<1> QED
  BY <1>1, <1>2, <1>3, <1>4, <1>5, DeploySets

\* A step sets its slot, and leaves those of the others as they are to be.
LEMMA SetSets == Inv /\ NetInv /\ NamesLead /\ SetInv /\ SetStep => SetInv'
<1> SUFFICES ASSUME Inv, NetInv, NamesLead, SetInv, SetStep, clean',
                    NEW i \in Params, i < pc', NeededBy(Script[i]) \subseteq DOMAIN deployed
             PROVE  IsSet(Script[i])'
  BY DEF SetInv, SetStep
<1>0. /\ At("set") /\ Advance /\ Step.on \in DOMAIN deployed /\ ~Passed(Step)
      /\ Invoke(SetWrite(Step)) /\ UNCHANGED <<deployed, targets>> /\ Step = Script[pc]
  BY DEF SetStep, Step
<1>1. pc \in Sets /\ pc' = pc + 1 /\ Len(Script) \in Nat /\ i \in 1..Len(Script) /\ i \in Sets
      /\ pc \in 1..Len(Script)
  BY <1>0, ParamSteps, ScriptSteps DEF At, Step, Sets, Advance
<1>2. clean /\ slots' = Over(slots, SetWrite(Step).sets)
  BY <1>0 DEF Invoke
<1>3. SetsRight(SetWrite(Step)) /\ (pc \in Params => Right(Step, ValueOf(Step.to)))
  BY <1>0, <1>1, WriteRight
<1>4. \A x \in DOMAIN SetWrite(Step).sets : x = <<Holder(Step), Step.field>> /\ x[2] \notin Names
  BY <1>0, <1>1, ParamSteps DEF SetWrite, Write, Single
<1>5. Keeper(Script[i])' = Keeper(Script[i])
  <2>1. Script[i].via => Script[i].at \in Names
    BY <1>1, ParamSteps
  <2>2. Script[i].via => <<TargetOf(Script[i].on), Script[i].at>> \notin DOMAIN SetWrite(Step).sets
    BY <1>4, <2>1
  <2>3. Script[i].via => Held(slots', TargetOf(Script[i].on), Script[i].at)
                             = Held(slots, TargetOf(Script[i].on), Script[i].at)
    BY <1>2, <2>2, HeldOver
  <2> QED
    BY <1>0, <2>3, KeeperSame DEF TargetOf
<1>6. CASE i < pc
  <2>1. IsSet(Script[i])
    BY <1>2, <1>6 DEF SetInv
  <2> QED
    BY <1>2, <1>3, <1>5, <2>1, RightKept DEF SetsRight
<1>7. CASE i = pc
  <2>1. Keeper(Step) = Holder(Step)
    BY <1>0, <1>1, KeeperHolds
  <2>2. /\ <<Holder(Step), Step.field>> \in DOMAIN SetWrite(Step).sets
        /\ SetWrite(Step).sets[<<Holder(Step), Step.field>>] = ValueOf(Step.to)
    BY DEF SetWrite, Write, Single
  <2>3. Held(slots', Keeper(Step), Step.field) = ValueOf(Step.to)
    BY <1>2, <2>1, <2>2, HeldOver
  <2> QED
    BY <1>0, <1>3, <1>5, <1>7, <2>3 DEF IsSet, Right
<1> QED
  BY <1>1, <1>6, <1>7

\* The other steps of a run leave what is set.
LEMMA OtherSets ==
    ASSUME Inv, NetInv, WireInv, NamesLead, SetInv,
           \/ PassOver \/ RecallPynth \/ QueuePynth \/ SortPynths \/ ImportFeePeriods
           \/ RetirePynth \/ RemovePynth \/ AddPynths \/ RebuildCaches
           \/ (ImportAddresses /\ pc' = pc + 1)
    PROVE  SetInv'
<1>0. \A i \in Params : i \in Sets
  BY ParamSteps
<1>1. CASE PassOver
  <2>1. /\ pc \in 1..Len(Script) /\ Len(Script) \in Nat /\ ~Idle
        /\ UNCHANGED <<slots, deployed, targets, clean>>
    BY <1>1, ScriptSteps DEF PassOver, chainVars, fileVars, Idle
  <2>2. pc' \in (pc + 1)..(Len(Script) + 1) /\ \A j \in pc..(pc' - 1) : Passed(Script[j])
    BY <1>1 DEF PassOver
  <2>3. pc' \in pc..(Len(Script) + 1)
    BY <2>1, <2>2
  <2>4. \A F : SameFields(F)
    BY <2>1 DEF SameFields
  <2> QED
    BY <2>1, <2>2, <2>3, <2>4, SetMoves
<1>2. CASE RecallPynth \/ QueuePynth \/ SortPynths
  <2>1. PICK op \in {"recall", "queue", "sort"} : At(op) /\ Advance
    BY <1>2 DEF RecallPynth, QueuePynth, SortPynths
  <2>2. UNCHANGED <<slots, deployed, targets, clean>>
    BY <1>2 DEF RecallPynth, QueuePynth, SortPynths, chainVars, fileVars
  <2>3. \A F : SameFields(F)
    BY <2>2 DEF SameFields
  <2> QED
    BY <1>0, <2>1, <2>2, <2>3, AdvanceSkips, SetMoves
<1>3. CASE ImportFeePeriods \/ RetirePynth \/ RemovePynth \/ AddPynths
  <2>1. PICK op \in {"periods", "retire", "remove", "add"} : At(op) /\ Advance
    BY <1>3 DEF ImportFeePeriods, RetirePynth, RemovePynth, AddPynths
  <2>2. PICK w : /\ Invoke(w) \/ NothingToDo
                 /\ \A x \in DOMAIN w.sets : x[2] \in Keys \cup {"supply", "periods"}
    BY <1>3, OtherWrites
  <2>3. UNCHANGED <<deployed, targets>>
    BY <1>3 DEF ImportFeePeriods, RetirePynth, RemovePynth, AddPynths
  <2>4. \A x \in DOMAIN w.sets : x[2] \notin SetFields /\ x[2] \notin Names
    BY <2>2, ParamSteps, WireFields, PlainFields
  <2>5. SameFields(SetFields) /\ SameFields(Names) /\ (clean' => clean)
    BY <2>2, <2>4, InvokeSame
  <2> QED
    BY <1>0, <2>1, <2>3, <2>5, AdvanceSkips, SetMoves
<1>4. CASE RebuildCaches
  <2> DEFINE S == UNION {{<<deployed[n], r>> : r \in Required[n]} : n \in ToRebuild}
             g == [x \in S |-> Resolved(x[2])]
  <2>1. At("rebuild") /\ Advance /\ UNCHANGED <<deployed, targets, clean>>
        /\ slots' = Over(slots, g)
    BY <1>4 DEF RebuildCaches, fileVars
  <2>2. \A x \in DOMAIN g : x[2] \in Names
    BY ScriptAssumption DEF ToRebuild, ScriptInOrder, ContractsInOrder
  <2> HIDE DEF g
  <2>3. SameFields(SetFields)
    <3>1. \A a : \A f \in SetFields : <<a, f>> \notin DOMAIN g
      BY <2>2, ParamSteps
    <3>2. \A a, f : Held(Over(slots, g), a, f) = IF <<a, f>> \in DOMAIN g THEN g[<<a, f>>]
                                                ELSE Held(slots, a, f)
      BY HeldOver
    <3> QED
      BY <2>1, <3>1, <3>2 DEF SameFields
  <2>4. ~Done("rebuild")
    BY <2>1, LastSteps, OnceNotDone
  <2> QED
    BY <1>0, <2>1, <2>3, <2>4, AdvanceSkips, SetMoves
<1>5. CASE ImportAddresses /\ pc' = pc + 1
  <2>1. At("import") /\ UNCHANGED targets
    BY <1>5 DEF ImportAddresses
  <2>2. pc \in 1..Len(Script)
    BY <2>1, ScriptSteps DEF At
  <2>3. Advance /\ UNCHANGED <<deployed, clean>>
        /\ (slots' = slots \/ slots' = Over(slots, ImportWrite.sets))
    BY <1>5, <2>2, ScriptSteps DEF ImportAddresses, EndWith
  <2>4. DOMAIN deployed \subseteq Names
    BY DEF NetInv, DeployedInv, ListInv
  <2>5. \A a : \A f \in SetFields : <<a, f>> \notin DOMAIN ImportWrite.sets
    BY <2>4, ParamSteps DEF ImportWrite, Write, Unimported
  <2>6. SameFields(SetFields)
    <3>1. CASE slots' = slots
      BY <3>1 DEF SameFields
    <3>2. CASE slots' = Over(slots, ImportWrite.sets)
      <4>1. \A a, f : Held(Over(slots, ImportWrite.sets), a, f)
                          = IF <<a, f>> \in DOMAIN ImportWrite.sets
                            THEN ImportWrite.sets[<<a, f>>] ELSE Held(slots, a, f)
        BY HeldOver
      <4> QED
        BY <2>5, <3>2, <4>1 DEF SameFields
    <3> QED
      BY <2>3, <3>1, <3>2
  <2>7. ~Done("rebuild")
    BY <2>1, LastSteps, LaterNotDone
  <2> QED
    BY <1>0, <2>1, <2>3, <2>6, <2>7, AdvanceSkips, SetMoves
<1> QED
  BY <1>1, <1>2, <1>3, <1>4, <1>5

\* What a run is past is set, at each step.
LEMMA SetNext ==
    Inv /\ NetInv /\ WireInv /\ NamesLead /\ SetInv /\ [Next]_vars => SetInv'
<1> SUFFICES ASSUME Inv, NetInv, WireInv, NamesLead, SetInv, [Next]_vars PROVE SetInv'
  OBVIOUS
<1>1. ASSUME pc' \in {0, 1} PROVE SetInv'
  <2>1. \A i \in Params : ~(i < 0) /\ ~(i < 1)
    BY ParamSteps
  <2> QED
    BY <1>1, <2>1 DEF SetInv
<1>2. CASE \/ StartRun \/ Crash \/ Finish \/ Fail \/ OwnerActs \/ HandOver \/ TuneSetting
           \/ IssuePynths \/ UpdateVersions \/ PrepareDeploy
  BY <1>1, <1>2 DEF StartRun, Crash, Finish, Fail, EndWith, OwnerActs, HandOver, TuneSetting,
     IssuePynths, UpdateVersions, PrepareDeploy, runVars, Idle
<1>3. CASE ImportAddresses
  BY <1>1, <1>3, OtherSets DEF ImportAddresses, EndWith, Advance
<1>4. CASE UNCHANGED vars
  BY <1>4 DEF SetInv, IsSet, Keeper, TargetOf, vars, chainVars, fileVars, runVars
<1> QED
  BY <1>1, <1>2, <1>3, <1>4, DeploymentSets, SetSets, OtherSets DEF Next, RunStep

-----------------------------------------------------------------------------
(* A run with nothing to deploy, after one that ended clean.               *)

\* What a run has is in config.json, but for what it has just recorded.
ListedInv ==
    /\ \A n \in DOMAIN deployed : n \in DOMAIN config \/ (stage = "recorded" /\ n = Step.name)
    /\ Idle => adding = {}

\* Slots are a function, so writing nothing over them leaves them.
FunInv == slots = [x \in DOMAIN slots |-> slots[x]]

\* What some runs deploy unasked is in config.json.
ForcedListed == \A i \in Deploys : Script[i].force => Script[i].name \in DOMAIN config

Unflagged == \A n \in DOMAIN flags : ~flags[n]

\* The run has only what it reuses, and no pynth is replaced.
Untouched ==
    /\ stage = "step" /\ DOMAIN old = {} /\ replacing = {}
    /\ DOMAIN deployed \cap Optional = {}
    /\ \A i \in Deploys : Script[i].force => Script[i].name \in DOMAIN flags
    /\ \A key \in adding : key \in Keys /\ {Pynths[key], "Issuer"} \subseteq DOMAIN deployed

\* After a clean run, and in one that follows it without flags, all is as the
\* script has it.
QuietInv == (outcome = "clean" /\ (Idle \/ Unflagged)) =>
    /\ Wired /\ Settled /\ ForcedListed
    /\ ~Idle => Untouched

\* A step that leaves what a run has leaves it listed.
LEMMA SameListed ==
    ASSUME ListedInv, stage = "step", UNCHANGED deployed, DOMAIN config \subseteq DOMAIN config',
           Idle' => adding' = {}
    PROVE  ListedInv'
  BY DEF ListedInv

\* So does a run that begins, or ends, without contracts.
LEMMA NoneListed ==
    ASSUME deployed' = <<>>, Idle' => adding' = {}
    PROVE  ListedInv'
<1>1. DOMAIN deployed' = {}
  OBVIOUS
<1> QED
  BY <1>1 DEF ListedInv

\* A function with one more value has one more in its domain.
LEMMA DomainPut ==
    ASSUME NEW f, NEW k, NEW v
    PROVE  DOMAIN Put(f, k, v) = DOMAIN f \cup {k}
  BY DEF Put, Over, Single

\* What a run has is listed, at each step.
LEMMA ListedNext == NetInv /\ ListedInv /\ [Next]_vars => ListedInv'
<1> SUFFICES ASSUME NetInv, ListedInv, [Next]_vars PROVE ListedInv'
  OBVIOUS
<1>0. pc \in Nat /\ Len(Script) \in Nat
  BY ScriptSteps DEF NetInv, ListInv
<1>12. Advance => pc' # 0
  BY <1>0 DEF Advance
<1>1. CASE Crash \/ Fail \/ Finish
  BY <1>1, NoneListed DEF Crash, Fail, Finish, EndWith
<1>2. CASE StartRun
  BY <1>2, NoneListed DEF StartRun, NewDeployer, Idle
<1>3. CASE OwnerActs \/ HandOver \/ TuneSetting \/ IssuePynths \/ UpdateVersions
           \/ PrepareDeploy
  <2>1. Idle /\ UNCHANGED runVars
    BY <1>3 DEF OwnerActs, HandOver, TuneSetting, IssuePynths, UpdateVersions, PrepareDeploy
  <2>2. UNCHANGED config \/ \E g : config' = Over(config, g)
    BY <1>3 DEF OwnerActs, HandOver, TuneSetting, IssuePynths, UpdateVersions, PrepareDeploy,
       fileVars
  <2>3. DOMAIN config \subseteq DOMAIN config'
    BY <2>2 DEF Over
  <2> QED
    BY <2>1, <2>3, SameListed DEF NetInv, ListInv, ListedInv, runVars, Idle
<1>4. CASE PassOver
  BY <1>0, <1>4, SameListed, StepGoesOn DEF PassOver, fileVars, Idle, RunStep
<1>5. CASE SendDeployment
  <2>1. stage = "step" /\ UNCHANGED <<deployed, config, pc>> /\ pc # 0
    BY <1>5, ScriptSteps DEF SendDeployment, At, fileVars
  <2> QED
    BY <2>1, SameListed DEF Idle
<1>6. CASE RecordDeployment
  <2>1. /\ stage = "sent" /\ stage' = "recorded" /\ UNCHANGED <<config, pc, adding>>
        /\ DOMAIN deployed' = DOMAIN deployed \cup {Step.name}
    BY <1>6, DomainPut DEF RecordDeployment
  <2>2. Step' = Step
    BY <2>1 DEF Step
  <2> QED
    BY <2>1, <2>2 DEF ListedInv, Idle
<1>7. CASE RecordConfig
  <2>1. /\ UNCHANGED deployed /\ pc' # 0
        /\ DOMAIN config' = DOMAIN config \cup {Step.name}
    BY <1>7, <1>12, DomainPut DEF RecordConfig
  <2> QED
    BY <2>1 DEF ListedInv, Idle
<1>8. CASE ReuseContract
  <2>1. /\ stage = "step" /\ UNCHANGED config /\ pc' # 0
        /\ DOMAIN deployed' = DOMAIN deployed \cup {Step.name}
    BY <1>8, <1>12, DomainPut DEF ReuseContract, At, fileVars
  <2>2. Step.name \in DOMAIN flags
    BY <1>8 DEF ReuseContract, Passed, ToDeploy, Known, At
  <2> QED
    BY <2>1, <2>2 DEF ListedInv, Idle, NetInv, ListInv
<1>9. CASE SetStep \/ ImportFeePeriods \/ RebuildCaches \/ RecallPynth \/ QueuePynth
           \/ SortPynths \/ RetirePynth \/ RemovePynth \/ AddPynths
  <2>1. stage = "step" /\ UNCHANGED <<deployed, config>> /\ pc' # 0
    BY <1>0, <1>9 DEF SetStep, ImportFeePeriods, RebuildCaches, RecallPynth, QueuePynth,
       SortPynths, RetirePynth, RemovePynth, AddPynths, At, Advance, fileVars
  <2> QED
    BY <2>1, SameListed DEF Idle
<1>10. CASE ImportAddresses
  <2>1. stage = "step" /\ UNCHANGED config
    BY <1>10 DEF ImportAddresses, At
  <2>2. \/ deployed' = <<>> /\ adding' = {}
        \/ Advance /\ UNCHANGED deployed
    BY <1>10 DEF ImportAddresses, EndWith
  <2> QED
    BY <1>12, <2>1, <2>2, SameListed, NoneListed DEF Idle
<1>11. CASE UNCHANGED vars
  BY <1>11 DEF ListedInv, Idle, Step, vars, runVars, fileVars
<1> QED
  BY <1>1, <1>2, <1>3, <1>4, <1>5, <1>6, <1>7, <1>8, <1>9, <1>10, <1>11 DEF Next, RunStep

\* Slots stay a function.
LEMMA FunNext == FunInv /\ [Next]_vars => FunInv'
<1> SUFFICES ASSUME FunInv, [Next]_vars PROVE FunInv'
  OBVIOUS
<1>1. (\E g : slots' = Over(slots, g)) => FunInv'
  BY DEF Over, FunInv
<1>2. UNCHANGED slots => FunInv'
  BY DEF FunInv
<1>3. CASE \/ StartRun \/ PassOver \/ RecordDeployment \/ RecordConfig \/ ReuseContract
           \/ RecallPynth \/ QueuePynth \/ SortPynths \/ Fail \/ Finish \/ Crash
           \/ HandOver \/ UpdateVersions \/ PrepareDeploy \/ UNCHANGED vars
  BY <1>2, <1>3 DEF StartRun, PassOver, RecordDeployment, RecordConfig, ReuseContract,
     RecallPynth, QueuePynth, SortPynths, Fail, Finish, Crash, HandOver, UpdateVersions,
     PrepareDeploy, vars, chainVars
<1>4. CASE SetStep \/ ImportFeePeriods \/ RetirePynth \/ RemovePynth \/ AddPynths
  BY <1>1, <1>2, <1>4 DEF SetStep, ImportFeePeriods, RetirePynth, RemovePynth, AddPynths,
     Invoke, NothingToDo
<1>5. CASE SendDeployment \/ ImportAddresses \/ RebuildCaches \/ OwnerActs
  BY <1>1, <1>2, <1>5 DEF SendDeployment, ImportAddresses, RebuildCaches, OwnerActs
<1>6. CASE TuneSetting \/ IssuePynths
  BY <1>1, <1>6, TuneWrites
<1> QED
  BY <1>1, <1>2, <1>3, <1>4, <1>5, <1>6 DEF Next, RunStep

-----------------------------------------------------------------------------
(* A clean run has set what deployment.json has the contracts for.         *)

\* At the end of a run.
LEMMA EndSettled ==
    ASSUME Inv, NetInv, SetInv, pc = Len(Script) + 1, clean
    PROVE  Settled
<1> SUFFICES ASSUME NEW i \in Params, NeededBy(Script[i]) \subseteq DOMAIN targets
             PROVE  IsSet(Script[i])
  BY DEF Settled
<1>1. i < pc /\ Len(Script) \in Nat /\ Deploys \subseteq 1..Len(Script)
  BY ParamSteps, ScriptSteps
<1>2. ASSUME NEW n \in NeededBy(Script[i]) PROVE n \in DOMAIN deployed
  <2>1. n \notin Optional /\ n \in DOMAIN targets
    BY ParamSteps
  <2>2. PICK j \in Deploys : Script[j].name = n
    BY <2>1, StepOfName DEF NetInv, ListInv
  <2>3. j < pc
    BY <1>1, <2>2
  <2> QED
    BY <2>1, <2>2, <2>3 DEF NetInv, DeployedInv
<1> QED
  BY <1>1, <1>2 DEF SetInv

\* And what is deployed unasked is listed.
LEMMA EndForced ==
    ASSUME NetInv, ListedInv, pc = Len(Script) + 1
    PROVE  ForcedListed
<1> SUFFICES ASSUME NEW i \in Deploys, Script[i].force PROVE Script[i].name \in DOMAIN config
  BY DEF ForcedListed
<1>1. Len(Script) \in Nat /\ i \in 1..Len(Script) /\ pc \notin Deploys
  BY ScriptSteps
<1>2. Script[i].given = {} /\ Script[i].when = {}
  BY ScriptAssumption DEF ScriptInOrder, SettingsInOrder
<1>3. Script[i].name \in DOMAIN deployed
  BY <1>1, <1>2 DEF Certain, NetInv, DeployedInv
<1> QED
  BY <1>1, <1>3 DEF ListedInv, NetInv, ListInv

\* A write that is right keeps what is set, if it leaves names alone where
\* caches have them.
LEMMA SettledOver ==
    ASSUME Inv, NetInv, NamesLead, Settled, UNCHANGED targets, NEW g, slots' = Over(slots, g),
           \A x \in DOMAIN g : x[2] \in Names => NameOf(x[1]) = "AddressResolver",
           \A x \in DOMAIN g : \A i \in Params :
               (NameOf(x[1]) = Script[i].at /\ x[2] = Script[i].field)
                   => Right(Script[i], g[x])
    PROVE  Settled'
<1> SUFFICES ASSUME NEW i \in Params, NeededBy(Script[i]) \subseteq DOMAIN targets
             PROVE  IsSet(Script[i])'
  BY DEF Settled
<1>1. IsSet(Script[i]) /\ i \in Sets /\ Script[i].on \in DOMAIN targets
  BY ParamSteps DEF Settled, NeededBy
<1>2. Script[i].via => Held(slots', TargetOf(Script[i].on), Script[i].at)
                           = Held(slots, TargetOf(Script[i].on), Script[i].at)
  <2>1. SUFFICES ASSUME Script[i].via
                 PROVE  Held(slots', TargetOf(Script[i].on), Script[i].at)
                            = Held(slots, TargetOf(Script[i].on), Script[i].at)
    OBVIOUS
  <2>2. Script[i].on # "AddressResolver" /\ Script[i].at \in Names
    BY <1>1, <2>1, ParamSteps
  <2>3. NameOf(TargetOf(Script[i].on)) = Script[i].on
    BY <1>1 DEF TargetOf, NetInv, ChainInv
  <2>4. <<TargetOf(Script[i].on), Script[i].at>> \notin DOMAIN g
    BY <2>2, <2>3
  <2> QED
    BY <2>4, HeldOver
<1>3. Keeper(Script[i])' = Keeper(Script[i])
  BY <1>2, KeeperSame DEF TargetOf
<1> QED
  BY <1>1, <1>3, RightKept

\* Between runs nothing unsets it.
LEMMA SettledNext ==
    ASSUME Inv, NetInv, OwnInv, NamesLead, ActionsRight, Settled,
           OwnerActs \/ TuneSetting \/ IssuePynths
    PROVE  Settled'
<1>1. CASE OwnerActs
  <2>1. PICK i \in DOMAIN actions : slots' = Over(slots, SetsOf(i))
    BY <1>1, OwnerWrites
  <2>2. \A x \in DOMAIN SetsOf(i) : x[2] \in Names => NameOf(x[1]) = "AddressResolver"
    BY DEF OwnInv, ActionsFit, Fits, SetsOf
  <2>3. \A x \in DOMAIN SetsOf(i) : \A j \in Params :
            (NameOf(x[1]) = Script[j].at /\ x[2] = Script[j].field)
                => Right(Script[j], SetsOf(i)[x])
    BY DEF ActionsRight, SetsRight, SetsOf
  <2>4. UNCHANGED targets
    BY <1>1 DEF OwnerActs
  <2> QED
    BY <2>1, <2>2, <2>3, <2>4, SettledOver
<1>2. CASE TuneSetting
  <2>1. PICK f \in Settings :
            slots' = Over(slots, Single(<<Slot(MaySet, "FlexibleStorage"), f>>, Tuned))
    BY <1>2 DEF TuneSetting, Put
  <2> DEFINE g == Single(<<Slot(MaySet, "FlexibleStorage"), f>>, Tuned)
  <2>2. \A x \in DOMAIN g : x[2] = f /\ g[x] = Tuned
    BY DEF Single
  <2>3. f \notin Names
    BY PlainFields
  <2>4. ASSUME NEW i \in Params, Script[i].field = f PROVE Right(Script[i], Tuned)
    <3>1. Script[i].keep
      BY <2>4, ParamSteps
    <3> QED
      BY <3>1 DEF Right, Tuned, None
  <2>5. UNCHANGED targets
    BY <1>2 DEF TuneSetting, fileVars
  <2> HIDE DEF g
  <2>6. slots' = Over(slots, g)
    BY <2>1 DEF g
  <2> QED
    BY <2>2, <2>3, <2>4, <2>5, <2>6, SettledOver
<1>3. CASE IssuePynths
  <2>1. PICK P : slots' = Over(slots, [x \in {<<p, "supply">> : p \in P} |-> Some])
    BY <1>3 DEF IssuePynths
  <2> DEFINE g == [x \in {<<p, "supply">> : p \in P} |-> Some]
  <2>2. \A x \in DOMAIN g : x[2] = "supply"
    OBVIOUS
  <2>3. "supply" \notin Names
    BY PlainFields
  <2>4. \A i \in Params : Script[i].field # "supply"
    BY ParamSteps
  <2>5. UNCHANGED targets
    BY <1>3 DEF IssuePynths, fileVars
  <2> HIDE DEF g
  <2>6. slots' = Over(slots, g)
    BY <2>1 DEF g
  <2> QED
    BY <2>2, <2>3, <2>4, <2>5, <2>6, SettledOver
<1> QED
  BY <1>1, <1>2, <1>3

-----------------------------------------------------------------------------
(* Such a run finds everything as it should be.                            *)

\* A run in which nothing is flagged, and nothing was to be done before it.
Quiet == /\ Inv /\ NetInv /\ WireInv /\ NamesLead /\ FunInv
         /\ ~Idle /\ Unflagged /\ Wired /\ Settled /\ Untouched

\* Its steps do not wait for flags.
LEMMA QuietRelevant ==
    ASSUME Unflagged, NEW s, Relevant(s)
    PROVE  s.when = {} /\ s.given \subseteq DOMAIN deployed
  BY DEF Unflagged, Relevant, Flagged

\* It deploys nothing.
LEMMA QuietDeploys ==
    ASSUME Quiet, pc \in Deploys, ~Passed(Step)
    PROVE  ~ToDeploy(Step) /\ Step.name \notin Optional
<1>1. Step = Script[pc] /\ Step.op = "deploy"
  BY DEF Step, Deploys
<1>2. Relevant(Step) /\ Known(Step)
  BY <1>1 DEF Passed
<1>3. Step.when = {}
  BY <1>2, QuietRelevant DEF Quiet
<1>4. Step.name \in DOMAIN flags
  BY <1>1, <1>2 DEF Known, Quiet, Untouched
<1>5. Step.name \notin Optional
  BY <1>1, <1>3, ScriptAssumption DEF Optional, ScriptInOrder, ContractsInOrder
<1> QED
  BY <1>4, <1>5 DEF ToDeploy, Quiet, Unflagged

\* What it has are the contracts of deployment.json.
LEMMA QuietTargets ==
    ASSUME Quiet, NEW n \in DOMAIN deployed
    PROVE  /\ n \in DOMAIN targets \ Optional /\ TargetOf(n) = deployed[n]
           /\ AddressOf(n) = deployed[n] /\ deployed[n] = targets[n]
  BY DeployedKnown DEF Quiet, Untouched, NetInv, DeployedInv, TargetOf

\* Each step finds its slot as it should be.
LEMMA QuietSets ==
    ASSUME Quiet, pc \in Sets, Step.on \in DOMAIN deployed
    PROVE  Passed(Step)
<1> SUFFICES ASSUME Relevant(Step), Holder(Step) # None PROVE Expected(Step)
  BY DEF Passed, Sets, Step
<1>0. Step = Script[pc] /\ Step.op = "set"
  BY DEF Step, Sets
<1>1. Step.when = {} /\ Step.given \subseteq DOMAIN deployed
  BY QuietRelevant DEF Quiet
<1>2. DOMAIN deployed \subseteq DOMAIN targets
  BY QuietTargets
<1>3. CASE pc \in Links
  <2>1. {Step.on, Step.to} \subseteq DOMAIN deployed
    <3>1. /\ pc \in 1..Len(Script) /\ Len(Script) \in Nat /\ pc \notin Deploys
          /\ pc + 1 \in pc..(Len(Script) + 1) /\ \A j \in pc..((pc + 1) - 1) : j = pc
          /\ pc < pc + 1
      BY ScriptSteps
    <3>2. \A j \in pc..((pc + 1) - 1) : j \in Deploys => Passed(Script[j])
      BY <3>1
    <3>3. Script[pc].given \subseteq DOMAIN deployed /\ NetInv /\ ~Idle
      BY <1>0, <1>1 DEF Quiet
    <3>4. {Script[pc].on, Script[pc].to} \subseteq DOMAIN deployed
      BY <1>3, <3>1, <3>2, <3>3, LinkTo
    <3> QED
      BY <1>0, <3>4
  <2>2. Step.at = Step.on /\ ~Step.via /\ ~Step.keep /\ Step.to # "fixed"
    BY <1>0, <1>3, WireFields
  <2>3. Slot(targets[Step.at], Step.field) = targets[Step.to]
    <3>1. LinkHolds(Step) /\ pc \in DOMAIN Script
      BY <1>0, ScriptSteps DEF Quiet, Wired
    <3> QED
      BY <1>0, <1>1, <1>2, <2>1, <2>2, <3>1 DEF LinkHolds
  <2>4. Holder(Step) = targets[Step.at] /\ ValueOf(Step.to) = targets[Step.to]
    BY <2>1, <2>2, QuietTargets DEF Holder, ValueOf
  <2> QED
    BY <2>2, <2>3, <2>4 DEF Expected
<1>4. CASE pc \notin Links
  <2>1. pc \in Params
    BY <1>0, <1>1, <1>4 DEF Params
  <2>2. NeededBy(Step) \subseteq DOMAIN targets
    BY <1>1, <1>2 DEF NeededBy
  <2>3. IsSet(Step) /\ Holder(Step) = Keeper(Step)
    BY <1>0, <2>1, <2>2, KeeperHolds DEF Quiet, Settled
  <2>4. ~Step.keep => ValueOf(Step.to) = IF Step.to = "fixed" THEN Fixed ELSE None
    BY <1>0, <2>1, ParamValue DEF Quiet
  <2> QED
    BY <2>3, <2>4, SlotHeld DEF IsSet, Right, Expected
<1> QED
  BY <1>3, <1>4

\* The resolver has all names.
LEMMA QuietImport ==
    ASSUME Quiet, At("import") \/ At("rebuild")
    PROVE  Unimported = {} /\ Resolver = TargetOf("AddressResolver")
           /\ Core \subseteq DOMAIN deployed
<1>1. Core \subseteq DOMAIN deployed
  BY PastDeploys, CertainDeployed DEF At, Step, Quiet
<1>2. Resolver = TargetOf("AddressResolver")
  BY <1>1, QuietTargets DEF Core, Resolver
<1>3. \A n \in DOMAIN deployed : Slot(Resolver, n) = deployed[n]
  BY <1>2, QuietTargets DEF Quiet, Wired, ResolverHolds
<1> QED
  BY <1>1, <1>2, <1>3 DEF Unimported

\* And the caches.
LEMMA QuietCaches ==
    ASSUME Quiet, At("rebuild")
    PROVE  ToRebuild = {}
<1> SUFFICES ASSUME NEW n \in DOMAIN Required \cap DOMAIN deployed,
                    \A r \in Required[n] : Slot(Resolver, r) # None
             PROVE  Cached(n)
  BY DEF ToRebuild
<1>1. Core \subseteq DOMAIN deployed /\ Resolver = TargetOf("AddressResolver")
  BY QuietImport
<1>2. Required[n] \subseteq Names \ Optional
  BY ScriptAssumption DEF ScriptInOrder, ContractsInOrder
<1>3. ASSUME NEW r \in Required[n] PROVE r \in DOMAIN targets \ Optional
  <2>1. Slot(Resolver, r) \in Of(r)
    BY <1>2, SlotHeld DEF Held, Quiet, NamesLead
  <2> QED
    BY <1>2, <2>1 DEF Of, Quiet, NetInv, ChainInv
<1>4. \A r \in Required[n] : Slot(deployed[n], r) = targets[r]
  BY <1>3, QuietTargets DEF Quiet, Wired, CachesHold, TargetOf
<1>5. \A r \in Required[n] : Slot(Resolver, r) = targets[r]
  BY <1>1, <1>3 DEF Quiet, Wired, ResolverHolds
<1>6. Slot(AddressOf("ReadProxyAddressResolver"), "target") = Resolver
  <2>1. PICK i \in Links :
            /\ Script[i].on = "ReadProxyAddressResolver" /\ Script[i].field = "target"
            /\ Script[i].to = "AddressResolver" /\ Script[i].given \subseteq Core
    BY ScriptAssumption DEF ScriptInOrder, LinksInOrder
  <2>2. LinkHolds(Script[i])
    BY <2>1, ScriptSteps DEF Quiet, Wired
  <2>3. Core \subseteq DOMAIN targets
    BY <1>1, QuietTargets
  <2>4. /\ Script[i].op = "set" /\ ~Script[i].keep /\ Script[i].when = {} /\ ~Script[i].via
        /\ Script[i].at = Script[i].on
    BY <2>1, WireFields
  <2>5. Slot(targets["ReadProxyAddressResolver"], "target") = targets["AddressResolver"]
    BY <2>1, <2>2, <2>3, <2>4 DEF LinkHolds, Core
  <2> QED
    BY <1>1, <2>3, <2>5, QuietTargets DEF Core, TargetOf
<1> QED
  BY <1>2, <1>3, <1>4, <1>5, <1>6 DEF Cached, Resolved, Quiet, Inv, FilesInv, ValuesInv,
     Within, NoAddresses

\* The issuer lists the pynths.
LEMMA QuietPynths ==
    ASSUME Quiet
    PROVE  AllListed
<1> SUFFICES ASSUME NEW key \in adding PROVE Slot(Issuer, key) = PynthOf(key)
  BY DEF AllListed
<1>1. key \in DOMAIN Pynths /\ {Pynths[key], "Issuer"} \subseteq DOMAIN deployed
  BY DEF Quiet, Untouched, Keys
<1>2. Issuer = TargetOf("Issuer") /\ PynthOf(key) = TargetOf(Pynths[key])
  BY <1>1, QuietTargets DEF Issuer, PynthOf
<1> QED
  BY <1>1, <1>2 DEF Quiet, Wired, ListedHold

-----------------------------------------------------------------------------
(* So it changes nothing, and leaves all as it is.                         *)

\* Each step of such a run leaves the chain and the files, and the run itself as
\* untouched as it was, until it ends.
LEMMA QuietStep ==
    ASSUME Quiet, [Next]_vars
    PROVE  UNCHANGED <<chainVars, fileVars>> /\ (Idle' \/ Untouched')
<1>0. /\ stage = "step" /\ pc # 0 /\ replacing = {} /\ DOMAIN old = {}
      /\ \A n : ~Flagged(n)
  BY DEF Quiet, Untouched, Unflagged, Flagged, Idle
<1>1. UNCHANGED <<stage, old, replacing, deployed, flags, adding>> => Untouched'
  BY DEF Quiet, Untouched
<1>2. CASE \/ StartRun \/ OwnerActs \/ HandOver \/ TuneSetting \/ IssuePynths
           \/ UpdateVersions \/ PrepareDeploy \/ RecordDeployment \/ RecordConfig
  BY <1>0, <1>2 DEF StartRun, OwnerActs, HandOver, TuneSetting, IssuePynths, UpdateVersions,
     PrepareDeploy, RecordDeployment, RecordConfig, Idle
<1>3. CASE Crash \/ Fail \/ Finish
  BY <1>3 DEF Crash, Fail, Finish, EndWith, Idle
<1>4. CASE PassOver
  BY <1>1, <1>4 DEF PassOver
<1>5. CASE SendDeployment
  <2>1. pc \in Deploys /\ ~Passed(Step) /\ ToDeploy(Step)
    BY <1>5 DEF SendDeployment, At, Deploys, Step
  <2> QED
    BY <2>1, QuietDeploys
<1>6. CASE ReuseContract
  <2>1. pc \in Deploys /\ ~Passed(Step)
    BY <1>6 DEF ReuseContract, At, Deploys, Step
  <2>2. Step.name \notin Optional
    BY <2>1, QuietDeploys
  <2>3. /\ DOMAIN deployed' = DOMAIN deployed \cup {Step.name}
        /\ UNCHANGED <<chainVars, fileVars, flags, old, adding, replacing>>
        /\ stage' = "step"
    BY <1>6, DomainPut DEF ReuseContract, Advance
  <2> QED
    BY <2>2, <2>3 DEF Quiet, Untouched
<1>7. CASE SetStep
  <2>1. pc \in Sets /\ Step.on \in DOMAIN deployed /\ ~Passed(Step)
    BY <1>7 DEF SetStep, At, Sets, Step
  <2> QED
    BY <2>1, QuietSets
<1>8. CASE ImportFeePeriods \/ RetirePynth \/ AddPynths
  <2>1. NothingToDo
    BY <1>0, <1>8, QuietPynths DEF ImportFeePeriods, RetirePynth, AddPynths
  <2>2. /\ UNCHANGED <<old, replacing, deployed, flags, adding>> /\ stage' = "step"
        /\ UNCHANGED <<chain, handedOver, config, targets, versions>>
    BY <1>8 DEF ImportFeePeriods, RetirePynth, AddPynths, Advance
  <2> QED
    BY <1>0, <1>1, <2>1, <2>2 DEF NothingToDo, chainVars, fileVars
<1>9. CASE ImportAddresses
  <2>1. Unimported = {}
    BY <1>9, QuietImport DEF ImportAddresses
  <2>2. /\ UNCHANGED <<chainVars, fileVars, old, replacing, deployed, flags, adding>>
        /\ stage' = "step"
    BY <1>9, <2>1 DEF ImportAddresses, Advance, chainVars, fileVars
  <2> QED
    BY <1>0, <1>1, <2>2
<1>10. CASE RebuildCaches
  <2> DEFINE S == UNION {{<<deployed[n], r>> : r \in Required[n]} : n \in ToRebuild}
  <2>1. S = {}
    BY <1>10, QuietCaches DEF RebuildCaches
  <2>2. slots' = Over(slots, [x \in S |-> Resolved(x[2])])
    BY <1>10 DEF RebuildCaches
  <2> HIDE DEF S
  <2>3. slots' = [x \in DOMAIN slots |-> slots[x]]
    BY <2>1, <2>2 DEF Over
  <2>4. UNCHANGED slots
    BY <2>3 DEF Quiet, FunInv
  <2> QED
    BY <1>0, <1>1, <1>10, <2>4 DEF RebuildCaches, Advance, chainVars
<1>11. CASE RecallPynth
  <2>1. UNCHANGED <<chainVars, fileVars, old, replacing, deployed, flags, adding>>
        /\ stage' = "step"
    BY <1>0, <1>11 DEF RecallPynth, Advance
  <2> QED
    BY <1>0, <1>1, <2>1
<1>12. CASE QueuePynth
  <2>1. Step.key \in Keys
    BY <1>12, ScriptAssumption DEF QueuePynth, At, Step, ScriptInOrder, PynthsInOrder
  <2>2. /\ UNCHANGED <<chainVars, fileVars, old, replacing, deployed, flags>>
        /\ stage' = "step"
    BY <1>12 DEF QueuePynth, Advance
  <2>3. \A key \in adding' : key \in adding \/
            (key = Step.key /\ {Pynths[Step.key], "Issuer"} \subseteq DOMAIN deployed)
    BY <1>12 DEF QueuePynth
  <2> QED
    BY <2>1, <2>2, <2>3 DEF Quiet, Untouched
<1>13. CASE SortPynths
  <2>1. /\ UNCHANGED <<chainVars, fileVars, old, deployed, flags>> /\ stage' = "step"
    BY <1>13 DEF SortPynths, Advance
  <2>2. \A key : Original(key) = None
    BY <1>0 DEF Original
  <2>3. adding' \subseteq adding /\ replacing' = {}
    BY <1>13, <2>2 DEF SortPynths
  <2> QED
    BY <2>1, <2>3 DEF Quiet, Untouched
<1>14. CASE RemovePynth
  <2>1. NothingToDo /\ adding' = adding
    BY <1>0, <1>14 DEF RemovePynth
  <2>2. /\ UNCHANGED <<old, replacing, deployed, flags>> /\ stage' = "step"
        /\ UNCHANGED <<chain, handedOver, config, targets, versions>>
    BY <1>14 DEF RemovePynth, Advance
  <2> QED
    BY <1>0, <1>1, <2>1, <2>2 DEF NothingToDo, chainVars, fileVars
<1>15. CASE UNCHANGED vars
  BY <1>1, <1>15 DEF vars, runVars
<1> QED
  BY <1>2, <1>3, <1>4, <1>5, <1>6, <1>7, <1>8, <1>9, <1>10, <1>11, <1>12, <1>13, <1>14, <1>15
  DEF Next, RunStep

\* What is as the script has it stays so where nothing is written.
LEMMA QuietSame ==
    ASSUME Wired, Settled, ForcedListed, UNCHANGED <<slots, targets>>,
           DOMAIN config \subseteq DOMAIN config'
    PROVE  Wired' /\ Settled' /\ ForcedListed'
<1>1. Wired'
  BY DEF Wired, LinkHolds, ResolverHolds, CachesHold, ListedHold, Slot, TargetOf
<1>2. Settled'
  BY DEF Settled, IsSet, Keeper, TargetOf
<1> QED
  BY <1>1, <1>2 DEF ForcedListed

\* It is as the script has it at each step.
LEMMA QuietNext ==
    ASSUME Inv, NetInv, WireInv, OwnInv, PynthsInv, NamesLead, ActionsRight, SetInv, ListedInv,
           FunInv, QuietInv, WiredWhenClean', [Next]_vars
    PROVE  QuietInv'
<1> SUFFICES ASSUME outcome' = "clean", Idle' \/ Unflagged'
             PROVE  /\ Wired' /\ Settled' /\ ForcedListed'
                    /\ ~Idle' => Untouched'
  BY DEF QuietInv
<1>1. CASE Finish
  <2>1. clean /\ pc = Len(Script) + 1 /\ UNCHANGED <<slots, targets, config>> /\ Idle'
    BY <1>1 DEF Finish, EndWith, chainVars, fileVars, Idle
  <2> QED
    BY <2>1, EndWired, EndSettled, EndForced, QuietSame
<1>2. CASE Crash \/ Fail
  BY <1>2 DEF Crash, Fail, EndWith
<1>3. CASE StartRun
  <2>1. Wired /\ Settled /\ ForcedListed /\ UNCHANGED <<slots, targets, config>>
    BY <1>3 DEF StartRun, QuietInv, chainVars, fileVars
  <2>2. DOMAIN old = {} /\ replacing = {} /\ adding = {}
    <3>1. ~Done("sort")
      BY <1>3 DEF Done, StartRun, Idle
    <3> QED
      BY <1>3, <3>1 DEF PynthsInv, FreshInv, ReplacingInv, ListedInv, StartRun
  <2>3. /\ stage' = "step" /\ DOMAIN deployed' = {} /\ flags' = config
        /\ UNCHANGED <<old, replacing, adding>>
    BY <1>3 DEF StartRun, NewDeployer
  <2>4. Untouched'
    BY <2>1, <2>2, <2>3 DEF Untouched, ForcedListed
  <2> QED
    BY <2>1, <2>4, QuietSame
<1>4. CASE OwnerActs \/ TuneSetting \/ IssuePynths
  <2>1. Idle /\ Idle' /\ outcome = "clean" /\ UNCHANGED config
    BY <1>4 DEF OwnerActs, TuneSetting, IssuePynths, fileVars, runVars, Idle
  <2>2. Settled /\ ForcedListed
    BY <2>1 DEF QuietInv
  <2> QED
    BY <1>4, <2>1, <2>2, SettledNext DEF WiredWhenClean, ForcedListed
<1>5. CASE HandOver \/ UpdateVersions \/ PrepareDeploy
  <2>1. /\ Idle /\ Idle' /\ outcome = "clean" /\ UNCHANGED <<slots, targets>>
    BY <1>5 DEF HandOver, UpdateVersions, PrepareDeploy, fileVars, chainVars, runVars, Idle
  <2>2. Wired /\ Settled /\ ForcedListed
    BY <2>1 DEF QuietInv
  <2>3. DOMAIN config \subseteq DOMAIN config'
    BY <1>5 DEF HandOver, UpdateVersions, PrepareDeploy, fileVars, Over
  <2> QED
    BY <2>1, <2>2, <2>3, QuietSame
<1>6. CASE (RunStep /\ ~Finish /\ ~Fail) \/ UNCHANGED vars
  <2>1. UNCHANGED <<outcome, flags>> /\ (Idle' => Idle)
    <3>1. CASE ImportAddresses
      BY <3>1, ScriptSteps DEF ImportAddresses, EndWith, Advance, Idle, NetInv, ListInv
    <3>2. CASE UNCHANGED vars
      BY <3>2 DEF vars, runVars, Idle
    <3>3. CASE RunStep /\ ~Finish /\ ~Fail /\ ~ImportAddresses
      <4>1. pc' # 0
        BY <3>3, StepGoesOn
      <4>2. UNCHANGED <<outcome, flags>>
        BY <3>3 DEF RunStep, PassOver, SendDeployment, RecordDeployment, RecordConfig,
           ReuseContract, SetStep, ImportFeePeriods, RebuildCaches, RecallPynth, QueuePynth,
           SortPynths, RetirePynth, RemovePynth, AddPynths
      <4> QED
        BY <4>1, <4>2 DEF Idle
    <3> QED
      BY <1>6, <3>1, <3>2, <3>3
  <2>2. Idle \/ Unflagged
    BY <2>1 DEF Unflagged
  <2>3. Wired /\ Settled /\ ForcedListed /\ (~Idle => Untouched)
    BY <2>1, <2>2 DEF QuietInv
  <2>4. CASE Idle
    <3>1. UNCHANGED vars
      BY <1>6, <2>4, ScriptSteps DEF RunStep, PassOver, SendDeployment, RecordDeployment, RecordConfig,
         ReuseContract, SetStep, ImportFeePeriods, RebuildCaches, RecallPynth, QueuePynth,
         SortPynths, RetirePynth, RemovePynth, AddPynths, ImportAddresses, At, Idle, NetInv, ListInv
    <3> QED
      BY <2>3, <2>4, <3>1, QuietSame DEF vars, chainVars, fileVars, runVars, Idle
  <2>5. CASE ~Idle
    <3>1. Quiet
      BY <2>2, <2>3, <2>5 DEF Quiet
    <3>2. UNCHANGED <<slots, targets, config>> /\ (Idle' \/ Untouched')
      BY <3>1, QuietStep DEF chainVars, fileVars
    <3> QED
      BY <2>1, <2>3, <2>5, <3>2, QuietSame
  <2> QED
    BY <2>4, <2>5
<1> QED
  BY <1>1, <1>2, <1>3, <1>4, <1>5, <1>6 DEF Next, RunStep

\* What a run keeps, what it sets, and what a clean one leaves to the next.
SettingInv == /\ WiringInv /\ NamesLead /\ ActionsRight /\ SetInv
              /\ ListedInv /\ FunInv /\ QuietInv

\* At first, nothing is set.
LEMMA SettingInit == Init => SettingInv
<1> SUFFICES ASSUME Init PROVE SettingInv
  OBVIOUS
<1>1. WiringInv
  BY InvInit, NetInit, WireInit, OwnInit DEF WiringInv, WiredWhenClean, Init
<1>2. DOMAIN slots = {} /\ DOMAIN actions = {} /\ DOMAIN deployed = {} /\ pc = 0 /\ adding = {}
  BY DEF Init
<1>3. \A i \in Params : ~(i < 0)
  BY ParamSteps
<1>4. FunInv
  BY DEF FunInv, Init
<1> QED
  BY <1>1, <1>2, <1>3, <1>4 DEF SettingInv, NamesLead, ActionsRight, SetInv, ListedInv,
     QuietInv, Init

\* Each step keeps it.
LEMMA SettingNext == SettingInv /\ [Next]_vars => SettingInv'
<1> SUFFICES ASSUME SettingInv, [Next]_vars PROVE SettingInv'
  OBVIOUS
<1>1. WiringInv'
  BY InvStep, NetStep, WireStep, OwnNext, WiredNext DEF SettingInv, WiringInv
<1>2. NamesLead' /\ ActionsRight' /\ SetInv' /\ ListedInv' /\ FunInv'
  BY NamesNext, RightNext, SetNext, ListedNext, FunNext DEF SettingInv, WiringInv
<1>3. QuietInv'
  BY <1>1, QuietNext DEF SettingInv, WiringInv
<1> QED
  BY <1>1, <1>2, <1>3 DEF SettingInv

\* Once a network is wired and nothing is flagged, a run sends nothing and writes
\* nothing, wherever the owner, governance or users have been since.
THEOREM QuietAlwaysWhenClean == Spec => QuietWhenClean
<1>1. SettingInv /\ [Next]_vars =>
          [(~Idle /\ outcome = "clean" /\ \A n \in DOMAIN flags : ~flags[n])
              => UNCHANGED <<chainVars, fileVars>>]_vars
  <2> SUFFICES ASSUME SettingInv, [Next]_vars, ~Idle, outcome = "clean", Unflagged
               PROVE  UNCHANGED <<chainVars, fileVars>>
    BY DEF Unflagged
  <2>1. Quiet
    BY DEF SettingInv, WiringInv, QuietInv, Quiet
  <2> QED
    BY <2>1, QuietStep
<1> QED
  BY <1>1, SettingInit, SettingNext, PTL DEF Spec, QuietWhenClean

-----------------------------------------------------------------------------
(* Wires only move forward.                                                *)

\* A write leads slots to the contracts of deployment.json, or as what is pending
\* does.
Straight(g) == \A x \in DOMAIN g : \A n : Leads(x, n) =>
    \/ g[x] \in {None, TargetOf(n)}
    \/ \E i \in Pending : x \in DOMAIN SetsOf(i) /\ g[x] = SetsOf(i)[x]

\* What is written and staged by a step.
WritesStraight == \E g :
    /\ slots' = slots \/ slots' = Over(slots, g)
    /\ Straight(g)
    /\ \A x \in DOMAIN g : \A n : Leads(x, n) => x[1] \in chain'

StagesStraight == \A i \in Pending' :
    \/ i \in Pending /\ actions'[i].write = actions[i].write
    \/ Straight(actions'[i].write.sets)

\* A write that fits and is current is straight.
LEMMA FitsStraight ==
    ASSUME Inv, NetInv, NEW w, Fits(w), Current(w)
    PROVE  Straight(w.sets)
<1> SUFFICES ASSUME NEW x \in DOMAIN w.sets, NEW n, Leads(x, n)
             PROVE  w.sets[x] = TargetOf(n)
  BY DEF Straight
<1>1. w.sets[x] \in recorded /\ NameOf(w.sets[x]) = n /\ x[2] # "periods"
  BY LeadsApart, PlainFields DEF Fits, Of
<1>2. PICK m \in DOMAIN targets : w.sets[x] = targets[m]
  BY <1>1 DEF Current, Inv, FilesInv, ValuesInv
<1>3. m = n
  BY <1>1, <1>2 DEF NetInv, ChainInv
<1> QED
  BY <1>2, <1>3 DEF TargetOf

\* So is one to other fields.
LEMMA PlainStraight ==
    ASSUME NEW g, \A x \in DOMAIN g : x[2] \in Keys \cup Plainly
    PROVE  /\ Straight(g) /\ \A x \in DOMAIN g : \A n : ~Leads(x, n)
  BY LeadsApart, PlainFields, WireFields DEF Straight

\* A step that writes nothing.
LEMMA SameStraight ==
    ASSUME UNCHANGED <<slots, actions>>
    PROVE  WritesStraight /\ StagesStraight
<1> DEFINE none == [x \in {} |-> None]
<1>1. Straight(none) /\ \A x \in DOMAIN none : FALSE
  BY DEF Straight
<1>2. WritesStraight
  BY <1>1 DEF WritesStraight
<1> QED
  BY <1>2 DEF StagesStraight, Pending

\* A step that stages.
LEMMA StagesStaged ==
    ASSUME Inv, NEW w, Straight(w.sets), actions' = Staged(w)
    PROVE  StagesStraight
<1>1. IsSequence(actions)
  BY DEF Inv, ActionsInv
<1>2. \A i \in DOMAIN actions' :
          (i \in DOMAIN actions /\ actions'[i] = actions[i]) \/ actions'[i].write = w
  BY <1>1, StagedAt
<1> QED
  BY <1>2 DEF StagesStraight, Pending

\* A call that is sent or staged.
LEMMA InvokeStraight ==
    ASSUME Inv, NEW w, Straight(w.sets), Invoke(w),
           \A x \in DOMAIN w.sets : \A n : Leads(x, n) => x[1] \in chain'
    PROVE  WritesStraight /\ StagesStraight
<1>1. CASE w.target \in handedOver
  <2>1. actions' = Staged(w) /\ UNCHANGED slots
    BY <1>1 DEF Invoke
  <2> QED
    BY <2>1, StagesStaged DEF WritesStraight
<1>2. CASE w.target \notin handedOver
  <2>1. slots' = Over(slots, w.sets) /\ UNCHANGED actions
    BY <1>2 DEF Invoke
  <2> QED
    BY <2>1 DEF WritesStraight, StagesStraight, Pending
<1> QED
  BY <1>1, <1>2

\* The first that the owner sends is pending no more.
LEMMA OwnerSends ==
    ASSUME Inv, OwnInv, OwnerActs
    PROVE  \E i \in Pending :
               /\ i \in DOMAIN actions /\ ~Reverts(actions[i].write)
               /\ slots' = Over(slots, SetsOf(i))
               /\ DOMAIN actions' = DOMAIN actions
               /\ \A j \in DOMAIN actions : actions'[j].write = actions[j].write
               /\ \A j \in Pending' : j \in Pending /\ j # i
<1>0. PICK i \in Pending :
          /\ ~Reverts(actions[i].write)
          /\ slots' = Over(slots, SetsOf(i))
          /\ actions' = [actions EXCEPT ![i].complete = TRUE]
  BY DEF OwnerActs, SetsOf
<1>1. /\ DOMAIN actions' = DOMAIN actions /\ i \in DOMAIN actions
      /\ \A j \in DOMAIN actions : actions'[j].write = actions[j].write
      /\ \A j \in DOMAIN actions : j # i => actions'[j] = actions[j]
  BY <1>0 DEF Pending
<1>2. actions'[i].complete
  BY <1>0, <1>1 DEF OwnInv, ActionsFit
<1>3. \A j \in Pending' : j \in Pending /\ j # i
  BY <1>1, <1>2 DEF Pending
<1> QED
  BY <1>0, <1>1, <1>3

\* The slots of a new contract.
LEMMA SendStraight ==
    ASSUME Inv, NetInv, SendDeployment
    PROVE  /\ WritesStraight /\ StagesStraight
           /\ \E g : /\ slots' = Over(slots, g)
                     /\ \A x \in DOMAIN g : x[1] = sent'
                     /\ \A x \in DOMAIN g : \A n : Leads(x, n) => g[x] = TargetOf(n)
<1> PICK k \in 1..MaxInstances :
         /\ slots' = Over(slots, Constructed(<<Step.name, k>>, Step))
         /\ chain' = chain \cup {<<Step.name, k>>} /\ sent' = <<Step.name, k>>
  BY DEF SendDeployment
<1> DEFINE g == Constructed(<<Step.name, k>>, Step)
<1>1. /\ pc \in Deploys /\ UNCHANGED actions
      /\ \A f \in DOMAIN Step.ctor : Step.ctor[f] \in DOMAIN deployed
  BY DEF SendDeployment, At, Deploys, Step, fileVars
<1>2. \A x \in DOMAIN g :
          /\ x[1] = <<Step.name, k>>
          /\ x[2] = "supply" \/ (x[2] \in DOMAIN Step.ctor
                                 /\ (x[2] # "supply" => g[x] = AddressOf(Step.ctor[x[2]])))
  BY DEF Constructed, Put, Over, Single
<1>3. DOMAIN Step.ctor \cap (Names \cup Keys) = {}
  BY <1>1, ScriptAssumption DEF ScriptInOrder, FieldsApart, Step
<1>4. ASSUME NEW x \in DOMAIN g, NEW n, Leads(x, n) PROVE g[x] = TargetOf(n)
  <2>1. x[2] # "supply" /\ x[2] \in DOMAIN Step.ctor /\ x[2] \notin Names
    BY <1>2, <1>3, <1>4, LeadsApart, PlainFields
  <2>2. PICK i \in Links : NameOf(x[1]) = Script[i].at /\ x[2] = Script[i].field
                           /\ n = Script[i].to
    BY <1>4, <2>1 DEF Leads
  <2>3. Script[i].at = Step.name
    BY <1>2, <2>2 DEF NameOf
  <2>4. Step.ctor[x[2]] = n
    BY <1>1, <2>1, <2>2, <2>3, ScriptAssumption DEF ScriptInOrder, FieldsApart, Step
  <2>5. g[x] = AddressOf(n) /\ n \in DOMAIN deployed
    BY <1>1, <1>2, <2>1, <2>4
  <2> QED
    BY <2>5, DeployedKnown DEF TargetOf, NetInv, DeployedInv
<1> HIDE DEF g
<1>5. Straight(g)
  BY <1>4 DEF Straight
<1>6. WritesStraight
  BY <1>2, <1>5 DEF WritesStraight, g
<1>7. StagesStraight
  BY <1>1 DEF StagesStraight, Pending
<1> QED
  BY <1>2, <1>4, <1>6, <1>7 DEF g

\* All steps are straight.
LEMMA StraightNext ==
    ASSUME Inv, NetInv, WireInv, OwnInv, [Next]_vars
    PROVE  WritesStraight /\ StagesStraight
<1>1. CASE \/ StartRun \/ PassOver \/ RecordDeployment \/ RecordConfig \/ ReuseContract
           \/ RecallPynth \/ QueuePynth \/ SortPynths \/ Fail \/ Finish \/ Crash
           \/ HandOver \/ UpdateVersions \/ PrepareDeploy \/ UNCHANGED vars
  <2>1. UNCHANGED <<slots, actions>>
    BY <1>1 DEF StartRun, PassOver, RecordDeployment, RecordConfig, ReuseContract,
       RecallPynth, QueuePynth, SortPynths, Fail, Finish, Crash, EndWith, HandOver,
       UpdateVersions, PrepareDeploy, vars, chainVars, fileVars
  <2> QED
    BY <2>1, SameStraight
<1>2. CASE SendDeployment
  BY <1>2, SendStraight
<1>3. CASE SetStep
  <2>1. Step.on \in DOMAIN deployed /\ Invoke(SetWrite(Step)) /\ UNCHANGED chain
    BY <1>3 DEF SetStep
  <2>2. SetWrite(Step).target = deployed[Step.on]
    BY DEF SetWrite, Write
  <2>3. deployed[Step.on] \in chain
    BY <2>1, DeployedKnown DEF Inv, FilesInv
  <2>4. \A x \in DOMAIN SetWrite(Step).sets : \A n : Leads(x, n) => x[1] \in chain'
    BY <1>3, <2>1, <2>2, <2>3, SetFits DEF Fits
  <2> QED
    BY <1>3, <2>1, <2>4, SetFits, FitsStraight, InvokeStraight
<1>4. CASE ImportFeePeriods \/ RetirePynth \/ RemovePynth \/ AddPynths
  <2>1. PICK w : /\ Invoke(w) \/ NothingToDo
                 /\ \A x \in DOMAIN w.sets : x[2] \in Keys \cup {"supply", "periods"}
    BY <1>4, OtherWrites
  <2>2. Straight(w.sets) /\ \A x \in DOMAIN w.sets : \A n : ~Leads(x, n)
    BY <2>1, PlainStraight, PlainFields
  <2> QED
    BY <2>1, <2>2, InvokeStraight, SameStraight DEF NothingToDo
<1>5. CASE ImportAddresses
  <2>1. Straight(ImportWrite.sets)
    BY <1>5, ImportFits, FitsStraight
  <2>2. ASSUME NEW x \in DOMAIN ImportWrite.sets PROVE x[1] \in chain'
    <3>1. x[1] = Resolver /\ Resolver # None /\ UNCHANGED chain
      BY <1>5, ImportFits DEF ImportAddresses
    <3> QED
      BY <3>1, DeployedKnown DEF Resolver, AddressOf, Inv, FilesInv
  <2>3. CASE actions' = Staged(ImportWrite) /\ UNCHANGED slots
    BY <2>1, <2>3, <2>2, StagesStaged DEF WritesStraight
  <2>4. CASE UNCHANGED actions /\ slots' \in {slots, Over(slots, ImportWrite.sets)}
    BY <2>1, <2>2, <2>4 DEF WritesStraight, StagesStraight, Pending
  <2> QED
    BY <1>5, <2>3, <2>4 DEF ImportAddresses
<1>6. CASE RebuildCaches
  <2>1. PICK g : slots' = Over(slots, g) /\ \A x \in DOMAIN g : \A n : ~Leads(x, n)
    BY <1>6, RebuildWrites
  <2>2. UNCHANGED actions
    BY <1>6 DEF RebuildCaches, fileVars
  <2> QED
    BY <2>1, <2>2 DEF WritesStraight, StagesStraight, Straight, Pending
<1>7. CASE OwnerActs
  <2>1. PICK i \in Pending :
            /\ i \in DOMAIN actions /\ slots' = Over(slots, SetsOf(i))
            /\ \A j \in DOMAIN actions : actions'[j].write = actions[j].write
            /\ \A j \in Pending' : j \in Pending
    BY <1>7, OwnerSends
  <2>2. Straight(SetsOf(i))
    BY <2>1 DEF Straight
  <2>3. ASSUME NEW x \in DOMAIN SetsOf(i), NEW n, Leads(x, n) PROVE x[1] \in chain'
    <3>1. x[1] \in handedOver /\ UNCHANGED chain
      BY <1>7, <2>1, <2>3 DEF OwnInv, ActionsFit, Fits, SetsOf, OwnerActs
    <3> QED
      BY <3>1 DEF NetInv, ChainInv, Inv, FilesInv
  <2>4. \A j \in Pending' : actions'[j].write = actions[j].write
    BY <2>1 DEF Pending
  <2> QED
    BY <2>1, <2>2, <2>3, <2>4 DEF WritesStraight, StagesStraight
<1>8. CASE TuneSetting \/ IssuePynths
  <2>1. PICK g : slots' = Over(slots, g) /\ \A x \in DOMAIN g : x[2] \in Plainly
    BY <1>8, TuneWrites
  <2>2. UNCHANGED actions
    BY <1>8 DEF TuneSetting, IssuePynths, fileVars
  <2> QED
    BY <2>1, <2>2, PlainStraight DEF WritesStraight, StagesStraight, Pending
<1> QED
  BY <1>1, <1>2, <1>3, <1>4, <1>5, <1>6, <1>7, <1>8 DEF Next, RunStep

\* What is deployed and recorded stays so, and deployment.json goes on to later
\* instances.
LEMMA NetGrows ==
    ASSUME Inv, NetInv, Inv', NetInv', [Next]_vars
    PROVE  /\ chain \subseteq chain' /\ recorded \subseteq recorded'
           /\ \A n : Of(n) \subseteq Of(n)'
           /\ \A n \in DOMAIN targets : /\ n \in DOMAIN targets'
                                        /\ TargetOf(n) \in Of(n) /\ TargetOf(n)' \in Of(n)'
                                        /\ Rank(TargetOf(n)) \in Nat /\ Rank(TargetOf(n)') \in Nat
                                        /\ Rank(TargetOf(n)) <= Rank(TargetOf(n)')
<1>1. /\ chain \subseteq chain' /\ recorded \subseteq recorded'
      /\ DOMAIN targets \subseteq DOMAIN targets'
  <2>1. CASE SendDeployment
    BY <2>1 DEF SendDeployment, fileVars
  <2>2. CASE RecordDeployment
    BY <2>2 DEF RecordDeployment, chainVars, Put, Over
  <2>3. CASE RecordConfig \/ ReuseContract \/ PassOver
    BY <2>3 DEF RecordConfig, ReuseContract, PassOver, chainVars, fileVars
  <2>4. CASE StartRun \/ Crash \/ Finish \/ Fail \/ ImportAddresses \/ UNCHANGED vars
    BY <2>4 DEF StartRun, Crash, Finish, Fail, EndWith, ImportAddresses, vars, chainVars, fileVars
  <2>5. CASE \/ SetStep \/ ImportFeePeriods \/ RebuildCaches \/ RecallPynth \/ QueuePynth
             \/ SortPynths \/ RetirePynth \/ RemovePynth \/ AddPynths
    BY <2>5 DEF SetStep, ImportFeePeriods, RebuildCaches, RecallPynth, QueuePynth,
       SortPynths, RetirePynth, RemovePynth, AddPynths, chainVars, fileVars
  <2>6. CASE \/ OwnerActs \/ HandOver \/ TuneSetting \/ IssuePynths \/ UpdateVersions
             \/ PrepareDeploy
    BY <2>6 DEF OwnerActs, HandOver, TuneSetting, IssuePynths, UpdateVersions,
       PrepareDeploy, chainVars, fileVars
  <2> QED
    BY <2>1, <2>2, <2>3, <2>4, <2>5, <2>6 DEF Next, RunStep
<1>2. ASSUME NEW n \in DOMAIN targets
      PROVE  /\ n \in DOMAIN targets'
             /\ TargetOf(n) \in Of(n) /\ TargetOf(n)' \in Of(n)'
             /\ Rank(TargetOf(n)) \in Nat /\ Rank(TargetOf(n)') \in Nat
             /\ Rank(TargetOf(n)) <= Rank(TargetOf(n)')
  <2>1. n \in DOMAIN targets' /\ TargetOf(n) = targets[n] /\ TargetOf(n)' = targets'[n]
    BY <1>1 DEF TargetOf
  <2>2. targets[n] \in recorded /\ NameOf(targets[n]) = n /\ targets[n] \in chain
    BY DEF Inv, FilesInv, Within, NetInv, ChainInv
  <2>3. targets'[n] \in recorded' /\ NameOf(targets'[n]) = n /\ targets'[n] \in chain'
    BY <2>1 DEF Inv, FilesInv, Within, NetInv, ChainInv
  <2>4. Rank(targets[n]) \in Nat /\ Rank(targets'[n]) \in Nat
    BY <2>2, <2>3 DEF NetInv, ChainInv
  <2>5. Rank(targets[n]) <= Rank(targets'[n])
    BY <1>1, <2>2 DEF NetInv, ChainInv
  <2> QED
    BY <2>1, <2>2, <2>3, <2>4, <2>5 DEF Of
<1> QED
  BY <1>1, <1>2 DEF Of

\* Wires are of contracts that are there; those of a contract that is not recorded
\* yet lead to what deployment.json has.
NewInv ==
    /\ \A x \in DOMAIN slots : \A n : Leads(x, n) => x[1] \in chain
    /\ stage = "sent" => \A x \in DOMAIN slots : \A n :
           (x[1] = sent /\ Leads(x, n)) => slots[x] \in {None, TargetOf(n)}

\* It takes them from its constructor.
LEMMA NewNext ==
    Inv /\ NetInv /\ WireInv /\ OwnInv /\ NewInv /\ Inv' /\ NetInv' /\ [Next]_vars => NewInv'
<1> SUFFICES ASSUME Inv, NetInv, WireInv, OwnInv, NewInv, Inv', NetInv', [Next]_vars
             PROVE  NewInv'
  OBVIOUS
<1>1. \A x \in DOMAIN slots' : \A n : Leads(x, n) => x[1] \in chain'
  <2>1. PICK g : /\ slots' = slots \/ slots' = Over(slots, g)
                 /\ \A x \in DOMAIN g : \A n : Leads(x, n) => x[1] \in chain'
    BY StraightNext DEF WritesStraight
  <2>2. \A x \in DOMAIN slots' : x \in DOMAIN slots \/ x \in DOMAIN g
    BY <2>1 DEF Over
  <2> QED
    BY <2>1, <2>2, NetGrows DEF NewInv
<1>2. ASSUME stage' = "sent", NEW x \in DOMAIN slots', NEW n, x[1] = sent', Leads(x, n)
      PROVE  slots'[x] \in {None, TargetOf(n)'}
  <2>1. CASE SendDeployment
    <3>1. PICK g : /\ slots' = Over(slots, g)
                   /\ \A y \in DOMAIN g : \A m : Leads(y, m) => g[y] = TargetOf(m)
      BY <2>1, SendStraight
    <3>2. UNCHANGED targets /\ sent' \notin chain
      <4>1. \E k \in 1..MaxInstances : <<Step.name, k>> \notin chain /\ sent' = <<Step.name, k>>
        BY <2>1 DEF SendDeployment
      <4>2. UNCHANGED targets
        BY <2>1 DEF SendDeployment, fileVars
      <4> QED
        BY <4>1, <4>2
    <3>3. x \notin DOMAIN slots
      BY <1>2, <3>2 DEF NewInv
    <3>4. x \in DOMAIN g /\ slots'[x] = g[x]
      BY <1>2, <3>1, <3>3 DEF Over
    <3> QED
      BY <1>2, <3>1, <3>2, <3>4 DEF TargetOf
  <2>2. CASE UNCHANGED vars
    BY <1>2, <2>2 DEF NewInv, TargetOf, vars, chainVars, fileVars, runVars
  <2>3. CASE Next /\ ~SendDeployment
    <3>1. Idle => stage = "step"
      BY DEF NetInv, ListInv
    <3>2. CASE StartRun \/ RecordDeployment \/ Crash \/ Finish \/ Fail
      BY <1>2, <3>2 DEF StartRun, RecordDeployment, Crash, Finish, Fail, EndWith
    <3>3. CASE RecordConfig \/ ReuseContract \/ PassOver \/ ImportAddresses
      BY <1>2, <3>3 DEF RecordConfig, ReuseContract, PassOver, ImportAddresses, EndWith, Advance
    <3>4. CASE \/ SetStep \/ ImportFeePeriods \/ RebuildCaches \/ RecallPynth \/ QueuePynth
               \/ SortPynths \/ RetirePynth \/ RemovePynth \/ AddPynths
      BY <1>2, <3>4 DEF SetStep, ImportFeePeriods, RebuildCaches, RecallPynth, QueuePynth,
         SortPynths, RetirePynth, RemovePynth, AddPynths, Advance
    <3>5. CASE \/ OwnerActs \/ HandOver \/ TuneSetting \/ IssuePynths \/ UpdateVersions
               \/ PrepareDeploy
      BY <1>2, <3>1, <3>5 DEF OwnerActs, HandOver, TuneSetting, IssuePynths, UpdateVersions,
         PrepareDeploy, runVars
    <3> QED
      BY <2>3, <3>2, <3>3, <3>4, <3>5 DEF Next, RunStep
  <2> QED
    BY <2>1, <2>2, <2>3
<1>3. \A x, n : Leads(x, n)' <=> Leads(x, n)
  BY DEF Leads
<1> QED
  BY <1>1, <1>2, <1>3 DEF NewInv

\* Only the step after it was sent records a contract.
LEMMA RecordedNew ==
    ASSUME [Next]_vars, NEW a \in recorded', a \notin recorded
    PROVE  stage = "sent" /\ a = sent /\ UNCHANGED <<slots, actions>>
<1>1. CASE RecordDeployment
  BY <1>1 DEF RecordDeployment, chainVars
<1>2. CASE StartRun \/ Crash \/ Finish \/ Fail \/ ImportAddresses \/ UNCHANGED vars
  BY <1>2 DEF StartRun, Crash, Finish, Fail, EndWith, ImportAddresses, vars
<1>3. CASE SendDeployment \/ RecordConfig \/ ReuseContract \/ PassOver
  BY <1>3 DEF SendDeployment, RecordConfig, ReuseContract, PassOver
<1>4. CASE \/ SetStep \/ ImportFeePeriods \/ RebuildCaches \/ RecallPynth \/ QueuePynth
           \/ SortPynths \/ RetirePynth \/ RemovePynth \/ AddPynths
  BY <1>4 DEF SetStep, ImportFeePeriods, RebuildCaches, RecallPynth, QueuePynth,
     SortPynths, RetirePynth, RemovePynth, AddPynths
<1>5. CASE \/ OwnerActs \/ HandOver \/ TuneSetting \/ IssuePynths \/ UpdateVersions
           \/ PrepareDeploy
  BY <1>5 DEF OwnerActs, HandOver, TuneSetting, IssuePynths, UpdateVersions, PrepareDeploy
<1> QED
  BY <1>1, <1>2, <1>3, <1>4, <1>5 DEF Next, RunStep

-----------------------------------------------------------------------------
(* Slots that have gone beyond an instance.                                *)

\* The slot f of the contracts at, from instance p on, leads to no instance before
\* m, nor will what is pending lead it there.
Beyond(at, f, p, m) ==
    /\ \A a \in Of(at) : Rank(a) >= p => \/ Held(slots, a, f) = None
                                         \/ Rank(Held(slots, a, f)) >= m
    /\ \A i \in Pending : \A x \in DOMAIN SetsOf(i) :
           (x[2] = f /\ x[1] \in Of(at) /\ Rank(x[1]) >= p)
               => SetsOf(i)[x] = None \/ Rank(SetsOf(i)[x]) >= m

\* It does not come back.
LEMMA BeyondNext ==
    ASSUME Inv, NetInv, WireInv, OwnInv, NewInv, Inv', NetInv', [Next]_vars,
           NEW at, NEW f, NEW n \in DOMAIN targets,
           \A x : (NameOf(x[1]) = at /\ x[2] = f) => Leads(x, n),
           NEW p, NEW m, Rank(TargetOf(n)) >= m, Beyond(at, f, p, m)
    PROVE  Beyond(at, f, p, m)'
<1> DEFINE There(x) == x[2] = f /\ x[1] \in Of(at) /\ Rank(x[1]) >= p
           Past(v)  == v = None \/ Rank(v) >= m
<1>1. \A x : x[1] \in Of(at)' /\ x[2] = f => Leads(x, n)
  BY DEF Of
<1>2. ASSUME NEW x, There(x)' PROVE There(x) \/ x[1] \notin recorded
  BY <1>2 DEF Of
<1>3. \A i \in Pending : \A x \in DOMAIN SetsOf(i) : There(x) => Past(SetsOf(i)[x])
  BY DEF Beyond
<1>4. ASSUME NEW i \in Pending, NEW x \in DOMAIN SetsOf(i), There(x)'
      PROVE  Past(SetsOf(i)[x])
  <2>1. Leads(x, n)
    BY <1>1, <1>4
  <2>2. x[1] \in recorded
    BY <2>1 DEF Pending, OwnInv, ActionsFit, Fits, SetsOf, NetInv, ChainInv
  <2> QED
    BY <1>2, <1>3, <1>4, <2>2
<1>5. ASSUME NEW g, Straight(g), NEW x \in DOMAIN g, There(x)' PROVE Past(g[x])
  BY <1>1, <1>4, <1>5 DEF Straight
<1>6. ASSUME NEW a, There(<<a, f>>)' PROVE Past(Held(slots', a, f))
  <2> DEFINE z == <<a, f>>
  <2>00. z[1] = a /\ z[2] = f /\ There(z)'
    BY <1>6
  <2>01. \A s : Held(s, a, f) = IF z \in DOMAIN s THEN s[z] ELSE None
    BY DEF Held
  <2> HIDE DEF z
  <2>0. CASE z \notin DOMAIN slots'
    BY <2>0, <2>01
  <2>1. PICK g : (slots' = slots \/ slots' = Over(slots, g)) /\ Straight(g)
    BY StraightNext DEF WritesStraight
  <2>2. CASE z \in DOMAIN g /\ slots'[z] = g[z] /\ z \in DOMAIN slots'
    <3>1. Past(g[z])
      BY <1>5, <2>00, <2>1, <2>2
    <3> QED
      BY <2>01, <2>2, <3>1
  <2>3. CASE z \in DOMAIN slots /\ slots'[z] = slots[z] /\ z \in DOMAIN slots'
    <3>0. Held(slots', a, f) = slots[z] /\ Held(slots, a, f) = slots[z]
      BY <2>01, <2>3
    <3>1. CASE a \in recorded
      <4>1. There(z)
        BY <1>2, <2>00, <3>1
      <4> QED
        BY <2>00, <3>0, <4>1 DEF Beyond
    <3>2. CASE a \notin recorded
      <4>1. a \in recorded'
        BY <2>00 DEF Of
      <4>2. stage = "sent" /\ a = sent
        BY <3>2, <4>1, RecordedNew
      <4>3. slots[z] \in {None, TargetOf(n)}
        BY <1>1, <2>00, <2>3, <4>2 DEF NewInv
      <4> QED
        BY <3>0, <4>3
    <3> QED
      BY <3>1, <3>2
  <2>4. z \in DOMAIN slots' =>
            \/ z \in DOMAIN g /\ slots'[z] = g[z]
            \/ z \in DOMAIN slots /\ slots'[z] = slots[z]
    BY <2>1 DEF Over
  <2> QED
    BY <2>0, <2>2, <2>3, <2>4
<1>7. ASSUME NEW i \in Pending', NEW x \in DOMAIN SetsOf(i)', There(x)'
      PROVE  Past(SetsOf(i)'[x])
  <2>1. CASE i \in Pending /\ actions'[i].write = actions[i].write
    <3>1. SetsOf(i)' = SetsOf(i)
      BY <2>1 DEF SetsOf
    <3> QED
      BY <1>4, <1>7, <2>1, <3>1
  <2>2. CASE Straight(actions'[i].write.sets)
    <3>1. SetsOf(i)' = actions'[i].write.sets
      BY DEF SetsOf
    <3> QED
      BY <1>5, <1>7, <2>2, <3>1
  <2> QED
    BY <2>1, <2>2, StraightNext DEF StagesStraight
<1> QED
  BY <1>6, <1>7 DEF Beyond, Of

\* A settings contract that the storage does not take calls from any more: the
\* proxy of resolvers and these have gone beyond it.
Retired(t) ==
    /\ {"ReadProxyAddressResolver", "AddressResolver", "SystemSettings"} \subseteq DOMAIN targets
    /\ Rank(t) < Rank(TargetOf("SystemSettings"))
    /\ \E p, r \in Nat :
           /\ p <= Rank(TargetOf("ReadProxyAddressResolver"))
           /\ r <= Rank(TargetOf("AddressResolver"))
           /\ Beyond("ReadProxyAddressResolver", "target", p, r)
           /\ Beyond("AddressResolver", "SystemSettings", r, Rank(t) + 1)

\* The proxy of resolvers leads to one, and these to contracts by their names.
LEMMA ResolverLeads ==
    /\ \A x : (NameOf(x[1]) = "ReadProxyAddressResolver" /\ x[2] = "target")
                  => Leads(x, "AddressResolver")
    /\ \A n \in Names : \A x : (NameOf(x[1]) = "AddressResolver" /\ x[2] = n) => Leads(x, n)
<1>1. PICK i \in Links : /\ Script[i].on = "ReadProxyAddressResolver"
                         /\ Script[i].field = "target" /\ Script[i].to = "AddressResolver"
  BY ScriptAssumption DEF ScriptInOrder, LinksInOrder
<1>2. Script[i].at = "ReadProxyAddressResolver"
  BY <1>1, WireFields
<1> QED
  BY <1>1, <1>2 DEF Leads

\* It stays so.
LEMMA RetiredNext ==
    ASSUME Inv, NetInv, WireInv, OwnInv, NewInv, Inv', NetInv', [Next]_vars,
           NEW t, Rank(t) \in Nat, Retired(t)
    PROVE  Retired(t)'
<1> DEFINE RP == "ReadProxyAddressResolver"
           AR == "AddressResolver"
           SS == "SystemSettings"
<1>1. PICK p \in Nat, r \in Nat :
          /\ p <= Rank(TargetOf(RP)) /\ r <= Rank(TargetOf(AR))
          /\ Beyond(RP, "target", p, r) /\ Beyond(AR, SS, r, Rank(t) + 1)
  BY DEF Retired
<1>2. {RP, AR, SS} \subseteq DOMAIN targets /\ Rank(t) < Rank(TargetOf(SS)) /\ SS \in Names
  BY DEF Retired, NetInv, ListInv
<1>3. \A n \in {RP, AR, SS} : /\ n \in DOMAIN targets'
                              /\ Rank(TargetOf(n)) \in Nat /\ Rank(TargetOf(n)') \in Nat
                              /\ Rank(TargetOf(n)) <= Rank(TargetOf(n)')
  BY <1>2, NetGrows
<1>4. Rank(TargetOf(AR)) >= r /\ Rank(TargetOf(SS)) >= Rank(t) + 1
  BY <1>1, <1>2, <1>3
<1>5. Beyond(RP, "target", p, r)'
  BY <1>1, <1>2, <1>4, ResolverLeads, BeyondNext
<1>6. Beyond(AR, SS, r, Rank(t) + 1)'
  <2> DEFINE m == Rank(t) + 1
  <2>1. Beyond(AR, SS, r, m) /\ Rank(TargetOf(SS)) >= m
    BY <1>1, <1>4
  <2>2. \A x : (NameOf(x[1]) = AR /\ x[2] = SS) => Leads(x, SS)
    BY <1>2, ResolverLeads
  <2> HIDE DEF m
  <2>3. Beyond(AR, SS, r, m)'
    BY <1>2, <2>1, <2>2, BeyondNext
  <2> QED
    BY <2>3 DEF m
<1>7. /\ p <= Rank(TargetOf(RP)') /\ r <= Rank(TargetOf(AR)')
      /\ Rank(t) < Rank(TargetOf(SS)')
  BY <1>1, <1>2, <1>3
<1> QED
  BY <1>3, <1>5, <1>6, <1>7 DEF Retired, Rank

\* The storage takes no call from it.
LEMMA RetiredReverts ==
    ASSUME Inv, NetInv, OwnInv, NamesLead, NEW t \in Of("SystemSettings"), Retired(t)
    PROVE  t # MaySet
<1> DEFINE RP == "ReadProxyAddressResolver"
           AR == "AddressResolver"
           SS == "SystemSettings"
           P == TargetOf(RP)
           R == Held(slots, P, "target")
           v == Held(slots, R, SS)
<1>1. PICK p \in Nat, r \in Nat :
          /\ p <= Rank(P) /\ r <= Rank(TargetOf(AR))
          /\ Beyond(RP, "target", p, r) /\ Beyond(AR, SS, r, Rank(t) + 1)
  BY DEF Retired
<1>2. MaySet = v
  BY SlotHeld DEF MaySet
<1>3. RP \in DOMAIN targets /\ SS \in Names
  BY DEF Retired, NetInv, ListInv
<1>4. P \in Of(RP) /\ Rank(P) \in Nat /\ NameOf(P) = RP
  BY <1>3, OfRank DEF TargetOf, Inv, FilesInv, Within, NetInv, ChainInv, Of
<1>5. Leads(<<P, "target">>, AR) /\ R \in Of(AR) \cup {None}
  BY <1>4, ResolverLeads, LeadsTo DEF OwnInv
<1>6. t # None /\ Rank(t) \in Nat
  BY OfRank
<1>7. CASE v = None
  BY <1>2, <1>6, <1>7
<1>8. CASE v # None
  <2>1. <<R, SS>> \in DOMAIN slots /\ v = slots[<<R, SS>>]
    BY <1>8 DEF Held
  <2>2. R # None
    BY <1>3, <2>1 DEF NamesLead
  <2>3. R \in Of(AR) /\ Rank(R) \in Nat
    BY <1>5, <2>2, OfRank
  <2>4. <<P, "target">> \in DOMAIN slots /\ R = slots[<<P, "target">>]
    BY <2>2 DEF Held
  <2>5. Rank(R) >= r
    BY <1>1, <1>4, <2>2, <2>4 DEF Beyond
  <2>6. v \in Of(SS)
    BY <1>3, <1>8, <2>1 DEF NamesLead
  <2>7. Rank(v) >= Rank(t) + 1
    BY <1>1, <1>8, <2>1, <2>3, <2>5 DEF Beyond
  <2> QED
    BY <1>2, <1>6, <2>7
<1> QED
  BY <1>7, <1>8

-----------------------------------------------------------------------------
(* What governance has chosen.                                             *)

\* Only settings hold it, and neither what is staged nor a supply that was read.
TunedOnly ==
    /\ \A x \in DOMAIN slots : slots[x] = Tuned => x[2] \in Settings /\ x[1] \in Values
    /\ \A i \in DOMAIN actions : \A x \in DOMAIN SetsOf(i) : SetsOf(i)[x] # Tuned
    /\ \A key \in DOMAIN old : old[key].supply # Tuned

\* It is no address.
LEMMA NotTuned ==
    ASSUME Inv
    PROVE  /\ Tuned \notin recorded \cup {None, Fixed, Some}
           /\ \A n : AddressOf(n) \in recorded \cup {None}
           /\ \A n : ValueOf(n) \in recorded \cup {None, Fixed}
<1>1. Tuned \notin recorded
  BY DEF Inv, FilesInv, ValuesInv, NoAddresses
<1>2. \A n : AddressOf(n) \in recorded \cup {None}
  BY DEF AddressOf, Inv, ValuesInv, Within
<1> QED
  BY <1>1, <1>2 DEF ValueOf, Tuned, None, Fixed, Some

\* It stays so where nothing of it is written or staged.
LEMMA TunedWrites ==
    ASSUME Inv, TunedOnly, recorded \subseteq recorded',
           old' = old \/ DOMAIN old' = {},
           \/ slots' = slots
           \/ \E g : slots' = Over(slots, g) /\ \A x \in DOMAIN g : g[x] # Tuned,
           \/ actions' = actions
           \/ \E w : actions' = Staged(w) /\ \A x \in DOMAIN w.sets : w.sets[x] # Tuned
    PROVE  TunedOnly'
<1>1. Values \subseteq Values'
  BY DEF Values, NoAddresses
<1>2. \A x \in DOMAIN slots' : slots'[x] = Tuned => x \in DOMAIN slots /\ slots[x] = Tuned
  BY DEF Over
<1>3. \A i \in DOMAIN actions' : \A x \in DOMAIN SetsOf(i)' : SetsOf(i)'[x] # Tuned
  <2>1. CASE actions' = actions
    BY <2>1 DEF TunedOnly, SetsOf
  <2>2. CASE \E w : actions' = Staged(w) /\ \A x \in DOMAIN w.sets : w.sets[x] # Tuned
    <3>1. PICK w : actions' = Staged(w) /\ \A x \in DOMAIN w.sets : w.sets[x] # Tuned
      BY <2>2
    <3>2. IsSequence(actions)
      BY DEF Inv, ActionsInv
    <3>3. \A i \in DOMAIN actions' :
              (i \in DOMAIN actions /\ actions'[i] = actions[i]) \/ actions'[i].write = w
      BY <3>1, <3>2, StagedAt
    <3> QED
      BY <3>1, <3>3 DEF TunedOnly, SetsOf
  <2> QED
    BY <2>1, <2>2
<1> QED
  BY <1>1, <1>2, <1>3 DEF TunedOnly

\* It stays so at each step.
LEMMA TunedNext ==
    ASSUME Inv, NetInv, WireInv, OwnInv, NamesLead, TunedOnly, Inv', NetInv', [Next]_vars
    PROVE  TunedOnly'
<1>0. recorded \subseteq recorded'
  BY NetGrows
<1>1. CASE \/ StartRun \/ PassOver \/ RecordDeployment \/ RecordConfig \/ ReuseContract
           \/ QueuePynth \/ SortPynths \/ Fail \/ Finish \/ Crash
           \/ HandOver \/ UpdateVersions \/ PrepareDeploy \/ UNCHANGED vars
  <2>1. UNCHANGED <<slots, actions>>
    BY <1>1 DEF StartRun, PassOver, RecordDeployment, RecordConfig, ReuseContract,
       QueuePynth, SortPynths, Fail, Finish, Crash, EndWith, HandOver,
       UpdateVersions, PrepareDeploy, vars, chainVars, fileVars
  <2>2. CASE Fail \/ Finish \/ Crash
    BY <1>0, <2>1, <2>2, TunedWrites DEF Fail, Finish, Crash, EndWith
  <2>3. CASE \/ StartRun \/ PassOver \/ RecordDeployment \/ RecordConfig \/ ReuseContract
             \/ QueuePynth \/ SortPynths \/ HandOver \/ UpdateVersions \/ PrepareDeploy
             \/ UNCHANGED vars
    <3>1. UNCHANGED old
      BY <2>3 DEF StartRun, PassOver, RecordDeployment, RecordConfig, ReuseContract,
         QueuePynth, SortPynths, HandOver, UpdateVersions, PrepareDeploy, vars, runVars
    <3> QED
      BY <1>0, <2>1, <3>1, TunedWrites
  <2> QED
    BY <1>1, <2>2, <2>3
<1>2. CASE SendDeployment
  <2>1. PICK k : slots' = Over(slots, Constructed(<<Step.name, k>>, Step))
    BY <1>2 DEF SendDeployment
  <2>2. UNCHANGED <<actions, old>>
    BY <1>2 DEF SendDeployment, fileVars
  <2>3. Original(Step.key) # Tuned
    BY NotTuned DEF Original, TunedOnly
  <2> DEFINE g == Constructed(<<Step.name, k>>, Step)
  <2>4. \A x \in DOMAIN g : g[x] = Original(Step.key) \/ \E n : g[x] = AddressOf(n)
    BY DEF Constructed, Put, Over, Single
  <2> HIDE DEF g
  <2>5. \A x \in DOMAIN g : g[x] # Tuned
    BY <2>3, <2>4, NotTuned
  <2> QED
    BY <1>0, <2>1, <2>2, <2>5, TunedWrites DEF g
<1>3. CASE SetStep
  <2>1. Invoke(SetWrite(Step)) /\ UNCHANGED old
    BY <1>3 DEF SetStep
  <2>2. \A x \in DOMAIN SetWrite(Step).sets : SetWrite(Step).sets[x] = ValueOf(Step.to)
    BY DEF SetWrite, Write, Single
  <2>3. \A x \in DOMAIN SetWrite(Step).sets : SetWrite(Step).sets[x] # Tuned
    BY <2>2, NotTuned
  <2> QED
    BY <1>0, <2>1, <2>3, TunedWrites DEF Invoke
<1>4. CASE ImportFeePeriods \/ RetirePynth \/ RemovePynth \/ AddPynths
  <2>1. PICK w : /\ Invoke(w) \/ NothingToDo
                 /\ \A x \in DOMAIN w.sets : w.sets[x] \in recorded \cup {None}
    BY <1>4, OtherWrites
  <2>2. \A x \in DOMAIN w.sets : w.sets[x] # Tuned
    BY <2>1, NotTuned
  <2>3. UNCHANGED old
    BY <1>4 DEF ImportFeePeriods, RetirePynth, RemovePynth, AddPynths
  <2> QED
    BY <1>0, <2>1, <2>2, <2>3, TunedWrites DEF Invoke, NothingToDo
<1>5. CASE ImportAddresses
  <2>1. \A x \in DOMAIN ImportWrite.sets : ImportWrite.sets[x] # Tuned
    BY <1>5, ImportFits, NotTuned DEF ImportWrite, Write, Unimported, Inv, ValuesInv, Within
  <2>2. slots' = slots \/ slots' = Over(slots, ImportWrite.sets)
    BY <1>5 DEF ImportAddresses
  <2>3. actions' = actions \/ actions' = Staged(ImportWrite)
    BY <1>5 DEF ImportAddresses
  <2>4. old' = old \/ DOMAIN old' = {}
    BY <1>5 DEF ImportAddresses, EndWith
  <2> QED
    BY <1>0, <2>1, <2>2, <2>3, <2>4, TunedWrites
<1>6. CASE RebuildCaches
  <2>1. PICK g : /\ slots' = Over(slots, g)
                 /\ \A x \in DOMAIN g : x[2] \in Names /\ g[x] = Resolved(x[2])
    BY <1>6, RebuildWrites
  <2>2. ASSUME NEW r \in Names PROVE Resolved(r) # Tuned
    <3>1. PICK a : Resolved(r) = Held(slots, a, r)
      BY SlotHeld DEF Resolved
    <3>2. Held(slots, a, r) \in recorded \cup {None}
      BY DEF Held, NamesLead, Of
    <3> QED
      BY <3>1, <3>2, NotTuned
  <2>3. UNCHANGED <<actions, old>>
    BY <1>6 DEF RebuildCaches, fileVars
  <2> QED
    BY <1>0, <2>1, <2>2, <2>3, TunedWrites
<1>7. CASE OwnerActs
  <2>1. PICK i \in DOMAIN actions :
            /\ slots' = Over(slots, SetsOf(i))
            /\ DOMAIN actions' = DOMAIN actions
            /\ \A j \in DOMAIN actions : actions'[j].write = actions[j].write
    BY <1>7, OwnerWrites
  <2>2. \A x \in DOMAIN SetsOf(i) : SetsOf(i)[x] # Tuned
    BY DEF TunedOnly
  <2>3. \A x \in DOMAIN slots' : slots'[x] = Tuned => x \in DOMAIN slots /\ slots[x] = Tuned
    BY <2>1, <2>2 DEF Over
  <2>4. UNCHANGED <<old, recorded>>
    BY <1>7 DEF OwnerActs, runVars
  <2> QED
    BY <2>1, <2>3, <2>4 DEF TunedOnly, SetsOf, Values, NoAddresses
<1>8. CASE TuneSetting
  <2>1. PICK f \in Settings : slots' = Put(slots, <<Slot(MaySet, "FlexibleStorage"), f>>, Tuned)
    BY <1>8 DEF TuneSetting
  <2>2. Slot(MaySet, "FlexibleStorage") \in Values
    BY SlotKnown DEF Inv
  <2>3. ASSUME NEW x \in DOMAIN slots', slots'[x] = Tuned
        PROVE  x[2] \in Settings /\ x[1] \in Values
    <3>1. \/ x \in DOMAIN slots /\ slots'[x] = slots[x]
          \/ x = <<Slot(MaySet, "FlexibleStorage"), f>>
      BY <2>1 DEF Put, Over, Single
    <3> QED
      BY <2>2, <2>3, <3>1 DEF TunedOnly
  <2>4. UNCHANGED <<actions, old, recorded>>
    BY <1>8 DEF TuneSetting, fileVars, runVars
  <2> QED
    BY <2>3, <2>4 DEF TunedOnly, SetsOf, Values, NoAddresses
<1>9. CASE IssuePynths
  <2>1. PICK P : slots' = Over(slots, [x \in {<<p, "supply">> : p \in P} |-> Some])
    BY <1>9 DEF IssuePynths
  <2> DEFINE g == [x \in {<<p, "supply">> : p \in P} |-> Some]
  <2>2. \A x \in DOMAIN g : g[x] # Tuned
    BY NotTuned
  <2>3. UNCHANGED <<actions, old>>
    BY <1>9 DEF IssuePynths, fileVars, runVars
  <2> HIDE DEF g
  <2> QED
    BY <1>0, <2>1, <2>2, <2>3, TunedWrites DEF g
<1>10. CASE RecallPynth
  <2>1. UNCHANGED <<slots, actions, recorded>>
    BY <1>10 DEF RecallPynth, chainVars, fileVars
  <2>2. \A p : Slot(p, "supply") # Tuned
    <3>1. "supply" \notin Settings
      BY ScriptAssumption DEF ScriptInOrder, SettingsInOrder
    <3> QED
      BY <3>1, NotTuned DEF Slot, TunedOnly
  <2>3. \A key \in DOMAIN old' : old'[key].supply # Tuned
    <3>1. \/ old' = old
          \/ \E p : old' = Put(old, Step.key, [pynth |-> p, supply |-> Slot(p, "supply")])
      BY <1>10 DEF RecallPynth
    <3> QED
      BY <2>2, <3>1 DEF TunedOnly, Put, Over, Single
  <2> QED
    BY <2>1, <2>3 DEF TunedOnly, SetsOf, Values, NoAddresses
<1> QED
  BY <1>1, <1>2, <1>3, <1>4, <1>5, <1>6, <1>7, <1>8, <1>9, <1>10 DEF Next, RunStep

-----------------------------------------------------------------------------
(* The calls for settings that are staged.                                 *)

\* A write takes the place of all that have its key, and of nothing else.
LEMMA StagedOnce ==
    ASSUME IsSequence(actions), NEW w
    PROVE  \A i \in DOMAIN Staged(w) :
               \/ /\ i \in DOMAIN actions /\ Staged(w)[i] = actions[i]
                  /\ Key(actions[i].write) # Key(w)
               \/ /\ i \in DOMAIN actions /\ Staged(w)[i].write = w
                  /\ Key(actions[i].write) = Key(w)
               \/ /\ i = Len(actions) + 1 /\ Staged(w)[i].write = w
                  /\ \A j \in DOMAIN actions : Key(actions[j].write) # Key(w)
<1> DEFINE entry == [write |-> w, complete |-> FALSE]
           same(e) == Key(e.write) = Key(w)
           R == {actions[i] : i \in DOMAIN actions}
           replaced == [i \in DOMAIN actions |-> IF same(actions[i]) THEN entry ELSE actions[i]]
           appended == Append(actions, entry)
<1>1. actions \in Seq(R \cup {entry}) /\ Len(actions) \in Nat /\ DOMAIN actions = 1..Len(actions)
  BY DEF IsSequence
<1>2. entry.write = w
  OBVIOUS
<1>3. CASE \E i \in DOMAIN actions : same(actions[i])
  <2>1. Staged(w) = replaced
    BY <1>3 DEF Staged
  <2>2. DOMAIN replaced = DOMAIN actions /\ \A i \in DOMAIN actions :
            replaced[i] = IF same(actions[i]) THEN entry ELSE actions[i]
    OBVIOUS
  <2> HIDE DEF replaced, entry
  <2> QED
    BY <1>2, <2>1, <2>2
<1>4. CASE ~ \E i \in DOMAIN actions : same(actions[i])
  <2>1. Staged(w) = appended
    BY <1>4 DEF Staged
  <2>2. /\ DOMAIN appended = 1..(Len(actions) + 1)
        /\ \A i \in 1..Len(actions) : appended[i] = actions[i]
        /\ appended[Len(actions) + 1] = entry
    BY <1>1, AppendProperties
  <2> HIDE DEF appended, entry
  <2>3. \A i \in DOMAIN appended : i \in DOMAIN actions \/ i = Len(actions) + 1
    BY <1>1, <2>2
  <2> QED
    BY <1>1, <1>2, <1>4, <2>1, <2>2, <2>3
<1> QED
  BY <1>3, <1>4

\* A write of a step for setting f, by a settings contract.
SettingCall(w, f) == \E j \in Sets : \E a \in Of("FlexibleStorage") :
    /\ Script[j].field = f /\ NeededBy(Script[j]) \subseteq DOMAIN targets
    /\ w.label = Script[j].label /\ w.method = f
    /\ w.target \in Of("SystemSettings") /\ w.sets = Single(<<a, f>>, Fixed)

\* What is staged for settings, each at most once.
SettingsStaged ==
    /\ \A i \in DOMAIN actions : \A x \in DOMAIN SetsOf(i) :
           x[2] \in Settings => SettingCall(actions[i].write, x[2])
    /\ \A i, j \in DOMAIN actions : \A x \in DOMAIN SetsOf(i), y \in DOMAIN SetsOf(j) :
           (x[2] \in Settings /\ x[2] = y[2]) => i = j

\* It has one slot.
LEMMA CallSlot ==
    ASSUME NEW w, NEW f, SettingCall(w, f), NEW x \in DOMAIN w.sets
    PROVE  /\ x[2] = f /\ x[1] \in Of("FlexibleStorage") /\ x = <<x[1], x[2]>>
           /\ w.sets[x] = Fixed
  BY DEF SettingCall, Single

\* Two such writes have the same key.
LEMMA CallKey ==
    ASSUME NEW f \in Settings, NEW v, SettingCall(v, f), NEW w, SettingCall(w, f)
    PROVE  Key(v) = Key(w)
<1>1. PICK i \in Sets : \E a : /\ Script[i].field = f /\ v.label = Script[i].label
                               /\ v.method = f /\ v.sets = Single(<<a, f>>, Fixed)
  BY DEF SettingCall
<1>2. PICK j \in Sets : \E a : /\ Script[j].field = f /\ w.label = Script[j].label
                               /\ w.method = f /\ w.sets = Single(<<a, f>>, Fixed)
  BY DEF SettingCall
<1>3. i = j
  BY <1>1, <1>2, ScriptAssumption DEF ScriptInOrder, SettingsInOrder
<1>4. \A a : {<<x[2], Single(<<a, f>>, Fixed)[x]>> : x \in DOMAIN Single(<<a, f>>, Fixed)}
                 = {<<f, Fixed>>}
  BY DEF Single
<1> QED
  BY <1>1, <1>2, <1>3, <1>4 DEF Key

\* Writes stay such when more is deployed.
LEMMA CallKept ==
    ASSUME recorded \subseteq recorded', DOMAIN targets \subseteq DOMAIN targets',
           NEW w, NEW f, SettingCall(w, f)
    PROVE  SettingCall(w, f)'
  BY DEF SettingCall, Of

\* Staging keeps one of each.
LEMMA StageSettings ==
    ASSUME Inv, SettingsStaged, recorded \subseteq recorded',
           DOMAIN targets \subseteq DOMAIN targets',
           NEW w, \A x \in DOMAIN w.sets : x[2] \in Settings => SettingCall(w, x[2]),
           actions' = Staged(w)
    PROVE  SettingsStaged'
<1>1. \A i \in DOMAIN actions' :
          \/ /\ i \in DOMAIN actions /\ actions'[i] = actions[i]
             /\ Key(actions[i].write) # Key(w)
          \/ /\ i \in DOMAIN actions /\ actions'[i].write = w
             /\ Key(actions[i].write) = Key(w)
          \/ /\ i = Len(actions) + 1 /\ actions'[i].write = w
             /\ \A j \in DOMAIN actions : Key(actions[j].write) # Key(w)
  BY StagedOnce DEF Inv, ActionsInv
<1>2. ASSUME NEW i \in DOMAIN actions', NEW x \in DOMAIN SetsOf(i)', x[2] \in Settings
      PROVE  SettingCall(actions'[i].write, x[2])
  BY <1>1, <1>2 DEF SettingsStaged, SetsOf
<1>3. ASSUME NEW i \in DOMAIN actions', NEW x \in DOMAIN SetsOf(i)', x[2] \in Settings,
             NEW j \in DOMAIN actions', NEW y \in DOMAIN SetsOf(j)', x[2] = y[2]
      PROVE  i = j
  <2>1. SettingCall(actions'[i].write, x[2]) /\ SettingCall(actions'[j].write, x[2])
    BY <1>2, <1>3
  <2>2. ASSUME NEW k \in DOMAIN actions, NEW z, z[2] = x[2],
               \/ z \in DOMAIN SetsOf(k)
               \/ z \in DOMAIN w.sets /\ Key(actions[k].write) = Key(w)
        PROVE  \E u \in DOMAIN SetsOf(k) : u[2] = x[2]
    <3>1. CASE z \in DOMAIN w.sets /\ Key(w) = Key(actions[k].write)
      <4> DEFINE v == actions[k].write
      <4>1. z \in DOMAIN w.sets /\ Key(w) = Key(v)
        BY <3>1
      <4> HIDE DEF v
      <4>2. \E u \in DOMAIN v.sets : u[2] = z[2]
        BY <4>1, KeySame
      <4> QED
        BY <2>2, <4>2 DEF SetsOf, v
    <3> QED
      BY <2>2, <3>1
  <2>3. CASE actions'[i].write = w /\ actions'[j].write = w
    <3>1. CASE i \in DOMAIN actions /\ j \in DOMAIN actions
      <4>1. Key(actions[i].write) = Key(w) \/ actions[i].write = w
        BY <1>1, <2>3, <3>1
      <4>2. Key(actions[j].write) = Key(w) \/ actions[j].write = w
        BY <1>1, <2>3, <3>1
      <4>3. /\ \E u \in DOMAIN SetsOf(i) : u[2] = x[2]
            /\ \E u \in DOMAIN SetsOf(j) : u[2] = x[2]
        BY <1>3, <2>2, <2>3, <3>1, <4>1, <4>2 DEF SetsOf
      <4> QED
        BY <1>3, <3>1, <4>3 DEF SettingsStaged
    <3>2. CASE i \notin DOMAIN actions \/ j \notin DOMAIN actions
      <4>1. i = Len(actions) + 1 \/ j = Len(actions) + 1
        BY <1>1, <3>2
      <4>2. \A k \in DOMAIN actions : Key(actions[k].write) # Key(w)
        BY <1>1, <3>2
      <4>3. \A k \in DOMAIN actions' : actions'[k].write = w =>
                k = Len(actions) + 1 \/ (k \in DOMAIN actions /\ Key(actions[k].write) = Key(w))
        BY <1>1
      <4> QED
        BY <2>3, <4>2, <4>3
    <3> QED
      BY <3>1, <3>2
  <2>4. CASE i \in DOMAIN actions /\ actions'[i] = actions[i] /\ Key(actions[i].write) # Key(w)
    <3>1. actions'[j].write # w
      BY <1>3, <2>1, <2>4, CallKey
    <3>2. j \in DOMAIN actions /\ actions'[j] = actions[j]
      BY <1>1, <3>1
    <3> QED
      BY <1>3, <2>4, <3>2 DEF SettingsStaged, SetsOf
  <2>5. CASE j \in DOMAIN actions /\ actions'[j] = actions[j] /\ Key(actions[j].write) # Key(w)
    <3>1. actions'[i].write # w
      BY <1>3, <2>1, <2>5, CallKey
    <3>2. i \in DOMAIN actions /\ actions'[i] = actions[i]
      BY <1>1, <3>1
    <3> QED
      BY <1>3, <2>5, <3>2 DEF SettingsStaged, SetsOf
  <2> QED
    BY <1>1, <2>3, <2>4, <2>5
<1> QED
  BY <1>2, <1>3, CallKept DEF SettingsStaged

\* What a step for a setting writes.
LEMMA SetCalls ==
    ASSUME Inv, NetInv, NamesLead, SetStep, Step.field \in Settings
    PROVE  /\ SettingCall(SetWrite(Step), Step.field)
           /\ Step.keep /\ Holder(Step) # None /\ ~Expected(Step)
           /\ SetWrite(Step).sets = Single(<<Holder(Step), Step.field>>, Fixed)
           /\ SetWrite(Step).target = TargetOf("SystemSettings")
<1>0. /\ pc \in Sets /\ Step = Script[pc] /\ Step.op = "set" /\ Step.on \in DOMAIN deployed
      /\ ~Passed(Step)
  BY DEF SetStep, At, Sets, Step
<1>1. /\ Step.keep /\ Step.when = {} /\ Step.to = "fixed" /\ Step.on = "SystemSettings"
      /\ Step.at = "FlexibleStorage"
  BY <1>0, ScriptAssumption DEF ScriptInOrder, SettingsInOrder
<1>2. Relevant(Step) /\ Holder(Step) # None /\ ~Expected(Step)
  BY <1>0 DEF Passed
<1>3. Holder(Step) \in Of("FlexibleStorage")
  BY <1>0, <1>1, <1>2, KeeperHolds, KeeperKnown DEF Of
<1>4. NeededBy(Step) \subseteq DOMAIN targets
  BY <1>0, <1>2 DEF Relevant, NeededBy, NetInv, DeployedInv
<1>5. deployed["SystemSettings"] \in Of("SystemSettings")
      /\ deployed["SystemSettings"] = TargetOf("SystemSettings")
  BY <1>0, <1>1, DeployedKnown DEF Of, TargetOf, NetInv, DeployedInv
<1>6. /\ SetWrite(Step).label = Step.label /\ SetWrite(Step).method = Step.field
      /\ SetWrite(Step).target = deployed["SystemSettings"]
      /\ SetWrite(Step).sets = Single(<<Holder(Step), Step.field>>, Fixed)
  BY <1>1 DEF SetWrite, Write, ValueOf
<1>7. SettingCall(SetWrite(Step), Step.field)
  BY <1>0, <1>3, <1>4, <1>5, <1>6 DEF SettingCall
<1> QED
  BY <1>1, <1>2, <1>5, <1>6, <1>7

\* What a step for another slot writes is no setting.
LEMMA SetOthers ==
    ASSUME Step.field \notin Settings, NEW x \in DOMAIN SetWrite(Step).sets
    PROVE  x[2] \notin Settings
  BY DEF SetWrite, Write, Single

\* Settings are neither names, nor pynths, nor what contracts keep of their own.
LEMMA SettingsApart ==
    Settings \cap (Names \cup Keys \cup {"supply", "periods"}) = {}
<1>1. Settings \subseteq Plainly /\ Plainly \cap (Names \cup Keys) = {}
  BY ScriptAssumption DEF ScriptInOrder, FieldsApart, Plainly
<1>2. "supply" \notin Settings /\ "periods" \notin Settings
  BY ScriptAssumption DEF ScriptInOrder, SettingsInOrder
<1> QED
  BY <1>1, <1>2

\* What is staged stays as it was.
LEMMA SettingsSame ==
    ASSUME SettingsStaged, recorded \subseteq recorded',
           DOMAIN targets \subseteq DOMAIN targets', DOMAIN actions' = DOMAIN actions,
           \A j \in DOMAIN actions : actions'[j].write = actions[j].write
    PROVE  SettingsStaged'
<1>1. \A i \in DOMAIN actions : SetsOf(i)' = SetsOf(i)
  BY DEF SetsOf
<1> QED
  BY <1>1, CallKept DEF SettingsStaged

\* Setting calls are staged by their steps only.
LEMMA SettingsNext ==
    ASSUME Inv, NetInv, WireInv, OwnInv, NamesLead, SettingsStaged, Inv', NetInv', [Next]_vars
    PROVE  SettingsStaged'
<1>0. recorded \subseteq recorded' /\ DOMAIN targets \subseteq DOMAIN targets'
  BY NetGrows
<1>1. CASE \/ StartRun \/ PassOver \/ RecordDeployment \/ RecordConfig \/ ReuseContract
           \/ RecallPynth \/ QueuePynth \/ SortPynths \/ Fail \/ Finish \/ Crash
           \/ HandOver \/ UpdateVersions \/ PrepareDeploy \/ SendDeployment
           \/ RebuildCaches \/ TuneSetting \/ IssuePynths \/ UNCHANGED vars
  <2>1. UNCHANGED actions
    BY <1>1 DEF StartRun, PassOver, RecordDeployment, RecordConfig, ReuseContract,
       RecallPynth, QueuePynth, SortPynths, Fail, Finish, Crash, EndWith, HandOver,
       UpdateVersions, PrepareDeploy, SendDeployment, RebuildCaches, TuneSetting,
       IssuePynths, vars, chainVars, fileVars
  <2> QED
    BY <1>0, <2>1, SettingsSame
<1>2. CASE SetStep
  <2>1. \A x \in DOMAIN SetWrite(Step).sets :
            x[2] \in Settings => SettingCall(SetWrite(Step), x[2])
    <3>1. CASE Step.field \in Settings
      BY <1>2, <3>1, SetCalls, CallSlot
    <3>2. CASE Step.field \notin Settings
      BY <3>2, SetOthers
    <3> QED
      BY <3>1, <3>2
  <2>2. actions' = Staged(SetWrite(Step)) \/ UNCHANGED actions
    BY <1>2 DEF SetStep, Invoke
  <2> QED
    BY <1>0, <2>1, <2>2, StageSettings, SettingsSame
<1>3. CASE ImportFeePeriods \/ RetirePynth \/ RemovePynth \/ AddPynths
  <2>1. PICK w : /\ Invoke(w) \/ NothingToDo
                 /\ \A x \in DOMAIN w.sets : x[2] \in Keys \cup {"supply", "periods"}
    BY <1>3, OtherWrites
  <2>2. \A x \in DOMAIN w.sets : x[2] \notin Settings
    BY <2>1, SettingsApart
  <2>3. actions' = Staged(w) \/ UNCHANGED actions
    BY <2>1 DEF Invoke, NothingToDo
  <2> QED
    BY <1>0, <2>2, <2>3, StageSettings, SettingsSame
<1>4. CASE ImportAddresses
  <2>1. \A x \in DOMAIN ImportWrite.sets : x[2] \notin Settings
    BY <1>4, ImportFits, SettingsApart
  <2>2. actions' = Staged(ImportWrite) \/ UNCHANGED actions
    BY <1>4 DEF ImportAddresses
  <2> QED
    BY <1>0, <2>1, <2>2, StageSettings, SettingsSame
<1>5. CASE OwnerActs
  BY <1>0, <1>5, OwnerWrites, SettingsSame
<1> QED
  BY <1>1, <1>2, <1>3, <1>4, <1>5 DEF Next, RunStep

\* A clean end leaves the contracts that every run has.
CoreInv == outcome = "clean" => Core \subseteq DOMAIN targets

\* Past the last step they are deployed.
LEMMA CoreNext == NetInv /\ CoreInv /\ Inv /\ Inv' /\ NetInv' /\ [Next]_vars => CoreInv'
<1> SUFFICES ASSUME NetInv, CoreInv, Inv, Inv', NetInv', [Next]_vars PROVE CoreInv'
  OBVIOUS
<1>0. DOMAIN targets \subseteq DOMAIN targets'
  BY NetGrows
<1>1. CASE Finish
  <2>1. /\ pc = Len(Script) + 1 /\ Len(Script) \in Nat /\ Deploys \subseteq 1..Len(Script)
        /\ UNCHANGED targets
    BY <1>1, ScriptSteps DEF Finish, fileVars
  <2>2. ASSUME NEW n \in Core PROVE n \in DOMAIN targets
    <3>1. \A j \in Deploys : j < pc
      BY <2>1
    <3>2. n \in DOMAIN deployed
      BY <3>1, CertainDeployed
    <3> QED
      BY <3>2 DEF NetInv, DeployedInv
  <2> QED
    BY <2>1, <2>2 DEF CoreInv
<1>2. CASE Fail \/ Crash \/ ImportAddresses
  <2>1. outcome' # "clean" \/ outcome' = outcome
    BY <1>2 DEF Fail, Crash, ImportAddresses, EndWith
  <2> QED
    BY <1>0, <2>1 DEF CoreInv
<1>3. CASE \/ StartRun \/ PassOver \/ RecordDeployment \/ RecordConfig \/ ReuseContract
           \/ RecallPynth \/ QueuePynth \/ SortPynths \/ HandOver \/ UpdateVersions
           \/ PrepareDeploy \/ SendDeployment \/ RebuildCaches \/ TuneSetting
           \/ IssuePynths \/ UNCHANGED vars \/ SetStep \/ ImportFeePeriods \/ RetirePynth
           \/ RemovePynth \/ AddPynths \/ OwnerActs
  <2>1. UNCHANGED outcome
    BY <1>3 DEF StartRun, PassOver, RecordDeployment, RecordConfig, ReuseContract,
       RecallPynth, QueuePynth, SortPynths, HandOver, UpdateVersions, PrepareDeploy,
       SendDeployment, RebuildCaches, TuneSetting, IssuePynths, vars, SetStep,
       ImportFeePeriods, RetirePynth, RemovePynth, AddPynths, OwnerActs
  <2> QED
    BY <1>0, <2>1 DEF CoreInv
<1> QED
  BY <1>1, <1>2, <1>3 DEF Next, RunStep

-----------------------------------------------------------------------------
(* What waits for the owner when a setting is chosen.                      *)

\* A pending call from t for the slot of x: nothing has been there yet, or the
\* settings contract has been deployed again since; and if governance has chosen
\* by now, the storage takes the call no more.
Late(t, x) == LET now == Held(slots, x[1], x[2]) IN
    /\ now = None \/ Rank(t) < Rank(TargetOf("SystemSettings"))
    /\ now = Tuned => Retired(t)

LateInv == \A i \in Pending : \A x \in DOMAIN SetsOf(i) : \A t :
               (x[2] \in Settings /\ t = actions[i].write.target) => Late(t, x)

\* Settings that are written or staged, by a step or between runs.
WritesSettings == SetStep \/ OwnerActs \/ SendDeployment \/ TuneSetting

\* The other steps write none, and stage none.
LEMMA OtherSlots ==
    ASSUME Inv, NetInv, WireInv, [Next]_vars, ~WritesSettings
    PROVE  /\ \E g : /\ slots' = slots \/ slots' = Over(slots, g)
                     /\ \A x \in DOMAIN g : x[2] \notin Settings
           /\ \E w : /\ actions' = actions \/ actions' = Staged(w)
                     /\ \A x \in DOMAIN w.sets : x[2] \notin Settings
<1> DEFINE none == [x \in {} |-> None]
           void == Write(None, None, None, none)
           SlotsApart == \E g : /\ slots' = slots \/ slots' = Over(slots, g)
                                /\ \A x \in DOMAIN g : x[2] \notin Settings
           ActionsApart == \E w : /\ actions' = actions \/ actions' = Staged(w)
                                  /\ \A x \in DOMAIN w.sets : x[2] \notin Settings
<1>0. /\ \A x \in DOMAIN none : x[2] \notin Settings
      /\ \A x \in DOMAIN void.sets : x[2] \notin Settings
  BY DEF Write
<1> HIDE DEF none, void
<1>01. UNCHANGED slots => SlotsApart
  BY <1>0
<1>02. UNCHANGED actions => ActionsApart
  BY <1>0
<1>1. CASE \/ StartRun \/ PassOver \/ RecordDeployment \/ RecordConfig \/ ReuseContract
           \/ RecallPynth \/ QueuePynth \/ SortPynths \/ Fail \/ Finish \/ Crash
           \/ HandOver \/ UpdateVersions \/ PrepareDeploy \/ UNCHANGED vars
  <2>1. UNCHANGED <<slots, actions>>
    BY <1>1 DEF StartRun, PassOver, RecordDeployment, RecordConfig, ReuseContract,
       RecallPynth, QueuePynth, SortPynths, Fail, Finish, Crash, EndWith, HandOver,
       UpdateVersions, PrepareDeploy, vars, chainVars, fileVars
  <2> QED
    BY <2>1, <1>01, <1>02
<1>2. CASE ImportFeePeriods \/ RetirePynth \/ RemovePynth \/ AddPynths
  <2>1. PICK w : /\ Invoke(w) \/ NothingToDo
                 /\ \A x \in DOMAIN w.sets : x[2] \in Keys \cup {"supply", "periods"}
    BY <1>2, OtherWrites
  <2>2. \A x \in DOMAIN w.sets : x[2] \notin Settings
    BY <2>1, SettingsApart
  <2>3. actions' = actions \/ actions' = Staged(w)
    BY <2>1 DEF Invoke, NothingToDo
  <2>4. slots' = slots \/ slots' = Over(slots, w.sets)
    BY <2>1 DEF Invoke, NothingToDo
  <2> QED
    BY <2>2, <2>3, <2>4
<1>3. CASE ImportAddresses
  <2>1. \A x \in DOMAIN ImportWrite.sets : x[2] \notin Settings
    BY <1>3, ImportFits, SettingsApart
  <2>2. actions' = actions \/ actions' = Staged(ImportWrite)
    BY <1>3 DEF ImportAddresses
  <2>3. slots' = slots \/ slots' = Over(slots, ImportWrite.sets)
    BY <1>3 DEF ImportAddresses
  <2> QED
    BY <2>1, <2>2, <2>3
<1>4. CASE RebuildCaches
  <2>1. PICK g : slots' = Over(slots, g) /\ \A x \in DOMAIN g : x[2] \in Names
    BY <1>4, RebuildWrites
  <2>2. \A x \in DOMAIN g : x[2] \notin Settings
    BY <2>1, SettingsApart
  <2>3. UNCHANGED actions
    BY <1>4 DEF RebuildCaches, fileVars
  <2> QED
    BY <2>1, <2>2, <2>3, <1>02
<1>5. CASE IssuePynths
  <2>1. PICK P : slots' = Over(slots, [x \in {<<p, "supply">> : p \in P} |-> Some])
    BY <1>5 DEF IssuePynths
  <2> DEFINE g == [x \in {<<p, "supply">> : p \in P} |-> Some]
  <2>2. \A x \in DOMAIN g : x[2] \notin Settings
    BY SettingsApart
  <2>3. UNCHANGED actions
    BY <1>5 DEF IssuePynths, fileVars
  <2> HIDE DEF g
  <2>4. SlotsApart
    BY <2>1, <2>2 DEF g
  <2> QED
    BY <2>3, <2>4, <1>02
<1> QED
  BY <1>1, <1>2, <1>3, <1>4, <1>5 DEF Next, RunStep, WritesSettings

\* What is pending for a setting is of a recorded contract, for a recorded storage.
LEMMA LateCall ==
    ASSUME Inv, NetInv, OwnInv, SettingsStaged, NEW i \in Pending,
           NEW x \in DOMAIN SetsOf(i), x[2] \in Settings
    PROVE  /\ i \in DOMAIN actions /\ SettingCall(actions[i].write, x[2])
           /\ actions[i].write.target \in Of("SystemSettings") \cap handedOver
           /\ Rank(actions[i].write.target) \in Nat
           /\ x = <<x[1], x[2]>> /\ x[1] \in recorded /\ NameOf(x[1]) = "FlexibleStorage"
           /\ "SystemSettings" \in DOMAIN targets
<1> DEFINE w == actions[i].write
<1>1. i \in DOMAIN actions
  BY DEF Pending
<1>2. SettingCall(w, x[2])
  BY <1>1 DEF SettingsStaged
<1>3. w.target \in Of("SystemSettings") /\ w.target \in handedOver
  BY <1>1, <1>2 DEF SettingCall, OwnInv, ActionsFit
<1>4. x \in DOMAIN w.sets
  BY DEF SetsOf
<1> HIDE DEF w
<1>5. x[1] \in Of("FlexibleStorage") /\ x = <<x[1], x[2]>>
  BY <1>2, <1>4, CallSlot
<1>6. Rank(w.target) \in Nat /\ "SystemSettings" \in DOMAIN targets
  BY <1>3, OfRank
<1> QED
  BY <1>1, <1>2, <1>3, <1>5, <1>6 DEF Of, w

\* It stays late if its slot is left as it is, or written by a later contract.
LEMMA LateKept ==
    ASSUME Inv, NetInv, WireInv, OwnInv, NewInv, Inv', NetInv', [Next]_vars,
           SettingsStaged, LateInv, NEW i \in Pending, NEW t, t = actions[i].write.target,
           NEW x \in DOMAIN SetsOf(i), x[2] \in Settings,
           \/ Held(slots', x[1], x[2]) = Held(slots, x[1], x[2])
           \/ /\ Held(slots', x[1], x[2]) # Tuned
              /\ Rank(t) < Rank(TargetOf("SystemSettings"))
    PROVE  Late(t, x)'
<1> DEFINE SS == "SystemSettings"
<1>1. Late(t, x)
  BY DEF LateInv
<1>2. Rank(t) \in Nat /\ SS \in DOMAIN targets
  BY LateCall
<1>3. Rank(TargetOf(SS)) \in Nat /\ Rank(TargetOf(SS)') \in Nat
      /\ Rank(TargetOf(SS)) <= Rank(TargetOf(SS)')
  BY <1>2, NetGrows
<1>4. Rank(t) < Rank(TargetOf(SS)) => Rank(t) < Rank(TargetOf(SS)')
  BY <1>2, <1>3
<1>5. Retired(t) => Retired(t)'
  BY <1>2, RetiredNext
<1>6. /\ Held(slots', x[1], x[2]) = None \/ Rank(t) < Rank(TargetOf(SS)')
      /\ Held(slots', x[1], x[2]) = Tuned => Retired(t)'
  <2>1. CASE Held(slots', x[1], x[2]) = Held(slots, x[1], x[2])
    BY <1>1, <1>4, <1>5, <2>1 DEF Late
  <2>2. CASE /\ Held(slots', x[1], x[2]) # Tuned
             /\ Rank(t) < Rank(TargetOf(SS))
    BY <1>4, <2>2
  <2> QED
    BY <2>1, <2>2
<1> QED
  BY <1>6 DEF Late, Held, Rank

\* A step that writes no setting, and stages none.
LEMMA LateOthers ==
    ASSUME Inv, NetInv, WireInv, OwnInv, NewInv, Inv', NetInv', [Next]_vars,
           SettingsStaged, LateInv, ~WritesSettings
    PROVE  LateInv'
<1>1. PICK g : /\ slots' = slots \/ slots' = Over(slots, g)
               /\ \A x \in DOMAIN g : x[2] \notin Settings
  BY OtherSlots
<1>2. PICK w : /\ actions' = actions \/ actions' = Staged(w)
               /\ \A x \in DOMAIN w.sets : x[2] \notin Settings
  BY OtherSlots
<1>3. IsSequence(actions)
  BY DEF Inv, ActionsInv
<1>4. \A i \in DOMAIN actions' :
          (i \in DOMAIN actions /\ actions'[i] = actions[i]) \/ actions'[i].write = w
  BY <1>2, <1>3, StagedAt
<1>5. ASSUME NEW x, x[2] \in Settings
      PROVE  Held(slots', x[1], x[2]) = Held(slots, x[1], x[2])
  <2>1. <<x[1], x[2]>> \notin DOMAIN g
    BY <1>1, <1>5
  <2>2. Held(Over(slots, g), x[1], x[2]) = Held(slots, x[1], x[2])
    BY <2>1, HeldOver
  <2> QED
    BY <1>1, <2>2
<1>6. ASSUME NEW i \in Pending', NEW x \in DOMAIN SetsOf(i)', NEW t, x[2] \in Settings,
             t = actions'[i].write.target
      PROVE  Late(t, x)'
  <2>1. i \in DOMAIN actions' /\ x \in DOMAIN actions'[i].write.sets
    BY <1>6 DEF Pending, SetsOf
  <2>2. i \in Pending /\ actions'[i] = actions[i]
    BY <1>2, <1>4, <1>6, <2>1 DEF Pending
  <2>3. x \in DOMAIN SetsOf(i) /\ t = actions[i].write.target
    BY <1>6, <2>1, <2>2 DEF SetsOf
  <2> QED
    BY <1>5, <1>6, <2>2, <2>3, LateKept
<1> QED
  BY <1>6 DEF LateInv

\* A new contract has slots of its own.
LEMMA LateSend ==
    ASSUME Inv, NetInv, WireInv, OwnInv, NewInv, Inv', NetInv', [Next]_vars,
           SettingsStaged, LateInv, SendDeployment
    PROVE  LateInv'
<1>1. PICK g : slots' = Over(slots, g) /\ \A x \in DOMAIN g : x[1] = sent'
  BY SendStraight
<1>2. UNCHANGED actions /\ sent' \notin recorded
  <2>1. \E k \in 1..MaxInstances : <<Step.name, k>> \notin chain /\ sent' = <<Step.name, k>>
    BY DEF SendDeployment
  <2>2. UNCHANGED actions
    BY DEF SendDeployment, fileVars
  <2> QED
    BY <2>1, <2>2 DEF Inv, FilesInv
<1>3. ASSUME NEW i \in Pending, NEW x \in DOMAIN SetsOf(i), NEW t, x[2] \in Settings,
             t = actions[i].write.target
      PROVE  Late(t, x)'
  <2>1. x[1] \in recorded
    BY <1>3, LateCall
  <2>2. <<x[1], x[2]>> \notin DOMAIN g
    BY <1>1, <1>2, <2>1
  <2>3. Held(slots', x[1], x[2]) = Held(slots, x[1], x[2])
    BY <1>1, <2>2, HeldOver
  <2> QED
    BY <1>3, <2>3, LateKept
<1>4. UNCHANGED Pending /\ \A i : SetsOf(i)' = SetsOf(i)
  BY <1>2 DEF Pending, SetsOf
<1> QED
  BY <1>2, <1>3, <1>4 DEF LateInv

\* A step sets what is not set, and as the deployer only through a later contract
\* than those of the owner.
LEMMA LateSet ==
    ASSUME Inv, NetInv, WireInv, OwnInv, NewInv, NamesLead, Inv', NetInv', [Next]_vars,
           SettingsStaged, LateInv, SetStep
    PROVE  LateInv'
<1> DEFINE w == SetWrite(Step)
           SS == "SystemSettings"
<1>0. Invoke(w)
  BY DEF SetStep
<1>1. Step.field \in Settings =>
          /\ SettingCall(w, Step.field) /\ Step.keep /\ ~Expected(Step)
          /\ w.sets = Single(<<Holder(Step), Step.field>>, Fixed) /\ w.target = TargetOf(SS)
  BY SetCalls
<1>2. Step.field \in Settings => Held(slots, Holder(Step), Step.field) = None
  BY <1>1, SlotHeld DEF Expected
<1>3. \A x \in DOMAIN w.sets : x = <<Holder(Step), Step.field>>
  BY DEF SetWrite, Write, Single
<1> HIDE DEF w
<1>4. CASE w.target \in handedOver
  <2>1. actions' = Staged(w) /\ UNCHANGED slots
    BY <1>0, <1>4 DEF Invoke
  <2>2. IsSequence(actions)
    BY DEF Inv, ActionsInv
  <2>3. \A i \in DOMAIN actions' :
            (i \in DOMAIN actions /\ actions'[i] = actions[i]) \/ actions'[i].write = w
    BY <2>1, <2>2, StagedAt
  <2>4. ASSUME NEW i \in Pending', NEW x \in DOMAIN SetsOf(i)', NEW t, x[2] \in Settings,
               t = actions'[i].write.target
        PROVE  Late(t, x)'
    <3>1. i \in DOMAIN actions' /\ x \in DOMAIN actions'[i].write.sets
      BY <2>4 DEF Pending, SetsOf
    <3>2. CASE i \in DOMAIN actions /\ actions'[i] = actions[i]
      <4>1. i \in Pending /\ x \in DOMAIN SetsOf(i) /\ t = actions[i].write.target
        BY <2>4, <3>1, <3>2 DEF Pending, SetsOf
      <4> QED
        BY <2>1, <2>4, <4>1, LateKept
    <3>3. CASE actions'[i].write = w
      <4>1. x = <<Holder(Step), Step.field>>
        BY <1>3, <3>1, <3>3
      <4>2. Held(slots', x[1], x[2]) = None
        BY <1>2, <2>1, <2>4, <4>1
      <4> QED
        BY <4>2 DEF Late, Held, None, Tuned
    <3> QED
      BY <2>3, <3>1, <3>2, <3>3
  <2> QED
    BY <2>4 DEF LateInv
<1>5. CASE w.target \notin handedOver
  <2>1. slots' = Over(slots, w.sets) /\ UNCHANGED actions
    BY <1>0, <1>5 DEF Invoke
  <2>2. ASSUME NEW i \in Pending, NEW x \in DOMAIN SetsOf(i), NEW t, x[2] \in Settings,
               t = actions[i].write.target
        PROVE  Late(t, x)'
    <3>0. \A a, f : Held(slots', a, f) = IF <<a, f>> \in DOMAIN w.sets THEN w.sets[<<a, f>>]
                                         ELSE Held(slots, a, f)
      <4>1. \A a, f : Held(Over(slots, w.sets), a, f) =
                IF <<a, f>> \in DOMAIN w.sets THEN w.sets[<<a, f>>] ELSE Held(slots, a, f)
        BY HeldOver
      <4> QED
        BY <2>1, <4>1
    <3>1. CASE <<x[1], x[2]>> \notin DOMAIN w.sets
      BY <2>2, <3>0, <3>1, LateKept
    <3>2. CASE <<x[1], x[2]>> \in DOMAIN w.sets
      <4>1. Step.field = x[2]
        BY <1>3, <3>2
      <4>2. w.target = TargetOf(SS) /\ w.sets[<<x[1], x[2]>>] = Fixed
        BY <1>1, <2>2, <3>2, <4>1 DEF Single
      <4>3. Held(slots', x[1], x[2]) # Tuned
        BY <3>0, <3>2, <4>2 DEF Fixed, Tuned
      <4>4. t \in Of(SS) /\ t \in handedOver
        BY <2>2, LateCall
      <4>5. /\ t = <<SS, Rank(t)>> /\ Rank(t) \in Nat /\ SS \in DOMAIN targets
            /\ Rank(t) <= Rank(targets[SS]) /\ targets[SS] \in Of(SS)
        BY <4>4, OfRank
      <4>6. targets[SS] = <<SS, Rank(targets[SS])>> /\ Rank(targets[SS]) \in Nat
        BY <4>5, OfRank
      <4>7. TargetOf(SS) = targets[SS] /\ t # targets[SS]
        BY <1>5, <4>2, <4>4, <4>5 DEF TargetOf
      <4>8. Rank(t) < Rank(TargetOf(SS))
        <5>1. Rank(t) # Rank(targets[SS])
          BY <4>5, <4>6, <4>7
        <5> QED
          BY <4>5, <4>6, <4>7, <5>1
      <4> QED
        BY <2>2, <4>3, <4>8, LateKept
    <3> QED
      BY <3>1, <3>2
  <2>3. UNCHANGED Pending /\ \A i : SetsOf(i)' = SetsOf(i)
    BY <2>1 DEF Pending, SetsOf
  <2> QED
    BY <2>1, <2>2, <2>3 DEF LateInv
<1> QED
  BY <1>4, <1>5

\* What the owner sends was the only call for its setting.
LEMMA LateOwner ==
    ASSUME Inv, NetInv, WireInv, OwnInv, NewInv, Inv', NetInv', [Next]_vars,
           SettingsStaged, LateInv, OwnerActs
    PROVE  LateInv'
<1>1. PICK i \in Pending :
          /\ i \in DOMAIN actions
          /\ slots' = Over(slots, SetsOf(i))
          /\ DOMAIN actions' = DOMAIN actions
          /\ \A j \in DOMAIN actions : actions'[j].write = actions[j].write
          /\ \A j \in Pending' : j \in Pending /\ j # i
  BY OwnerSends
<1>2. ASSUME NEW j \in Pending', NEW x \in DOMAIN SetsOf(j)', NEW t, x[2] \in Settings,
             t = actions'[j].write.target
      PROVE  Late(t, x)'
  <2>1. j \in Pending /\ j \in DOMAIN actions /\ j # i
    BY <1>1, <1>2 DEF Pending
  <2>2. x \in DOMAIN SetsOf(j) /\ t = actions[j].write.target
    BY <1>1, <1>2, <2>1 DEF SetsOf
  <2>3. <<x[1], x[2]>> \notin DOMAIN SetsOf(i)
    <3>1. ASSUME <<x[1], x[2]>> \in DOMAIN SetsOf(i) PROVE FALSE
      BY <1>1, <1>2, <2>1, <2>2, <3>1 DEF SettingsStaged
    <3> QED
      BY <3>1
  <2>4. Held(slots', x[1], x[2]) = Held(slots, x[1], x[2])
    BY <1>1, <2>3, HeldOver
  <2> QED
    BY <1>2, <2>1, <2>2, <2>4, LateKept
<1> QED
  BY <1>2 DEF LateInv

\* When governance chooses a setting, the network is wired and all is set: what
\* waits for that slot comes from a contract that has been deployed again since.
LEMMA TuneRetires ==
    ASSUME SettingInv, NewInv, SettingsStaged, CoreInv, LateInv, Idle, outcome = "clean",
           TargetOf("SystemSettings") = MaySet,
           NEW i \in Pending, NEW x \in DOMAIN SetsOf(i), x[2] \in Settings,
           x[1] = Slot(MaySet, "FlexibleStorage"), NEW t, t = actions[i].write.target
    PROVE  Rank(t) < Rank(TargetOf("SystemSettings")) /\ Retired(t)
<1> DEFINE RP == "ReadProxyAddressResolver"
           AR == "AddressResolver"
           SS == "SystemSettings"
           p  == Rank(TargetOf(RP))
           r  == Rank(TargetOf(AR))
<1>0. /\ Inv /\ NetInv /\ WireInv /\ OwnInv /\ NamesLead
      /\ Wired /\ Settled
  BY DEF SettingInv, WiringInv, QuietInv
<1>1. /\ SettingCall(actions[i].write, x[2]) /\ t \in Of(SS) /\ Rank(t) \in Nat
      /\ SS \in DOMAIN targets
  BY <1>0, LateCall
<1>2. PICK j \in Sets : Script[j].field = x[2] /\ NeededBy(Script[j]) \subseteq DOMAIN targets
  BY <1>1 DEF SettingCall
<1>3. /\ Script[j].keep /\ Script[j].via /\ Script[j].when = {} /\ Script[j].on = SS
      /\ Script[j].at = "FlexibleStorage"
  BY <1>2, ScriptAssumption DEF ScriptInOrder, SettingsInOrder
<1>4. j \in Params /\ SS \in DOMAIN Required
  BY <1>3, ParamSteps DEF Params, Links
<1>5. SS # AR /\ SS \in DOMAIN targets \ Optional /\ SS \in Names
  BY <1>1, <1>4, ScriptAssumption DEF ScriptInOrder, ContractsInOrder
<1>6. Rank(t) < Rank(TargetOf(SS))
  <2>1. Keeper(Script[j]) = x[1]
    BY <1>3, SlotHeld DEF Keeper
  <2>2. x[1] # None
    BY <1>0, LateCall DEF Inv, FilesInv, ValuesInv, NoAddresses
  <2>3. Right(Script[j], Held(slots, x[1], x[2]))
    BY <1>0, <1>2, <1>4, <2>1, <2>2 DEF Settled, IsSet
  <2>4. Held(slots, x[1], x[2]) # None
    BY <1>3, <2>3 DEF Right
  <2> QED
    BY <2>4 DEF LateInv, Late
<1>7. /\ {RP, AR} \subseteq Core /\ Core \subseteq DOMAIN targets
  BY DEF CoreInv, Core
<1>8. \A n \in {RP, AR, SS} :
          /\ TargetOf(n) = targets[n] /\ targets[n] \in Of(n) /\ Rank(targets[n]) \in Nat
          /\ \A a \in Of(n) : Rank(a) >= Rank(targets[n]) => a = targets[n]
  <2> SUFFICES ASSUME NEW n \in DOMAIN targets
               PROVE  /\ TargetOf(n) = targets[n] /\ targets[n] \in Of(n)
                      /\ Rank(targets[n]) \in Nat
                      /\ \A a \in Of(n) : Rank(a) >= Rank(targets[n]) => a = targets[n]
    BY <1>1, <1>7
  <2>1. TargetOf(n) = targets[n] /\ targets[n] \in Of(n)
    BY <1>0 DEF TargetOf, Of, Inv, FilesInv, Within, NetInv, ChainInv
  <2>2. targets[n] = <<n, Rank(targets[n])>> /\ Rank(targets[n]) \in Nat
    BY <1>0, <2>1, OfRank
  <2>3. ASSUME NEW a \in Of(n), Rank(a) >= Rank(targets[n]) PROVE a = targets[n]
    <3>1. a = <<n, Rank(a)>> /\ Rank(a) \in Nat /\ Rank(a) <= Rank(targets[n])
      BY <1>0, OfRank
    <3>2. Rank(a) = Rank(targets[n])
      BY <2>2, <2>3, <3>1
    <3> QED
      BY <2>2, <3>1, <3>2
  <2> QED
    BY <2>1, <2>2, <2>3
<1>9. Held(slots, targets[RP], "target") = targets[AR]
  <2>1. PICK k \in Links : /\ Script[k].on = RP /\ Script[k].field = "target"
                           /\ Script[k].to = AR /\ Script[k].given \subseteq Core
    BY ScriptAssumption DEF ScriptInOrder, LinksInOrder
  <2>2. /\ Script[k].op = "set" /\ ~Script[k].keep /\ ~Script[k].via /\ Script[k].when = {}
        /\ Script[k].at = RP /\ k \in DOMAIN Script
    BY <2>1, WireFields DEF Links, Sets
  <2>3. LinkHolds(Script[k])
    BY <1>0, <2>2 DEF Wired
  <2>4. Slot(targets[RP], "target") = targets[AR]
    BY <1>7, <2>1, <2>2, <2>3 DEF LinkHolds
  <2> QED
    BY <2>4, SlotHeld
<1>10. Held(slots, targets[AR], SS) = targets[SS]
  BY <1>0, <1>5, <1>8, SlotHeld DEF Wired, ResolverHolds
<1>11. Beyond(RP, "target", p, r)
  <2>1. ASSUME NEW a \in Of(RP), Rank(a) >= p
        PROVE  Rank(Held(slots, a, "target")) >= r
    BY <1>8, <1>9, <2>1
  <2>2. ASSUME NEW k \in Pending, NEW y \in DOMAIN SetsOf(k), y[2] = "target",
               y[1] \in Of(RP), Rank(y[1]) >= p
        PROVE  Rank(SetsOf(k)[y]) >= r
    <3>1. y[1] = targets[RP] /\ NameOf(y[1]) = RP
      BY <1>8, <2>2 DEF Of
    <3>2. Leads(y, AR)
      BY <2>2, <3>1, ResolverLeads
    <3>3. Rank(Held(slots, y[1], y[2])) <= Rank(SetsOf(k)[y])
      BY <1>0, <3>2 DEF OwnInv, PendingAhead
    <3>4. Rank(SetsOf(k)[y]) \in Nat
      <4>1. SetsOf(k)[y] \in Of(AR)
        BY <1>0, <3>2 DEF OwnInv, ActionsFit, Fits, Pending, SetsOf
      <4> QED
        BY <1>0, <4>1, OfRank
    <3> QED
      BY <1>8, <1>9, <2>2, <3>1, <3>3, <3>4
  <2> QED
    BY <2>1, <2>2 DEF Beyond
<1>12. Beyond(AR, SS, r, Rank(t) + 1)
  <2>0. Rank(targets[SS]) >= Rank(t) + 1 /\ Rank(targets[SS]) \in Nat
    BY <1>1, <1>6, <1>8
  <2>1. ASSUME NEW a \in Of(AR), Rank(a) >= r
        PROVE  Rank(Held(slots, a, SS)) >= Rank(t) + 1
    BY <1>8, <1>10, <2>0, <2>1
  <2>2. ASSUME NEW k \in Pending, NEW y \in DOMAIN SetsOf(k), y[2] = SS,
               y[1] \in Of(AR), Rank(y[1]) >= r
        PROVE  Rank(SetsOf(k)[y]) >= Rank(t) + 1
    <3>1. y[1] = targets[AR] /\ NameOf(y[1]) = AR
      BY <1>8, <2>2 DEF Of
    <3>2. Leads(y, SS)
      BY <1>5, <2>2, <3>1, ResolverLeads
    <3>3. Rank(Held(slots, y[1], y[2])) <= Rank(SetsOf(k)[y])
      BY <1>0, <3>2 DEF OwnInv, PendingAhead
    <3>4. Rank(SetsOf(k)[y]) \in Nat
      <4>1. SetsOf(k)[y] \in Of(SS)
        BY <1>0, <3>2 DEF OwnInv, ActionsFit, Fits, Pending, SetsOf
      <4> QED
        BY <1>0, <4>1, OfRank
    <3>5. Rank(targets[SS]) <= Rank(SetsOf(k)[y])
      BY <1>10, <2>2, <3>1, <3>3
    <3> QED
      BY <1>1, <2>0, <3>4, <3>5
  <2> QED
    BY <2>1, <2>2 DEF Beyond
<1>13. p \in Nat /\ r \in Nat /\ p <= Rank(TargetOf(RP)) /\ r <= Rank(TargetOf(AR))
  BY <1>8
<1> QED
  BY <1>1, <1>6, <1>7, <1>11, <1>12, <1>13 DEF Retired

\* So it stays late when it is chosen.
LEMMA LateTune ==
    ASSUME SettingInv, NewInv, SettingsStaged, CoreInv, LateInv, Inv', NetInv',
           TuneSetting
    PROVE  LateInv'
<1>0. /\ Inv /\ NetInv /\ WireInv /\ OwnInv /\ [Next]_vars
      /\ Idle /\ outcome = "clean" /\ TargetOf("SystemSettings") = MaySet
      /\ UNCHANGED <<actions, targets>>
  BY DEF SettingInv, WiringInv, TuneSetting, Next, fileVars
<1>1. PICK f \in Settings : slots' = Put(slots, <<Slot(MaySet, "FlexibleStorage"), f>>, Tuned)
  BY DEF TuneSetting
<1>2. ASSUME NEW i \in Pending, NEW x \in DOMAIN SetsOf(i), NEW t, x[2] \in Settings,
             t = actions[i].write.target
      PROVE  Late(t, x)'
  <2> DEFINE g == Single(<<Slot(MaySet, "FlexibleStorage"), f>>, Tuned)
  <2>1. slots' = Over(slots, g)
    BY <1>1 DEF Put
  <2>2. CASE <<x[1], x[2]>> \in DOMAIN g
    <3>1. x[1] = Slot(MaySet, "FlexibleStorage")
      BY <2>2 DEF Single
    <3>2. Rank(t) < Rank(TargetOf("SystemSettings")) /\ Retired(t)
      BY <1>0, <1>2, <3>1, TuneRetires
    <3>3. Rank(t) \in Nat
      BY <1>0, <1>2, LateCall
    <3>4. Retired(t)'
      BY <1>0, <3>2, <3>3, RetiredNext
    <3>5. Rank(t) < Rank(TargetOf("SystemSettings")')
      BY <1>0, <3>2 DEF TargetOf
    <3> QED
      BY <3>4, <3>5 DEF Late, Rank
  <2>3. CASE <<x[1], x[2]>> \notin DOMAIN g
    <3>1. Held(Over(slots, g), x[1], x[2]) = Held(slots, x[1], x[2])
      BY <2>3, HeldOver
    <3> QED
      BY <1>0, <1>2, <2>1, <3>1, LateKept
  <2> QED
    BY <2>2, <2>3
<1>3. UNCHANGED Pending /\ \A i : SetsOf(i)' = SetsOf(i)
  BY <1>0 DEF Pending, SetsOf
<1> QED
  BY <1>0, <1>2, <1>3 DEF LateInv

\* What a run keeps, and what waits for the owner, so that choices stay.
TunedInv == /\ SettingInv /\ NewInv /\ TunedOnly /\ SettingsStaged /\ CoreInv /\ LateInv

\* At first there is nothing to keep.
LEMMA TunedInit == Init => TunedInv
<1> SUFFICES ASSUME Init PROVE TunedInv
  OBVIOUS
<1>1. DOMAIN slots = {} /\ DOMAIN actions = {} /\ DOMAIN old = {} /\ stage = "step"
      /\ outcome = "none"
  BY DEF Init
<1>2. NewInv /\ TunedOnly /\ SettingsStaged /\ CoreInv /\ LateInv
  BY <1>1 DEF NewInv, TunedOnly, SettingsStaged, CoreInv, LateInv, Pending
<1> QED
  BY <1>2, SettingInit DEF TunedInv

\* Each step keeps it.
LEMMA TunedInvNext == TunedInv /\ [Next]_vars => TunedInv'
<1> SUFFICES ASSUME TunedInv, [Next]_vars PROVE TunedInv'
  OBVIOUS
<1>1. SettingInv' /\ SettingInv
  BY SettingNext DEF TunedInv
<1>2. /\ Inv /\ NetInv /\ WireInv /\ OwnInv /\ NamesLead
      /\ Inv' /\ NetInv'
  BY <1>1 DEF SettingInv, WiringInv
<1>3. NewInv' /\ TunedOnly' /\ SettingsStaged' /\ CoreInv'
  BY <1>2, NewNext, TunedNext, SettingsNext, CoreNext DEF TunedInv
<1>4. LateInv'
  BY <1>1, <1>2, LateOthers, LateSend, LateSet, LateOwner, LateTune
     DEF TunedInv, WritesSettings
<1> QED
  BY <1>1, <1>3, <1>4 DEF TunedInv

\* A step leaves what governance has chosen.
LEMMA TunedStep ==
    ASSUME TunedInv, [Next]_vars, NEW x \in DOMAIN slots, slots[x] = Tuned
    PROVE  slots'[x] = Tuned
<1>0. /\ Inv /\ NetInv /\ WireInv /\ OwnInv /\ NamesLead /\ TunedOnly /\ SettingsStaged /\ LateInv
      /\ Inv' /\ NetInv'
  BY TunedInvNext DEF TunedInv, SettingInv, WiringInv
<1>1. x[2] \in Settings /\ x[1] \in Values
  BY <1>0 DEF TunedOnly
<1>2. CASE ~WritesSettings
  <2>1. PICK g : /\ slots' = slots \/ slots' = Over(slots, g)
                 /\ \A y \in DOMAIN g : y[2] \notin Settings
    BY <1>0, <1>2, OtherSlots
  <2> QED
    BY <1>1, <2>1 DEF Over
<1>3. CASE SetStep
  <2>1. slots' = slots \/ slots' = Over(slots, SetWrite(Step).sets)
    BY <1>3 DEF SetStep, Invoke
  <2>2. ASSUME x \in DOMAIN SetWrite(Step).sets PROVE FALSE
    <3>1. x = <<Holder(Step), Step.field>>
      BY <2>2 DEF SetWrite, Write, Single
    <3>2. Step.keep /\ ~Expected(Step)
      BY <1>0, <1>1, <1>3, <3>1, SetCalls
    <3>3. Slot(Holder(Step), Step.field) = Tuned
      BY <3>1 DEF Slot
    <3> QED
      BY <3>2, <3>3 DEF Expected, Tuned, None
  <2> QED
    BY <2>1, <2>2 DEF Over
<1>4. CASE OwnerActs
  <2>1. PICK i \in Pending : ~Reverts(actions[i].write) /\ slots' = Over(slots, SetsOf(i))
    BY <1>0, <1>4, OwnerSends
  <2>2. ASSUME x \in DOMAIN SetsOf(i) PROVE FALSE
    <3> DEFINE t == actions[i].write.target
    <3>1. t \in Of("SystemSettings") /\ x = <<x[1], x[2]>> /\ NameOf(x[1]) = "FlexibleStorage"
      BY <1>0, <1>1, <2>2, LateCall
    <3>2. t = MaySet
      BY <2>1, <2>2, <3>1 DEF Reverts, SetsOf
    <3>3. Held(slots, x[1], x[2]) = Tuned
      BY <3>1 DEF Held
    <3>4. Retired(t)
      BY <1>0, <1>1, <2>2, <3>3 DEF LateInv, Late
    <3> QED
      BY <1>0, <3>1, <3>2, <3>4, RetiredReverts
  <2> QED
    BY <2>1, <2>2 DEF Over
<1>5. CASE SendDeployment
  <2>1. PICK g : slots' = Over(slots, g) /\ \A y \in DOMAIN g : y[1] = sent'
    BY <1>0, <1>5, SendStraight
  <2>2. sent' \in chain' /\ sent' \notin chain
    BY <1>5 DEF SendDeployment
  <2>3. x[1] # sent'
    BY <1>0, <1>1, <2>2 DEF Values, Inv, FilesInv, ValuesInv
  <2> QED
    BY <2>1, <2>3 DEF Over
<1>6. CASE TuneSetting
  BY <1>6 DEF TuneSetting, Put, Over, Single
<1> QED
  BY <1>2, <1>3, <1>4, <1>5, <1>6 DEF WritesSettings

\* What governance has set stays, whatever is deployed, resumed or sent by the
\* owner afterwards: neither a later release nor a call that has waited since an
\* earlier one sets it back to the value of the script.
THEOREM TunedSettingsAlwaysKept == Spec => TunedSettingsKept
<1>1. TunedInv /\ [Next]_vars =>
          [\A x \in DOMAIN slots : slots[x] = Tuned => slots'[x] = Tuned]_slots
  BY TunedStep
<1> QED
  BY <1>1, TunedInit, TunedInvNext, PTL DEF Spec, TunedSettingsKept

=============================================================================
