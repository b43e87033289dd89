----------------------------- MODULE Deployment -----------------------------
(***************************************************************************)
(* The deployment of a release: Deployer, performTransactionalStep and the *)
(* files they keep, walking a script of steps (DeployScript is that of     *)
(* deploy.js).                                                             *)
(*                                                                         *)
(* A run deploys the contracts that config.json flags, reuses the others,  *)
(* wires them to each other, and leaves to the owner, in                   *)
(* owner-actions.json, what it may not call itself.  It may die at any     *)
(* transaction and is then run again: what it has done by then is in       *)
(* deployment.json, in config.json and on the chain, and nowhere else.     *)
(*                                                                         *)
(* An address is the name of a contract and the number of its instance;    *)
(* what a contract stores are slots: <<address, field>> -> value.          *)
(*                                                                         *)
(* Left out: dry runs, the local network (which loads existing contracts   *)
(* from deployment.json and never clears a flag), the Optimism variant,    *)
(* what prompts are for (they are answered yes, as with --yes), gas and    *)
(* prices, reports, and contracts of the old resolver interfaces, which    *)
(* are no longer in the source.                                            *)
(***************************************************************************)
EXTENDS DeployScript, FiniteSets

CONSTANTS
    Projects,           \* names in config.json at first, each with bounds:
                        \*   runs that die half-way, settings that are tuned
    NonUpgradeable,     \* names that non-upgradeable.json matches
    Required,           \* [name -> names its resolver cache needs]
    Settings,           \* fields of FlexibleStorage that governance may tune
    Releases,           \* sets of names that a release flags
    MaxInstances,       \* bound: deployments of one contract
    MaxReleases,        \* bound: releases after the first deployment
    CrashAt             \* bound: contracts at whose steps a run may die

None  == <<"none", 0>>      \* what an unwritten slot holds: zero
Fixed == <<"fixed", 0>>     \* a value of the parameters of the deployment
Tuned == <<"tuned", 0>>     \* a value that governance has chosen
Some  == <<"some", 0>>      \* a supply, or a history, that is not empty

Script == DeploySteps

-----------------------------------------------------------------------------
(* What is used of a script: contracts come before what needs them, and    *)
(* what is wired has a slot of its own.                                    *)

Deploys == {i \in DOMAIN Script : Script[i].op = "deploy"}
Sets    == {i \in DOMAIN Script : Script[i].op = "set"}
Names   == {Script[i].name : i \in Deploys}
Keys    == DOMAIN Pynths

\* Contracts that only some runs deploy, and those that every run has.
Optional == {Script[i].name : i \in {j \in Deploys : Script[j].when # {}}}
Core     == {"AddressResolver", "ReadProxyAddressResolver", "Issuer"}

\* The steps that wire a contract to another one, whatever it was wired to.
Links == {i \in Sets : LET s == Script[i]
                       IN  ~s.keep /\ ~s.via /\ s.when = {} /\ s.to \in Names}
LinkFields == {Script[i].field : i \in Links}

Once(op) == \E i \in DOMAIN Script :
                \A j \in DOMAIN Script : Script[j].op = op <=> j = i

Precede(first, second) ==
    \A i, j \in DOMAIN Script :
        (Script[i].op \in first /\ Script[j].op \in second) => i < j

\* Contract n is deployed before step i.
Before(n, i) == n \in Names /\ \A j \in Deploys : Script[j].name = n => j < i

\* Contract n needs no other.
FirstOf(n) == n \in Names /\ \A j \in Deploys :
                  Script[j].name = n => Script[j].given = {} /\ Script[j].when = {}

\* What a contract needs to be deployed.
NeedsOf(n) == UNION {Script[j].given \cup Script[j].deps :
                         j \in {i \in Deploys : Script[i].name = n}}

StepsInOrder ==
    /\ Len(Script) \in Nat /\ DOMAIN Script = 1..Len(Script)
    /\ \A op \in {"import", "rebuild", "sort", "add"} : Once(op)
    /\ Precede({"deploy"}, {"import", "sort"}) /\ Precede({"import"}, {"rebuild"})
    /\ Precede({"queue"}, {"sort"})
    /\ Precede({"sort"}, {"remove", "add"}) /\ Precede({"remove"}, {"add"})

ContractsInOrder ==
    /\ \A i, j \in Deploys : Script[i].name = Script[j].name => i = j
    /\ \A i \in Deploys : \A n \in Script[i].given : FirstOf(n) /\ Before(n, i)
    /\ \A n \in Core : FirstOf(n)
    /\ "fixed" \notin Names
    /\ DOMAIN Required \subseteq Names \ (Optional \cup {"AddressResolver"})
    /\ \A n \in DOMAIN Required : Required[n] \subseteq Names \ Optional

LinksInOrder ==
    /\ \A i \in Links : LET s == Script[i] IN
           /\ \A n \in s.given \cup {s.to} : n \notin Optional /\ Before(n, i)
           /\ s.on \in s.given
           /\ s.to \in s.given \cup UNION {NeedsOf(n) : n \in s.given}
    /\ \E i \in Links : LET s == Script[i] IN
           /\ s.on = "ReadProxyAddressResolver" /\ s.field = "target"
           /\ s.to = "AddressResolver" /\ s.given \subseteq Core
           /\ \A j \in DOMAIN Script : Script[j].op = "rebuild" => i < j

PynthsInOrder ==
    /\ \A i \in DOMAIN Script :
           Script[i].op \in {"recall", "queue", "remove"} => Script[i].key \in Keys
    /\ \A key \in Keys :
           /\ FirstOf(Pynths[key])
           /\ \A j \in Deploys : Script[j].name = Pynths[key] =>
                  /\ Script[j].force
                  /\ \A i \in DOMAIN Script :
                         Script[i].op = "recall" /\ Script[i].key = key => i < j
           /\ \E i \in DOMAIN Script :
                  /\ Script[i].op = "queue" /\ Script[i].key = key
                  /\ Before(Pynths[key], i) /\ Before("Issuer", i)
           /\ \E i \in DOMAIN Script : Script[i].op = "remove" /\ Script[i].key = key

Plainly == {"supply", "periods"} \cup Settings

FieldsApart ==
    /\ LinkFields \cap Names = {} /\ LinkFields \cap Keys = {} /\ Names \cap Keys = {}
    /\ Plainly \cap (LinkFields \cup Names \cup Keys) = {}
    /\ \A i \in Sets : LET s == Script[i] IN
           /\ s.field \notin Names \cup Keys
           /\ IF s.via THEN s.field \notin LinkFields ELSE s.at = s.on
    /\ \A i \in Links, j \in Sets :
           LET s == Script[i]
               t == Script[j]
           IN  (s.field = t.field /\ s.at = t.at) => i = j
    /\ \A i \in Deploys : LET s == Script[i] IN
           /\ DOMAIN s.ctor \cap (Names \cup Keys) = {}
           /\ \A j \in Links :
                  (Script[j].at = s.name /\ Script[j].field \in DOMAIN s.ctor)
                      => s.ctor[Script[j].field] = Script[j].to

\* A slot is set to one thing by all its steps, and what is kept is never nothing.
\* What governance may tune is kept, stored through SystemSettings.
SettingsInOrder ==
    /\ \A i \in Sets : LET s == Script[i] IN
           /\ s.field \notin {"supply", "periods"}
           /\ s.field \in Settings =>
                  /\ s.keep /\ s.via /\ s.when = {} /\ s.to = "fixed"
                  /\ s.on = "SystemSettings" /\ s.at = "FlexibleStorage"
           /\ s.keep => s.to \in s.given \cup {"fixed"}
           /\ s.when = {} => /\ i \in Links \/ s.keep \/ s.to \notin Names
                             /\ \A n \in s.given \cup {s.on} : n \notin Optional /\ Before(n, i)
           /\ s.via => /\ s.on \in DOMAIN Required /\ s.at \in Required[s.on]
                       /\ \A j \in DOMAIN Script : Script[j].op = "rebuild" => j < i
    /\ \A i, j \in Sets :
           (Script[i].field = Script[j].field /\ Script[i].at = Script[j].at)
               => Script[i].to = Script[j].to /\ Script[i].keep = Script[j].keep
    /\ "supply" \notin Settings /\ "periods" \notin Settings
    /\ \A i, j \in Sets :
           (Script[i].field = Script[j].field /\ Script[i].field \in Settings) => i = j
    /\ \A i \in Deploys : Script[i].force => Script[i].given = {} /\ Script[i].when = {}

ScriptInOrder == /\ StepsInOrder /\ ContractsInOrder /\ LinksInOrder
                 /\ PynthsInOrder /\ FieldsApart /\ SettingsInOrder

ASSUME ScriptAssumption == ScriptInOrder
ASSUME NetworkAssumption == MaxInstances \in Nat /\ \A p \in Projects : Core \subseteq p.listed

-----------------------------------------------------------------------------

VARIABLES
    chain,          \* addresses that hold a contract
    slots,          \* what the contracts store
    handedOver,     \* addresses whose owner is no longer the deployer
    config,         \* config.json: [name -> flagged for deployment]
    targets,        \* deployment.json: [name -> address]
    versions,       \* versions.json: [name -> address of its last entry]
    actions,        \* owner-actions.json
    pc, stage,      \* the run: its step, and how far its deployment is
    sent,           \* the contract that the step has deployed
    flags,          \* deployer.config: config.json when the run began
    deployed,       \* deployer.deployedContracts
    old,            \* [currency -> old pynth and its supply]
    adding,         \* pynths to add to the issuer, or to replace in it
    replacing,
    clean,          \* this run has left nothing to the owner
    outcome,        \* of the last run
    recorded,       \* history: the addresses deployment.json ever held
    releases,
    crashes, tunes  \* runs that may still die, settings that may still be tuned

chainVars == <<chain, slots, handedOver>>
fileVars  == <<config, targets, versions, actions>>
runVars   == <<pc, stage, sent, flags, deployed, old, adding, replacing, clean>>
boundVars == <<releases, crashes, tunes>>
vars == <<chainVars, fileVars, runVars, outcome, recorded, boundVars>>

Idle == pc = 0
Step == Script[pc]
At(op) == pc \in DOMAIN Script /\ stage = "step" /\ Step.op = op

\* g where it is defined and f elsewhere, and f with v at k.
Over(f, g)   == [x \in DOMAIN f \cup DOMAIN g |-> IF x \in DOMAIN g THEN g[x] ELSE f[x]]
Single(k, v) == [x \in {k} |-> v]
Put(f, k, v) == Over(f, Single(k, v))

NameOf(a)    == a[1]
Slot(a, f)   == IF <<a, f>> \in DOMAIN slots THEN slots[<<a, f>>] ELSE None
AddressOf(n) == IF n \in DOMAIN deployed THEN deployed[n] ELSE None
TargetOf(n)  == IF n \in DOMAIN targets THEN targets[n] ELSE None
Previous(n)  == IF n \in DOMAIN versions THEN versions[n] ELSE None
Flagged(n)   == n \in DOMAIN flags /\ flags[n]

-----------------------------------------------------------------------------
(* A run begins, ends, and dies.                                           *)

Advance == /\ pc' = pc + 1
           /\ stage' = "step"

\* The memory of a process is gone when it ends.
EndWith(how) == /\ pc' = 0
                /\ stage' = "step"
                /\ sent' = None
                /\ flags' = <<>>
                /\ deployed' = <<>>
                /\ old' = <<>>
                /\ adding' = {}
                /\ replacing' = {}
                /\ clean' = TRUE
                /\ outcome' = how
                /\ UNCHANGED <<recorded, releases, tunes>>

\* Not to be deployed, and without an address.
MissingDeployments == {n \in DOMAIN config : ~config[n] /\ n \notin DOMAIN targets}

\* What is marked non-upgradeable is never deployed again.  A first deployment
\* that has died is neither fresh nor passes this: it is resumed with
\* --ignore-safety-checks.
SafelyFlagged == \/ releases = 0
                 \/ \A n \in NonUpgradeable \cap DOMAIN config : ~config[n]

\* A new deployer has the flags of config.json, and no contracts yet.
NewDeployer == flags' = config /\ deployed' = <<>>

StartRun ==
    /\ Idle
    /\ SafelyFlagged /\ MissingDeployments = {}
    /\ pc' = 1 /\ stage' = "step"
    /\ NewDeployer
    /\ UNCHANGED <<chainVars, fileVars, sent, old, adding,
                   replacing, clean, outcome, recorded, boundVars>>

\* The process is killed, a transaction fails, or its receipt never comes.
Crash == /\ pc \in DOMAIN Script
         /\ Step.op = "deploy" => Step.name \in CrashAt
         /\ Step.op = "set" => Step.on \in CrashAt
         /\ crashes > 0
         /\ crashes' = crashes - 1
         /\ EndWith("died")
         /\ UNCHANGED <<chainVars, fileVars>>

Finish == /\ pc = Len(Script) + 1
          /\ EndWith(IF clean THEN "clean" ELSE "staged")
          /\ UNCHANGED <<chainVars, fileVars, crashes>>

-----------------------------------------------------------------------------
(* Deployer.deployContract.                                                *)

\* Steps of a contract may depend on others, and on a flag.
Relevant(s) == /\ s.given \subseteq DOMAIN deployed
               /\ s.when = {} \/ \E n \in s.when : Flagged(n)

\* Broken variant: a contract that may be forced is deployed by each run.
DeployForced(s) == IF s.force THEN TRUE ELSE flags[s.name]

\* A contract that config.json does not list is deployed only by force, as the
\* contracts of a new pynth are with --add-new-pynths.
ToDeploy(s) == IF s.name \in DOMAIN flags THEN flags[s.name] ELSE s.force

Known(s)   == s.name \in DOMAIN flags \/ s.force
DepsMet(s) == s.deps \subseteq DOMAIN deployed \cup DOMAIN targets

\* What the supply of a pynth was before, if its contract is deployed again.
Original(key) == IF key \in DOMAIN old THEN old[key].supply ELSE None

\* A step names a contract, whose address it stands for, or a plain value.
ValueOf(ref) == IF ref = "fixed" THEN Fixed ELSE AddressOf(ref)

\* The constructor stores its arguments, each the address of a contract.
Constructed(a, s) ==
    Put([x \in {<<a, f>> : f \in DOMAIN s.ctor} |-> AddressOf(s.ctor[x[2]])],
        <<a, "supply">>, Original(s.key))

\* Settings are stored where the cache of their contract says.
Holder(s) == IF s.via THEN Slot(AddressOf(s.on), s.at) ELSE AddressOf(s.at)

\* Broken variant: a value that is set already is compared, too.
ExpectedAlways(s) == Slot(Holder(s), s.field) = ValueOf(s.to)

Expected(s) == LET now == Slot(Holder(s), s.field)
               IN  IF s.keep THEN now # None ELSE now = ValueOf(s.to)

\* Steps that do nothing: contracts that are not listed, and slots that are as
\* they should be or cannot be read.
Passed(s) ==
    \/ s.op \in {"deploy", "set"} /\ ~Relevant(s)
    \/ s.op = "deploy" /\ ~Known(s)
    \/ s.op = "set" /\ s.on \in DOMAIN deployed /\ (Holder(s) = None \/ Expected(s))

PassOver ==
    /\ pc \in DOMAIN Script /\ stage = "step"
    /\ \E n \in (pc + 1)..(Len(Script) + 1) :
           /\ \A i \in pc..(n - 1) : Passed(Script[i])
           /\ n \in DOMAIN Script => ~Passed(Script[n])
           /\ pc' = n
    /\ UNCHANGED <<chainVars, fileVars, stage, sent, flags, deployed, old, adding,
                   replacing, clean, outcome, recorded, boundVars>>

\* Broken variant: the flag is cleared as soon as the transaction is through.
SendAndClearFlag ==
    /\ At("deploy")
    /\ ~Passed(Step) /\ ToDeploy(Step) /\ DepsMet(Step)
    /\ \E k \in 1..MaxInstances :
           /\ <<Step.name, k>> \notin chain
           /\ chain' = chain \cup {<<Step.name, k>>}
           /\ slots' = Over(slots, Constructed(<<Step.name, k>>, Step))
           /\ sent' = <<Step.name, k>>
    /\ config' = Put(config, Step.name, FALSE)
    /\ stage' = "sent"
    /\ UNCHANGED <<handedOver, targets, versions, actions, pc, flags, deployed, old,
                   adding, replacing, clean, outcome, recorded, boundVars>>

\* The transaction of a deployment, then deployment.json, then config.json.
SendDeployment ==
    /\ At("deploy")
    /\ ~Passed(Step) /\ ToDeploy(Step) /\ DepsMet(Step)
    /\ \A f \in DOMAIN Step.ctor : Step.ctor[f] \in DOMAIN deployed
    /\ \E k \in 1..MaxInstances :
           LET a == <<Step.name, k>> IN
           /\ a \notin chain
           /\ \A j \in 1..(k - 1) : <<Step.name, j>> \in chain
           /\ chain' = chain \cup {a}
           /\ slots' = Over(slots, Constructed(a, Step))
           /\ sent' = a
    /\ stage' = "sent"
    /\ UNCHANGED <<handedOver, fileVars, pc, flags, deployed, old, adding,
                   replacing, clean, outcome, recorded, boundVars>>

\* Broken variant: deployment.json is left to be written later.
RememberDeployment ==
    /\ stage = "sent"
    /\ deployed' = Put(deployed, Step.name, sent)
    /\ stage' = "recorded"
    /\ UNCHANGED <<chainVars, fileVars, pc, sent, flags, old, adding, replacing,
                   clean, outcome, recorded, boundVars>>

RecordDeployment ==
    /\ stage = "sent"
    /\ deployed' = Put(deployed, Step.name, sent)
    /\ targets' = Put(targets, Step.name, sent)
    /\ recorded' = recorded \cup {sent}
    /\ stage' = "recorded"
    /\ UNCHANGED <<chainVars, config, versions, actions, pc, sent, flags, old,
                   adding, replacing, clean, outcome, boundVars>>

RecordConfig ==
    /\ stage = "recorded"
    /\ config' = Put(config, Step.name, FALSE)
    /\ sent' = None
    /\ Advance
    /\ UNCHANGED <<chainVars, targets, versions, actions, flags, deployed, old,
                   adding, replacing, clean, outcome, recorded, boundVars>>

ReuseContract ==
    /\ At("deploy")
    /\ ~Passed(Step) /\ ~ToDeploy(Step) /\ DepsMet(Step)
    /\ Step.name \in DOMAIN targets
    /\ deployed' = Put(deployed, Step.name, targets[Step.name])
    /\ Advance
    /\ UNCHANGED <<chainVars, fileVars, sent, flags, old, adding, replacing,
                   clean, outcome, recorded, boundVars>>

-----------------------------------------------------------------------------
(* performTransactionalStep.                                               *)

\* What a write does when it is mined, and when it reverts.
Write(label, method, target, sets) ==
    [label |-> label, method |-> method, target |-> target, sets |-> sets]

\* FlexibleStorage takes settings from the contract that its resolver names.
MaySet == Slot(Slot(TargetOf("ReadProxyAddressResolver"), "target"), "SystemSettings")

Reverts(w) ==
    \/ /\ \E x \in DOMAIN w.sets : NameOf(x[1]) = "FlexibleStorage"
       /\ w.target # MaySet
    \/ /\ w.method = "addPynths"
       /\ \E x \in DOMAIN w.sets : Slot(x[1], x[2]) # None
    \/ /\ w.method = "removePynth"
       /\ \E x \in DOMAIN w.sets :
              \/ Slot(x[1], x[2]) = None
              \/ Slot(Slot(x[1], x[2]), "supply") # None

\* An owner action is kept under the name of its call and its arguments, without
\* the address it is for: the same call again takes the place of the earlier one.
Key(w) == <<w.label, w.method, {<<x[2], w.sets[x]>> : x \in DOMAIN w.sets}>>

Staged(w) ==
    LET entry == [write |-> w, complete |-> FALSE]
        same(e) == Key(e.write) = Key(w)
    IN  IF \E i \in DOMAIN actions : same(actions[i])
        THEN [i \in DOMAIN actions |-> IF same(actions[i]) THEN entry ELSE actions[i]]
        ELSE Append(actions, entry)

\* The deployer calls what it owns, and leaves the rest to the owner.
Invoke(w) == IF w.target \in handedOver
             THEN /\ actions' = Staged(w)
                  /\ clean' = FALSE
                  /\ UNCHANGED slots
             ELSE /\ ~Reverts(w)
                  /\ slots' = Over(slots, w.sets)
                  /\ UNCHANGED <<actions, clean>>

NothingToDo == UNCHANGED <<slots, actions, clean>>

SetWrite(s) == Write(s.label, s.field, deployed[s.on],
                     Single(<<Holder(s), s.field>>, ValueOf(s.to)))

SetStep ==
    /\ At("set")
    /\ Step.on \in DOMAIN deployed
    /\ ~Passed(Step)
    /\ Invoke(SetWrite(Step))
    /\ Advance
    /\ UNCHANGED <<chain, handedOver, config, targets, versions, sent, flags,
                   deployed, old, adding, replacing, outcome, recorded, boundVars>>

\* Broken variant: the old pool is the one of deployment.json.
ImportFromTargets ==
    /\ At("periods")
    /\ IF Flagged("FeePool")
       THEN Invoke(Write("FeePool", "periods", deployed["FeePool"],
                         Single(<<deployed["FeePool"], "periods">>, targets["FeePool"])))
       ELSE NothingToDo
    /\ Advance
    /\ UNCHANGED <<chain, handedOver, config, targets, versions, sent, flags,
                   deployed, old, adding, replacing, outcome, recorded, boundVars>>

PeriodsWrite == Write("FeePool", "periods", deployed["FeePool"],
                      Single(<<deployed["FeePool"], "periods">>, Previous("FeePool")))

\* A new fee pool takes the periods of the one that versions.json names.
ImportFeePeriods ==
    /\ At("periods")
    /\ IF Flagged("FeePool") /\ Previous("FeePool") # None
       THEN Invoke(PeriodsWrite) ELSE NothingToDo
    /\ Advance
    /\ UNCHANGED <<chain, handedOver, config, targets, versions, sent, flags,
                   deployed, old, adding, replacing, outcome, recorded, boundVars>>

-----------------------------------------------------------------------------
(* The address resolver and the caches.                                    *)

Resolver == AddressOf("AddressResolver")
Unimported == {n \in DOMAIN deployed : Slot(Resolver, n) # deployed[n]}

ImportWrite ==
    Write("AddressResolver", "importAddresses", Resolver,
          [x \in {<<Resolver, n>> : n \in Unimported} |-> deployed[x[2]]])

\* Broken variant: what the run may not import is not left to the owner.
ImportOrStop ==
    /\ At("import")
    /\ UNCHANGED <<chain, handedOver, fileVars, crashes>>
    /\ IF Resolver \in handedOver /\ Unimported # {}
       THEN EndWith("partial") /\ UNCHANGED slots
       ELSE /\ slots' = IF Unimported = {} THEN slots ELSE Over(slots, ImportWrite.sets)
            /\ Advance
            /\ UNCHANGED <<sent, flags, deployed, old, adding, replacing,
                           clean, outcome, recorded, releases, tunes>>

\* A run ends here when it may not import what it has deployed.
ImportAddresses ==
    /\ At("import")
    /\ UNCHANGED <<chain, handedOver, config, targets, versions, crashes>>
    /\ IF Resolver \in handedOver /\ Unimported # {}
       THEN /\ actions' = Staged(ImportWrite)
            /\ EndWith("partial")
            /\ UNCHANGED slots
       ELSE /\ slots' = IF Unimported = {} THEN slots ELSE Over(slots, ImportWrite.sets)
            /\ Advance
            /\ UNCHANGED <<actions, sent, flags, deployed, old, adding, replacing,
                           clean, outcome, recorded, releases, tunes>>

\* Contracts resolve names through the proxy, which may have another target.
Resolved(n) == Slot(Slot(AddressOf("ReadProxyAddressResolver"), "target"), n)

Cached(n) == \A r \in Required[n] : /\ Resolved(r) # None
                                    /\ Slot(deployed[n], r) = Resolved(r)

\* Broken variant: only of contracts that this run has deployed.
ToRebuildNew == {n \in DOMAIN Required \cap DOMAIN deployed :
                    /\ Flagged(n)
                    /\ ~Cached(n)
                    /\ \A r \in Required[n] : Slot(Resolver, r) # None}

ToRebuild == {n \in DOMAIN Required \cap DOMAIN deployed :
                 /\ ~Cached(n)
                 /\ \A r \in Required[n] : Slot(Resolver, r) # None}

Resolvable == \A n \in ToRebuild : \A r \in Required[n] : Resolved(r) # None

RebuildCaches ==
    /\ At("rebuild")
    /\ Resolvable
    /\ slots' = Over(slots, [x \in UNION {{<<deployed[n], r>> : r \in Required[n]} :
                                          n \in ToRebuild} |-> Resolved(x[2])])
    /\ Advance
    /\ UNCHANGED <<chain, handedOver, fileVars, sent, flags, deployed, old, adding,
                   replacing, clean, outcome, recorded, boundVars>>

-----------------------------------------------------------------------------
(* Pynths: the old contract is read when its replacement is deployed, and  *)
(* the issuer changed at the end.                                          *)

PynthOf(key) == AddressOf(Pynths[key])
Issuer == AddressOf("Issuer")

RecallPynth ==
    /\ At("recall")
    /\ old' = IF Flagged(Pynths[Step.key])
              THEN LET p == Previous(Pynths[Step.key])
                   IN  Put(old, Step.key, [pynth |-> p, supply |-> Slot(p, "supply")])
              ELSE old
    /\ Advance
    /\ UNCHANGED <<chainVars, fileVars, sent, flags, deployed, adding, replacing,
                   clean, outcome, recorded, boundVars>>

QueuePynth ==
    /\ At("queue")
    /\ adding' = IF {Pynths[Step.key], "Issuer"} \subseteq DOMAIN deployed
                 THEN adding \cup {Step.key} ELSE adding
    /\ Advance
    /\ UNCHANGED <<chainVars, fileVars, sent, flags, deployed, old, replacing,
                   clean, outcome, recorded, boundVars>>

\* Pynths that the issuer lists at their address need nothing; those whose old
\* contract had a supply replace it; the others are added.
SortPynths ==
    /\ At("sort")
    /\ LET unlisted == {key \in adding : Slot(Issuer, key) # PynthOf(key)}
       IN  /\ adding' = {key \in unlisted : Original(key) = None}
           /\ replacing' = {key \in unlisted : Original(key) # None}
    /\ Advance
    /\ UNCHANGED <<chainVars, fileVars, sent, flags, deployed, old, clean,
                   outcome, recorded, boundVars>>

RetireWrite == Write(Step.label, "setTotalSupply", old[Step.key].pynth,
                     Single(<<old[Step.key].pynth, "supply">>, None))

RetirePynth ==
    /\ At("retire")
    /\ IF Step.key \in replacing /\ Slot(old[Step.key].pynth, "supply") # None
       THEN Invoke(RetireWrite) ELSE NothingToDo
    /\ Advance
    /\ UNCHANGED <<chain, handedOver, config, targets, versions, sent, flags,
                   deployed, old, adding, replacing, outcome, recorded, boundVars>>

RemoveWrite == Write("Issuer", "removePynth", Issuer,
                     Single(<<Issuer, Step.key>>, None))

RemovePynth ==
    /\ At("remove")
    /\ adding' = adding \cup ({Step.key} \cap replacing)
    /\ IF Step.key \in replacing /\ Slot(Issuer, Step.key) # None
       THEN Invoke(RemoveWrite) ELSE NothingToDo
    /\ Advance
    /\ UNCHANGED <<chain, handedOver, config, targets, versions, sent, flags,
                   deployed, old, replacing, outcome, recorded, boundVars>>

AddWrite == Write("Issuer", "addPynths", Issuer,
                  [x \in {<<Issuer, key>> : key \in adding} |-> PynthOf(x[2])])

AllListed == \A key \in adding : Slot(Issuer, key) = PynthOf(key)

AddPynths ==
    /\ At("add")
    /\ IF AllListed THEN NothingToDo ELSE Invoke(AddWrite)
    /\ Advance
    /\ UNCHANGED <<chain, handedOver, config, targets, versions, sent, flags,
                   deployed, old, adding, replacing, outcome, recorded, boundVars>>

\* A call of the deployer that reverts, a step on a contract that is not there,
\* or a dependency that is missing ends the run.
Fails ==
    \/ /\ At("deploy")
       /\ ~Passed(Step)
       /\ \/ ~DepsMet(Step)
          \/ ToDeploy(Step) /\ \E f \in DOMAIN Step.ctor :
                                   Step.ctor[f] \notin DOMAIN deployed
    \/ At("set") /\ Relevant(Step) /\ Step.on \notin DOMAIN deployed
    \/ At("set") /\ Step.on \in DOMAIN deployed /\ ~Passed(Step)
                 /\ deployed[Step.on] \notin handedOver /\ Reverts(SetWrite(Step))
    \/ At("rebuild") /\ ~Resolvable
    \/ At("remove") /\ Step.key \in replacing /\ Slot(Issuer, Step.key) # None
                    /\ Issuer \notin handedOver /\ Reverts(RemoveWrite)
    \/ At("add") /\ ~AllListed /\ Issuer \notin handedOver /\ Reverts(AddWrite)

Fail == /\ Fails
        /\ EndWith("failed")
        /\ UNCHANGED <<chainVars, fileVars, crashes>>

-----------------------------------------------------------------------------
(* Between runs: the owner, governance, users, and the next release.       *)

Pending == {i \in DOMAIN actions : ~actions[i].complete}

\* owner.js sends what is staged in its order, and stops at what reverts.
OwnerActs ==
    /\ Idle
    /\ \E i \in Pending :
           /\ \A j \in Pending : i <= j
           /\ ~Reverts(actions[i].write)
           /\ slots' = Over(slots, actions[i].write.sets)
           /\ actions' = [actions EXCEPT ![i].complete = TRUE]
    /\ UNCHANGED <<chain, handedOver, config, targets, versions, runVars, outcome,
                   recorded, boundVars>>

\* nominate.js, and owner.js for the new owner: what deployment.json lists.
HandOver ==
    /\ Idle /\ outcome = "clean"
    /\ handedOver' = handedOver \cup {targets[n] : n \in DOMAIN targets}
    /\ handedOver' # handedOver
    /\ UNCHANGED <<chain, slots, fileVars, runVars, outcome, recorded, boundVars>>

TuneSetting ==
    /\ Idle /\ outcome = "clean"
    /\ tunes > 0
    /\ Slot(MaySet, "FlexibleStorage") # None
    /\ TargetOf("SystemSettings") \in handedOver
    /\ TargetOf("SystemSettings") = MaySet
    /\ \E f \in Settings :
           slots' = Put(slots, <<Slot(MaySet, "FlexibleStorage"), f>>, Tuned)
    /\ tunes' = tunes - 1
    /\ UNCHANGED <<chain, handedOver, fileVars, runVars, outcome, recorded,
                   releases, crashes>>

\* Users come to hold all pynths of the issuer, when the network is up.
IssuePynths ==
    /\ Idle /\ outcome = "clean"
    /\ LET listed == {Slot(TargetOf("Issuer"), key) : key \in DOMAIN Pynths} \ {None}
           unused == {p \in listed : Slot(p, "supply") = None}
       IN  /\ unused # {}
           /\ slots' = Over(slots, [x \in {<<p, "supply">> : p \in unused} |-> Some])
    /\ UNCHANGED <<chain, handedOver, fileVars, runVars, outcome, recorded,
                   boundVars>>

\* A deployment that is through is noted in versions.json.
UpdateVersions ==
    /\ Idle
    /\ outcome \in {"clean", "staged"}
    /\ versions' = Over(versions, targets)
    /\ versions' # versions
    /\ UNCHANGED <<chainVars, config, targets, actions, runVars, outcome, recorded,
                   boundVars>>

\* A release is prepared when the last one is deployed and in versions.json.
PrepareDeploy ==
    /\ Idle
    /\ releases < MaxReleases
    /\ outcome \in {"clean", "staged"}
    /\ versions = targets
    /\ \E r \in Releases : config' = Over(config, [n \in r |-> TRUE])
    /\ releases' = releases + 1
    /\ UNCHANGED <<chainVars, targets, versions, actions, runVars, outcome,
                   recorded, crashes, tunes>>

-----------------------------------------------------------------------------

Init == /\ chain = {}
        /\ slots = <<>>
        /\ handedOver = {}
        /\ \E p \in Projects : /\ config = [n \in p.listed |-> TRUE]
                               /\ crashes = p.crashes /\ tunes = p.tunes
        /\ targets = <<>> /\ versions = <<>> /\ actions = <<>>
        /\ pc = 0 /\ stage = "step" /\ sent = None
        /\ flags = <<>> /\ deployed = <<>> /\ old = <<>>
        /\ adding = {} /\ replacing = {}
        /\ clean = TRUE
        /\ outcome = "none"
        /\ recorded = {}
        /\ releases = 0

RunStep == \/ PassOver \/ SendDeployment \/ RecordDeployment \/ RecordConfig
           \/ ReuseContract \/ SetStep \/ ImportFeePeriods \/ ImportAddresses
           \/ RebuildCaches \/ RecallPynth \/ QueuePynth \/ SortPynths
           \/ RetirePynth \/ RemovePynth \/ AddPynths \/ Fail \/ Finish

Next == \/ StartRun \/ RunStep \/ Crash
        \/ OwnerActs \/ HandOver \/ TuneSetting \/ IssuePynths
        \/ UpdateVersions \/ PrepareDeploy

Spec == Init /\ [][Next]_vars

\* A run goes on, one that ended is repeated until it is clean, and between runs
\* the owner sends, sooner or later, what is staged.
Fairness == /\ WF_vars(RunStep)
            /\ WF_vars(outcome # "clean" /\ StartRun)
            /\ SF_vars(OwnerActs)

FairSpec == Spec /\ Fairness

-----------------------------------------------------------------------------
(* Properties.                                                             *)

\* Between runs nothing of a run is left, and a run has sent at most what its
\* step deploys.
TypeOK ==
    /\ handedOver \subseteq chain
    /\ pc \in 0..(Len(Script) + 1)
    /\ stage \in {"step", "sent", "recorded"}
    /\ IF stage = "step" THEN sent = None
       ELSE sent \in chain /\ Step.op = "deploy" /\ NameOf(sent) = Step.name
    /\ Idle => /\ stage = "step" /\ clean
               /\ flags = <<>> /\ deployed = <<>> /\ old = <<>>
               /\ adding = {} /\ replacing = {}
    /\ \A n \in DOMAIN config : config[n] \in BOOLEAN
    /\ \A n \in DOMAIN targets : NameOf(targets[n]) = n
    /\ \A i \in DOMAIN actions : actions[i].complete \in BOOLEAN
    /\ outcome \in {"none", "died", "failed", "partial", "staged", "clean"}

\* The files never promise what is not there: each address in deployment.json
\* holds a contract, and a contract that config.json no longer flags has one.
\* A run that dies after a transaction, or between the writes of the two files,
\* can be run again.
FilesKnowTheChain ==
    /\ \A n \in DOMAIN targets : targets[n] \in chain
    /\ \A n \in DOMAIN config : config[n] \/ n \in DOMAIN targets

\* Nothing is wired to a contract that no file knows: what a dead run deployed
\* and did not record stays without a trace in the other contracts, in the
\* resolver and in what waits for the owner.
WiredIsRecorded ==
    /\ \A x \in DOMAIN slots : slots[x] \in chain => slots[x] \in recorded
    /\ \A i \in DOMAIN actions : \A x \in DOMAIN actions[i].write.sets :
           actions[i].write.sets[x] \in chain => actions[i].write.sets[x] \in recorded

\* What deployment.json lists, wired as the script says.
LinkHolds(s) ==
    (s.op = "set" /\ ~s.keep /\ s.when = {} /\ ~s.via
     /\ s.given \cup {s.on, s.to, s.at} \subseteq DOMAIN targets)
        => Slot(targets[s.at], s.field) = targets[s.to]

\* What is optional is left out, the issuer of virtual pynths: only a run that
\* deploys the exchanger knows of it, so a new resolver may be without it.
ResolverHolds == \A n \in DOMAIN targets \ Optional :
                     Slot(TargetOf("AddressResolver"), n) = targets[n]

\* Of contracts whose requirements are there.
CachesHold == \A n \in DOMAIN Required \cap DOMAIN targets :
                  Required[n] \subseteq DOMAIN targets =>
                      \A r \in Required[n] : Slot(targets[n], r) = TargetOf(r)

ListedHold == \A key \in DOMAIN Pynths :
                  Slot(TargetOf("Issuer"), key) = TargetOf(Pynths[key])

Wired == /\ \A i \in DOMAIN Script : LinkHolds(Script[i])
         /\ ResolverHolds /\ CachesHold /\ ListedHold

\* A run that ends without leaving anything to the owner leaves the network
\* wired: every link of the script, the resolver, the caches of the contracts
\* and the pynths of the issuer name the addresses of deployment.json.
WiredWhenClean == (Idle /\ outcome = "clean") => Wired

\* Running it once more then sends nothing and writes nothing.
QuietWhenClean ==
    [][(~Idle /\ outcome = "clean" /\ \A n \in DOMAIN flags : ~flags[n])
       => UNCHANGED <<chainVars, fileVars>>]_vars

\* A new fee pool takes its periods from the one that users had until then,
\* however often the run that deployed it has died.
PeriodsFromLivePool ==
    [][\A x \in DOMAIN slots' :
           (x[2] = "periods" /\ Slot(x[1], "periods") # slots'[x])
           => slots'[x] = Slot(TargetOf("ProxyFeePool"), "target")]_slots

\* What governance has set stays, whatever is deployed afterwards: the values of
\* the script are for settings that nobody has set.
TunedSettingsKept ==
    [][\A x \in DOMAIN slots : slots[x] = Tuned => slots'[x] = Tuned]_slots

\* A pynth that the issuer lists at another address than deployment.json does.
PynthStuck == \E key \in DOMAIN Pynths :
                  Slot(TargetOf("Issuer"), key) \notin {None, TargetOf(Pynths[key])}

\* However a run dies and whatever it leaves to the owner, running it again and
\* the owner acting get the network wired: unless an issuer lists a pynth that
\* has been deployed again, which the script may not be able to replace.
EventuallyWired == <>[](Idle => Wired \/ PynthStuck)
=============================================================================
