-------------------------- MODULE BridgeConnection --------------------------
(***************************************************************************)
(* connect-bridge.js tells the two bridges of the messenger of each other: *)
(* on one layer and then on the other it puts the messenger and the bridge *)
(* of the other layer into the resolver, and has the layer's own bridge    *)
(* read them again.  It may die at any transaction, and bridges may be     *)
(* deployed anew while it runs; it is then run again.                      *)
(*                                                                         *)
(* The account of the command owns the resolvers.  Left out: dry runs, and *)
(* the names that the bridges resolve besides these two.                   *)
(***************************************************************************)
EXTENDS Naturals

CONSTANTS
    MaxBridges,     \* bound: bridges deployed on a layer
    MaxDeaths       \* bound: commands that die

Layers   == {"L1", "L2"}
Other(l) == CHOOSE o \in Layers : o # l
Bridges  == 1..MaxBridges

VARIABLES
    target,         \* [layer -> the bridge in its deployment.json]
    resolver,       \* [layer -> the names in its AddressResolver], 0 for none
    addressCache,   \* [layer -> [bridge -> the names as it has cached them]]
    layer, phase,   \* the command: where it is, and what it does next
    PeriFinanceBridge,  \* [layer -> the bridge it has read of the files]
    deaths

linkVars    == <<target, resolver, addressCache>>
commandVars == <<layer, phase, PeriFinanceBridge>>
vars == <<linkVars, commandVars, deaths>>

Missing == [messenger |-> 0, bridge |-> 0]

\* What the resolver of a layer should say, when o is the bridge of the other.
Names(o) == [messenger |-> 1, bridge |-> o]
Wanted(l) == Names(PeriFinanceBridge[Other(l)])

Stop == layer' = "none" /\ phase' = "names"

\* The command has done what a layer needs.
NextLayer(l) == IF l = "L1" THEN layer' = "L2" /\ phase' = "names" ELSE Stop

-----------------------------------------------------------------------------

setupInstances ==
    /\ layer = "none"
    /\ PeriFinanceBridge' = target
    /\ layer' = "L1"
    /\ UNCHANGED <<linkVars, phase, deaths>>

\* Both names are imported when one of them differs.
checkNames(l) ==
    /\ layer = l /\ phase = "names"
    /\ phase' = IF resolver[l] = Wanted(l) THEN "cache" ELSE "import"
    /\ UNCHANGED <<linkVars, layer, PeriFinanceBridge, deaths>>

importAddresses(l) ==
    /\ layer = l /\ phase = "import"
    /\ resolver' = [resolver EXCEPT ![l] = Wanted(l)]
    /\ phase' = "rebuild"
    /\ UNCHANGED <<target, addressCache, layer, PeriFinanceBridge, deaths>>

\* Broken variant: the cache is rebuilt only after an import.
skipCache(l) ==
    /\ layer = l /\ phase = "cache"
    /\ NextLayer(l)
    /\ UNCHANGED <<linkVars, PeriFinanceBridge, deaths>>

\* isResolverCached, when nothing had to be imported.
checkCache(l) ==
    /\ layer = l /\ phase = "cache"
    /\ IF addressCache[l][PeriFinanceBridge[l]] = resolver[l]
       THEN NextLayer(l)
       ELSE phase' = "rebuild" /\ UNCHANGED layer
    /\ UNCHANGED <<linkVars, PeriFinanceBridge, deaths>>

rebuildCache(l) ==
    /\ layer = l /\ phase = "rebuild"
    /\ addressCache' = [addressCache EXCEPT ![l][PeriFinanceBridge[l]] = resolver[l]]
    /\ NextLayer(l)
    /\ UNCHANGED <<target, resolver, PeriFinanceBridge, deaths>>

Die ==
    /\ layer # "none" /\ deaths < MaxDeaths
    /\ deaths' = deaths + 1
    /\ Stop
    /\ UNCHANGED <<linkVars, PeriFinanceBridge>>

\* deploy.js deploys a bridge, which knows nothing yet.
Redeploy(l) ==
    /\ target[l] < MaxBridges
    /\ target' = [target EXCEPT ![l] = @ + 1]
    /\ UNCHANGED <<resolver, addressCache, commandVars, deaths>>

\* rebuildCache is public, and deploy.js calls it for what it has deployed.
RebuildByOthers(l) ==
    /\ resolver[l] # Missing
    /\ addressCache' = [addressCache EXCEPT ![l][target[l]] = resolver[l]]
    /\ UNCHANGED <<target, resolver, commandVars, deaths>>

-----------------------------------------------------------------------------

Init ==
    /\ target = [l \in Layers |-> 1]
    /\ resolver = [l \in Layers |-> Missing]
    /\ addressCache = [l \in Layers |-> [b \in Bridges |-> Missing]]
    /\ layer = "none" /\ phase = "names"
    /\ PeriFinanceBridge = [l \in Layers |-> 1]
    /\ deaths = 0

Command == \/ setupInstances
           \/ \E l \in Layers : checkNames(l) \/ importAddresses(l) \/ checkCache(l)
                                \/ rebuildCache(l)

Next == Command \/ Die \/ \E l \in Layers : Redeploy(l) \/ RebuildByOthers(l)

-----------------------------------------------------------------------------
(* Properties.                                                             *)

\* The bridge of each layer knows the messenger and the bridge of the other layer,
\* and its resolver says the same.
Connected ==
    \A l \in Layers : /\ resolver[l] = Names(target[Other(l)])
                      /\ addressCache[l][target[l]] = resolver[l]
=============================================================================
