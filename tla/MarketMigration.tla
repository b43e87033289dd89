-------------------------- MODULE MarketMigration --------------------------
(***************************************************************************)
(* migrate-binary-option-markets.js moves the markets of one manager to    *)
(* another, in chunks, while people go on creating markets, bidding in     *)
(* them and resolving them.  It reads both lists before it moves anything, *)
(* and may die at any of its transactions; it is then run again.           *)
(*                                                                         *)
(* Left out: the pages in which the lists are read, prompts (answered      *)
(* yes), pausing and suspension, and what a market does with the deposits. *)
(***************************************************************************)
EXTENDS Naturals, FiniteSets, FiniteSetsExt

CONSTANTS
    Markets,
    ChunkSize,      \* markets moved by one transaction
    MaxDeposit,     \* bound: what is deposited in a market
    MaxDeaths       \* bound: commands that die or are cancelled

Managers == {"source", "target"}

VARIABLES
    manager,        \* [market -> the manager that owns it, or "none"]
    active, matured,\* [manager -> the markets it lists]
    deposited,      \* [market -> its deposits]
    totalDeposited, \* [manager -> what it counts as deposited]
    receiving,      \* the target takes the markets of the source
    doing,          \* the command: what it does next
    activeMarkets, maturedMarkets,  \* what it has read and not moved yet
    past,           \* history: markets that there have been
    deaths

marketVars  == <<manager, active, matured, deposited, totalDeposited, past>>
readVars    == <<activeMarkets, maturedMarkets>>
vars == <<marketVars, receiving, doing, readVars, deaths>>

Known(g) == active[g] \cup matured[g]

-----------------------------------------------------------------------------
(* The managers and the people who use them.                               *)

createMarket(g, m) ==
    /\ m \notin past
    /\ past' = past \cup {m}
    /\ manager' = [manager EXCEPT ![m] = g]
    /\ active' = [active EXCEPT ![g] = @ \cup {m}]
    /\ deposited' = [deposited EXCEPT ![m] = 1]
    /\ totalDeposited' = [totalDeposited EXCEPT ![g] = @ + 1]
    /\ UNCHANGED <<matured, receiving, doing, readVars, deaths>>

\* A market tells the manager that owns it, which must know it as active.
bid(m) ==
    \E g \in Managers :
        /\ manager[m] = g /\ m \in active[g]
        /\ deposited[m] < MaxDeposit
        /\ deposited' = [deposited EXCEPT ![m] = @ + 1]
        /\ totalDeposited' = [totalDeposited EXCEPT ![g] = @ + 1]
        /\ UNCHANGED <<manager, active, matured, past, receiving, doing, readVars, deaths>>

resolveMarket(m) ==
    \E g \in Managers :
        /\ manager[m] = g /\ m \in active[g]
        /\ active' = [active EXCEPT ![g] = @ \ {m}]
        /\ matured' = [matured EXCEPT ![g] = @ \cup {m}]
        /\ UNCHANGED <<manager, deposited, totalDeposited, past, receiving, doing, readVars,
                       deaths>>

\* cancelMarket of an active market, and expireMarkets of a matured one.
endMarket(m) ==
    \E g \in Managers :
        /\ manager[m] = g /\ m \in Known(g)
        /\ active' = [active EXCEPT ![g] = @ \ {m}]
        /\ matured' = [matured EXCEPT ![g] = @ \ {m}]
        /\ manager' = [manager EXCEPT ![m] = "none"]
        /\ deposited' = [deposited EXCEPT ![m] = 0]
        /\ totalDeposited' = [totalDeposited EXCEPT ![g] = @ - deposited[m]]
        /\ UNCHANGED <<past, receiving, doing, readVars, deaths>>

Deposits(S) == MapThenSumSet(LAMBDA m : deposited[m], S)

Moved(lists, chunk) == [lists EXCEPT !["source"] = @ \ chunk, !["target"] = @ \cup chunk]

\* The source takes the chunk off the list it is said to be on, and the target
\* adds it to its own; when a market is not on that list all of it reverts.
CanMigrate(lists, chunk) ==
    /\ chunk \subseteq lists["source"]
    /\ receiving
    /\ chunk \cap Known("target") = {}

\* Broken variant: the receiver does not count the deposits.
takeMarkets(chunk) ==
    /\ manager' = [m \in Markets |-> IF m \in chunk THEN "target" ELSE manager[m]]
    /\ totalDeposited' = [totalDeposited EXCEPT !["source"] = @ - Deposits(chunk)]

receiveMarkets(chunk) ==
    /\ manager' = [m \in Markets |-> IF m \in chunk THEN "target" ELSE manager[m]]
    /\ totalDeposited' = [totalDeposited EXCEPT !["source"] = @ - Deposits(chunk),
                                                !["target"] = @ + Deposits(chunk)]

-----------------------------------------------------------------------------
(* The command.                                                            *)

\* Broken variant: only the active markets are read.
ReadActiveMarkets ==
    /\ doing = "idle"
    /\ activeMarkets' = active["source"] /\ maturedMarkets' = {}
    /\ doing' = "set"
    /\ UNCHANGED <<marketVars, receiving, deaths>>

ReadMarkets ==
    /\ doing = "idle"
    /\ activeMarkets' = active["source"]
    /\ doing' = "matured"
    /\ UNCHANGED <<marketVars, receiving, maturedMarkets, deaths>>

ReadMatured ==
    /\ doing = "matured"
    /\ maturedMarkets' = matured["source"]
    /\ doing' = "set"
    /\ UNCHANGED <<marketVars, receiving, activeMarkets, deaths>>

setMigratingManager ==
    /\ doing = "set"
    /\ receiving' = TRUE
    /\ doing' = "move"
    /\ UNCHANGED <<marketVars, readVars, deaths>>

Chunks(S) == {c \in SUBSET S : Cardinality(c) = Min({ChunkSize, Cardinality(S)})}

Stop == doing' = "idle" /\ activeMarkets' = {} /\ maturedMarkets' = {}

MigrateActive ==
    /\ doing = "move" /\ activeMarkets # {}
    /\ \E chunk \in Chunks(activeMarkets) :
           \/ /\ CanMigrate(active, chunk)
              /\ active' = Moved(active, chunk)
              /\ receiveMarkets(chunk)
              /\ activeMarkets' = activeMarkets \ chunk
              /\ UNCHANGED <<matured, deposited, past, doing, maturedMarkets>>
           \/ /\ ~CanMigrate(active, chunk)
              /\ Stop
              /\ UNCHANGED marketVars
    /\ UNCHANGED <<receiving, deaths>>

MigrateMatured ==
    /\ doing = "move" /\ activeMarkets = {} /\ maturedMarkets # {}
    /\ \E chunk \in Chunks(maturedMarkets) :
           \/ /\ CanMigrate(matured, chunk)
              /\ matured' = Moved(matured, chunk)
              /\ receiveMarkets(chunk)
              /\ maturedMarkets' = maturedMarkets \ chunk
              /\ UNCHANGED <<active, deposited, past, doing, activeMarkets>>
           \/ /\ ~CanMigrate(matured, chunk)
              /\ Stop
              /\ UNCHANGED marketVars
    /\ UNCHANGED <<receiving, deaths>>

Finish ==
    /\ doing = "move" /\ activeMarkets = {} /\ maturedMarkets = {}
    /\ Stop
    /\ UNCHANGED <<marketVars, receiving, deaths>>

Die ==
    /\ doing # "idle" /\ deaths < MaxDeaths
    /\ deaths' = deaths + 1
    /\ Stop
    /\ UNCHANGED <<marketVars, receiving>>

-----------------------------------------------------------------------------

Init ==
    /\ manager = [m \in Markets |-> "none"]
    /\ active = [g \in Managers |-> {}] /\ matured = [g \in Managers |-> {}]
    /\ deposited = [m \in Markets |-> 0]
    /\ totalDeposited = [g \in Managers |-> 0]
    /\ receiving = FALSE
    /\ doing = "idle" /\ activeMarkets = {} /\ maturedMarkets = {}
    /\ past = {} /\ deaths = 0

Command == ReadMarkets \/ ReadMatured \/ setMigratingManager \/ MigrateActive
           \/ MigrateMatured \/ Finish

People == \E m \in Markets : \/ \E g \in Managers : createMarket(g, m)
                             \/ bid(m) \/ resolveMarket(m) \/ endMarket(m)

Next == Command \/ Die \/ People

-----------------------------------------------------------------------------
(* Properties.                                                             *)

\* Whatever is created, bid, resolved or moved, and wherever the command dies,
\* a market is on one list of the manager that owns it, on no other, and each
\* manager counts the deposits of its own markets: decrementTotalDeposited says
\* that nothing else keeps a market from subtracting more than was added.
MarketsCounted ==
    \A g \in Managers :
        /\ Known(g) = {m \in Markets : manager[m] = g}
        /\ active[g] \cap matured[g] = {}
        /\ totalDeposited[g] = Deposits(Known(g))

\* The source is empty in the end, whatever people did while its markets moved.
AllMoved == Known("source") = {}
=============================================================================
