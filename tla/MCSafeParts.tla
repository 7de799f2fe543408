------------------------------ MODULE MCSafeParts ------------------------------
(***************************************************************************)
(* Instances of the parts that share no state with others and promise      *)
(* nothing but safety, in one run: `part' says which of them a behaviour   *)
(* is of, and the others rest in an initial state.                         *)
(***************************************************************************)
EXTENDS KeepAlive, MCPatterns, FiniteSets, TLC

CONSTANTS
    StationCall, MaxCircuits, FailureThreshold, MaxConcurrent, MaxFailures,  \* CircuitBreaker
    Transaction, MaxUuids, MaxNumbers, MaxCalls,                        \* ProxySessions
    MaxConnections,                                                     \* both
    Limit, Window, MethodLimit, Cooldown, MaxTime,                      \* RateLimits
    Router, Param, Pattern, RegExp, Language, Path, MaxPatterns,        \* Routing
    Run, MaxTransactions, MaxSockets, MaxTimers,                        \* Simulator
    Station, GuardLimit, MaxUpgrades, MaxRequests,                      \* ConnectionRecords
    Visitor, MaxSessions, Ttl, MaxClients, MaxWrites                    \* Sessions

\* What the proofs about the parts ask of their constants.
ASSUME BreakerAssumption ==
    /\ IsFiniteSet(StationCall) /\ MaxConnections \in Nat /\ MaxCircuits \in Nat
    /\ FailureThreshold \in Nat \ {0} /\ MaxConcurrent \in Nat /\ MaxFailures \in Nat
ASSUME ProxyAssumption ==
    MaxUuids \in Nat /\ MaxNumbers \in Nat /\ MaxCalls \in Nat /\ 0 \notin Transaction
ASSUME EngineAssumption ==
    MaxSockets \in Nat \ {0} /\ MaxTransactions \in Nat /\ MaxTimers \in Nat
ASSUME LimitsAssumption ==
    /\ Limit \in Nat /\ Window \in Nat /\ MethodLimit \in Nat
    /\ Cooldown \in Nat /\ MaxTime \in Nat
ASSUME SessionsAssumption ==
    Ttl \in Nat /\ MaxSessions \in Nat \ {0}   \* checked by the constructor of LRUMap
ASSUME RecordsAssumption == IsFiniteSet(Station) /\ GuardLimit \in Nat

VARIABLES
    part,
    stations, holds, mapped, made, circuit, inFlight,
    conn, upstream, calls, pendingStartTx, int2uuid, uuid2int, txIdCounter, owner, station, late,
    limited, now, upgrades, kept, messages, method, multiplier, lastOverload, accepted,
    patterns, attached, globals, regexRouters, trie, fixed, frozen, taken, refused,
    engineState, connectorState, activeTransactionId, runs, ws, sockets, reconnects, bootRetries,
    meters, meterTrigger, transaction, crossed,
    conns, holder, activeCount, activeConnections, peakConnections, started, record, peakOnline,
    requests,
    clients, sessions, writes, overwritten

breakerVars == <<stations, holds, mapped, made, circuit, inFlight>>
proxyVars   == <<conn, upstream, calls, pendingStartTx, int2uuid, uuid2int, txIdCounter, owner, station, late>>
limitsVars  == <<limited, now, upgrades, kept, messages, method, multiplier, lastOverload, accepted>>
routesVars  == <<patterns, attached, globals, regexRouters, trie, fixed, frozen, taken, refused>>
engineVars  == <<engineState, connectorState, activeTransactionId, runs, ws, sockets, reconnects,
                 bootRetries, meters, meterTrigger, transaction, crossed>>
recordsVars == <<conns, holder, activeCount, activeConnections, peakConnections, started, record,
                 peakOnline, requests>>
sessionVars == <<clients, sessions, writes, overwritten>>

Breaker == INSTANCE CircuitBreaker WITH Call <- StationCall, conn <- stations, flight <- inFlight
Proxy   == INSTANCE ProxySessions
Limits  == INSTANCE RateLimits
Routes  == INSTANCE Routing
Engine  == INSTANCE Simulator
Records == INSTANCE ConnectionRecords WITH MaxConnections <- MaxUpgrades
Store   == INSTANCE Sessions WITH conns <- clients, lost <- overwritten, Station <- Visitor,
             MaxConnections <- MaxClients

MCLanguage == [e \in RegExp |-> MCMatches]

\* Transactions of the proxy and runs of the simulator are interchangeable.
PartSymmetry == Permutations(Transaction) \cup Permutations(Run)

InitParts ==
    /\ part \in {"keep-alive", "breaker", "proxy", "limits", "routes", "engine", "records",
                "sessions"}
    /\ Init /\ (part # "keep-alive" => pongTimeout = 0 /\ ~defer /\ ping = Interval)
    /\ Breaker!Init
    /\ Proxy!Init
    /\ Limits!Init /\ (part # "limits" => limited = "upgrades")
    /\ Routes!Init
    /\ Engine!Init
    /\ Records!Init
    /\ Store!Init

NextParts ==
    \/ /\ part = "keep-alive" /\ Next
       /\ UNCHANGED <<part, breakerVars, proxyVars, limitsVars, routesVars, engineVars,
                       recordsVars, sessionVars>>
    \/ /\ part = "breaker" /\ Breaker!Next
       /\ UNCHANGED <<part, vars, proxyVars, limitsVars, routesVars, engineVars, recordsVars,
                       sessionVars>>
    \/ /\ part = "proxy" /\ Proxy!Next
       /\ UNCHANGED <<part, vars, breakerVars, limitsVars, routesVars, engineVars, recordsVars,
                       sessionVars>>
    \/ /\ part = "limits" /\ Limits!Next
       /\ UNCHANGED <<part, vars, breakerVars, proxyVars, routesVars, engineVars, recordsVars,
                       sessionVars>>
    \/ /\ part = "routes" /\ Routes!Next
       /\ UNCHANGED <<part, vars, breakerVars, proxyVars, limitsVars, engineVars, recordsVars,
                       sessionVars>>
    \/ /\ part = "engine" /\ Engine!Next
       /\ UNCHANGED <<part, vars, breakerVars, proxyVars, limitsVars, routesVars, recordsVars,
                       sessionVars>>
    \/ /\ part = "records" /\ Records!Next
       /\ UNCHANGED <<part, vars, breakerVars, proxyVars, limitsVars, routesVars, engineVars,
                       sessionVars>>
    \/ /\ part = "sessions" /\ Store!Next
       /\ UNCHANGED <<part, vars, breakerVars, proxyVars, limitsVars, routesVars, engineVars,
                       recordsVars>>

SpecParts ==
    /\ InitParts
    /\ [][NextParts]_<<part, vars, breakerVars, proxyVars, limitsVars, routesVars, engineVars,
                       recordsVars, sessionVars>>

\* The circuit of a station counts its calls and opens at the threshold
\* (plugins/circuit-breaker.ts:103-207); stated in CircuitBreaker.
BreakerSound == part = "breaker" => Breaker!BreakerSound

\* The numbers of the station and the UUIDs of the CSMS stand for the same transactions
\* (presets/core.ts:51-244); stated in ProxySessions.
NumbersMatch == part = "proxy" => Proxy!NumbersMatch

\* No burst passes more than a bucket and its refill, swept or not (server.ts:850-890,
\* 1546-1558, server-client.ts:76-122); stated in RateLimits.
LimitsHold == part = "limits" => Limits!LimitsHold

\* A path is given to exactly the routers with a pattern that fits it, the more specific
\* first (radix-trie.ts:137-209, server.ts:905-993); stated in Routing.
RoutesMatch == part = "routes" => Routes!RoutesMatch

\* The charge point of `ocpp simulate' knows its open transaction
\* (cli/src/simulator/Engine.ts:972-1236); stated in Simulator.
TransactionsKept == part = "engine" => Engine!TransactionsKept

\* What plugins remember under an identity is true of its connections
\* (plugins/connection-guard.ts:75-114, plugins/metrics.ts:182-200, plugins/otel.ts:101-126,
\* ocpp-ws-board store.ts:126-176); stated in ConnectionRecords.
RecordsTrue == part = "records" => Records!RecordsTrue

\* A station that connects again finds what its last connection left (server.ts:163-171,
\* 1325-1343,1524-1538, lru-map.ts:33-62); stated in Sessions.
SessionsKept == part = "sessions" => Store!SessionsKept
=============================================================================
