---------------------------- MODULE CircuitBreaker ----------------------------
(***************************************************************************)
(* The circuit breaker plugin (plugins/circuit-breaker.ts) for one         *)
(* station, which connects again and again: the calls to it, the circuit   *)
(* they share, and the map that may evict it while other stations come.    *)
(*                                                                         *)
(* The middleware of a connection keeps the circuit it found when the      *)
(* connection came.  Transitions are made on the one that is in the map    *)
(* then.                                                                   *)
(***************************************************************************)
EXTENDS Integers, FiniteSets

CONSTANTS
    Call,               \* calls, made again once they have ended
    MaxConnections,     \* bound: connections of the station
    MaxCircuits,        \* bound: circuits made for it
    FailureThreshold,   \* failureThreshold
    MaxConcurrent,      \* maxConcurrent
    MaxFailures         \* bound: failures are counted up to here

Connection == 1 .. MaxConnections
Circuit    == 1 .. MaxCircuits
None       == 0

VARIABLES
    conn,       \* the state of each connection
    holds,      \* the circuit its middleware uses
    mapped,     \* the circuit in the map
    made,       \* circuits made so far
    circuit,    \* state, failures and concurrentCalls of each, see Fresh
    flight      \* the connection each call in flight is made on

vars == <<conn, holds, mapped, made, circuit, flight>>

\* `cooled': resetTimeoutMs have passed since lastFailure.
Fresh == [state |-> "CLOSED", failures |-> 0, cooled |-> TRUE, calls |-> 0]

TypeOK ==
    /\ conn \in [Connection -> {"new", "open", "closed"}]
    /\ holds \in [Connection -> Circuit \cup {None}]
    /\ mapped \in Circuit \cup {None} /\ made \in 0 .. MaxCircuits
    /\ circuit \in [Circuit -> [state : {"CLOSED", "OPEN", "HALF_OPEN"}, failures : 0 .. MaxFailures,
                                cooled : BOOLEAN, calls : 0 .. MaxConcurrent]]
    /\ flight \in [Call -> Connection \cup {None}]

Init ==
    /\ conn = [k \in Connection |-> "new"] /\ holds = [k \in Connection |-> None]
    /\ mapped = None /\ made = 0
    /\ circuit = [o \in Circuit |-> Fresh]
    /\ flight = [c \in Call |-> None]

InFlight(o) == {c \in Call : flight[c] # None /\ holds[flight[c]] = o}

-----------------------------------------------------------------------------
\* getCircuit(): the circuit in the map, or a fresh one.
Found == IF mapped = None THEN made + 1 ELSE mapped

\* onConnection.  A connection that replaces another comes before the other has closed.
Connect(k) ==
    /\ conn[k] = "new" /\ \A j \in 1 .. k - 1 : conn[j] # "new"
    /\ Found <= MaxCircuits
    /\ conn' = [conn EXCEPT ![k] = "open"]
    /\ holds' = [holds EXCEPT ![k] = Found]
    /\ mapped' = Found
    /\ made' = IF mapped = None THEN made + 1 ELSE made
    /\ UNCHANGED <<circuit, flight>>

\* onDisconnect.  The calls in flight on the connection fail after it.
Disconnect(k) ==
    /\ conn[k] = "open"
    /\ conn' = [conn EXCEPT ![k] = "closed"]
    /\ circuit' = IF mapped = None THEN circuit ELSE [circuit EXCEPT ![mapped].calls = 0]
    /\ UNCHANGED <<holds, mapped, made, flight>>

\* Other stations fill the map, or the server closes.
Evict ==
    /\ mapped # None
    /\ mapped' = None
    /\ UNCHANGED <<conn, holds, made, circuit, flight>>

ResetTimeoutPasses(o) ==
    /\ ~circuit[o].cooled
    /\ circuit' = [circuit EXCEPT ![o].cooled = TRUE]
    /\ UNCHANGED <<conn, holds, mapped, made, flight>>

-----------------------------------------------------------------------------
\* The circuit o becomes what `to' says, and then the one in the map, which may be
\* another, gets the new state.
Transition(o, changed, to) ==
    /\ Found <= MaxCircuits
    /\ mapped' = Found
    /\ made' = IF mapped = None THEN made + 1 ELSE made
    /\ circuit' = [[circuit EXCEPT ![o] = changed] EXCEPT ![Found].state = to]

Remains(o, changed) ==
    /\ circuit' = [circuit EXCEPT ![o] = changed]
    /\ UNCHANGED <<mapped, made>>

\* A call is sent: on a closed or half open circuit, or as the probe of an open one.
CallStarts(c, k) ==
    /\ flight[c] = None /\ conn[k] = "open"
    /\ LET o    == holds[k]
           more == [circuit[o] EXCEPT !.calls = @ + 1]
       IN  /\ circuit[o].calls < MaxConcurrent
           /\ IF circuit[o].state = "OPEN"
                THEN circuit[o].cooled /\ Transition(o, more, "HALF_OPEN")
                ELSE Remains(o, more)
    /\ flight' = [flight EXCEPT ![c] = k]
    /\ UNCHANGED <<conn, holds>>

\* Definitions with a suffix, such as this one, are slips a change to the code
\* could make: each of them breaks a property of this module.  Here a call that ends
\* keeps its place.
Ended_SlotLeak(o) == circuit[o]

Ended(o) == [circuit[o] EXCEPT !.calls = IF @ = 0 THEN 0 ELSE @ - 1]

CallSucceeds(c) ==
    /\ flight[c] # None
    /\ LET o == holds[flight[c]]
       IN  IF circuit[o].state = "HALF_OPEN"
             THEN Transition(o, [Ended(o) EXCEPT !.failures = 0], "CLOSED")
             ELSE Remains(o, [Ended(o) EXCEPT !.failures = IF @ = 0 THEN 0 ELSE @ - 1])
    /\ flight' = [flight EXCEPT ![c] = None]
    /\ UNCHANGED <<conn, holds>>

Trips(o, failed) == circuit[o].state = "HALF_OPEN" \/ failed.failures >= FailureThreshold

\* An error of the station, a timeout, or a connection that breaks.
CallFails(c) ==
    /\ flight[c] # None
    /\ LET o      == holds[flight[c]]
           failed == [Ended(o) EXCEPT !.failures = IF @ < MaxFailures THEN @ + 1 ELSE @, !.cooled = FALSE]
       IN  IF Trips(o, failed) THEN Transition(o, failed, "OPEN") ELSE Remains(o, failed)
    /\ flight' = [flight EXCEPT ![c] = None]
    /\ UNCHANGED <<conn, holds>>

Next ==
    \/ \E k \in Connection : Connect(k) \/ Disconnect(k)
    \/ \E c \in Call : CallSucceeds(c) \/ CallFails(c) \/ \E k \in Connection : CallStarts(c, k)
    \/ Evict
    \/ \E o \in Circuit : ResetTimeoutPasses(o)

Spec == Init /\ [][Next]_vars

-----------------------------------------------------------------------------
\* The counter never stays above the calls in flight, so that it would keep calls from a
\* station that has none; and the limit holds while no connection has closed.  After
\* that it does not: onDisconnect forgets the calls of a connection that has replaced
\* the closed one (circuit-breaker.ts:140,168,180,197-203).
CallsCounted ==
    \A o \in Circuit :
        /\ circuit[o].calls <= Cardinality(InFlight(o))
        /\ (\A k \in Connection : conn[k] # "closed") => Cardinality(InFlight(o)) <= MaxConcurrent

\* CLOSED -(failures >= threshold)-> OPEN (circuit-breaker.ts:69-75): a circuit with as many failures
\* lets nothing pass but probes, in whatever order calls started before and after a
\* transition end; as long as the map has not lost it.  A circuit that was evicted is
\* never opened again by the connection that holds it.
TripsAtThreshold ==
    made = 1 /\ mapped = 1 /\ circuit[1].state = "CLOSED" => circuit[1].failures < FailureThreshold

BreakerSound == TypeOK /\ CallsCounted /\ TripsAtThreshold
=============================================================================
