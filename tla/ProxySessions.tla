----------------------------- MODULE ProxySessions -----------------------------
(***************************************************************************)
(* The protocol proxy (ocpp-protocol-proxy) between one OCPP 1.6 station   *)
(* and a 2.1 CSMS: its connections, the upstream client of each, and the   *)
(* session that maps the numbers by which the station knows its            *)
(* transactions to the UUIDs by which the CSMS does (presets/core.ts).     *)
(*                                                                         *)
(* With the session store in memory each translation is one step.  The     *)
(* calls of one connection are forwarded in order, and its upstream client *)
(* has one of them outstanding at a time (callConcurrency is 1).           *)
(***************************************************************************)
EXTENDS Integers, FiniteSets, Sequences

CONSTANTS
    Transaction,        \* transactions of the station
    MaxConnections,     \* bound: its connections
    MaxUuids,           \* bound: transactions begun towards the CSMS
    MaxNumbers,         \* bound: answers of transaction events
    MaxCalls            \* bound: calls of a connection under way at once

Connection == 1 .. MaxConnections
Uuid       == 1 .. MaxUuids
Number     == 1 .. MaxNumbers
None       == 0

VARIABLES
    conn,           \* the connections of the station
    upstream,       \* the upstream client of each
    calls,          \* for each connection, the calls of the station under way
    pendingStartTx, \* session: the UUID of the last transaction begun
    int2uuid,       \* session
    uuid2int,       \* session
    txIdCounter,    \* the next number
    owner,          \* the transaction each UUID was made for
    station,        \* what the station knows of its transactions
    late            \* has a start been forwarded for a connection after the next was made?

session == <<pendingStartTx, int2uuid, uuid2int>>
vars == <<conn, upstream, calls, session, txIdCounter, owner, station, late>>

\* `heard': does the station still wait for the answer?
Call == [kind : {"start", "stop", "meter"}, tx : Transaction,
          phase : {"made", "forwarded"}, heard : BOOLEAN]

TypeOK ==
    /\ conn \in [Connection -> {"new", "open", "closed"}]
    /\ upstream \in [Connection -> {"none", "open", "closed"}]
    /\ \A k \in Connection : /\ Len(calls[k]) <= MaxCalls
                            /\ \A i \in 1 .. Len(calls[k]) : calls[k][i] \in Call
    /\ pendingStartTx \in Uuid \cup {None}
    /\ int2uuid \in [Number -> Uuid \cup {None}] /\ uuid2int \in [Uuid -> Number \cup {None}]
    /\ txIdCounter \in 1 .. MaxNumbers + 1
    /\ owner \in [Uuid -> Transaction \cup {None}]
    /\ station \in [Transaction -> [state : {"none", "starting", "running", "stopping"},
                                    number : Number \cup {None}]]
    /\ late \in BOOLEAN

NoSession == /\ pendingStartTx' = None
             /\ int2uuid' = [n \in Number |-> None]
             /\ uuid2int' = [u \in Uuid |-> None]

Init ==
    /\ conn = [k \in Connection |-> "new"] /\ upstream = [k \in Connection |-> "none"]
    /\ calls = [k \in Connection |-> <<>>]
    /\ pendingStartTx = None
    /\ int2uuid = [n \in Number |-> None] /\ uuid2int = [u \in Uuid |-> None]
    /\ txIdCounter = 1
    /\ owner = [u \in Uuid |-> None]
    /\ station = [t \in Transaction |-> [state |-> "none", number |-> None]]
    /\ late = FALSE

-----------------------------------------------------------------------------
(* The station *)

Back(s) == CASE s.state = "starting" -> [s EXCEPT !.state = "none"]
             [] s.state = "stopping" -> [s EXCEPT !.state = "running"]
             [] OTHER                -> s

\* The station no longer waits for the answers to some calls of a connection.
Forgets(k, I) ==
    /\ calls' = [calls EXCEPT ![k] = [i \in DOMAIN @ |-> IF i \in I THEN [@[i] EXCEPT !.heard = FALSE]
                                                                     ELSE @[i]]]
    /\ station' = [t \in Transaction |->
                      IF \E i \in I : LET c == calls[k][i] IN c.heard /\ c.kind # "meter" /\ c.tx = t
                        THEN Back(station[t]) ELSE station[t]]

\* A station that connects again has given the connection before up, whether or not the
\* proxy has heard of it.
Connects(k) ==
    /\ conn[k] = "new" /\ \A j \in 1 .. k - 1 : conn[j] # "new"
    /\ conn' = [conn EXCEPT ![k] = "open"]
    /\ IF k = 1 THEN UNCHANGED <<calls, station>> ELSE Forgets(k - 1, DOMAIN calls[k - 1])
    /\ UNCHANGED <<upstream, session, txIdCounter, owner, late>>

\* A station has one call at a time that it waits for, as OCPP-J asks of it.
Makes(kind, t, k) ==
    /\ conn[k] = "open" /\ \A j \in Connection : j > k => conn[j] # "open"
    /\ Len(calls[k]) < MaxCalls /\ \A i \in DOMAIN calls[k] : ~calls[k][i].heard
    /\ station[t].state = IF kind = "start" THEN "none" ELSE "running"
    /\ station' = CASE kind = "start" -> [station EXCEPT ![t].state = "starting"]
                    [] kind = "stop"  -> [station EXCEPT ![t].state = "stopping"]
                    [] OTHER          -> station
    /\ calls' = [calls EXCEPT ![k] = Append(@, [kind |-> kind, tx |-> t, phase |-> "made", heard |-> TRUE])]
    /\ UNCHANGED <<conn, upstream, session, txIdCounter, owner, late>>

TimesOut(k, i) ==
    /\ calls[k][i].heard
    /\ Forgets(k, {i})
    /\ UNCHANGED <<conn, upstream, session, txIdCounter, owner, late>>

-----------------------------------------------------------------------------
(* Connections of the proxy *)

\* The dynamic import has resolved: only now are there handlers for the messages and for
\* the end of the connection.  One that has ended already gets a client all the same.
ImportResolves(k) ==
    /\ conn[k] # "new" /\ upstream[k] = "none"
    /\ upstream' = [upstream EXCEPT ![k] = "open"]
    /\ UNCHANGED <<conn, calls, session, txIdCounter, owner, station, late>>

\* The connection closes.  onClose closes its upstream client, which waits for the calls
\* under way, and clears the session of the station, whichever connection is its own.
Closes(k) ==
    /\ conn[k] = "open"
    /\ conn' = [conn EXCEPT ![k] = "closed"]
    /\ Forgets(k, DOMAIN calls[k])
    /\ IF upstream[k] = "open"
         THEN /\ upstream' = [upstream EXCEPT ![k] = "closed"]
              /\ NoSession
         ELSE UNCHANGED <<upstream, session>>
    /\ UNCHANGED <<txIdCounter, owner, late>>

-----------------------------------------------------------------------------
(* Translation *)

\* The next call of a connection to be forwarded.
Forwards(k, i) ==
    /\ upstream[k] = "open"
    /\ calls[k][i].phase = "made" /\ \A j \in 1 .. i - 1 : calls[k][j].phase = "forwarded"
    /\ calls' = [calls EXCEPT ![k][i].phase = "forwarded"]

\* StartTransaction becomes a "Started" event under a new UUID, which waits in the
\* session for the answer.
ForwardsStart(k, i) ==
    /\ calls[k][i].kind = "start" /\ Forwards(k, i)
    /\ \E u \in Uuid :
          /\ u = Cardinality({v \in Uuid : owner[v] # None}) + 1
          /\ owner' = [owner EXCEPT ![u] = calls[k][i].tx]
          /\ pendingStartTx' = u
    /\ late' = (late \/ \E j \in Connection : j > k /\ conn[j] # "new")
    /\ UNCHANGED <<conn, upstream, int2uuid, uuid2int, txIdCounter, station>>

\* StopTransaction and MeterValues become events of the UUID that the session has for
\* their number, or of a random one, or of none; the session does not change.
ForwardsOther(k, i) ==
    /\ calls[k][i].kind # "start" /\ Forwards(k, i)
    /\ UNCHANGED <<conn, upstream, session, txIdCounter, owner, station, late>>

\* What the answer makes of the transaction of the station: a "start" may be rejected.
Informed(c, n) ==
    IF ~c.heard \/ c.kind = "meter" THEN {station}
    ELSE IF c.kind = "stop" THEN {[station EXCEPT ![c.tx] = [state |-> "none", number |-> None]]}
    ELSE {[station EXCEPT ![c.tx] = [state |-> "running", number |-> n]],
          [station EXCEPT ![c.tx] = Back(@)]}

\* Definitions with a suffix, such as this one, are slips a change to the code
\* could make: each of them breaks a property of this module.  Here the number is one
\* that the session does not use.
NextNumber_OfSession == CHOOSE n \in Number \cup {MaxNumbers + 1} :
                            /\ n > MaxNumbers \/ int2uuid[n] = None
                            /\ \A m \in 1 .. n - 1 : int2uuid[m] # None

NextNumber == txIdCounter

\* The answer to any event takes a number, and the UUID that waits, if there is one.
Answered(k) ==
    /\ calls[k] # <<>> /\ Head(calls[k]).phase = "forwarded"
    /\ NextNumber \in Number
    /\ txIdCounter' = txIdCounter + 1
    /\ IF pendingStartTx = None THEN UNCHANGED session
       ELSE /\ int2uuid' = [int2uuid EXCEPT ![NextNumber] = pendingStartTx]
            /\ uuid2int' = [uuid2int EXCEPT ![pendingStartTx] = NextNumber]
            /\ pendingStartTx' = None
    /\ station' \in Informed(Head(calls[k]), NextNumber)
    /\ calls' = [calls EXCEPT ![k] = Tail(@)]
    /\ UNCHANGED <<conn, upstream, owner, late>>

\* The CSMS answers with an error, or not in time, or the upstream connection was not
\* made: a UUID that waits goes on waiting.
Fails(k) ==
    /\ calls[k] # <<>>
    /\ calls' = [calls EXCEPT ![k] = Tail(@)]
    /\ LET c == Head(calls[k]) IN
       station' = IF c.heard /\ c.kind # "meter" THEN [station EXCEPT ![c.tx] = Back(@)] ELSE station
    /\ UNCHANGED <<conn, upstream, session, txIdCounter, owner, late>>

Next ==
    \/ \E k \in Connection :
          \/ Connects(k) \/ ImportResolves(k) \/ Closes(k) \/ Answered(k) \/ Fails(k)
          \/ \E t \in Transaction, kind \in {"start", "stop", "meter"} : Makes(kind, t, k)
          \/ \E i \in DOMAIN calls[k] : TimesOut(k, i) \/ ForwardsStart(k, i) \/ ForwardsOther(k, i)

Spec == Init /\ [][Next]_vars

-----------------------------------------------------------------------------
\* "Stateful sessions - UUID <-> integer transaction ID mapping" (README.md:32 of the proxy):
\* a StopTransaction or MeterValues of the station never reaches another transaction of
\* the CSMS, nor a RemoteStopTransaction another transaction of the station: not when
\* answers are late, connections replaced and sessions cleared.  It may reach none, as all
\* do after a reconnection.  The exception is a connection whose upstream client takes
\* longer to connect than that of the next (presets/core.ts:9,51-56,90-105,128-135,171-176,
\* 229-244).
NumbersMatch ==
    /\ TypeOK
    /\ late \/
         \A t \in Transaction, u \in Uuid :
            station[t].number # None /\ u \in {int2uuid[station[t].number]} \cup
                {v \in Uuid : uuid2int[v] = station[t].number}
            => owner[u] = t
=============================================================================
