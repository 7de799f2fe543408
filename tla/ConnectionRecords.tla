-------------------------- MODULE ConnectionRecords ---------------------------
(***************************************************************************)
(* What plugins remember of the connections of a server: the guard and the *)
(* metrics count them (plugins/connection-guard.ts, plugins/metrics.ts),   *)
(* the metrics, the logs and the exporters keep the start of the           *)
(* connection of a station, the tracing plugin its open span               *)
(* (plugins/otel.ts), the dashboard a record of it (ocpp-ws-board).        *)
(*                                                                         *)
(* All but the counts are kept under the identity of the station, while a  *)
(* connection that was evicted closes after its successor was announced:   *)
(* the plugins hear of two connections of a station in the order           *)
(* begin, begin, end, end.                                                 *)
(***************************************************************************)
EXTENDS Integers, Sequences, FiniteSets

CONSTANTS
    Station,
    GuardLimit,         \* options.maxConnections of the guard
    MaxConnections,     \* bound: connections in all
    MaxRequests         \* bound: requests of administrators under way

VARIABLES
    conns,          \* the connections, in the order of their upgrades
    holder,         \* _clientsByIdentity of the server, 0 for nobody
    activeCount,    \* of the guard
    activeConnections, peakConnections, \* of the metrics
    started,        \* connectionTimes, connectionSpans: whose start is kept, 0 for none
    record,         \* of the dashboard; `of' is 0 where there is none
    peakOnline,     \* peakConnections of the dashboard
    requests        \* of administrators, which wait for a connection to close

vars == <<conns, holder, activeCount, activeConnections, peakConnections, started, record,
          peakOnline, requests>>

counts == <<activeCount, activeConnections, peakConnections>>

Conn == DOMAIN conns
Live == {c \in Conn : conns[c].stage # "gone"}
LiveOf(s) == {c \in Live : conns[c].of = s}

Op == {"disconnect", "purge"}

\* `kept': the guard let it stay.  `measured': history, whose start its end was measured
\* from.  `alone': no other connection of the station while it was there.  `touched': an
\* administrator's request changed the record meanwhile.
TypeOK ==
    /\ \A c \in Conn :
          conns[c] \in [of : Station, stage : {"open", "leaving", "gone"}, kept : BOOLEAN,
                        measured : 0 .. Len(conns), alone : BOOLEAN, touched : BOOLEAN]
    /\ holder \in [Station -> 0 .. Len(conns)]
    /\ {activeCount, activeConnections, peakConnections, peakOnline} \subseteq Nat
    /\ started \in [Station -> 0 .. Len(conns)]
    /\ record \in [Station -> [of : 0 .. Len(conns), status : {"online", "offline"}]]
    /\ requests \subseteq [op : Op, station : Station, on : Conn]

NoRecord == [of |-> 0, status |-> "offline"]

Init ==
    /\ conns = <<>>
    /\ holder = [s \in Station |-> 0]
    /\ activeCount = 0 /\ activeConnections = 0 /\ peakConnections = 0
    /\ started = [s \in Station |-> 0]
    /\ record = [s \in Station |-> NoRecord]
    /\ peakOnline = 0
    /\ requests = {}

-----------------------------------------------------------------------------
Most(a, b) == IF a > b THEN a ELSE b

\* close() of a client that is open; its close event comes later.
Shut(c) == IF conns[c].stage = "open" THEN [conns EXCEPT ![c].stage = "leaving"] ELSE conns

\* Definitions with a suffix, such as this one, are slips a change to the code
\* could make: each of them breaks a property of this module.

\* an evicted connection is taken off the count, as it is when it closes
Counted_LessEvicted(s) == IF holder[s] # 0 THEN activeCount ELSE activeCount + 1

\* onConnection of the guard, which does not know of evictions.
Counted(s) == activeCount + 1

\* onConnection of the metrics.
Measures ==
    /\ activeConnections' = activeConnections + 1
    /\ peakConnections' = Most(peakConnections, activeConnections')

Online(r) == Cardinality({s \in Station : r[s].status = "online"})

\* onEviction and onConnection of the dashboard: the record of the evicted connection is
\* marked and, in the same turn, replaced.
Recorded(s, c) ==
    /\ record' = [record EXCEPT ![s] = [of |-> c, status |-> "online"]]
    /\ peakOnline' = Most(peakOnline, Online(record'))

\* An upgrade completes: the holder of the identity is evicted, the plugins are told; the
\* guard closes a connection that is one too many.
Connect(s) ==
    LET c == Len(conns) + 1
        others == [o \in Conn |->
                      IF o \in LiveOf(s)
                      THEN [conns[o] EXCEPT !.alone = FALSE,
                                            !.stage = IF o = holder[s] THEN "leaving"
                                                      ELSE conns[o].stage]
                      ELSE conns[o]]
        fits == Counted(s) <= GuardLimit
    IN  /\ c <= MaxConnections
        /\ conns' = Append(others,
                           [of |-> s, stage |-> IF fits THEN "open" ELSE "leaving", kept |-> fits,
                            measured |-> 0, alone |-> LiveOf(s) = {}, touched |-> FALSE])
        /\ holder' = [holder EXCEPT ![s] = c]
        /\ activeCount' = Counted(s)
        /\ Measures
        /\ started' = [started EXCEPT ![s] = c]
        /\ Recorded(s, c)
        /\ UNCHANGED requests

\* close() by the application, or by the guard on a missed pong or a full buffer.
Leaves(c) ==
    /\ c \in Conn /\ conns[c].stage = "open"
    /\ conns' = Shut(c)
    /\ UNCHANGED <<holder, counts, started, record, peakOnline, requests>>

\* removeConnection of the dashboard's store.
Offline(r, s) == IF r[s].of = 0 THEN r ELSE [r EXCEPT ![s].status = "offline"]

\* The close event of a client, and onDisconnect of the plugins.
Closes(c) ==
    LET s == conns[c].of
    IN  /\ c \in Live
        /\ conns' = [conns EXCEPT ![c].stage = "gone", ![c].measured = started[s]]
        /\ holder' = IF holder[s] = c THEN [holder EXCEPT ![s] = 0] ELSE holder
        /\ activeCount' = Most(0, activeCount - 1)
        /\ activeConnections' = Most(0, activeConnections - 1)
        /\ started' = [started EXCEPT ![s] = 0]
        /\ record' = Offline(record, s)
        /\ UNCHANGED <<peakConnections, peakOnline, requests>>

-----------------------------------------------------------------------------
Touch(s) == IF holder[s] = 0 THEN conns ELSE [conns EXCEPT ![holder[s]].touched = TRUE]

\* What a request does to the store, whoever the record is of by now.
Apply(op, s) ==
    record' = IF op = "purge" THEN [record EXCEPT ![s] = NoRecord] ELSE Offline(record, s)

\* POST .../disconnect and .../purge, DELETE: the client is closed by force, and awaited.
Ask(op, s) ==
    /\ IF holder[s] = 0
       THEN Apply(op, s) /\ UNCHANGED <<conns, requests>>
       ELSE /\ Cardinality(requests) < MaxRequests
            /\ requests' = requests \cup {[op |-> op, station |-> s, on |-> holder[s]]}
            /\ conns' = Shut(holder[s])
            /\ UNCHANGED record
    /\ UNCHANGED <<holder, counts, started, peakOnline>>

AskEnds(r) ==
    /\ r \in requests /\ conns[r.on].stage = "gone"
    /\ requests' = requests \ {r}
    /\ Apply(r.op, r.station)
    /\ conns' = Touch(r.station)
    /\ UNCHANGED <<holder, counts, started, peakOnline>>

Next ==
    \/ \E s \in Station : Connect(s) \/ \E op \in Op : Ask(op, s)
    \/ \E c \in Conn : Leaves(c) \/ Closes(c)
    \/ \E r \in requests : AskEnds(r)

Spec == Init /\ [][Next]_vars

-----------------------------------------------------------------------------
\* The counts are of what is connected, evicted connections included until they close;
\* those the guard let stay are never too many; the dashboard never saw more than the
\* metrics.
CountsExact ==
    /\ activeCount = Cardinality(Live) /\ activeConnections = activeCount
    /\ Cardinality({c \in Live : conns[c].kept}) <= GuardLimit
    /\ activeConnections <= peakConnections /\ peakOnline <= peakConnections

\* A connection that met no other of its station is measured from its own start, and its
\* span ended; the start of no connection is used twice, no span ended twice.
MeasuresOwn ==
    /\ \A c \in Conn \ Live : conns[c].alone => conns[c].measured = c
    /\ \A c, d \in Conn \ Live :
          conns[c].measured = conns[d].measured => c = d \/ conns[c].measured = 0

\* The dashboard calls a station online only while the connection it knows of is the one
\* the server knows, and does so at least where neither a second connection nor an
\* administrator interfered.
ShownTrue ==
    \A s \in Station :
       /\ record[s].status = "online" => record[s].of = holder[s] /\ holder[s] # 0
       /\ holder[s] # 0 /\ conns[holder[s]].alone /\ ~conns[holder[s]].touched
             => record[s] = [of |-> holder[s], status |-> "online"]

\* What the plugins remember is true of the connections, through evictions, late close
\* events, a guard that closes and requests of administrators (plugins/connection-guard.ts:
\* 75-114, plugins/metrics.ts:182-200, plugins/otel.ts:101-126, ocpp-ws-board store.ts:126-176).
RecordsTrue == TypeOK /\ CountsExact /\ MeasuresOwn /\ ShownTrue
=============================================================================
