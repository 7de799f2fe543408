------------------------------- MODULE Sessions --------------------------------
(***************************************************************************)
(* The sessions a server keeps for its stations between connections        *)
(* (server.ts, lru-map.ts): data the application puts on client.session    *)
(* is found again by the next connection of the station.                   *)
(*                                                                         *)
(* The map refers to the object of a connection, whose later writes it     *)
(* sees; a new connection gets a copy.  Each message event of a client     *)
(* puts its object into the map, also of one that was evicted or closed:   *)
(* its handlers and the chain of its messages go on.  The end of a         *)
(* connection changes nothing, so that connections have no state here.     *)
(***************************************************************************)
EXTENDS Integers, Sequences, FiniteSets

CONSTANTS
    Station,
    MaxSessions,        \* maxSessions
    Ttl,                \* sessionTtlMs, in ticks
    MaxConnections,     \* bound: connections in all
    MaxWrites           \* bound: writes to the data of sessions

VARIABLES
    conns,      \* the connections, in the order of their upgrades
    sessions,   \* _sessions, the least recently used first
    writes,
    lost        \* history: stations whose session is not that of their last connection

vars == <<conns, sessions, writes, lost>>

Conn == DOMAIN conns

\* `data': what was written to client.session.  `left': history, what was on the session
\* of the station's last connection when this one came.
TypeOK ==
    /\ \A c \in Conn : conns[c] \in [of : Station, data : SUBSET (1 .. writes), left : SUBSET (1 .. writes)]
    /\ \A i \in DOMAIN sessions :
          sessions[i] \in [station : Station, on : Conn, age : 0 .. Ttl + 1]
    /\ writes \in Nat /\ lost \subseteq Station

Init == conns = <<>> /\ sessions = <<>> /\ writes = 0 /\ lost = {}

-----------------------------------------------------------------------------
Kept(m)   == {m[i].station : i \in DOMAIN m}
Newest(s) == {c \in Conn : conns[c].of = s /\ \A d \in Conn : conns[d].of = s => d <= c}

\* delete of a Map, which has one session of a station.
Without(s) ==
    IF s \notin Kept(sessions) THEN sessions
    ELSE LET gone == CHOOSE i \in DOMAIN sessions : sessions[i].station = s
         IN  [i \in 1 .. Len(sessions) - 1 |-> sessions[IF i < gone THEN i ELSE i + 1]]

\* Definitions with a suffix, such as this one, are slips a change to the code
\* could make: each of them breaks a property of this module.

\* a key that is set again keeps its place, as in a plain Map
Put_KeepsPlace(s, c) ==
    LET new == [station |-> s, on |-> c, age |-> 0]
        all == IF s \in Kept(sessions)
               THEN [i \in DOMAIN sessions |-> IF sessions[i].station = s THEN new ELSE sessions[i]]
               ELSE Append(sessions, new)
    IN  IF Len(all) > MaxSessions THEN Tail(all) ELSE all

\* set of LRUMap: to the end, and the first goes if there are too many.
Put(s, c) ==
    LET all == Append(Without(s), [station |-> s, on |-> c, age |-> 0])
    IN  IF Len(all) > MaxSessions THEN Tail(all) ELSE all

Found(s) == UNION {conns[sessions[i].on].data :
                     i \in {j \in DOMAIN sessions : sessions[j].station = s}}

\* An upgrade completes: the session that is kept is copied, and the copy takes its place.
Connect(s) ==
    LET c == Len(conns) + 1
        left == IF s \in lost THEN {} ELSE UNION {conns[d].data : d \in Newest(s)}
    IN  /\ c <= MaxConnections
        /\ conns' = Append(conns, [of |-> s, data |-> Found(s), left |-> left])
        /\ sessions' = Put(s, c)
        /\ lost' = (lost \ {s}) \cup (Kept(sessions) \ Kept(sessions'))
        /\ UNCHANGED writes

\* A message event, of a message that came in or goes out.
Message(c) ==
    LET s == conns[c].of
    IN  /\ sessions' = Put(s, c)
        /\ lost' = (IF c \in Newest(s) THEN lost \ {s} ELSE lost \cup {s})
                   \cup (Kept(sessions) \ Kept(sessions'))
        /\ UNCHANGED <<conns, writes>>

\* The application changes client.session.
Writes(c) ==
    /\ writes < MaxWrites
    /\ writes' = writes + 1
    /\ conns' = [conns EXCEPT ![c].data = @ \cup {writes'}]
    /\ UNCHANGED <<sessions, lost>>

Older(e) == [e EXCEPT !.age = IF @ > Ttl THEN @ ELSE @ + 1]

TimePasses ==
    /\ sessions' = [i \in DOMAIN sessions |-> Older(sessions[i])]
    /\ UNCHANGED <<conns, writes, lost>>

\* The collector, which runs every minute until close(): of the sessions that are left
\* it keeps the order.
Collect ==
    LET young == {i \in DOMAIN sessions : sessions[i].age <= Ttl}
    IN  /\ \E at \in [1 .. Cardinality(young) -> young] :
              /\ \A i, j \in DOMAIN at : i < j => at[i] < at[j]
              /\ sessions' = [i \in DOMAIN at |-> sessions[at[i]]]
        /\ lost' = lost \cup (Kept(sessions) \ Kept(sessions'))
        /\ UNCHANGED <<conns, writes>>

Next ==
    \/ \E s \in Station : Connect(s)
    \/ \E c \in Conn : Message(c) \/ Writes(c)
    \/ TimePasses \/ Collect

Spec == Init /\ [][Next]_vars

-----------------------------------------------------------------------------
\* The map has one session of a station, of one of its own connections, and never too
\* many; those used longest ago come first, which are the ones it gives up.
LeastRecentFirst ==
    /\ Len(sessions) <= MaxSessions /\ Cardinality(Kept(sessions)) = Len(sessions)
    /\ \A i, j \in DOMAIN sessions : i < j => sessions[i].age >= sessions[j].age
    /\ \A i \in DOMAIN sessions : conns[sessions[i].on].of = sessions[i].station

\* A station that connects again finds what its last connection left, written before or
\* after the last message.  It may not if, since the last message of that connection, the
\* session was collected or pushed out, which may happen while the station is connected;
\* or if an older connection had one, whose data then replaces the newer.
Restored == \A c \in Conn : conns[c].left \subseteq conns[c].data

\* "If a client reconnects with the same identity, their session object is restored"
\* (apps/docs/content/docs/ocpp-ws-io/system-design.mdx:104), over evictions, late message
\* events, the limit and the collector (server.ts:163-171,1325-1343,1524-1538, lru-map.ts:33-62).
SessionsKept == TypeOK /\ LeastRecentFirst /\ Restored
=============================================================================
