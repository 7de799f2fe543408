------------------------------- MODULE Cluster --------------------------------
(***************************************************************************)
(* A cluster of servers over the Redis adapter: the presence registry, and *)
(* calls that sendToClient (packages/ocpp-ws-io/src/server.ts) forwards to *)
(* the node that holds the station and answers over a correlation id.      *)
(*                                                                         *)
(* What a node knows of its own stations is local, with the promise of     *)
(* NodeView: each connection and each disconnection issues one presence    *)
(* command.  Commands are fire and forget; those of one node reach Redis   *)
(* in their order, through one connection.  A node reads its own stream    *)
(* and each message once (see RedisStream; a Redis client that sends a     *)
(* command again may add one twice, which is left out here).  The id of a  *)
(* node is drawn when the process starts: a process that starts again      *)
(* after a crash is another node.                                          *)
(***************************************************************************)
EXTENDS Naturals, Sequences, SequencesExt, FiniteSets

CONSTANTS
    Node,         \* the processes, by the id each draws
    Identity,     \* the charging stations
    Call,         \* the calls of sendToClient
    NoNode,       \* no presence entry
    MaxCommands,  \* bound: presence commands of a node under way
    MaxConnects,  \* bound: connections made by stations
    MaxBlackouts  \* bound: times Redis loses its data

VARIABLES
    up,        \* "new", "up" or "down"
    local,     \* keys of _clientsByIdentity of each node
    commands,  \* presence commands of each node on their way to Redis
    registry,  \* the presence keys in Redis
    stream,    \* the unread part of ocpp:node:<id>
    call,      \* each call of sendToClient
    unpublished, \* calls whose publish() has not ended
    pending,   \* _pendingRemoteCalls of each node
    serving,   \* forwarded calls a node has handed to its client
    delivered, \* history: how often a call was handed to a client
    connects, blackouts

vars == <<up, local, commands, registry, stream, call, unpublished, pending, serving, delivered,
          connects, blackouts>>

presenceVars == <<commands, registry, local, connects, blackouts>>
callVars == <<call, unpublished, pending, serving, delivered>>

\* "answered" and "refused" came back from the other node, "failed" was settled
\* by the origin itself.
Settled == {"answered", "refused", "failed", "timeout", "notfound"}

Phase == {"idle", "lookup", "waiting", "crashed"} \cup Settled

NoCall == [phase |-> "idle", origin |-> NoNode, target |-> NoNode, node |-> NoNode]

Init ==
    /\ up = [n \in Node |-> "new"]
    /\ local = [n \in Node |-> {}]
    /\ commands = [n \in Node |-> <<>>]
    /\ registry = [i \in Identity |-> NoNode]
    /\ stream = [n \in Node |-> <<>>]
    /\ call = [c \in Call |-> NoCall]
    /\ unpublished = {}
    /\ pending = [n \in Node |-> {}]
    /\ serving = [n \in Node |-> {}]
    /\ delivered = [c \in Call |-> 0]
    /\ connects = 0 /\ blackouts = 0

-----------------------------------------------------------------------------
(* Presence *)

SetOf(S) == [op |-> "set", ids |-> S]
RemoveOf(i) == [op |-> "remove", ids |-> {i}]

Issue(n, cmd) == commands' = [commands EXCEPT ![n] = Append(@, cmd)]
Room(n) == Len(commands[n]) < MaxCommands

\* setAdapter and listen of a process.
Start(n) ==
    /\ up[n] = "new"
    /\ up' = [up EXCEPT ![n] = "up"]
    /\ UNCHANGED <<presenceVars, stream, callVars>>

\* A station connects, possibly while another node still believes it has it.
Connect(n, i) ==
    /\ up[n] = "up" /\ Room(n)
    /\ connects < MaxConnects
    /\ connects' = connects + 1
    /\ local' = [local EXCEPT ![n] = @ \cup {i}]
    /\ Issue(n, SetOf({i}))
    /\ UNCHANGED <<up, registry, stream, blackouts, callVars>>

Disconnect(n, i) ==
    /\ up[n] = "up" /\ i \in local[n] /\ Room(n)
    /\ local' = [local EXCEPT ![n] = @ \ {i}]
    /\ Issue(n, RemoveOf(i))
    /\ UNCHANGED <<up, registry, stream, connects, blackouts, callVars>>

\* Definitions with a suffix, such as this one, are slips a change to the code
\* could make: each of them breaks a property of this module.
RefreshPresence_Never(n) == FALSE /\ UNCHANGED vars

\* The presence heartbeat, and the rehydration when Redis is back: its cache
\* holds what was set and not removed, the local identities.
RefreshPresence(n) ==
    /\ up[n] = "up" /\ local[n] # {} /\ Room(n)
    /\ Issue(n, SetOf(local[n]))
    /\ UNCHANGED <<up, local, registry, stream, connects, blackouts, callVars>>

\* Redis executes the next command of a node: SET overwrites and DEL deletes
\* whatever is there, also the entry of another node.
ExecuteCommand(n) ==
    /\ commands[n] # <<>>
    /\ LET cmd == Head(commands[n])
       IN  registry' = [i \in Identity |->
               IF i \notin cmd.ids THEN registry[i]
               ELSE IF cmd.op = "set" THEN n ELSE NoNode]
    /\ commands' = [commands EXCEPT ![n] = Tail(@)]
    /\ UNCHANGED <<up, local, stream, connects, blackouts, callVars>>

\* An entry nobody refreshes reaches its TTL.
Expire(i) ==
    /\ registry[i] # NoNode
    /\ i \notin local[registry[i]]
    /\ registry' = [registry EXCEPT ![i] = NoNode]
    /\ UNCHANGED <<up, local, commands, stream, connects, blackouts, callVars>>

\* Redis comes back without its data; every node that is up rehydrates.
Blackout ==
    /\ blackouts < MaxBlackouts
    /\ blackouts' = blackouts + 1
    /\ registry' = [i \in Identity |-> NoNode]
    /\ stream' = [n \in Node |-> <<>>]
    /\ commands' = [n \in Node |->
           IF up[n] = "up" /\ local[n] # {} THEN Append(commands[n], SetOf(local[n])) ELSE commands[n]]
    /\ UNCHANGED <<up, local, connects, callVars>>

-----------------------------------------------------------------------------
(* Forwarded calls *)

Request(c) == [type |-> "request", call |-> c]
Result(c, ok) == [type |-> "result", call |-> c, ok |-> ok]

Send(n, m) == [stream EXCEPT ![n] = Append(@, m)]

Settle(c, how) == call' = [call EXCEPT ![c].phase = how]

\* sendToClient of a station that is not here; a local one is an ordinary call.
SendToClient(n, i, c) ==
    /\ up[n] = "up" /\ call[c].phase = "idle" /\ i \notin local[n]
    /\ call' = [call EXCEPT ![c] = [phase |-> "lookup", origin |-> n, target |-> i, node |-> NoNode]]
    /\ UNCHANGED <<up, stream, presenceVars, unpublished, pending, serving, delivered>>

\* getPresence answers; the entry is pending before the request is published.
\* The station may have come to this very node meanwhile: nobody looks again.
LookupEnds(c) ==
    LET node == registry[call[c].target]
        n == call[c].origin
    IN  /\ call[c].phase = "lookup"
        /\ \/ /\ node = NoNode
              /\ Settle(c, "notfound")
              /\ UNCHANGED <<unpublished, pending>>
           \/ /\ node # NoNode
              /\ call' = [call EXCEPT ![c].phase = "waiting", ![c].node = node]
              /\ pending' = [pending EXCEPT ![n] = @ \cup {c}]
              /\ unpublished' = unpublished \cup {c}
        /\ UNCHANGED <<up, stream, presenceVars, serving, delivered>>

Published(c) ==
    /\ c \in unpublished
    /\ unpublished' = unpublished \ {c}
    /\ stream' = Send(call[c].node, Request(c))
    /\ UNCHANGED <<up, presenceVars, call, pending, serving, delivered>>

\* publish() rejects, whether or not the request reached Redis.
PublishFails(c) ==
    LET n == call[c].origin
    IN  /\ c \in unpublished
        /\ unpublished' = unpublished \ {c}
        /\ stream' \in {stream, Send(call[c].node, Request(c))}
        /\ IF c \in pending[n]
           THEN /\ pending' = [pending EXCEPT ![n] = @ \ {c}]
                /\ Settle(c, "failed")
           ELSE UNCHANGED <<pending, call>>
        /\ UNCHANGED <<up, presenceVars, serving, delivered>>

\* the entry survives the timer
Timeout_KeepsEntry(c) ==
    LET n == call[c].origin
    IN  /\ call[c].phase = "waiting" /\ c \in pending[n]
        /\ Settle(c, "timeout")
        /\ UNCHANGED <<up, stream, presenceVars, unpublished, pending, serving, delivered>>

\* The timer of a pending call: the timeout of the call and a second of grace.
Timeout(c) ==
    LET n == call[c].origin
    IN  /\ call[c].phase = "waiting" /\ c \in pending[n]
        /\ pending' = [pending EXCEPT ![n] = @ \ {c}]
        /\ Settle(c, "timeout")
        /\ UNCHANGED <<up, stream, presenceVars, unpublished, serving, delivered>>

Read(n) == up[n] = "up" /\ stream[n] # <<>>

\* _onUnicast, request leg: the call goes to the client under its identity.
Deliver(n) ==
    /\ Read(n)
    /\ LET m == Head(stream[n])
       IN  /\ m.type = "request"
           /\ call[m.call].target \in local[n]
           /\ serving' = [serving EXCEPT ![n] = @ \cup {m.call}]
           /\ delivered' = [delivered EXCEPT ![m.call] = @ + 1]
    /\ stream' = [stream EXCEPT ![n] = Tail(@)]
    /\ UNCHANGED <<up, presenceVars, call, unpublished, pending>>

\* The registry was wrong: the caller is told and the entry is removed.
NotHere(n) ==
    /\ Read(n) /\ Room(n)
    /\ LET m == Head(stream[n])
           c == m.call
       IN  /\ m.type = "request"
           /\ call[c].target \notin local[n]
           /\ stream' = LET rest == [stream EXCEPT ![n] = Tail(@)]
                        IN  [rest EXCEPT ![call[c].origin] = Append(@, Result(c, FALSE))]
           /\ Issue(n, RemoveOf(call[c].target))
    /\ UNCHANGED <<up, local, registry, connects, blackouts, callVars>>

\* no entry is looked for
ResultArrives_Unchecked(n) ==
    /\ Read(n)
    /\ LET m == Head(stream[n])
           c == m.call
       IN  /\ m.type = "result"
           /\ pending' = [pending EXCEPT ![n] = @ \ {c}]
           /\ Settle(c, IF m.ok THEN "answered" ELSE "refused")
    /\ stream' = [stream EXCEPT ![n] = Tail(@)]
    /\ UNCHANGED <<up, presenceVars, unpublished, serving, delivered>>

\* _onUnicast, response leg: late and repeated answers find no entry.
ResultArrives(n) ==
    /\ Read(n)
    /\ LET m == Head(stream[n])
           c == m.call
       IN  /\ m.type = "result"
           /\ IF c \in pending[n]
              THEN /\ pending' = [pending EXCEPT ![n] = @ \ {c}]
                   /\ Settle(c, IF m.ok THEN "answered" ELSE "refused")
              ELSE UNCHANGED <<pending, call>>
    /\ stream' = [stream EXCEPT ![n] = Tail(@)]
    /\ UNCHANGED <<up, presenceVars, unpublished, serving, delivered>>

\* The call of the client settles: its result is published, or is lost when
\* that fails.
Served(n, c, ok) ==
    /\ c \in serving[n]
    /\ serving' = [serving EXCEPT ![n] = @ \ {c}]
    /\ stream' \in {stream, Send(call[c].origin, Result(c, ok))}
    /\ UNCHANGED <<up, presenceVars, call, unpublished, pending, delivered>>

-----------------------------------------------------------------------------
(* The end of a process *)

Mine(n) == {c \in Call : call[c].origin = n /\ call[c].phase \in {"lookup", "waiting"}}

\* A crash: memory is lost, and the commands not yet executed may be too.
Crash(n) ==
    /\ up[n] = "up"
    /\ up' = [up EXCEPT ![n] = "down"]
    /\ local' = [local EXCEPT ![n] = {}]
    /\ commands' = [commands EXCEPT ![n] = <<>>]
    /\ call' = [c \in Call |-> IF c \in Mine(n) THEN [call[c] EXCEPT !.phase = "crashed"] ELSE call[c]]
    /\ unpublished' = unpublished \ Mine(n)
    /\ pending' = [pending EXCEPT ![n] = {}]
    /\ serving' = [serving EXCEPT ![n] = {}]
    /\ UNCHANGED <<registry, stream, delivered, connects, blackouts>>

\* close() of the server, its clients closed: pending calls are rejected, then
\* the adapter disconnects after the commands it was given.
CloseServer(n) ==
    /\ up[n] = "up" /\ local[n] = {}
    /\ up' = [up EXCEPT ![n] = "down"]
    /\ pending' = [pending EXCEPT ![n] = {}]
    /\ call' = [c \in Call |-> IF c \in pending[n] THEN [call[c] EXCEPT !.phase = "failed"] ELSE call[c]]
    /\ UNCHANGED <<presenceVars, stream, unpublished, serving, delivered>>

Next ==
    \/ \E n \in Node, i \in Identity : Connect(n, i) \/ Disconnect(n, i)
    \/ \E n \in Node : \/ Start(n) \/ RefreshPresence(n) \/ ExecuteCommand(n)
                       \/ Deliver(n) \/ NotHere(n) \/ ResultArrives(n)
                       \/ Crash(n) \/ CloseServer(n)
    \/ \E i \in Identity : Expire(i)
    \/ Blackout
    \/ \E n \in Node, i \in Identity, c \in Call : SendToClient(n, i, c)
    \/ \E c \in Call : LookupEnds(c) \/ Published(c) \/ PublishFails(c) \/ Timeout(c)
    \/ \E n \in Node, c \in Call, ok \in BOOLEAN : Served(n, c, ok)

Spec == Init /\ [][Next]_vars

\* Redis answers and executes, nodes read their streams, timers run.
FairSpec ==
    /\ Spec
    /\ \A n \in Node : /\ WF_vars(Start(n))
                       /\ WF_vars(RefreshPresence(n))
                       /\ WF_vars(ExecuteCommand(n))
                       /\ WF_vars(Deliver(n) \/ NotHere(n) \/ ResultArrives(n))
    /\ \A c \in Call : /\ WF_vars(LookupEnds(c))
                       /\ WF_vars(Published(c) \/ PublishFails(c))
                       /\ WF_vars(Timeout(c))

-----------------------------------------------------------------------------
(* Properties *)

Commands == [op : {"set", "remove"}, ids : SUBSET Identity]
Messages == [type : {"request"}, call : Call]
            \cup [type : {"result"}, call : Call, ok : BOOLEAN]

TypeOK ==
    /\ up \in [Node -> {"new", "up", "down"}]
    /\ local \in [Node -> SUBSET Identity]
    /\ \A n \in Node : commands[n] \in Seq(Commands)
    /\ registry \in [Identity -> Node \cup {NoNode}]
    /\ \A n \in Node : stream[n] \in Seq(Messages)
    /\ \A c \in Call : call[c].phase \in Phase
    /\ unpublished \subseteq Call
    /\ pending \in [Node -> SUBSET Call]
    /\ serving \in [Node -> SUBSET Call]
    /\ delivered \in [Call -> Nat]

\* A call waits exactly as long as its entry is in the map of its origin: a call
\* whose entry is gone could never settle, an entry whose call has settled
\* would stay for ever (server.ts:1868-1901, 2119-2122).
PendingExact ==
    \A c \in Call, n \in Node :
        c \in pending[n] <=> (call[c].phase = "waiting" /\ call[c].origin = n)

\* A request is handed to a client at most once, whatever fails or restarts, and
\* an answer is that of a client it was handed to (server.ts:2138-2232).
HandedOverOnce ==
    \A c \in Call : delivered[c] <= 1 /\ (call[c].phase = "answered" => delivered[c] = 1)

\* Forwarded calls leave nothing behind and reach the station once, from the lookup to
\* the answer (server.ts:1857-1902, 2119-2232).
RequestsExact == TypeOK /\ PendingExact /\ HandedOverOnce

\* What the caller of sendToClient was told is final: late answers, timers and
\* a failing publish() do not settle a call again.
SettledIsFinal ==
    [][\A c \in Call : call[c].phase \in Settled => call'[c].phase = call[c].phase]_vars

\* sendToClient always settles while its node lives, whatever becomes of the
\* other node, of Redis and of the messages.
CallsSettle ==
    \A c \in Call : call[c].phase = "lookup" ~> call[c].phase \in Settled \cup {"crashed"}

OnlyAt(n, i) == \A m \in Node : i \in local[m] <=> m = n

\* A station that stays at one node is found there in the end, whatever its
\* moves, crashed nodes and blackouts left behind: the heartbeat repairs it.
PresenceConverges ==
    \A n \in Node, i \in Identity : <>[]OnlyAt(n, i) => <>[](registry[i] = n)

\* In the end every caller is told and every station that stays is found, over crashes,
\* blackouts and lost answers (server.ts:1840-1910,2048-2080, adapters/redis/index.ts:423-435).
ClusterSettles == CallsSettle /\ PresenceConverges
=============================================================================
