---------------------------- MODULE ServerRegistry ----------------------------
(***************************************************************************)
(* The registry of OCPPServer (packages/ocpp-ws-io/src/server.ts): which   *)
(* connections it holds, in _clients and in _clientsByIdentity, what it    *)
(* told the cluster about them, and how upgrades, evictions, disconnects   *)
(* and close() of the server interleave.                                   *)
(*                                                                         *)
(* An upgrade is checked against the state of the server and the cap on    *)
(* connections when it arrives, authenticates (asynchronously, when a      *)
(* middleware or an auth callback matches its path), and registers its     *)
(* client in one turn of the event loop.  Nothing is checked again in      *)
(* between but the socket itself.                                          *)
(***************************************************************************)
EXTENDS Naturals, FiniteSets

CONSTANTS
    Socket,         \* the upgrade requests, one socket each
    Identity,       \* the charging stations
    IdOf,           \* the identity each upgrade asks for
    MaxConnections, \* options.maxConnections
    Routes,         \* which upgrades may have a middleware or an auth callback
                    \* to wait for: the sets of them to choose from
    OwnServer,      \* did listen() create the HTTP server?
    NoSocket        \* no client under an identity

ASSUME IdOfAssumption == IdOf \in [Socket -> Identity]
ASSUME MaxAssumption == MaxConnections \in Nat
ASSUME RoutesAssumption == Routes \subseteq SUBSET Socket
ASSUME OwnServerAssumption == OwnServer \in BOOLEAN
ASSUME NoSocketAssumption == NoSocket \notin Socket

VARIABLES
    slow,       \* the upgrades that wait for their authentication
    server,     \* _state
    closeStep,  \* what close() of the server waits for
    stage,      \* how far each socket is
    clients,    \* _clients
    byIdentity, \* _clientsByIdentity
    presence,   \* the last word to the adapter on each identity
    waiting     \* the clients whose close() is awaited by close() of the server

vars == <<slow, server, closeStep, stage, clients, byIdentity, presence, waiting>>

CloseStep == {"none", "plugins", "drain", "clients", "http", "rest"}

\* A client whose close() was called is "awaiting" the calls it had in flight,
\* then "closing".  When one of those calls ends without telling its waiter the
\* client is "unheard": the wait never ends, and when the socket is gone the
\* client is "stuck", since the "close" event is for close() to emit.
Stage == {"new", "auth", "refused", "open", "awaiting", "unheard", "closing", "stuck", "gone"}

Connected == {"open", "awaiting", "unheard", "closing"}

Init ==
    /\ slow \in Routes
    /\ server = "OPEN"
    /\ closeStep = "none"
    /\ stage = [s \in Socket |-> "new"]
    /\ clients = {}
    /\ byIdentity = [i \in Identity |-> NoSocket]
    /\ presence = [i \in Identity |-> "none"]
    /\ waiting = {}

-----------------------------------------------------------------------------
(* Upgrades *)

\* Definitions with a suffix, such as this one, are slips a change to the code
\* could make: each of them breaks a property of this module.

\* off by one
Admits_OneMore == server = "OPEN" /\ Cardinality(clients) <= MaxConnections

\* Those guards of _handleUpgrade that look at the server.
Admits == server = "OPEN" /\ Cardinality(clients) < MaxConnections

\* close() of a client, called on the sockets in S, of which those in `asked' are
\* to wait for calls in flight.  Another close() only returns the promise of the
\* first, also when it is to use force.
Shut(S, asked) ==
    [s \in Socket |->
        IF s \notin S \/ stage[s] # "open" THEN stage[s]
        ELSE IF s \in asked THEN "awaiting" ELSE "closing"]

\* The callback of handleUpgrade: a client already registered under the
\* identity is closed by force and forgotten, the new one takes its place.
Register(s) ==
    LET old == byIdentity[IdOf[s]]
    IN  /\ stage' = [Shut({old}, {}) EXCEPT ![s] = "open"]
        /\ clients' = (clients \ {old}) \cup {s}
        /\ byIdentity' = [byIdentity EXCEPT ![IdOf[s]] = s]
        /\ presence' = [presence EXCEPT ![IdOf[s]] = "set"]

Refuse(s) ==
    /\ stage' = [stage EXCEPT ![s] = "refused"]
    /\ UNCHANGED <<clients, byIdentity, presence>>

\* Refusals other than the server's own: malformed requests, CORS, the rate
\* limit of the address, no route.
Upgrade(s) ==
    /\ stage[s] = "new"
    /\ \/ Refuse(s)
       \/ /\ Admits
          /\ s \in slow
          /\ stage' = [stage EXCEPT ![s] = "auth"]
          /\ UNCHANGED <<clients, byIdentity, presence>>
       \/ /\ Admits
          /\ s \notin slow
          /\ Register(s)
    /\ UNCHANGED <<slow, server, closeStep, waiting>>

\* The chain of middlewares accepts, and the socket is still open.
Authenticated(s) ==
    /\ stage[s] = "auth"
    /\ Register(s)
    /\ UNCHANGED <<slow, server, closeStep, waiting>>

\* It rejects, the handshake times out, or the socket goes away.
NotAuthenticated(s) ==
    /\ stage[s] = "auth"
    /\ Refuse(s)
    /\ UNCHANGED <<slow, server, closeStep, waiting>>

-----------------------------------------------------------------------------
(* The end of a client *)

\* The application, a plugin, or the count of bad messages closes one client.
CloseClient(s) ==
    /\ stage[s] = "open"
    /\ \E asked \in {{}, {s}} : stage' = Shut({s}, asked)
    /\ UNCHANGED <<slow, server, closeStep, clients, byIdentity, presence, waiting>>

\* The calls a client waits for have ended.  One that was answered told the
\* waiter; one that timed out, was aborted or could not be sent did not.
CallsEnd(s) ==
    /\ stage[s] = "awaiting"
    /\ \E to \in {"closing", "unheard"} : stage' = [stage EXCEPT ![s] = to]
    /\ UNCHANGED <<slow, server, closeStep, clients, byIdentity, presence, waiting>>

\* The socket of an unheard client is closed: nobody emits "close".
GetsStuck(s) ==
    /\ stage[s] = "unheard"
    /\ stage' = [stage EXCEPT ![s] = "stuck"]
    /\ UNCHANGED <<slow, server, closeStep, clients, byIdentity, presence, waiting>>

\* the identity is released whoever holds it
Closed_AlwaysReleases(s) ==
    /\ stage[s] \in Connected \ {"unheard"}
    /\ stage' = [stage EXCEPT ![s] = "gone"]
    /\ clients' = clients \ {s}
    /\ byIdentity' = [byIdentity EXCEPT ![IdOf[s]] = NoSocket]
    /\ presence' = [presence EXCEPT ![IdOf[s]] = "removed"]
    /\ UNCHANGED <<slow, server, closeStep, waiting>>

\* presence is removed also for an evicted client
Closed_WipesPresence(s) ==
    /\ stage[s] \in Connected \ {"unheard"}
    /\ stage' = [stage EXCEPT ![s] = "gone"]
    /\ clients' = clients \ {s}
    /\ IF byIdentity[IdOf[s]] = s
       THEN byIdentity' = [byIdentity EXCEPT ![IdOf[s]] = NoSocket]
       ELSE UNCHANGED byIdentity
    /\ presence' = [presence EXCEPT ![IdOf[s]] = "removed"]
    /\ UNCHANGED <<slow, server, closeStep, waiting>>

\* The "close" event of a client, when its socket is gone and with it the calls
\* it waited for: the identity is released only by the client that holds it, an
\* evicted one leaves its replacement alone.
Closed(s) ==
    /\ stage[s] \in Connected \ {"unheard"}
    /\ stage' = [stage EXCEPT ![s] = "gone"]
    /\ clients' = clients \ {s}
    /\ IF byIdentity[IdOf[s]] = s
       THEN /\ byIdentity' = [byIdentity EXCEPT ![IdOf[s]] = NoSocket]
            /\ presence' = [presence EXCEPT ![IdOf[s]] = "removed"]
       ELSE UNCHANGED <<byIdentity, presence>>
    /\ UNCHANGED <<slow, server, closeStep, waiting>>

-----------------------------------------------------------------------------
(* close() and listen() of the server *)

BeginClose ==
    /\ server = "OPEN"
    /\ server' = "CLOSING"
    /\ closeStep' = "plugins"
    /\ UNCHANGED <<slow, stage, clients, byIdentity, presence, waiting>>

\* The onClosing hooks have settled: the intervals stop.
StopTimers ==
    /\ closeStep = "plugins"
    /\ closeStep' = "drain"
    /\ UNCHANGED <<slow, server, stage, clients, byIdentity, presence, waiting>>

\* waits for clients nobody closes
CloseClients_OnlyWaits ==
    /\ closeStep = "drain"
    /\ closeStep' = "clients"
    /\ waiting' = clients
    /\ UNCHANGED <<slow, server, stage, clients, byIdentity, presence>>

\* Buffers have drained, or five seconds have passed: the clients of this
\* moment are closed.
CloseClients ==
    /\ closeStep = "drain"
    /\ closeStep' = "clients"
    /\ waiting' = clients
    /\ \E asked \in SUBSET {s \in clients : stage[s] = "open"} : stage' = Shut(clients, asked)
    /\ UNCHANGED <<slow, server, clients, byIdentity, presence>>

\* Their close() has resolved; the HTTP servers are closed.
ClientsClosed ==
    /\ closeStep = "clients"
    /\ \A s \in waiting : stage[s] = "gone"
    /\ closeStep' = "http"
    /\ waiting' = {}
    /\ UNCHANGED <<slow, server, stage, clients, byIdentity, presence>>

\* close() of an HTTP server of Node calls back when its last socket has ended,
\* upgraded ones included.  A server that was passed to listen() stays open.
HttpClosed ==
    /\ closeStep = "http"
    /\ OwnServer => \A s \in Socket : stage[s] \notin Connected \cup {"auth"}
    /\ closeStep' = "rest"
    /\ UNCHANGED <<slow, server, stage, clients, byIdentity, presence, waiting>>

\* The worker pool, the onClose hooks and the adapter, each awaited.
FinishClose ==
    /\ closeStep = "rest"
    /\ closeStep' = "none"
    /\ server' = "CLOSED"
    /\ UNCHANGED <<slow, stage, clients, byIdentity, presence, waiting>>

Listen ==
    /\ server = "CLOSED"
    /\ server' = "OPEN"
    /\ UNCHANGED <<slow, closeStep, stage, clients, byIdentity, presence, waiting>>

CloseGoesOn == StopTimers \/ CloseClients \/ ClientsClosed \/ HttpClosed \/ FinishClose

Next ==
    \/ \E s \in Socket :
          \/ Upgrade(s) \/ Authenticated(s) \/ NotAuthenticated(s)
          \/ CloseClient(s) \/ CallsEnd(s) \/ GetsStuck(s) \/ Closed(s)
    \/ BeginClose \/ CloseGoesOn \/ Listen

Spec == Init /\ [][Next]_vars

\* Each wait of close() for its own timers and hooks ends: the drain is cut off
\* after five seconds.  A closing handshake ends by itself or by the timer of the
\* ws library, and every call has a timeout.
Fairness ==
    /\ WF_vars(CloseGoesOn)
    /\ \A s \in Socket : WF_vars(CallsEnd(s)) /\ WF_vars(stage[s] = "closing" /\ Closed(s))

FairSpec == Spec /\ Fairness

-----------------------------------------------------------------------------
(* Properties *)

TypeOK ==
    /\ slow \subseteq Socket
    /\ server \in {"OPEN", "CLOSING", "CLOSED"}
    /\ closeStep \in CloseStep
    /\ stage \in [Socket -> Stage]
    /\ clients \subseteq Socket
    /\ byIdentity \in [Identity -> Socket \cup {NoSocket}]
    /\ presence \in [Identity -> {"none", "set", "removed"}]
    /\ waiting \subseteq Socket

\* The two collections of the server agree: each client is the one found under
\* its identity, and what is found under an identity is a client.  A "close"
\* event of an evicted connection that comes late must not take the identity
\* from its replacement (server.ts:1398-1401).
RegistryExact ==
    /\ \A s \in clients : byIdentity[IdOf[s]] = s
    /\ \A i \in Identity :
          byIdentity[i] # NoSocket => byIdentity[i] \in clients /\ IdOf[byIdentity[i]] = i

\* Whatever still talks is tracked, so broadcast() and close() of the server
\* forget no open client; and whatever is tracked is still connected, but for a
\* client that is stuck in its own close().
TrackedExact ==
    /\ \A s \in Socket : stage[s] = "open" => s \in clients
    /\ \A s \in clients : stage[s] \in Connected \cup {"stuck"}

\* The last word to the cluster on an identity says whether it is connected
\* here: eviction, close and reconnection in any order leave no stale entry
\* and no missing one.
PresenceExact ==
    \A i \in Identity : presence[i] = "set" <=> byIdentity[i] # NoSocket

\* The collections, the sockets and the word to the cluster agree at every step, in
\* whatever order connections come, are evicted and close (server.ts:1331-1427).
CollectionsExact == RegistryExact /\ TrackedExact /\ PresenceExact

\* Where no upgrade waits for its authentication, the cap on concurrent
\* connections (types.ts:624) holds: eviction and upgrade in one task neither
\* leave room for one more nor count the evicted client (server.ts:830-848).
CapRespected == slow = {} => Cardinality(clients) <= MaxConnections

\* A server that says it is CLOSED holds no client, "Close all clients"
\* (server.ts:1625), unless one was authenticating when it began to close.
ClosedIsEmpty == slow = {} /\ server = "CLOSED" => clients = {}

\* What a server promises where no upgrade waits (server.ts:817-849,1561-1707).
GuardsHold == CapRespected /\ ClosedIsEmpty

\* To the other nodes the server is a NodeView.
View == INSTANCE NodeView WITH
            connected <- {i \in Identity : byIdentity[i] # NoSocket},
            announced <- presence

\* An identity is announced and withdrawn exactly with the steps that connect and
\* disconnect it: no close of an evicted connection withdraws it, no upgrade
\* forgets to announce it (server.ts:1373-1412).
NodeViewImplemented == View!NodeSpec

\* close() of the server waits for the close() of a client that will never hear
\* of its calls, or its HTTP server for the socket of one.
Blocked ==
    \/ closeStep = "clients" /\ \E s \in waiting : stage[s] \in {"unheard", "stuck"}
    \/ closeStep = "http" /\ OwnServer /\ \E s \in Socket : stage[s] = "unheard"

\* Where no upgrade waits for its authentication, close() of the server ends,
\* also for a server that waits for its HTTP server, unless it stays blocked by a
\* client whose close() waits for a call that timed out, was aborted or failed
\* (server.ts:1561-1707, client.ts:462-479): nothing else keeps it.
CloseEnds == slow = {} /\ server = "CLOSING" ~> server = "CLOSED" \/ []Blocked
=============================================================================
