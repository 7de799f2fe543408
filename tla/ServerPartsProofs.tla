---------------------------- MODULE ServerPartsProofs ----------------------------
(***************************************************************************)
(* Theorems about the parts of MCServerParts, for every value of their     *)
(* constants.  The collections of a server agree, and agree with the       *)
(* sockets and with what the cluster was told, for any number of stations  *)
(* and upgrades and any order of evictions, closes and shutdowns; what     *)
(* _safeSend is given keeps its order and has one fate; no guard of an     *)
(* incoming call outlives its handler, and messages are dispatched in the  *)
(* order of the wire.                                                      *)
(***************************************************************************)
EXTENDS MCServerParts, FiniteSetTheorems, SequenceTheorems, TLAPS

-----------------------------------------------------------------------------
(* The registry *)

\* The four invariants are inductive together: what a "close" event does is
\* right only if the identity it looks at is held by a tracked client, and the
\* eviction only if the client it replaces is the one tracked under it.
RegistryInv == TypeOK /\ RegistryExact /\ TrackedExact /\ PresenceExact

\* The server starts with no client and no socket.
LEMMA RegistryInit == Init => RegistryInv
BY NoSocketAssumption, RoutesAssumption
   DEF Init, RegistryInv, TypeOK, RegistryExact, TrackedExact, PresenceExact, Stage, CloseStep

\* Registering a client, whatever was under its identity, keeps the invariant.
LEMMA RegisterKeeps ==
    ASSUME RegistryInv, NEW s \in Socket, stage[s] \in {"new", "auth"}, Register(s),
           UNCHANGED <<slow, server, closeStep, waiting>>
    PROVE  RegistryInv'
<1> USE NoSocketAssumption, IdOfAssumption
<1> DEFINE old == byIdentity[IdOf[s]]
<1>1. TypeOK'
  BY DEF RegistryInv, TypeOK, Register, Shut, Stage
<1>2. s \notin clients
  BY DEF RegistryInv, TrackedExact, Connected, TypeOK
<1>3. \A t \in clients : t # old => IdOf[t] # IdOf[s]
  BY DEF RegistryInv, RegistryExact, TypeOK
<1>4. RegistryExact'
  BY <1>2, <1>3 DEF RegistryInv, RegistryExact, Register, TypeOK
<1>5. TrackedExact'
  BY <1>2 DEF RegistryInv, TrackedExact, Register, Shut, Connected, TypeOK, Stage
<1>6. PresenceExact'
  BY DEF RegistryInv, PresenceExact, Register, TypeOK
<1> QED BY <1>1, <1>4, <1>5, <1>6 DEF RegistryInv

\* So does a refused upgrade.
LEMMA RefuseKeeps ==
    ASSUME RegistryInv, NEW s \in Socket, stage[s] \in {"new", "auth"}, Refuse(s),
           UNCHANGED <<slow, server, closeStep, waiting>>
    PROVE  RegistryInv'
BY DEF RegistryInv, TypeOK, RegistryExact, TrackedExact, PresenceExact, Refuse, Stage, Connected

\* The "close" event of a client releases its own identity only.
LEMMA ClosedKeeps ==
    ASSUME RegistryInv, NEW s \in Socket, Closed(s)
    PROVE  RegistryInv'
<1> USE NoSocketAssumption, IdOfAssumption
<1>1. TypeOK'
  BY DEF RegistryInv, TypeOK, Closed, Stage
<1>2. RegistryExact'
  <2>1. CASE byIdentity[IdOf[s]] = s
    <3>1. \A t \in clients' : t # s /\ IdOf[t] # IdOf[s]
      BY <2>1 DEF RegistryInv, RegistryExact, Closed
    <3>2. \A i \in Identity : i # IdOf[s] => byIdentity[i] # s
      BY NoSocketAssumption DEF RegistryInv, RegistryExact, TypeOK
    <3>3. byIdentity' = [byIdentity EXCEPT ![IdOf[s]] = NoSocket] /\ clients' = clients \ {s}
      BY <2>1 DEF Closed
    <3>4. \A t \in clients : t \in Socket /\ IdOf[t] \in Identity /\ IdOf[s] \in Identity
      BY DEF RegistryInv, TypeOK
    <3>5. \A t \in clients' : byIdentity'[IdOf[t]] = t
      BY <3>1, <3>3, <3>4 DEF RegistryInv, RegistryExact, TypeOK
    <3>6. \A i \in Identity :
             byIdentity'[i] # NoSocket => byIdentity'[i] \in clients' /\ IdOf[byIdentity'[i]] = i
      BY <3>2, <3>3 DEF RegistryInv, RegistryExact, TypeOK
    <3> QED BY <3>5, <3>6 DEF RegistryExact
  <2>2. CASE byIdentity[IdOf[s]] # s
    BY <2>2 DEF RegistryInv, RegistryExact, Closed, TypeOK
  <2> QED BY <2>1, <2>2
<1>3. TrackedExact'
  BY DEF RegistryInv, TrackedExact, Closed, Connected, TypeOK
<1>4. PresenceExact'
  BY DEF RegistryInv, PresenceExact, Closed, TypeOK
<1> QED BY <1>1, <1>2, <1>3, <1>4 DEF RegistryInv

\* Closing clients, one or all of them, changes stages only.
LEMMA ShutKeeps ==
    ASSUME RegistryInv, NEW S \in SUBSET Socket, NEW asked, stage' = Shut(S, asked),
           UNCHANGED <<slow, server, clients, byIdentity, presence>>,
           closeStep' \in CloseStep, waiting' \subseteq Socket
    PROVE  RegistryInv'
BY DEF RegistryInv, TypeOK, RegistryExact, TrackedExact, PresenceExact, Shut, Stage, Connected

\* What a client waits for ends, or its socket does: neither touches the tables.
LEMMA WaitKeeps ==
    ASSUME RegistryInv, NEW s \in Socket, CallsEnd(s) \/ GetsStuck(s)
    PROVE  RegistryInv'
<1>1. PICK to \in {"closing", "unheard", "stuck"} : stage' = [stage EXCEPT ![s] = to]
  BY DEF CallsEnd, GetsStuck
<1>2. UNCHANGED <<slow, server, closeStep, clients, byIdentity, presence, waiting>>
  BY DEF CallsEnd, GetsStuck
<1>3. stage' \in [Socket -> Stage]
  BY <1>1 DEF RegistryInv, TypeOK, Stage
<1> QED
  BY <1>1, <1>2, <1>3 DEF RegistryInv, TypeOK, RegistryExact, TrackedExact, PresenceExact, Connected

LEMMA RegistryStep == RegistryInv /\ [Next]_vars => RegistryInv'
<1> SUFFICES ASSUME RegistryInv, [Next]_vars PROVE RegistryInv'
  OBVIOUS
<1>1. ASSUME NEW s \in Socket, Upgrade(s) PROVE RegistryInv'
  BY <1>1, RegisterKeeps, RefuseKeeps
     DEF Upgrade, RegistryInv, TypeOK, RegistryExact, TrackedExact, PresenceExact, Stage, Connected
<1>2. ASSUME NEW s \in Socket, Authenticated(s) PROVE RegistryInv'
  BY <1>2, RegisterKeeps DEF Authenticated
<1>3. ASSUME NEW s \in Socket, NotAuthenticated(s) PROVE RegistryInv'
  BY <1>3, RefuseKeeps DEF NotAuthenticated
<1>4. ASSUME NEW s \in Socket, CloseClient(s) PROVE RegistryInv'
  <2>1. closeStep' \in CloseStep /\ waiting' \subseteq Socket
    BY <1>4 DEF CloseClient, RegistryInv, TypeOK
  <2> QED BY <1>4, <2>1, ShutKeeps DEF CloseClient
<1>5. ASSUME NEW s \in Socket, CallsEnd(s) \/ GetsStuck(s) \/ Closed(s) PROVE RegistryInv'
  BY <1>5, WaitKeeps, ClosedKeeps
<1>6. CASE CloseClients
  <2>1. closeStep' \in CloseStep /\ waiting' \subseteq Socket /\ clients \in SUBSET Socket
    BY <1>6 DEF CloseClients, RegistryInv, TypeOK, CloseStep
  <2> QED BY <1>6, <2>1, ShutKeeps DEF CloseClients
<1>7. CASE BeginClose \/ StopTimers \/ ClientsClosed \/ HttpClosed \/ FinishClose \/ Listen
  BY <1>7 DEF BeginClose, StopTimers, ClientsClosed, HttpClosed, FinishClose, Listen,
     RegistryInv, TypeOK, RegistryExact, TrackedExact, PresenceExact, CloseStep
<1>8. CASE UNCHANGED vars
  BY <1>8 DEF vars, RegistryInv, TypeOK, RegistryExact, TrackedExact, PresenceExact
<1> QED BY <1>1, <1>2, <1>3, <1>4, <1>5, <1>6, <1>7, <1>8 DEF Next, CloseGoesOn

\* The inductive invariant holds in every behaviour.
THEOREM RegistryInvariant == Spec => []RegistryInv
BY RegistryInit, RegistryStep, PTL DEF Spec

\* The type invariant of the registry.
THEOREM RegistryTyped == Spec => []TypeOK
<1>1. RegistryInv => TypeOK
  BY DEF RegistryInv
<1> QED BY <1>1, RegistryInvariant, PTL

\* The set of clients and the map of identities agree, every open client is tracked and
\* every tracked client connected, and the last word to the cluster on an identity is right.
THEOREM CollectionsAgree == Spec => []CollectionsExact
<1>1. RegistryInv => CollectionsExact
  BY DEF RegistryInv, CollectionsExact
<1> QED BY <1>1, RegistryInvariant, PTL

\* The registry implements NodeView: registrations map to Connects, the "close"
\* events of clients that hold their identity to Disconnects, all else stutters.
THEOREM ImplementsNodeView == Spec => NodeViewImplemented
<1> USE NoSocketAssumption, IdOfAssumption
<1>1. Init => View!NodeInit
  BY DEF Init, View!NodeInit
<1>2. RegistryInv /\ [Next]_vars => [View!NodeNext]_(View!view)
  <2> SUFFICES ASSUME RegistryInv, [Next]_vars PROVE View!NodeNext \/ UNCHANGED View!view
    OBVIOUS
  <2>1. ASSUME NEW s \in Socket, Register(s) PROVE View!NodeNext
    <3>1. IdOf[s] \in Identity
      OBVIOUS
    <3>2. View!Connects(IdOf[s])
      BY <2>1 DEF Register, View!Connects, RegistryInv, TypeOK
    <3> QED BY <3>1, <3>2 DEF View!NodeNext
  <2>2. ASSUME NEW s \in Socket, Closed(s) PROVE View!NodeNext \/ UNCHANGED View!view
    <3>1. IdOf[s] \in Identity
      OBVIOUS
    <3>2. CASE byIdentity[IdOf[s]] = s
      <4>1. View!Disconnects(IdOf[s])
        BY <2>2, <3>2 DEF Closed, View!Disconnects, RegistryInv, TypeOK
      <4> QED BY <3>1, <4>1 DEF View!NodeNext
    <3>3. CASE byIdentity[IdOf[s]] # s
      BY <2>2, <3>3 DEF Closed, View!view
    <3> QED BY <3>2, <3>3
  <2>3. ASSUME UNCHANGED <<byIdentity, presence>> PROVE UNCHANGED View!view
    BY <2>3 DEF View!view
  <2> QED
    BY <2>1, <2>2, <2>3 DEF Next, CloseGoesOn, Upgrade, Authenticated, NotAuthenticated,
       Refuse, CloseClient, CallsEnd, GetsStuck, BeginClose, StopTimers, CloseClients, ClientsClosed, HttpClosed,
       FinishClose, Listen, vars
<1> QED BY <1>1, <1>2, RegistryInvariant, PTL DEF Spec, NodeViewImplemented, View!NodeSpec

-----------------------------------------------------------------------------
(* Without a wait between the checks of an upgrade and its registration *)

\* Nobody is between them, the cap holds for a finite set of clients, and from
\* the moment close() takes its snapshot no client is missing from it.
SyncInv ==
    /\ \A s \in Socket : stage[s] # "auth"
    /\ IsFiniteSet(clients) /\ Cardinality(clients) <= MaxConnections
    /\ closeStep = "none" <=> server # "CLOSING"
    /\ closeStep = "clients" => clients \subseteq waiting
    /\ closeStep \in {"http", "rest"} \/ server = "CLOSED" => clients = {}

\* A registration that follows its checks at once respects the cap.
LEMMA RegisterWithinCap ==
    ASSUME NEW s, IsFiniteSet(clients), Cardinality(clients) < MaxConnections, Register(s)
    PROVE  IsFiniteSet(clients') /\ Cardinality(clients') <= MaxConnections
<1> DEFINE kept == clients \ {byIdentity[IdOf[s]]}
<1>1. IsFiniteSet(kept) /\ Cardinality(kept) <= Cardinality(clients) /\ Cardinality(kept) \in Nat
  BY FS_Subset, FS_CardinalityType
<1>2. IsFiniteSet(kept \cup {s}) /\ Cardinality(kept \cup {s}) <= Cardinality(kept) + 1
  BY <1>1, FS_AddElement
<1>3. Cardinality(clients) \in Nat /\ Cardinality(kept \cup {s}) \in Nat
  BY <1>2, FS_CardinalityType
<1>4. clients' = kept \cup {s}
  BY DEF Register
<1> HIDE DEF kept
<1> QED BY <1>1, <1>2, <1>3, <1>4, MaxAssumption

\* Losing clients keeps the set finite and within the cap.
LEMMA FewerClients ==
    ASSUME NEW S, IsFiniteSet(clients), Cardinality(clients) <= MaxConnections,
           S \subseteq clients
    PROVE  IsFiniteSet(S) /\ Cardinality(S) <= MaxConnections
<1>1. IsFiniteSet(S) /\ Cardinality(S) <= Cardinality(clients)
  BY FS_Subset
<1>2. Cardinality(S) \in Nat /\ Cardinality(clients) \in Nat
  BY <1>1, FS_CardinalityType
<1> QED BY <1>1, <1>2, MaxAssumption

LEMMA SyncInit == Init => SyncInv
BY FS_EmptySet, MaxAssumption DEF Init, SyncInv

LEMMA SyncStep ==
    ASSUME slow = {}, RegistryInv, SyncInv, [Next]_vars
    PROVE  SyncInv'
<1>1. ASSUME NEW s \in Socket, Upgrade(s) PROVE SyncInv'
  <2>1. CASE Refuse(s)
    BY <1>1, <2>1 DEF Upgrade, Refuse, SyncInv, RegistryInv, TypeOK
  <2>2. CASE Admits /\ Register(s)
    <3>1. IsFiniteSet(clients') /\ Cardinality(clients') <= MaxConnections
      BY <2>2, RegisterWithinCap DEF Admits, SyncInv
    <3>2. server = "OPEN" /\ closeStep = "none" /\ server' = server /\ closeStep' = closeStep
      BY <1>1, <2>2 DEF Admits, Upgrade, SyncInv
    <3>3. \A t \in Socket : stage'[t] # "auth"
      BY <2>2 DEF Register, Shut, SyncInv, RegistryInv, TypeOK
    <3> QED BY <3>1, <3>2, <3>3 DEF SyncInv
  <2> QED BY <1>1, <2>1, <2>2 DEF Upgrade
<1>2. ASSUME NEW s \in Socket, Authenticated(s) \/ NotAuthenticated(s) PROVE SyncInv'
  BY <1>2 DEF Authenticated, NotAuthenticated, SyncInv
<1>3. ASSUME NEW s \in Socket, CloseClient(s) \/ CallsEnd(s) \/ GetsStuck(s) PROVE SyncInv'
  BY <1>3 DEF CloseClient, CallsEnd, GetsStuck, Shut, SyncInv, RegistryInv, TypeOK
<1>4. ASSUME NEW s \in Socket, Closed(s) PROVE SyncInv'
  <2>1. IsFiniteSet(clients') /\ Cardinality(clients') <= MaxConnections
    BY <1>4, FewerClients DEF Closed, SyncInv
  <2>2. clients' \subseteq clients /\ \A t \in Socket : stage'[t] # "auth"
    BY <1>4 DEF Closed, SyncInv, RegistryInv, TypeOK
  <2> QED BY <1>4, <2>1, <2>2 DEF Closed, SyncInv
<1>5. CASE CloseClients
  BY <1>5 DEF CloseClients, Shut, SyncInv
<1>6. CASE ClientsClosed
  <2>1. clients = {}
    BY <1>6 DEF ClientsClosed, SyncInv, RegistryInv, TrackedExact, Connected, TypeOK
  <2> QED BY <1>6, <2>1 DEF ClientsClosed, SyncInv
<1>7. CASE BeginClose \/ StopTimers \/ HttpClosed \/ FinishClose \/ Listen
  BY <1>7 DEF BeginClose, StopTimers, HttpClosed, FinishClose, Listen, SyncInv
<1>8. CASE UNCHANGED vars
  BY <1>8 DEF vars, SyncInv
<1> QED BY <1>1, <1>2, <1>3, <1>4, <1>5, <1>6, <1>7, <1>8 DEF Next, CloseGoesOn

\* No step changes which upgrades wait.
LEMMA SlowIsFixed == [Next]_vars => slow' = slow
BY DEF Next, CloseGoesOn, vars, Upgrade, Authenticated, NotAuthenticated, CloseClient, CallsEnd, GetsStuck, Closed,
   BeginClose, StopTimers, CloseClients, ClientsClosed, HttpClosed, FinishClose, Listen

LEMMA SyncInvariance == Spec => [](slow = {} => SyncInv)
<1>1. RegistryInv /\ (slow = {} => SyncInv) /\ [Next]_vars => (slow = {} => SyncInv)'
  BY SyncStep, SlowIsFixed
<1> QED BY <1>1, SyncInit, RegistryInvariant, PTL DEF Spec

\* Where nothing waits for an authentication the cap on connections is a hard one, and a
\* closed server holds no client.
THEOREM GuardsAreHard == Spec => []GuardsHold
<1>1. (slow = {} => SyncInv) => GuardsHold
  BY DEF SyncInv, GuardsHold, CapRespected, ClosedIsEmpty
<1> QED BY <1>1, SyncInvariance, PTL

-----------------------------------------------------------------------------
(* The backpressure queue *)

Increasing(s) == \A i, j \in 1..Len(s) : i < j => s[i] < s[j]

Before(s, t) == \A i \in 1..Len(s), j \in 1..Len(t) : s[i] < t[j]

(* What is written comes before what waits, and both are in order; what    *)
(* was given to _safeSend is in one place.  WrittenInOrder alone does not  *)
(* say that the next message to be written is a later one.                 *)
BufferInv ==
    /\ Buffer!TypeOK
    /\ Increasing(wire) /\ Increasing(queue) /\ Before(wire, queue)
    /\ Buffer!OneFate

-----------------------------------------------------------------------------
LEMMA RangeEmpty == Buffer!Range(<<>>) = {}
BY DEF Buffer!Range

(* The members of a sequence, by their places.                             *)
LEMMA RangeOf ==
    ASSUME NEW S, NEW s \in Seq(S)
    PROVE  /\ \A i \in 1..Len(s) : s[i] \in Buffer!Range(s)
           /\ \A x \in Buffer!Range(s) : \E i \in 1..Len(s) : x = s[i]
           /\ Len(s) \in Nat /\ \A i \in 1..Len(s) : s[i] \in S
BY DEF Buffer!Range

(* The members of an extended sequence.                                    *)
LEMMA RangeAppend ==
    ASSUME NEW S, NEW s \in Seq(S), NEW m \in S
    PROVE  /\ Append(s, m) \in Seq(S)
           /\ Buffer!Range(Append(s, m)) = Buffer!Range(s) \cup {m}
           /\ Len(Append(s, m)) = Len(s) + 1 /\ Len(s) \in Nat
           /\ \A i \in 1..Len(s) : Append(s, m)[i] = s[i]
           /\ Append(s, m)[Len(s) + 1] = m
<1>1. /\ Append(s, m) \in Seq(S)
      /\ Len(Append(s, m)) = Len(s) + 1 /\ Len(s) \in Nat
      /\ DOMAIN Append(s, m) = 1 .. Len(s) + 1
      /\ \A i \in 1..Len(s) : Append(s, m)[i] = s[i]
      /\ Append(s, m)[Len(s) + 1] = m
  OBVIOUS
<1>2. Buffer!Range(Append(s, m)) \subseteq Buffer!Range(s) \cup {m}
  BY <1>1 DEF Buffer!Range
<1>3. Buffer!Range(s) \subseteq Buffer!Range(Append(s, m))
  BY <1>1 DEF Buffer!Range
<1>4. m \in Buffer!Range(Append(s, m))
  BY <1>1 DEF Buffer!Range
<1> QED BY <1>1, <1>2, <1>3, <1>4

(* The first n messages of q move to the end of w.                         *)
Moves(w, q, n, longer, rest) ==
    longer = w \o SubSeq(q, 1, n) /\ rest = SubSeq(q, n + 1, Len(q))

(* In terms of places.                                                     *)
Moved(S, w, q, n, longer, rest) ==
    /\ longer \in Seq(S) /\ rest \in Seq(S)
    /\ Len(longer) = Len(w) + n /\ Len(rest) = Len(q) - n
    /\ Len(w) \in Nat /\ Len(q) \in Nat /\ n \in Nat /\ n <= Len(q)
    /\ \A i \in 1..Len(w) : longer[i] = w[i]
    /\ \A i \in 1..n : longer[Len(w) + i] = q[i]
    /\ \A i \in 1 .. Len(q) - n : rest[i] = q[n + i]

LEMMA BufferMoved ==
    ASSUME NEW S, NEW w \in Seq(S), NEW q \in Seq(S), NEW n \in 0..Len(q),
           NEW longer, NEW rest, Moves(w, q, n, longer, rest)
    PROVE  Moved(S, w, q, n, longer, rest)
<1> DEFINE front == SubSeq(q, 1, n)
<1>1. /\ front \in Seq(S) /\ Len(front) = n
      /\ \A i \in 1..n : front[i] = q[i]
  OBVIOUS
<1>2. /\ rest \in Seq(S) /\ Len(rest) = Len(q) - n
      /\ \A i \in 1 .. Len(q) - n : rest[i] = q[n + i]
  BY DEF Moves
<1>3. longer = w \o front
  BY DEF Moves
<1> HIDE DEF front
<1>4. /\ longer \in Seq(S) /\ Len(longer) = Len(w) + n
      /\ \A i \in 1 .. Len(w) + n :
            longer[i] = IF i <= Len(w) THEN w[i] ELSE front[i - Len(w)]
  <2>1. /\ w \o front \in Seq(S) /\ Len(w \o front) = Len(w) + Len(front)
        /\ \A i \in 1 .. Len(w) + Len(front) :
              (w \o front)[i] = IF i <= Len(w) THEN w[i] ELSE front[i - Len(w)]
    BY <1>1, ConcatProperties
  <2> QED BY <1>1, <1>3, <2>1
<1>5. Len(w) \in Nat /\ Len(q) \in Nat /\ n \in Nat /\ n <= Len(q)
  OBVIOUS
<1>6. \A i \in 1..Len(w) : longer[i] = w[i]
  BY <1>4, <1>5
<1>7. ASSUME NEW i \in 1..n
      PROVE  longer[Len(w) + i] = q[i]
  <2>1. Len(w) + i \in 1 .. Len(w) + n /\ ~ (Len(w) + i <= Len(w))
        /\ (Len(w) + i) - Len(w) = i
    BY <1>5
  <2> QED BY <1>1, <1>4, <2>1
<1> QED BY <1>2, <1>4, <1>5, <1>6, <1>7 DEF Moved

(* The move keeps the members, and the order of the whole.                 *)
LEMMA MovedInOrder ==
    ASSUME NEW S, S \subseteq Nat,
           NEW w \in Seq(S), NEW q \in Seq(S), NEW n \in 0..Len(q),
           NEW longer, NEW rest, Moves(w, q, n, longer, rest),
           Increasing(w), Increasing(q), Before(w, q)
    PROVE  /\ Increasing(longer) /\ Increasing(rest) /\ Before(longer, rest)
           /\ Buffer!Range(longer) \cup Buffer!Range(rest) = Buffer!Range(w) \cup Buffer!Range(q)
           /\ Buffer!Range(longer) \cap Buffer!Range(rest) = {}
<1> DEFINE k == Len(w)
           m == Len(q)
<1>1. /\ longer \in Seq(S) /\ rest \in Seq(S)
      /\ Len(longer) = k + n /\ Len(rest) = m - n
      /\ k \in Nat /\ m \in Nat /\ n \in Nat /\ n <= m
      /\ \A i \in 1..k : longer[i] = w[i]
      /\ \A i \in 1..n : longer[k + i] = q[i]
      /\ \A i \in 1 .. m - n : rest[i] = q[n + i]
  <2>1. Moved(S, w, q, n, longer, rest)
    BY BufferMoved
  <2> QED
    BY <2>1 DEF Moved
<1>2. /\ \A i, j \in 1..k : i < j => w[i] < w[j]
      /\ \A i, j \in 1..m : i < j => q[i] < q[j]
      /\ \A i \in 1..k, j \in 1..m : w[i] < q[j]
  BY DEF Increasing, Before
<1>3. /\ \A i \in 1..k : w[i] \in Buffer!Range(w)
      /\ \A i \in 1..m : q[i] \in Buffer!Range(q)
      /\ \A x \in Buffer!Range(w) : \E i \in 1..k : x = w[i]
      /\ \A x \in Buffer!Range(q) : \E i \in 1..m : x = q[i]
      /\ \A i \in 1..k : w[i] \in Nat
      /\ \A i \in 1..m : q[i] \in Nat
  BY RangeOf
<1>4. /\ \A i \in 1 .. k + n : longer[i] \in Buffer!Range(longer)
      /\ \A i \in 1 .. m - n : rest[i] \in Buffer!Range(rest)
      /\ \A x \in Buffer!Range(longer) : \E i \in 1 .. k + n : x = longer[i]
      /\ \A x \in Buffer!Range(rest) : \E i \in 1 .. m - n : x = rest[i]
  <2>1. /\ \A i \in 1 .. Len(longer) : longer[i] \in Buffer!Range(longer)
        /\ \A x \in Buffer!Range(longer) : \E i \in 1 .. Len(longer) : x = longer[i]
    <3>1. longer \in Seq(S)
      BY <1>1
    <3> QED BY <3>1, RangeOf
  <2>2. /\ \A i \in 1 .. Len(rest) : rest[i] \in Buffer!Range(rest)
        /\ \A x \in Buffer!Range(rest) : \E i \in 1 .. Len(rest) : x = rest[i]
    <3>1. rest \in Seq(S)
      BY <1>1
    <3> QED BY <3>1, RangeOf
  <2>3. Len(longer) = k + n /\ Len(rest) = m - n
    BY <1>1
  <2> HIDE DEF k, m
  <2> QED BY <2>1, <2>2, <2>3
<1> HIDE DEF k, m
(* A place of longer is one of w, or one of the first n of q.              *)
<1>5. \A i \in 1 .. k + n : \/ i \in 1..k /\ longer[i] = w[i]
                            \/ i - k \in 1..n /\ longer[i] = q[i - k]
  <2> SUFFICES ASSUME NEW i \in 1 .. k + n, i \notin 1..k
               PROVE  i - k \in 1..n /\ longer[i] = q[i - k]
    BY <1>1
  <2>1. i - k \in 1..n /\ k + (i - k) = i
    BY <1>1
  <2> QED BY <1>1, <2>1
<1>6. \A j \in 1 .. m - n : n + j \in 1..m /\ rest[j] = q[n + j]
  BY <1>1
<1>7. \A i \in 1..n : i \in 1..m
  BY <1>1
<1>8. Increasing(longer)
  <2> SUFFICES ASSUME NEW i \in 1 .. k + n, NEW j \in 1 .. k + n, i < j
               PROVE  longer[i] < longer[j]
    BY <1>1 DEF Increasing
  <2>1. CASE i \in 1..k /\ j \in 1..k
    BY <1>1, <1>2, <2>1
  <2>2. CASE i \in 1..k /\ j \notin 1..k
    <3>1. longer[i] = w[i] /\ j - k \in 1..m /\ longer[j] = q[j - k]
      BY <1>1, <1>5, <1>7, <2>2
    <3> QED BY <1>2, <2>2, <3>1
  <2>3. CASE i \notin 1..k
    <3>1. j \notin 1..k /\ i - k < j - k
      BY <1>1, <2>3
    <3>2. /\ i - k \in 1..m /\ longer[i] = q[i - k]
          /\ j - k \in 1..m /\ longer[j] = q[j - k]
      BY <1>5, <1>7, <2>3, <3>1
    <3> QED BY <1>2, <3>1, <3>2
  <2> QED BY <2>1, <2>2, <2>3
<1>9. Increasing(rest)
  <2> SUFFICES ASSUME NEW i \in 1 .. m - n, NEW j \in 1 .. m - n, i < j
               PROVE  rest[i] < rest[j]
    BY <1>1 DEF Increasing
  <2>1. n + i < n + j
    BY <1>1
  <2> QED BY <1>2, <1>6, <2>1
<1>10. Before(longer, rest)
  <2> SUFFICES ASSUME NEW i \in 1 .. k + n, NEW j \in 1 .. m - n
               PROVE  longer[i] < rest[j]
    BY <1>1 DEF Before
  <2>1. CASE i \in 1..k
    BY <1>1, <1>2, <1>6, <2>1
  <2>2. CASE i \notin 1..k
    <3>1. i - k \in 1..n /\ longer[i] = q[i - k]
      BY <1>5, <2>2
    <3>2. i - k < n + j
      BY <1>1, <3>1
    <3> QED BY <1>2, <1>6, <1>7, <3>1, <3>2
  <2> QED BY <2>1, <2>2
<1>11. Buffer!Range(longer) \cap Buffer!Range(rest) = {}
  <2> SUFFICES ASSUME NEW x \in Buffer!Range(longer), x \in Buffer!Range(rest)
               PROVE  FALSE
    OBVIOUS
  <2>1. PICK i \in 1 .. k + n : x = longer[i]
    BY <1>4
  <2>2. PICK j \in 1 .. m - n : x = rest[j]
    BY <1>4
  <2>3. longer[i] < rest[j]
    BY <1>1, <1>10 DEF Before
  <2>4. x \in Nat
    BY <1>3, <1>6, <2>2
  <2>5. x < x
    BY <2>1, <2>2, <2>3
  <2> QED BY <2>4, <2>5
<1>12. Buffer!Range(longer) \cup Buffer!Range(rest) \subseteq Buffer!Range(w) \cup Buffer!Range(q)
  <2>1. ASSUME NEW x \in Buffer!Range(longer) PROVE x \in Buffer!Range(w) \cup Buffer!Range(q)
    <3>1. PICK i \in 1 .. k + n : x = longer[i]
      BY <1>4
    <3> QED BY <1>3, <1>5, <1>7, <3>1
  <2>2. ASSUME NEW x \in Buffer!Range(rest) PROVE x \in Buffer!Range(q)
    <3>1. PICK j \in 1 .. m - n : x = rest[j]
      BY <1>4
    <3> QED BY <1>3, <1>6, <3>1
  <2> QED BY <2>1, <2>2
<1>13. Buffer!Range(w) \cup Buffer!Range(q) \subseteq Buffer!Range(longer) \cup Buffer!Range(rest)
  <2>1. ASSUME NEW x \in Buffer!Range(w) PROVE x \in Buffer!Range(longer)
    <3>1. PICK i \in 1..k : x = w[i]
      BY <1>3
    <3>2. i \in 1 .. k + n
      BY <1>1
    <3> QED BY <1>1, <1>4, <3>1, <3>2
  <2>2. ASSUME NEW x \in Buffer!Range(q) PROVE x \in Buffer!Range(longer) \cup Buffer!Range(rest)
    <3>1. PICK j \in 1..m : x = q[j]
      BY <1>3
    <3>2. CASE j \in 1..n
      <4>1. k + j \in 1 .. k + n
        BY <1>1, <3>2
      <4> QED BY <1>1, <1>4, <3>1, <3>2, <4>1
    <3>3. CASE j \notin 1..n
      <4>1. j - n \in 1 .. m - n /\ n + (j - n) = j
        BY <1>1, <3>3
      <4> QED BY <1>1, <1>4, <3>1, <4>1
    <3> QED BY <3>2, <3>3
  <2> QED BY <2>1, <2>2
<1> QED BY <1>8, <1>9, <1>10, <1>11, <1>12, <1>13

-----------------------------------------------------------------------------
LEMMA BufferInit == Buffer!Init => BufferInv
<1> SUFFICES ASSUME Buffer!Init PROVE BufferInv
  OBVIOUS
<1>1. Buffer!TypeOK
  <2>1. 1 \in 0..MaxSockets /\ 0 \in 0..MaxSockets /\ 1 \in 1..MaxSockets
        /\ 0 \in 0..MaxMessages
    BY BufferAssumption
  <2>2. <<>> \in Seq(Buffer!Message)
    OBVIOUS
  <2> QED BY <2>1, <2>2 DEF Buffer!Init, Buffer!TypeOK
<1>2. Increasing(wire) /\ Increasing(queue) /\ Before(wire, queue)
  BY DEF Buffer!Init, Increasing, Before
<1>3. Buffer!OneFate
  BY RangeEmpty DEF Buffer!Init, Buffer!OneFate
<1> QED BY <1>1, <1>2, <1>3 DEF BufferInv

(* A message is newer than those that were given to _safeSend before.      *)
LEMMA Newer ==
    ASSUME BufferInv
    PROVE  /\ \A i \in 1..Len(wire) : wire[i] < count + 1
           /\ \A i \in 1..Len(queue) : queue[i] < count + 1
           /\ \A x \in Buffer!Range(wire) \cup Buffer!Range(queue) \cup failed : x # count + 1
           /\ count \in Nat
<1>1. wire \in Seq(Buffer!Message) /\ queue \in Seq(Buffer!Message) /\ count \in Nat
  BY BufferAssumption DEF BufferInv, Buffer!TypeOK
<1>2. \A x \in Buffer!Range(wire) \cup Buffer!Range(queue) \cup failed : x \in 1..count
  BY DEF BufferInv, Buffer!OneFate
<1> QED BY <1>1, <1>2, RangeOf

(* _safeSend                                                               *)
LEMMA SafeSendKeeps ==
    ASSUME BufferInv, Buffer!SafeSend
    PROVE  BufferInv'
<1> DEFINE m == count + 1
<1>1. /\ m \in Buffer!Message /\ count \in Nat
      /\ wire \in Seq(Buffer!Message) /\ queue \in Seq(Buffer!Message)
      /\ count' = m /\ count' \in 0..MaxMessages
  BY BufferAssumption DEF BufferInv, Buffer!TypeOK, Buffer!SafeSend, Buffer!Message
<1>2. /\ Increasing(wire) /\ Increasing(queue) /\ Before(wire, queue)
  BY DEF BufferInv
<1>3. /\ \A i \in 1..Len(wire) : wire[i] < m
      /\ \A i \in 1..Len(queue) : queue[i] < m
      /\ m \notin Buffer!Range(wire) /\ m \notin Buffer!Range(queue) /\ m \notin failed
  BY Newer
<1>4. /\ Buffer!Range(wire) \cup Buffer!Range(queue) \cup failed = 1..count
      /\ Buffer!Range(wire) \cap Buffer!Range(queue) = {}
      /\ failed \cap (Buffer!Range(wire) \cup Buffer!Range(queue)) = {}
  BY DEF BufferInv, Buffer!OneFate
<1>5. 1..m = 1..count \cup {m}
  BY <1>1
<1>6. /\ Append(wire, m) \in Seq(Buffer!Message)
      /\ Buffer!Range(Append(wire, m)) = Buffer!Range(wire) \cup {m}
      /\ Len(Append(wire, m)) = Len(wire) + 1 /\ Len(wire) \in Nat
      /\ \A i \in 1..Len(wire) : Append(wire, m)[i] = wire[i]
      /\ Append(wire, m)[Len(wire) + 1] = m
  BY <1>1, RangeAppend
<1>7. /\ Append(queue, m) \in Seq(Buffer!Message)
      /\ Buffer!Range(Append(queue, m)) = Buffer!Range(queue) \cup {m}
      /\ Len(Append(queue, m)) = Len(queue) + 1 /\ Len(queue) \in Nat
      /\ \A i \in 1..Len(queue) : Append(queue, m)[i] = queue[i]
      /\ Append(queue, m)[Len(queue) + 1] = m
  BY <1>1, RangeAppend
<1>8. /\ socket' \in 0..MaxSockets /\ sockets' \in 1..MaxSockets /\ up' \in BOOLEAN
      /\ socket \in 0..MaxSockets /\ timer \in 0..MaxSockets
  BY DEF BufferInv, Buffer!TypeOK, Buffer!SafeSend
<1> HIDE DEF m
<1>9. CASE Buffer!SendDirectly(m)
  <2>1. /\ wire' = Append(wire, m) /\ queue = <<>> /\ queue' = <<>>
        /\ congested' \in BOOLEAN /\ timer' = timer /\ failed' = failed
    BY <1>9 DEF Buffer!SendDirectly
  <2>2. Buffer!TypeOK'
    BY <1>1, <1>6, <1>8, <2>1 DEF BufferInv, Buffer!TypeOK
  <2>3. Increasing(wire')
    BY <1>2, <1>3, <1>6, <2>1 DEF Increasing
  <2>4. Increasing(queue') /\ Before(wire', queue')
    BY <2>1 DEF Increasing, Before
  <2>5. Buffer!OneFate'
    BY <1>1, <1>3, <1>4, <1>5, <1>6, <2>1, RangeEmpty DEF Buffer!OneFate
  <2> QED BY <2>2, <2>3, <2>4, <2>5 DEF BufferInv, Increasing, Before
<1>10. CASE Buffer!SendLater(m)
  <2>1. /\ queue' = Append(queue, m) /\ wire' = wire /\ failed' = failed
        /\ congested' = congested /\ timer' \in {timer, socket}
    BY <1>10 DEF Buffer!SendLater
  <2>2. Buffer!TypeOK'
    BY <1>1, <1>7, <1>8, <2>1 DEF BufferInv, Buffer!TypeOK
  <2>3. Increasing(queue')
    BY <1>2, <1>3, <1>7, <2>1 DEF Increasing
  <2>4. Increasing(wire') /\ Before(wire', queue')
    BY <1>2, <1>3, <1>7, <2>1 DEF Before
  <2>5. Buffer!OneFate'
    BY <1>1, <1>3, <1>4, <1>5, <1>7, <2>1 DEF Buffer!OneFate
  <2> QED BY <2>2, <2>3, <2>4, <2>5 DEF BufferInv, Increasing, Before
<1>11. CASE Buffer!SendFails(m)
  <2>1. /\ failed' = failed \cup {m} /\ wire' = wire /\ queue' = queue
        /\ congested' = congested /\ timer' = timer
    BY <1>11 DEF Buffer!SendFails
  <2>2. Buffer!TypeOK'
    BY <1>1, <1>8, <2>1 DEF BufferInv, Buffer!TypeOK
  <2>3. Buffer!OneFate'
    BY <1>1, <1>3, <1>4, <1>5, <2>1 DEF Buffer!OneFate
  <2> QED BY <1>2, <2>1, <2>2, <2>3 DEF BufferInv, Increasing, Before
<1> QED BY <1>9, <1>10, <1>11 DEF Buffer!SafeSend, m

(* A tick of the drain timer that sends.                                   *)
LEMMA DrainTickKeeps ==
    ASSUME BufferInv, Buffer!DrainTick
    PROVE  BufferInv'
<1>1. PICK n \in 0..Len(queue) :
        /\ wire' = wire \o SubSeq(queue, 1, n)
        /\ queue' = SubSeq(queue, n + 1, Len(queue))
        /\ timer' = IF n = Len(queue) THEN 0 ELSE timer
        /\ congested' \in IF n < Len(queue) THEN {TRUE} ELSE BOOLEAN
  BY DEF Buffer!DrainTick
<1>2. wire \in Seq(Buffer!Message) /\ queue \in Seq(Buffer!Message)
  BY DEF BufferInv, Buffer!TypeOK
<1>3. Buffer!Message \subseteq Nat /\ Moves(wire, queue, n, wire', queue')
  BY <1>1 DEF Buffer!Message, Moves
<1>4. Increasing(wire) /\ Increasing(queue) /\ Before(wire, queue)
  BY DEF BufferInv
<1>5. wire' \in Seq(Buffer!Message) /\ queue' \in Seq(Buffer!Message)
  BY <1>2, <1>3, BufferMoved DEF Moved
<1>6. Buffer!TypeOK'
  <2>1. /\ socket \in 0..MaxSockets /\ sockets \in 1..MaxSockets /\ up \in BOOLEAN
        /\ timer \in 0..MaxSockets /\ count \in 0..MaxMessages /\ failed \subseteq Buffer!Message
    BY DEF BufferInv, Buffer!TypeOK
  <2>2. timer' \in 0..MaxSockets
    BY <1>1, <2>1, BufferAssumption
  <2>3. congested' \in BOOLEAN
    BY <1>1
  <2> QED BY <1>5, <2>1, <2>2, <2>3 DEF Buffer!TypeOK, Buffer!DrainTick
<1>7. /\ Increasing(wire') /\ Increasing(queue') /\ Before(wire', queue')
      /\ Buffer!Range(wire') \cup Buffer!Range(queue') = Buffer!Range(wire) \cup Buffer!Range(queue)
      /\ Buffer!Range(wire') \cap Buffer!Range(queue') = {}
  BY <1>2, <1>3, <1>4, MovedInOrder
<1>8. Buffer!OneFate'
  <2>1. failed' = failed /\ count' = count
    BY DEF Buffer!DrainTick
  <2> QED BY <1>7, <2>1 DEF BufferInv, Buffer!OneFate
<1> QED BY <1>6, <1>7, <1>8 DEF BufferInv, Increasing, Before

(* FailTick and Cleanup: what waits fails.                                 *)
LEMMA FailingKeeps ==
    ASSUME BufferInv, Buffer!TypeOK',
           queue' = <<>>, wire' = wire, count' = count, failed' = failed \cup Buffer!Range(queue)
    PROVE  BufferInv'
<1>1. Increasing(wire') /\ Increasing(queue') /\ Before(wire', queue')
  BY DEF BufferInv, Increasing, Before
<1>2. Buffer!OneFate'
  BY RangeEmpty DEF BufferInv, Buffer!OneFate
<1> QED BY <1>1, <1>2 DEF BufferInv, Increasing, Before

(* The steps that touch neither the messages nor their places.             *)
LEMMA ElsewhereKeeps ==
    ASSUME BufferInv, Buffer!TypeOK', UNCHANGED <<queue, wire, count, failed>>
    PROVE  BufferInv'
BY DEF BufferInv, Buffer!OneFate, Increasing, Before

LEMMA BufferStep == BufferInv /\ [Buffer!Next]_bufferVars => BufferInv'
<1> SUFFICES ASSUME BufferInv, [Buffer!Next]_bufferVars PROVE BufferInv'
  OBVIOUS
<1>1. Buffer!TypeOK /\ Buffer!Range(queue) \subseteq Buffer!Message
  BY RangeOf DEF BufferInv, Buffer!TypeOK
<1>2. CASE Buffer!SafeSend
  BY <1>2, SafeSendKeeps
<1>3. CASE Buffer!DrainTick
  BY <1>3, DrainTickKeeps
<1>4. CASE Buffer!FailTick
  <2>1. Buffer!TypeOK'
    BY <1>1, <1>4, BufferAssumption DEF Buffer!TypeOK, Buffer!FailTick
  <2> QED BY <1>4, <2>1, FailingKeeps DEF Buffer!FailTick
<1>5. CASE Buffer!Drained
  <2>1. Buffer!TypeOK'
    BY <1>1, <1>5 DEF Buffer!TypeOK, Buffer!Drained
  <2> QED BY <1>5, <2>1, ElsewhereKeeps DEF Buffer!Drained
<1>6. CASE Buffer!Lost
  <2>1. Buffer!TypeOK'
    BY <1>1, <1>6 DEF Buffer!TypeOK, Buffer!Lost
  <2> QED BY <1>6, <2>1, ElsewhereKeeps DEF Buffer!Lost
<1>7. CASE Buffer!Cleanup
  <2>1. Buffer!TypeOK'
    BY <1>1, <1>7, BufferAssumption DEF Buffer!TypeOK, Buffer!Cleanup
  <2> QED BY <1>7, <2>1, FailingKeeps DEF Buffer!Cleanup
<1>8. CASE Buffer!Reopened
  <2>1. sockets' \in 1..MaxSockets /\ socket' \in 0..MaxSockets
    BY <1>1, <1>8, BufferAssumption DEF Buffer!TypeOK, Buffer!Reopened
  <2>2. Buffer!TypeOK'
    BY <1>1, <1>8, <2>1 DEF Buffer!TypeOK, Buffer!Reopened
  <2> QED BY <1>8, <2>2, ElsewhereKeeps DEF Buffer!Reopened
<1>9. CASE UNCHANGED bufferVars
  <2>1. Buffer!TypeOK'
    BY <1>1, <1>9 DEF Buffer!TypeOK, bufferVars
  <2> QED BY <1>9, <2>1, ElsewhereKeeps DEF bufferVars
<1> QED BY <1>2, <1>3, <1>4, <1>5, <1>6, <1>7, <1>8, <1>9 DEF Buffer!Next

-----------------------------------------------------------------------------
(* Incoming calls *)

Finished == {i \in Inbound!Arrival : reached[i] = "done"}

(* The pipeline holds the newest arrivals, all of them, in their order: a  *)
(* suffix of what has arrived.                                             *)
Waits(i) == i > Len(id) - Len(chain)

Lined ==
    /\ Len(chain) <= Len(id)
    /\ side = "client" => Len(chain) = 0
    /\ \A k \in 1 .. Len(chain) : chain[k] = Len(id) - Len(chain) + k
    /\ \A i \in Inbound!Arrival : reached[i] = "none" <=> i > Len(id)
    /\ \A i \in 1 .. Len(id) : reached[i] = "chained" <=> Waits(i)

(* Bad messages are counted when they are done with.                       *)
BadCounted == badCount <= Cardinality(Finished)

InboundInv == Inbound!TypeOK /\ Lined /\ BadCounted /\ Inbound!NoStaleGuard

-----------------------------------------------------------------------------
LEMMA DoneIsFinite ==
    /\ IsFiniteSet(Inbound!Arrival) /\ Cardinality(Inbound!Arrival) = MaxArrivals
    /\ IsFiniteSet(Finished) /\ Cardinality(Finished) \in Nat
    /\ Cardinality(Finished) <= MaxArrivals
<1>1. IsFiniteSet(Inbound!Arrival) /\ Cardinality(Inbound!Arrival) = MaxArrivals
  BY InboundAssumption, FS_Interval DEF Inbound!Arrival
<1>2. Finished \subseteq Inbound!Arrival
  BY DEF Finished
<1> QED
  BY <1>1, <1>2, FS_Subset, FS_CardinalityType

(* An arrival that has left the pipeline moves on.                         *)
Underway == {"entering", "handling", "replying"}

ArrivalMoved(i, to) ==
    /\ reached' \in [Inbound!Arrival -> Inbound!Stage] /\ reached'[i] = to
    /\ \A j \in Inbound!Arrival \ {i} : reached'[j] = reached[j]
    /\ Lined'
    /\ Cardinality(Finished') = IF to = "done" THEN Cardinality(Finished) + 1 ELSE Cardinality(Finished)
    /\ i \in Inbound!Arrival /\ reached[i] # "done"

LEMMA GoesOn ==
    ASSUME Inbound!TypeOK, Lined, NEW i \in 1 .. Len(id), reached[i] \in Underway,
           NEW to \in {"handling", "replying", "done"}, Inbound!Goes(i, to),
           UNCHANGED <<side, chain, id>>
    PROVE  ArrivalMoved(i, to)
<1>1. i \in Inbound!Arrival /\ Len(id) \in Nat /\ \A j \in 1 .. Len(id) : j \in Inbound!Arrival
  BY InboundAssumption DEF Inbound!TypeOK, Inbound!Arrival
<1>2. /\ reached' \in [Inbound!Arrival -> Inbound!Stage] /\ reached'[i] = to
      /\ \A j \in Inbound!Arrival \ {i} : reached'[j] = reached[j]
  BY <1>1 DEF Inbound!TypeOK, Inbound!Goes, Inbound!Stage
<1>3. reached[i] \notin {"none", "chained", "done"} /\ to \notin {"none", "chained"}
  BY DEF Underway
<1>4. Lined'
  <2>1. \A j \in Inbound!Arrival : reached'[j] = "none" <=> j > Len(id)
    BY <1>2, <1>3 DEF Lined
  <2>2. \A j \in 1 .. Len(id) : reached'[j] = "chained" <=> Waits(j)
    BY <1>1, <1>2, <1>3 DEF Lined
  <2> QED
    BY <2>1, <2>2 DEF Lined, Waits
<1>5. CASE to = "done"
  <2>1. Finished' = Finished \cup {i} /\ i \notin Finished
    <3>1. \A j \in Inbound!Arrival : reached'[j] = "done" <=> reached[j] = "done" \/ j = i
      BY <1>2, <1>5
    <3>2. reached[i] # "done"
      BY <1>3
    <3> QED
      BY <1>1, <3>1, <3>2 DEF Finished
  <2> QED
    BY <1>1, <1>2, <1>3, <1>4, <1>5, <2>1, DoneIsFinite, FS_AddElement DEF ArrivalMoved
<1>6. CASE to # "done"
  <2>1. Finished' = Finished
    BY <1>1, <1>2, <1>3, <1>6 DEF Finished
  <2> QED
    BY <1>1, <1>2, <1>3, <1>4, <1>6, <2>1 DEF ArrivalMoved
<1> QED
  BY <1>5, <1>6

(* What keeps the guards: the handlers of the ids that stay guarded go on, *)
(* or one starts.                                                          *)
LEMMA GuardsKept ==
    ASSUME Inbound!TypeOK, Inbound!NoStaleGuard, UNCHANGED id, NEW i \in 1 .. Len(id), NEW to,
           ArrivalMoved(i, to),
           \A m \in guards' : \/ m \in guards /\ (reached[i] = "handling" => m # id[i])
                              \/ m = id[i] /\ to = "handling"
    PROVE  Inbound!NoStaleGuard'
<1> SUFFICES ASSUME NEW m \in guards'
             PROVE  \E j \in 1 .. Len(id) : reached'[j] = "handling" /\ id[j] = m
  BY DEF Inbound!NoStaleGuard, Inbound!Handling
<1>1. CASE m = id[i] /\ to = "handling"
  BY <1>1 DEF ArrivalMoved
<1>2. CASE m \in guards /\ (reached[i] = "handling" => m # id[i])
  <2>1. PICK j \in 1 .. Len(id) : reached[j] = "handling" /\ id[j] = m
    BY <1>2 DEF Inbound!NoStaleGuard, Inbound!Handling
  <2>2. j # i /\ j \in Inbound!Arrival
    BY <1>2, <2>1, InboundAssumption DEF Inbound!TypeOK, Inbound!Arrival
  <2> QED
    BY <2>1, <2>2 DEF ArrivalMoved
<1> QED
  BY <1>1, <1>2

(* Every step of an arrival that has left the pipeline.                    *)
LEMMA InboundStepKeeps == ASSUME InboundInv, NEW i \in 1 .. Len(id), Inbound!Step(i) PROVE InboundInv'
<1>0. Inbound!TypeOK /\ Lined /\ BadCounted /\ Inbound!NoStaleGuard
  BY DEF InboundInv
<1>1. ASSUME Inbound!Malformed(i) PROVE InboundInv'
  <2>1. ArrivalMoved(i, "done")
    BY <1>0, <1>1, GoesOn DEF Inbound!Malformed, Underway
  <2>2. Inbound!NoStaleGuard'
    BY <1>0, <1>1, <2>1, GuardsKept DEF Inbound!Malformed
  <2>3. answers' \in [Inbound!Arrival -> Nat]
    BY <1>0, <1>1 DEF Inbound!Malformed, Inbound!Respond, Inbound!TypeOK
  <2>4. BadCounted' /\ badCount' \in 0 .. MaxArrivals
    <3>1. badCount' = badCount + 1 /\ badCount \in Nat /\ badCount <= Cardinality(Finished)
      BY <1>0, <1>1 DEF Inbound!Malformed, BadCounted, Inbound!TypeOK
    <3>2. Cardinality(Finished') = Cardinality(Finished) + 1 /\ Inbound!Arrival' = Inbound!Arrival
      BY <2>1 DEF ArrivalMoved
    <3>3. Cardinality(Finished) \in Nat /\ Cardinality(Finished') <= MaxArrivals
      <4>1. IsFiniteSet(Finished') /\ Cardinality(Finished') <= Cardinality(Inbound!Arrival)
        <5>1. Finished' \subseteq Inbound!Arrival
          BY DEF Finished
        <5> QED
          BY <5>1, DoneIsFinite, FS_Subset
      <4> QED
        BY <4>1, DoneIsFinite
    <3> QED
      BY <3>1, <3>2, <3>3, InboundAssumption DEF BadCounted
  <2>5. Inbound!TypeOK'
    BY <1>0, <1>1, <2>1, <2>3, <2>4 DEF Inbound!Malformed, ArrivalMoved, Inbound!TypeOK
  <2> QED
    BY <2>1, <2>2, <2>3, <2>4, <2>5 DEF InboundInv, ArrivalMoved
<1>2. ASSUME NEW to \in {"handling", "replying", "done"},
             reached[i] \in Underway, Inbound!Goes(i, to),
             UNCHANGED <<side, conn, chain, id, bad, badCount>>,
             guards' \subseteq MsgId,
             answers' = answers \/ Inbound!Respond(i),
             \A m \in guards' : \/ m \in guards /\ (reached[i] = "handling" => m # id[i])
                                \/ m = id[i] /\ to = "handling"
      PROVE  InboundInv'
  <2>1. ArrivalMoved(i, to)
    BY <1>0, <1>2, GoesOn
  <2>2. Inbound!NoStaleGuard'
    BY <1>0, <1>2, <2>1, GuardsKept
  <2>3. answers' \in [Inbound!Arrival -> Nat]
    BY <1>0, <1>2 DEF Inbound!Respond, Inbound!TypeOK
  <2>4. BadCounted'
    BY <1>0, <1>2, <2>1, DoneIsFinite DEF ArrivalMoved, BadCounted, Inbound!TypeOK
  <2>5. Inbound!TypeOK'
    BY <1>0, <1>2, <2>1, <2>3 DEF ArrivalMoved, Inbound!TypeOK
  <2> QED
    BY <2>1, <2>2, <2>3, <2>4, <2>5 DEF InboundInv, ArrivalMoved
<1>3. guards \subseteq MsgId /\ id[i] \in MsgId
  BY <1>0 DEF Inbound!TypeOK
<1>4. ASSUME Inbound!Ignore(i) \/ Inbound!Reject(i) PROVE InboundInv'
  <2>1. PICK to \in {"replying", "done"} : Inbound!Goes(i, to)
    BY <1>4 DEF Inbound!Ignore, Inbound!Reject
  <2> QED
    BY <1>2, <1>3, <1>4, <2>1 DEF Inbound!Ignore, Inbound!Reject, Inbound!Enters, Underway
<1>5. ASSUME Inbound!Refuse(i) PROVE InboundInv'
  BY <1>2, <1>3, <1>5 DEF Inbound!Refuse, Inbound!Enters, Underway
<1>6. ASSUME Inbound!Handle(i) PROVE InboundInv'
  BY <1>2, <1>3, <1>6 DEF Inbound!Handle, Inbound!Enters, Underway
<1>7. ASSUME Inbound!HandlerEnds(i) PROVE InboundInv'
  <2>1. PICK to \in {"replying", "done"} : Inbound!Goes(i, to)
    BY <1>7 DEF Inbound!HandlerEnds
  <2> QED
    BY <1>2, <1>3, <1>7, <2>1 DEF Inbound!HandlerEnds, Underway
<1>8. ASSUME Inbound!Reply(i) PROVE InboundInv'
  BY <1>2, <1>3, <1>8 DEF Inbound!Reply, Underway
<1> QED
  BY <1>1, <1>4, <1>5, <1>6, <1>7, <1>8 DEF Inbound!Step

-----------------------------------------------------------------------------
LEMMA InboundInit == Inbound!Init => InboundInv
<1> SUFFICES ASSUME Inbound!Init PROVE InboundInv
  OBVIOUS
<1>1. /\ chain = <<>> /\ id = <<>> /\ bad = {} /\ guards = {} /\ badCount = 0
      /\ conn = "OPEN" /\ side \in {"client", "server"}
      /\ Len(chain) = 0 /\ Len(id) = 0 /\ chain \in Seq(Inbound!Arrival) /\ id \in Seq(MsgId)
      /\ \A i \in Inbound!Arrival : reached[i] = "none" /\ answers[i] = 0
      /\ reached \in [Inbound!Arrival -> Inbound!Stage] /\ answers \in [Inbound!Arrival -> Nat]
  BY DEF Inbound!Init, Inbound!Stage
<1>2. Inbound!TypeOK
  BY <1>1, InboundAssumption DEF Inbound!TypeOK
<1>3. Lined
  <2>1. \A i \in Inbound!Arrival : i > 0
    BY InboundAssumption DEF Inbound!Arrival
  <2> QED
    BY <1>1, <2>1 DEF Lined
<1>4. BadCounted
  BY <1>1, DoneIsFinite DEF BadCounted
<1> QED
  BY <1>1, <1>2, <1>3, <1>4 DEF InboundInv, Inbound!NoStaleGuard

LEMMA ArriveKeeps == ASSUME InboundInv, NEW m \in MsgId, Inbound!Arrive(m) PROVE InboundInv'
<1> DEFINE n == Len(id)
           i == n + 1
           k == Len(chain)
<1>0. Inbound!TypeOK /\ Lined /\ BadCounted /\ Inbound!NoStaleGuard
  BY DEF InboundInv
<1>1. /\ n \in Nat /\ k \in Nat /\ i \in Inbound!Arrival
      /\ id' \in Seq(MsgId) /\ Len(id') = i /\ id'[i] = m
      /\ \A j \in 1 .. n : id'[j] = id[j]
  BY <1>0, InboundAssumption DEF Inbound!Arrive, Inbound!TypeOK, Inbound!Arrival
<1>2. /\ bad' \subseteq Inbound!Arrival
      /\ UNCHANGED <<side, conn, guards, badCount, answers>>
      /\ i <= MaxArrivals /\ conn # "CLOSED"
  BY <1>0, <1>1 DEF Inbound!Arrive, Inbound!TypeOK
<1>3. PICK to \in {"chained", "entering"} :
         /\ reached' \in [Inbound!Arrival -> Inbound!Stage] /\ reached'[i] = to
         /\ \A j \in Inbound!Arrival \ {i} : reached'[j] = reached[j]
         /\ to = "chained" => side = "server" /\ chain' = Append(chain, i)
         /\ to = "entering" => side = "client" /\ chain' = chain
  BY <1>0, <1>1 DEF Inbound!Arrive, Inbound!Goes, Inbound!Stage, Inbound!TypeOK
<1>4. reached[i] = "none" /\ \A j \in 1 .. n : j \in Inbound!Arrival /\ j # i /\ reached[j] # "none"
  BY <1>0, <1>1, InboundAssumption DEF Lined, Inbound!Arrival
<1>5. Finished' = Finished
  <2>1. \A j \in Inbound!Arrival : reached'[j] = "done" <=> reached[j] = "done"
    BY <1>3, <1>4
  <2> QED
    BY <2>1 DEF Finished
<1>6. chain' \in Seq(Inbound!Arrival) /\ Lined'
  <2>1. \A j \in Inbound!Arrival : reached'[j] = "none" <=> j > i
    <3> TAKE j \in Inbound!Arrival
    <3>1. reached[j] = "none" <=> j > n
      BY <1>0 DEF Lined
    <3>2. j \in Nat
      BY InboundAssumption DEF Inbound!Arrival
    <3> QED
      BY <1>1, <1>3, <3>1, <3>2
  <2>2. CASE to = "chained"
    <3>0. /\ chain \in Seq(Inbound!Arrival) /\ k <= n
          /\ \A j \in 1 .. k : chain[j] = n - k + j
      BY <1>0 DEF Inbound!TypeOK, Lined
    <3>1. /\ chain' \in Seq(Inbound!Arrival) /\ Len(chain') = k + 1 /\ chain'[k + 1] = i
          /\ \A j \in 1 .. k : chain'[j] = chain[j]
      <4>1. chain' = Append(chain, i)
        BY <1>3, <2>2
      <4> HIDE DEF i
      <4> QED
        BY <1>1, <3>0, <4>1, AppendProperties
    <3>2. k + 1 <= i /\ \A j \in 1 .. k + 1 : chain'[j] = i - (k + 1) + j
      <4>1. k + 1 <= i
        BY <1>1, <3>0
      <4>2. ASSUME NEW j \in 1 .. k PROVE chain'[j] = i - (k + 1) + j
        <5>1. chain'[j] = n - k + j
          BY <3>0, <3>1
        <5> HIDE DEF n, k
        <5> QED
          BY <1>1, <5>1
      <4>3. i - (k + 1) + (k + 1) = i
        BY <1>1
      <4> HIDE DEF n, k, i
      <4>4. \A j \in 1 .. k + 1 : j \in 1 .. k \/ j = k + 1
        BY <1>1
      <4> QED
        BY <1>1, <3>1, <4>1, <4>2, <4>3, <4>4
    <3>3. \A j \in 1 .. i : reached'[j] = "chained" <=> j > i - (k + 1)
      <4> TAKE j \in 1 .. i
      <4>1. CASE j = i
        BY <1>1, <1>3, <2>2, <4>1
      <4>2. CASE j \in 1 .. n
        <5>1. reached[j] = "chained" <=> j > n - k
          BY <1>0, <4>2 DEF Lined, Waits
        <5> QED
          BY <1>1, <1>3, <1>4, <4>2, <5>1
      <4> QED
        BY <1>1, <4>1, <4>2
    <3> QED
      BY <1>1, <1>2, <1>3, <2>1, <2>2, <3>1, <3>2, <3>3 DEF Lined, Waits
  <2>3. CASE to = "entering"
    <3>1. chain' = chain /\ k = 0 /\ chain \in Seq(Inbound!Arrival)
      BY <1>0, <1>3, <2>3 DEF Lined, Inbound!TypeOK
    <3>2. \A j \in 1 .. i : ~ (reached'[j] = "chained")
      <4> TAKE j \in 1 .. i
      <4>1. CASE j = i
        BY <1>3, <2>3, <4>1
      <4>2. CASE j \in 1 .. n
        <5>1. reached[j] = "chained" <=> j > n - k
          BY <1>0, <4>2 DEF Lined, Waits
        <5> QED
          BY <1>1, <1>3, <1>4, <3>1, <4>2, <5>1
      <4> QED
        BY <1>1, <4>1, <4>2
    <3>3. \A j \in 1 .. i : ~ (j > i - k)
      BY <1>1, <3>1
    <3> QED
      BY <1>1, <1>2, <2>1, <3>1, <3>2, <3>3 DEF Lined, Waits
  <2> QED
    BY <2>2, <2>3
<1>7. Inbound!NoStaleGuard'
  <2> SUFFICES ASSUME NEW g \in guards
               PROVE  \E j \in 1 .. i : reached'[j] = "handling" /\ id'[j] = g
    BY <1>1, <1>2 DEF Inbound!NoStaleGuard, Inbound!Handling
  <2>1. PICK j \in 1 .. n : reached[j] = "handling" /\ id[j] = g
    BY <1>0 DEF Inbound!NoStaleGuard, Inbound!Handling
  <2> QED
    BY <1>1, <1>3, <1>4, <2>1
<1>8. Inbound!TypeOK' /\ BadCounted'
  BY <1>0, <1>1, <1>2, <1>3, <1>5, <1>6 DEF Inbound!TypeOK, BadCounted
<1> QED
  BY <1>6, <1>7, <1>8 DEF InboundInv

LEMMA PreprocessKeeps == ASSUME InboundInv, Inbound!Preprocess PROVE InboundInv'
<1> DEFINE n == Len(id)
           k == Len(chain)
           i == n - k + 1
<1>0. Inbound!TypeOK /\ Lined /\ BadCounted /\ Inbound!NoStaleGuard
  BY DEF InboundInv
<1>1. n \in Nat /\ k \in Nat /\ k > 0 /\ k <= n /\ n <= MaxArrivals /\ chain \in Seq(Inbound!Arrival)
  BY <1>0 DEF Inbound!Preprocess, Inbound!TypeOK, Lined
<1>2. Head(chain) = i /\ i \in 1 .. n /\ i \in Inbound!Arrival
  BY <1>0, <1>1, InboundAssumption DEF Lined, Inbound!Arrival
<1>3. /\ chain' \in Seq(Inbound!Arrival) /\ Len(chain') = k - 1
      /\ \A j \in 1 .. k - 1 : chain'[j] = n - (k - 1) + j
  BY <1>0, <1>1 DEF Lined, Inbound!Preprocess
<1>4. UNCHANGED <<side, conn, id, bad, guards, badCount, answers>>
  BY DEF Inbound!Preprocess
<1>5. PICK to \in {"entering", "done"} :
         /\ reached' \in [Inbound!Arrival -> Inbound!Stage] /\ reached'[i] = to
         /\ \A j \in Inbound!Arrival \ {i} : reached'[j] = reached[j]
  BY <1>0, <1>2 DEF Inbound!Preprocess, Inbound!Goes, Inbound!Stage, Inbound!TypeOK
<1>6. reached[i] = "chained"
  BY <1>0, <1>1, <1>2 DEF Lined, Waits
<1>7. Lined'
  <2>1. side # "client"
    BY <1>0, <1>1 DEF Lined
  <2>2. \A j \in Inbound!Arrival : reached'[j] = "none" <=> j > n
    <3> TAKE j \in Inbound!Arrival
    <3>1. CASE j = i
      BY <1>1, <1>5, <3>1
    <3>2. CASE j # i
      BY <1>0, <1>5, <3>2 DEF Lined
    <3> QED
      BY <3>1, <3>2
  <2>3. \A j \in 1 .. n : reached'[j] = "chained" <=> j > n - (k - 1)
    <3> TAKE j \in 1 .. n
    <3>0. j \in Inbound!Arrival
      BY <1>1, InboundAssumption DEF Inbound!Arrival
    <3>1. CASE j = i
      BY <1>1, <1>5, <3>1
    <3>2. CASE j # i
      <4>1. reached'[j] = "chained" <=> j > n - k
        BY <1>0, <1>5, <3>0, <3>2 DEF Lined, Waits
      <4> QED
        BY <1>1, <3>2, <4>1
    <3> QED
      BY <3>1, <3>2
  <2> QED
    BY <1>1, <1>3, <1>4, <2>1, <2>2, <2>3 DEF Lined, Waits
<1>8. Inbound!NoStaleGuard'
  <2> SUFFICES ASSUME NEW g \in guards
               PROVE  \E j \in 1 .. n : reached'[j] = "handling" /\ id[j] = g
    BY <1>4 DEF Inbound!NoStaleGuard, Inbound!Handling
  <2>1. PICK j \in 1 .. n : reached[j] = "handling" /\ id[j] = g
    BY <1>0 DEF Inbound!NoStaleGuard, Inbound!Handling
  <2>2. j \in Inbound!Arrival
    BY <1>1, InboundAssumption DEF Inbound!Arrival
  <2> QED
    BY <1>5, <1>6, <2>1, <2>2
<1>9. BadCounted'
  <2>1. Finished \subseteq Finished'
    BY <1>2, <1>5, <1>6 DEF Finished
  <2>2. IsFiniteSet(Finished') /\ Cardinality(Finished') \in Nat
    <3>1. Finished' \subseteq Inbound!Arrival
      BY DEF Finished
    <3> QED
      BY <3>1, DoneIsFinite, FS_Subset, FS_CardinalityType
  <2>3. Cardinality(Finished) <= Cardinality(Finished')
    BY <2>1, <2>2, FS_Subset
  <2> QED
    BY <1>0, <1>4, <2>2, <2>3, DoneIsFinite DEF BadCounted, Inbound!TypeOK
<1>10. Inbound!TypeOK'
  BY <1>0, <1>3, <1>4, <1>5 DEF Inbound!TypeOK
<1> QED
  BY <1>7, <1>8, <1>9, <1>10 DEF InboundInv

LEMMA InboundStep == InboundInv /\ [Inbound!Next]_inboundVars => InboundInv'
<1> SUFFICES ASSUME InboundInv, [Inbound!Next]_inboundVars PROVE InboundInv'
  OBVIOUS
<1>0. Inbound!TypeOK /\ Lined /\ BadCounted /\ Inbound!NoStaleGuard
  BY DEF InboundInv
<1>1. ASSUME UNCHANGED <<side, chain, id, bad, reached, answers>>,
             conn' \in {"OPEN", "CLOSING", "CLOSED"}, guards' \subseteq guards,
             badCount' = badCount \/ badCount' = 0
      PROVE  InboundInv'
  <2>1. Finished' = Finished /\ Lined'
    BY <1>0, <1>1 DEF Finished, Lined, Waits
  <2>2. BadCounted' /\ badCount' \in 0 .. MaxArrivals
    BY <1>0, <1>1, <2>1, DoneIsFinite, InboundAssumption DEF BadCounted, Inbound!TypeOK
  <2>3. Inbound!NoStaleGuard'
    BY <1>0, <1>1 DEF Inbound!NoStaleGuard, Inbound!Handling
  <2>4. Inbound!TypeOK'
    BY <1>0, <1>1, <2>2 DEF Inbound!TypeOK
  <2> QED
    BY <2>1, <2>2, <2>3, <2>4 DEF InboundInv
<1>2. CASE Inbound!Lose
  BY <1>1, <1>2 DEF Inbound!Lose
<1>3. CASE Inbound!Close
  BY <1>1, <1>3 DEF Inbound!Close
<1>4. CASE Inbound!Reconnect
  BY <1>1, <1>4 DEF Inbound!Reconnect
<1>5. CASE UNCHANGED inboundVars
  BY <1>0, <1>1, <1>5 DEF inboundVars, Inbound!TypeOK
<1> QED
  BY <1>2, <1>3, <1>4, <1>5, ArriveKeeps, PreprocessKeeps, InboundStepKeeps DEF Inbound!Next

(* Order before the handlers follows from the place of the chain.          *)
LEMMA InboundIsExact == InboundInv => Inbound!InboundExact
<1>1. ASSUME InboundInv PROVE Inbound!DispatchedInOrder
  <2>1. Inbound!TypeOK /\ Lined
    BY <1>1 DEF InboundInv
  <2> SUFFICES ASSUME NEW i \in 1 .. Len(id), NEW j \in 1 .. Len(id), i < j,
                      reached[i] = "chained"
               PROVE  reached[j] = "chained"
    BY DEF Inbound!DispatchedInOrder
  <2>2. i > Len(id) - Len(chain) /\ Len(id) \in Nat /\ Len(chain) \in Nat
    BY <2>1 DEF Lined, Waits, Inbound!TypeOK
  <2>3. j > Len(id) - Len(chain)
    BY <2>2
  <2> QED
    BY <2>1, <2>3 DEF Lined, Waits
<1> QED
  BY <1>1 DEF InboundInv, Inbound!InboundExact

-----------------------------------------------------------------------------
(* The parts in their run *)

partVars == <<part, vars, bufferVars, inboundVars>>

LEMMA PartSteps ==
    ASSUME [NextParts]_partVars
    PROVE  /\ part' = part
           /\ part = "buffer" => [Buffer!Next]_bufferVars
           /\ part = "inbound" => [Inbound!Next]_inboundVars
           /\ [Next]_vars
  BY DEF NextParts, partVars

(* The registry takes its own steps, or rests.                             *)
LEMMA RegistryRuns == SpecParts => Spec
<1>1. InitParts => Init
  BY DEF InitParts
<1>2. [NextParts]_partVars => [Next]_vars
  BY PartSteps
<1> QED
  BY <1>1, <1>2, PTL DEF SpecParts, Spec, partVars

(* The backpressure queue keeps its types, what waits comes after what is   *)
(* written, and each message has one fate: its inductive invariant.        *)
THEOREM BufferInvariant == SpecParts => [](part = "buffer" => BufferInv)
<1>1. InitParts => BufferInv
  BY BufferInit DEF InitParts
<1>2. (part = "buffer" => BufferInv) /\ [NextParts]_partVars => (part = "buffer" => BufferInv)'
  BY PartSteps, BufferStep
<1> QED
  BY <1>1, <1>2, PTL DEF SpecParts, partVars

(* Messages are written in the order they were given to _safeSend          *)
(* (client.ts:1680-1737).                                                  *)
THEOREM OrderKept == SpecParts => []WrittenInOrder
<1>1. (part = "buffer" => BufferInv) => WrittenInOrder
  <2> SUFFICES ASSUME BufferInv PROVE Buffer!WrittenInOrder
    BY DEF WrittenInOrder
  <2>1. DOMAIN wire = 1..Len(wire)
    BY DEF BufferInv, Buffer!TypeOK
  <2> QED BY <2>1 DEF BufferInv, Increasing, Buffer!WrittenInOrder
<1> QED BY <1>1, BufferInvariant, PTL

(* No message is lost, sent twice, or sent after its call was told that it *)
(* was not (client.ts:1739-1767,2019-2023).                                *)
THEOREM FateKept == SpecParts => []OneFate
<1>1. (part = "buffer" => BufferInv) => OneFate
  BY DEF BufferInv, OneFate
<1> QED BY <1>1, BufferInvariant, PTL

(* In every reachable state the pipeline holds a suffix of what arrived    *)
(* and every guard has its handler.                                        *)
THEOREM InboundInvariant == SpecParts => [](part = "inbound" => InboundInv)
<1>1. InitParts => InboundInv
  BY InboundInit DEF InitParts
<1>2. (part = "inbound" => InboundInv) /\ [NextParts]_partVars
        => (part = "inbound" => InboundInv)'
  BY PartSteps, InboundStep
<1> QED
  BY <1>1, <1>2, PTL DEF SpecParts, partVars

(* No guard outlives the handler it stands for, however handlers, closes   *)
(* and new connections interleave, and messages leave the pipeline in the  *)
(* order they came in (client.ts:1221-1294, server-client.ts:157-165).     *)
THEOREM CallsHandledInOrder == SpecParts => []InboundExact
<1>1. (part = "inbound" => InboundInv) => InboundExact
  BY InboundIsExact DEF InboundExact
<1> QED
  BY <1>1, InboundInvariant, PTL
=============================================================================
