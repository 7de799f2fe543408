----------------------------- MODULE ClusterProofs -----------------------------
(***************************************************************************)
(* Forwarded calls of a cluster, for any sets of nodes, stations and calls *)
(* and any bounds: the entries of pending calls are exact, a request is    *)
(* handed over once, and an outcome is final.                              *)
(***************************************************************************)
EXTENDS Cluster, TLAPS

(* The streams as a function, and the calls whose request, or whose answer *)
(* of a client, is still to be read from them.                             *)
Streams == [Node -> Seq(Messages)]

Asked(st)    == {c \in Call : \E n \in Node : \E p \in 1 .. Len(st[n]) :
                    st[n][p].type = "request" /\ st[n][p].call = c}
Answered(st) == {c \in Call : \E n \in Node : \E p \in 1 .. Len(st[n]) :
                    st[n][p].type = "result" /\ st[n][p].ok /\ st[n][p].call = c}

(* No two requests of one call are in the streams.                         *)
Once(st) ==
    \A n, m \in Node : \A p \in 1 .. Len(st[n]), q \in 1 .. Len(st[m]) :
        /\ st[n][p].type = "request" /\ st[m][q].type = "request"
        /\ st[n][p].call = st[m][q].call
        => n = m /\ p = q

-----------------------------------------------------------------------------
(* What the functions and records of the state are made of.                *)
Typed ==
    /\ TypeOK
    /\ commands \in [Node -> Seq(Commands)]
    /\ stream \in Streams
    /\ call \in [Call -> [phase : Phase, origin : Node \cup {NoNode},
                          target : Identity \cup {NoNode}, node : Node \cup {NoNode}]]

(* A call that was made has an origin and a target; one that is being      *)
(* published has a node to go to.                                          *)
Addressed ==
    /\ \A c \in Call : call[c].phase # "idle" => call[c].origin \in Node /\ call[c].target \in Identity
    /\ \A c \in unpublished : call[c].node \in Node

(* The one request of a call is to be published, or in a stream, or was    *)
(* handed over, or is lost; only what was handed over is answered.         *)
OneRequest ==
    /\ Once(stream)
    /\ Asked(stream) \cap unpublished = {}
    /\ \A c \in Asked(stream) \cup unpublished :
          delivered[c] = 0 /\ call[c].phase \notin {"idle", "lookup"}
    /\ \A c \in Call : call[c].phase \in {"idle", "lookup"} => delivered[c] = 0
    /\ \A c \in Answered(stream) : delivered[c] = 1
    /\ \A n \in Node : \A c \in serving[n] : delivered[c] = 1

IInv == Typed /\ Addressed /\ PendingExact /\ OneRequest /\ HandedOverOnce

-----------------------------------------------------------------------------
(* A message is added to the streams, or the head of one is taken.         *)
Sent(st, new, msg) ==
    /\ new \in Streams /\ Once(new)
    /\ \A c \in Asked(new) : c \in Asked(st) \/ (msg.type = "request" /\ c = msg.call)
    /\ \A c \in Answered(new) :
          c \in Answered(st) \/ (msg.type = "result" /\ msg.ok /\ c = msg.call)

Taken(st, rest, msg) ==
    /\ rest \in Streams /\ msg \in Messages /\ Once(rest)
    /\ Asked(rest) \subseteq Asked(st)
    /\ Answered(rest) \subseteq Answered(st)
    /\ msg.type = "request" => msg.call \in Asked(st) /\ msg.call \notin Asked(rest)
    /\ msg.type = "result" /\ msg.ok => msg.call \in Answered(st)

LEMMA SendKeeps ==
    ASSUME NEW st \in Streams, NEW at \in Node, NEW msg \in Messages,
           Once(st), msg.type = "request" => msg.call \notin Asked(st),
           NEW new, new = [st EXCEPT ![at] = Append(@, msg)]
    PROVE  Sent(st, new, msg)
<1>1. \A k \in Node : st[k] \in Seq(Messages)
  BY DEF Streams
<1>2. new \in Streams
  BY <1>1 DEF Streams
<1>3. ASSUME NEW k \in Node, NEW p \in 1 .. Len(new[k])
      PROVE  \/ p \in 1 .. Len(st[k]) /\ new[k][p] = st[k][p]
             \/ k = at /\ p = Len(st[at]) + 1 /\ new[k][p] = msg
  BY <1>1 DEF Streams
<1>4. Once(new)
  <2> SUFFICES ASSUME NEW j \in Node, NEW k \in Node,
                      NEW p \in 1 .. Len(new[j]), NEW q \in 1 .. Len(new[k]),
                      new[j][p].type = "request", new[k][q].type = "request",
                      new[j][p].call = new[k][q].call
               PROVE  j = k /\ p = q
    BY DEF Once
  <2>1. \A c \in Call, i \in Node : \A r \in 1 .. Len(st[i]) :
           st[i][r].type = "request" /\ st[i][r].call = c => c \in Asked(st)
    BY DEF Asked
  <2>2. msg.call \in Call
    BY DEF Messages
  <2> QED BY <1>3, <2>1, <2>2 DEF Once
<1>5. \A c \in Asked(new) : c \in Asked(st) \/ (msg.type = "request" /\ c = msg.call)
  BY <1>3 DEF Asked
<1>6. \A c \in Answered(new) :
         c \in Answered(st) \/ (msg.type = "result" /\ msg.ok /\ c = msg.call)
  BY <1>3 DEF Answered
<1> QED BY <1>2, <1>4, <1>5, <1>6 DEF Sent

LEMMA OnceIs ==
    ASSUME NEW st,
           \A j, k \in Node : \A p \in 1 .. Len(st[j]), q \in 1 .. Len(st[k]) :
              /\ st[j][p].type = "request" /\ st[k][q].type = "request"
              /\ st[j][p].call = st[k][q].call
              => j = k /\ p = q
    PROVE  Once(st)
BY DEF Once

(* The head of a stream is read.                                           *)
LEMMA ReadKeeps ==
    ASSUME NEW st \in Streams, NEW at \in Node, st[at] # <<>>, Once(st),
           NEW msg, msg = Head(st[at]), NEW rest, rest = [st EXCEPT ![at] = Tail(@)]
    PROVE  Taken(st, rest, msg)
<1>1. \A k \in Node : st[k] \in Seq(Messages)
  BY DEF Streams
<1>2. rest \in Streams /\ msg \in Messages /\ Len(st[at]) \in Nat \ {0} /\ msg = st[at][1]
  BY <1>1 DEF Streams
<1>3. ASSUME NEW k \in Node, NEW p \in 1 .. Len(rest[k])
      PROVE  \/ k # at /\ p \in 1 .. Len(st[k]) /\ rest[k][p] = st[k][p]
             \/ k = at /\ p + 1 \in 2 .. Len(st[k]) /\ rest[k][p] = st[k][p + 1]
  BY <1>1 DEF Streams
<1>4. Once(rest)
  <2>1. \A i \in Node : \A r \in 2 .. Len(st[i]) : r \in 1 .. Len(st[i])
    BY <1>1
  <2>2. ASSUME NEW j \in Node, NEW k \in Node,
               NEW p \in 1 .. Len(rest[j]), NEW q \in 1 .. Len(rest[k]),
               rest[j][p].type = "request", rest[k][q].type = "request",
               rest[j][p].call = rest[k][q].call
        PROVE  j = k /\ p = q
    BY <1>3, <2>1, <2>2 DEF Once
  <2> QED BY ONLY <2>2, OnceIs
<1>5. Asked(rest) \subseteq Asked(st) /\ Answered(rest) \subseteq Answered(st)
  <2>1. \A i \in Node : \A r \in 2 .. Len(st[i]) : r \in 1 .. Len(st[i])
    BY <1>1
  <2> QED BY <1>3, <2>1 DEF Asked, Answered
<1>6. 1 \in 1 .. Len(st[at]) /\ msg.call \in Call
  BY <1>2 DEF Messages
<1>7. ASSUME msg.type = "request" PROVE msg.call \in Asked(st) /\ msg.call \notin Asked(rest)
  <2>1. msg.call \in Asked(st)
    BY <1>2, <1>6, <1>7 DEF Asked
  <2>2. ASSUME NEW k \in Node, NEW p \in 1 .. Len(rest[k]),
               rest[k][p].type = "request", rest[k][p].call = msg.call
        PROVE  FALSE
    <3>1. CASE k # at
      BY <1>2, <1>3, <1>6, <1>7, <2>2, <3>1 DEF Once
    <3>2. CASE k = at
      <4>1. p + 1 \in 1 .. Len(st[at]) /\ p + 1 # 1 /\ rest[k][p] = st[at][p + 1]
        BY <1>1, <1>3, <3>2
      <4> QED BY <1>2, <1>6, <1>7, <2>2, <4>1 DEF Once
    <3> QED BY <3>1, <3>2
  <2> QED BY <2>1, <2>2 DEF Asked
<1>8. msg.type = "result" /\ msg.ok => msg.call \in Answered(st)
  BY <1>2, <1>6 DEF Answered
<1> QED BY <1>2, <1>4, <1>5, <1>7, <1>8 DEF Taken

-----------------------------------------------------------------------------
LEMMA InitIInv == Init => IInv
<1> SUFFICES ASSUME Init PROVE IInv
  OBVIOUS
<1>1. Asked(stream) = {} /\ Answered(stream) = {} /\ Once(stream)
  BY DEF Init, Asked, Answered, Once
<1>2. Typed
  BY DEF Init, Typed, TypeOK, Streams, NoCall, Phase
<1> QED BY <1>1, <1>2 DEF Init, IInv, Addressed, PendingExact, OneRequest, HandedOverOnce, NoCall

(* The presence commands leave the calls alone.                            *)
LEMMA PresenceKeeps ==
    ASSUME IInv, Typed', UNCHANGED <<stream, callVars>>
    PROVE  IInv'
BY DEF IInv, Typed, Addressed, PendingExact, OneRequest, HandedOverOnce, callVars

LEMMA IssueTyped ==
    ASSUME Typed, NEW n \in Node, NEW cmd \in Commands, Issue(n, cmd)
    PROVE  commands' \in [Node -> Seq(Commands)]
BY DEF Typed, Issue

LEMMA StationMoves ==
    ASSUME IInv, NEW n \in Node, NEW i \in Identity, Connect(n, i) \/ Disconnect(n, i)
    PROVE  IInv'
<1> USE DEF IInv
<1>1. CASE Connect(n, i)
  <2>1. SetOf({i}) \in Commands
    BY DEF SetOf, Commands
  <2>2. commands' \in [Node -> Seq(Commands)]
    BY <1>1, <2>1, IssueTyped DEF Connect
  <2>3. Typed'
    BY <1>1, <2>2 DEF Connect, Typed, TypeOK, callVars
  <2> QED BY <1>1, <2>3, PresenceKeeps DEF Connect
<1>2. CASE Disconnect(n, i)
  <2>1. RemoveOf(i) \in Commands
    BY DEF RemoveOf, Commands
  <2>2. commands' \in [Node -> Seq(Commands)]
    BY <1>2, <2>1, IssueTyped DEF Disconnect
  <2>3. Typed'
    BY <1>2, <2>2 DEF Disconnect, Typed, TypeOK, callVars
  <2> QED BY <1>2, <2>3, PresenceKeeps DEF Disconnect
<1> QED BY <1>1, <1>2

LEMMA PresenceSteps ==
    ASSUME IInv, NEW n \in Node, Start(n) \/ RefreshPresence(n) \/ ExecuteCommand(n)
    PROVE  IInv'
<1> USE DEF IInv
<1>1. CASE Start(n)
  <2>1. Typed'
    BY <1>1 DEF Start, Typed, TypeOK, callVars, presenceVars
  <2> QED BY <1>1, <2>1, PresenceKeeps DEF Start
<1>2. CASE RefreshPresence(n)
  <2>1. SetOf(local[n]) \in Commands
    BY DEF SetOf, Commands, Typed, TypeOK
  <2>2. commands' \in [Node -> Seq(Commands)]
    BY <1>2, <2>1, IssueTyped DEF RefreshPresence
  <2>3. Typed'
    BY <1>2, <2>2 DEF RefreshPresence, Typed, TypeOK, callVars
  <2> QED BY <1>2, <2>3, PresenceKeeps DEF RefreshPresence
<1>3. CASE ExecuteCommand(n)
  <2>1. commands' \in [Node -> Seq(Commands)]
    BY <1>3 DEF ExecuteCommand, Typed
  <2>2. registry' \in [Identity -> Node \cup {NoNode}]
    BY <1>3 DEF ExecuteCommand, Typed, TypeOK
  <2>3. Typed'
    BY <1>3, <2>1, <2>2 DEF ExecuteCommand, Typed, TypeOK, callVars
  <2> QED BY <1>3, <2>3, PresenceKeeps DEF ExecuteCommand
<1> QED BY <1>1, <1>2, <1>3

LEMMA ExpireKeeps ==
    ASSUME IInv, NEW i \in Identity, Expire(i)
    PROVE  IInv'
<1> USE DEF IInv
<1>1. CASE Expire(i)
  <2>1. Typed'
    BY <1>1 DEF Expire, Typed, TypeOK, callVars
  <2> QED BY <1>1, <2>1, PresenceKeeps DEF Expire
<1> QED BY <1>1

LEMMA BlackoutKeeps ==
    ASSUME IInv, Blackout
    PROVE  IInv'
<1> USE DEF IInv
<1>1. Asked(stream') = {} /\ Answered(stream') = {} /\ Once(stream') /\ stream' \in Streams
  BY DEF Blackout, Asked, Answered, Once, Streams
<1>2. \A n \in Node : SetOf(local[n]) \in Commands
  BY DEF SetOf, Commands, Typed, TypeOK
<1>3. commands' \in [Node -> Seq(Commands)]
  BY <1>2 DEF Blackout, Typed
<1>4. Typed'
  BY <1>1, <1>3 DEF Blackout, Typed, TypeOK, Streams, callVars
<1> QED BY <1>1, <1>4 DEF Blackout, Addressed, PendingExact, OneRequest, HandedOverOnce, callVars

-----------------------------------------------------------------------------
LEMMA SendToClientKeeps ==
    ASSUME IInv, NEW n \in Node, NEW i \in Identity, NEW c \in Call, SendToClient(n, i, c)
    PROVE  IInv'
<1> USE DEF IInv
<1>1. c \notin Asked(stream) \cup unpublished /\ delivered[c] = 0
  BY DEF SendToClient, OneRequest
<1>2. Typed'
  BY DEF SendToClient, Typed, TypeOK, Phase, presenceVars
<1>3. Addressed' /\ PendingExact'
  BY <1>1 DEF SendToClient, Addressed, PendingExact, Typed
<1>4. OneRequest' /\ HandedOverOnce'
  BY <1>1 DEF SendToClient, OneRequest, HandedOverOnce, Typed
<1> QED BY <1>2, <1>3, <1>4

(* Settling a call changes nothing of it but its phase.                    *)
LEMMA SettleIs ==
    ASSUME Typed, NEW c \in Call, NEW how, Settle(c, how)
    PROVE  call' = [call EXCEPT ![c] = [phase |-> how, origin |-> call[c].origin,
                                        target |-> call[c].target, node |-> call[c].node]]
<1> DEFINE rec == [phase |-> how, origin |-> call[c].origin,
                   target |-> call[c].target, node |-> call[c].node]
<1>1. [call[c] EXCEPT !.phase = how] = rec
  BY DEF Typed
<1>2. call' = [call EXCEPT ![c] = [call[c] EXCEPT !.phase = how]]
  BY DEF Settle
<1> QED BY <1>1, <1>2

(* A call is pending and its request is about to be published.             *)
LEMMA WaitsKeeps ==
    ASSUME IInv, NEW c \in Call, call[c].phase = "lookup", NEW to \in Node,
           call' = [call EXCEPT ![c] = [phase |-> "waiting", origin |-> call[c].origin,
                                        target |-> call[c].target, node |-> to]],
           pending' = [pending EXCEPT ![call[c].origin] = @ \cup {c}],
           unpublished' = unpublished \cup {c},
           UNCHANGED <<up, stream, presenceVars, serving, delivered>>
    PROVE  IInv'
<1> USE DEF IInv
<1>1. /\ call[c].origin \in Node /\ call[c].target \in Identity
      /\ c \notin Asked(stream) \cup unpublished /\ delivered[c] = 0
  BY DEF OneRequest, Addressed, Typed, TypeOK
<1>2. /\ call'[c] = [phase |-> "waiting", origin |-> call[c].origin,
                     target |-> call[c].target, node |-> to]
      /\ \A d \in Call \ {c} : call'[d] = call[d]
  BY DEF Typed
<1>3. Typed'
  BY <1>1 DEF Typed, TypeOK, Phase, presenceVars
<1>4. Addressed'
  BY <1>1, <1>2 DEF Addressed
<1>5. PendingExact'
  BY <1>1, <1>2 DEF PendingExact, Typed, TypeOK
<1>6. OneRequest'
  <2>1. \A d \in Asked(stream) \cup unpublished' :
           delivered[d] = 0 /\ call'[d].phase \notin {"idle", "lookup"}
    BY <1>1, <1>2 DEF OneRequest, Typed, TypeOK, Asked
  <2> QED BY <1>1, <1>2, <2>1 DEF OneRequest
<1>7. HandedOverOnce'
  BY <1>2 DEF HandedOverOnce
<1> QED BY <1>3, <1>4, <1>5, <1>6, <1>7

LEMMA LookupEndsKeeps ==
    ASSUME IInv, NEW c \in Call, LookupEnds(c)
    PROVE  IInv'
<1> USE DEF IInv
<1> DEFINE node == registry[call[c].target]
<1>1. call[c].phase = "lookup" /\ UNCHANGED <<up, stream, presenceVars, serving, delivered>>
  BY DEF LookupEnds
<1>2. /\ call[c].origin \in Node /\ call[c].target \in Identity
      /\ node \in Node \cup {NoNode}
      /\ c \notin Asked(stream) \cup unpublished /\ delivered[c] = 0
  BY <1>1 DEF OneRequest, Addressed, Typed, TypeOK
<1>3. CASE node = NoNode
  <2>1. UNCHANGED <<unpublished, pending>> /\ Settle(c, "notfound")
    BY <1>3 DEF LookupEnds
  <2> DEFINE rec == [phase |-> "notfound", origin |-> call[c].origin,
                     target |-> call[c].target, node |-> call[c].node]
  <2>2. call' = [call EXCEPT ![c] = rec]
    BY <2>1, SettleIs
  <2>3. Typed'
    BY <1>1, <2>1, <2>2 DEF Typed, TypeOK, Phase, Settled, presenceVars
  <2>4. Addressed' /\ PendingExact'
    BY <1>1, <2>1, <2>2 DEF Addressed, PendingExact, Typed
  <2>5. OneRequest' /\ HandedOverOnce'
    BY <1>1, <1>2, <2>1, <2>2 DEF OneRequest, HandedOverOnce, Typed
  <2> QED BY <2>3, <2>4, <2>5
<1>4. CASE node # NoNode
  <2>1. PICK to \in Node : to = node
    BY <1>2, <1>4
  <2>2. /\ call' = [call EXCEPT ![c].phase = "waiting", ![c].node = to]
        /\ pending' = [pending EXCEPT ![call[c].origin] = @ \cup {c}]
        /\ unpublished' = unpublished \cup {c}
    BY <1>4, <2>1 DEF LookupEnds
  <2> DEFINE one == [phase |-> "waiting", origin |-> call[c].origin,
                     target |-> call[c].target, node |-> call[c].node]
             rec == [phase |-> "waiting", origin |-> call[c].origin,
                     target |-> call[c].target, node |-> to]
  <2>3. [call EXCEPT ![c].phase = "waiting"] = [call EXCEPT ![c] = one]
    <3>1. [call[c] EXCEPT !.phase = "waiting"] = one
      BY DEF Typed
    <3> QED BY <3>1
  <2>4. call' = [call EXCEPT ![c] = rec]
    <3>1. call' = [[call EXCEPT ![c].phase = "waiting"] EXCEPT ![c].node = to]
      BY <2>2
    <3>2. [one EXCEPT !.node = to] = rec
      OBVIOUS
    <3>3. [[call EXCEPT ![c] = one] EXCEPT ![c].node = to] = [call EXCEPT ![c] = rec]
      BY <3>2 DEF Typed
    <3> QED BY <2>3, <3>1, <3>3
  <2> QED BY <1>1, <2>2, <2>4, WaitsKeeps
<1> QED BY <1>3, <1>4

-----------------------------------------------------------------------------
(* What the other steps do to calls: a call keeps its address, and only    *)
(* one that was handed over becomes answered.                              *)
CallsGoOn ==
    \A c \in Call :
        /\ call'[c].origin = call[c].origin /\ call'[c].target = call[c].target
        /\ call'[c].node = call[c].node
        /\ call'[c].phase # call[c].phase =>
              call[c].phase # "idle" /\ call'[c].phase \notin {"idle", "lookup"}
        /\ call'[c].phase = "answered" => call[c].phase = "answered" \/ delivered[c] = 1

(* What they do to requests: none is made, one that is handed over leaves. *)
RequestsGoOn ==
    /\ Once(stream')
    /\ unpublished' \subseteq unpublished
    /\ Asked(stream') \subseteq Asked(stream) \cup unpublished
    /\ Asked(stream') \cap unpublished' = {}
    /\ \A c \in Call : delivered'[c] # delivered[c] =>
          delivered'[c] = 1 /\ c \in Asked(stream) /\ c \notin Asked(stream')
    /\ \A c \in Answered(stream') : delivered'[c] = 1
    /\ \A n \in Node : \A c \in serving'[n] : delivered'[c] = 1

LEMMA GoesOn ==
    ASSUME IInv, Typed', PendingExact', CallsGoOn, RequestsGoOn
    PROVE  IInv'
<1> USE DEF IInv
<1>1. Asked(stream) \subseteq Call /\ Asked(stream') \subseteq Call /\ unpublished \subseteq Call
  BY DEF Asked, Typed, TypeOK
<1>2. \A c \in Asked(stream) : c \notin unpublished
  BY DEF OneRequest
<1>3. Addressed'
  BY <1>1 DEF Addressed, CallsGoOn, RequestsGoOn
<1>4. OneRequest'
  <2>1. \A c \in Asked(stream') \cup unpublished' :
           delivered'[c] = 0 /\ call'[c].phase \notin {"idle", "lookup"}
    BY <1>1, <1>2 DEF OneRequest, CallsGoOn, RequestsGoOn
  <2>2. \A c \in Call : call'[c].phase \in {"idle", "lookup"} => delivered'[c] = 0
    BY DEF OneRequest, CallsGoOn, RequestsGoOn
  <2> QED BY <2>1, <2>2 DEF OneRequest, RequestsGoOn
<1>5. HandedOverOnce'
  BY DEF HandedOverOnce, OneRequest, CallsGoOn, RequestsGoOn
<1> QED BY <1>3, <1>4, <1>5

(* A pending call is settled with its entry removed.                       *)
LEMMA SettlesExactly ==
    ASSUME IInv, NEW c \in Call, NEW n \in Node, c \in pending[n], NEW how \in Settled,
           Settle(c, how), pending' = [pending EXCEPT ![n] = @ \ {c}],
           how = "answered" => delivered[c] = 1
    PROVE  /\ call' \in [Call -> [phase : Phase, origin : Node \cup {NoNode},
                                  target : Identity \cup {NoNode}, node : Node \cup {NoNode}]]
           /\ pending' \in [Node -> SUBSET Call]
           /\ PendingExact' /\ CallsGoOn
<1> USE DEF IInv
<1>1. call[c].phase = "waiting" /\ call[c].origin = n
  BY DEF PendingExact
<1>2. call' = [call EXCEPT ![c] = [phase |-> how, origin |-> call[c].origin,
                                   target |-> call[c].target, node |-> call[c].node]]
  BY SettleIs
<1>3. how \in Phase /\ how \notin {"idle", "lookup", "waiting", "crashed"}
  BY DEF Phase, Settled
<1>4. call' \in [Call -> [phase : Phase, origin : Node \cup {NoNode},
                          target : Identity \cup {NoNode}, node : Node \cup {NoNode}]]
  BY <1>2, <1>3 DEF Typed
<1>5. pending' \in [Node -> SUBSET Call]
  BY DEF Typed, TypeOK
<1>6. /\ call'[c] = [phase |-> how, origin |-> call[c].origin,
                     target |-> call[c].target, node |-> call[c].node]
      /\ \A d \in Call \ {c} : call'[d] = call[d]
  BY <1>2 DEF Typed
<1>7. PendingExact'
  BY <1>1, <1>3, <1>6 DEF PendingExact, Typed, TypeOK
<1>8. CallsGoOn
  BY <1>1, <1>3, <1>6 DEF CallsGoOn
<1> QED BY <1>4, <1>5, <1>7, <1>8

LEMMA CallsUnchanged ==
    ASSUME IInv, UNCHANGED <<call, pending>>
    PROVE  PendingExact' /\ CallsGoOn
BY DEF IInv, PendingExact, CallsGoOn

(* The request of a call is added to the stream of a node.                 *)
LEMMA RequestSent ==
    ASSUME IInv, NEW c \in unpublished, unpublished' = unpublished \ {c},
           stream' = stream \/ stream' = Send(call[c].node, Request(c)),
           UNCHANGED <<serving, delivered>>
    PROVE  stream' \in Streams /\ RequestsGoOn
<1> USE DEF IInv
<1>1. c \in Call /\ call[c].node \in Node /\ c \notin Asked(stream) /\ Once(stream)
      /\ stream \in Streams
  BY DEF Typed, TypeOK, Addressed, OneRequest
<1>2. Request(c) \in Messages /\ Request(c).type = "request" /\ Request(c).call = c
  BY <1>1 DEF Request, Messages
<1>3. /\ stream' \in Streams /\ Once(stream')
      /\ Asked(stream') \subseteq Asked(stream) \cup {c}
      /\ Answered(stream') \subseteq Answered(stream)
  <2>1. CASE stream' = stream
    BY <1>1, <2>1
  <2>2. CASE stream' = Send(call[c].node, Request(c))
    <3>1. stream' = [stream EXCEPT ![call[c].node] = Append(@, Request(c))]
      BY <2>2 DEF Send
    <3>2. Sent(stream, stream', Request(c))
      BY <1>1, <1>2, <3>1, SendKeeps
    <3> QED BY <1>2, <3>2 DEF Sent
  <2> QED BY <2>1, <2>2
<1> QED BY <1>3 DEF RequestsGoOn, OneRequest

LEMMA RequestsUnchanged ==
    ASSUME IInv, UNCHANGED <<stream, delivered>>, unpublished' \subseteq unpublished,
           \A n \in Node : serving'[n] \subseteq serving[n]
    PROVE  RequestsGoOn
BY DEF IInv, OneRequest, RequestsGoOn

LEMMA HeadIsTaken ==
    ASSUME IInv, NEW n \in Node, Read(n), NEW rest, rest = [stream EXCEPT ![n] = Tail(@)]
    PROVE  Taken(stream, rest, Head(stream[n]))
<1>1. stream \in Streams /\ stream[n] # <<>> /\ Once(stream)
  BY DEF IInv, Typed, OneRequest, Read
<1> QED BY <1>1, ReadKeeps

-----------------------------------------------------------------------------
LEMMA PublishedKeeps ==
    ASSUME IInv, NEW c \in Call, Published(c)
    PROVE  IInv'
<1>1. stream' \in Streams /\ RequestsGoOn
  BY RequestSent DEF Published
<1>2. Typed'
  BY <1>1 DEF IInv, Published, Typed, TypeOK, Streams, presenceVars
<1>3. PendingExact' /\ CallsGoOn
  BY CallsUnchanged DEF Published
<1> QED BY <1>1, <1>2, <1>3, GoesOn

LEMMA PublishFailsKeeps ==
    ASSUME IInv, NEW c \in Call, PublishFails(c)
    PROVE  IInv'
<1>1. c \in unpublished /\ call[c].origin \in Node
  BY DEF IInv, PublishFails, OneRequest, Addressed
<1>2. stream' \in Streams /\ RequestsGoOn
  BY <1>1, RequestSent DEF PublishFails
<1>3. PICK n \in Node : n = call[c].origin
  BY <1>1
<1>4. /\ call' \in [Call -> [phase : Phase, origin : Node \cup {NoNode},
                             target : Identity \cup {NoNode}, node : Node \cup {NoNode}]]
      /\ pending' \in [Node -> SUBSET Call]
      /\ PendingExact' /\ CallsGoOn
  <2>1. CASE c \in pending[n]
    <3>1. Settle(c, "failed") /\ pending' = [pending EXCEPT ![n] = @ \ {c}]
      BY <1>3, <2>1 DEF PublishFails
    <3>2. "failed" \in Settled
      BY DEF Settled
    <3> QED BY <2>1, <3>1, <3>2, SettlesExactly
  <2>2. CASE c \notin pending[n]
    <3>1. UNCHANGED <<call, pending>>
      BY <1>3, <2>2 DEF PublishFails
    <3> QED BY <3>1, CallsUnchanged DEF IInv, Typed, TypeOK
  <2> QED BY <2>1, <2>2
<1>5. Typed'
  BY <1>2, <1>4 DEF IInv, PublishFails, Typed, TypeOK, Streams, presenceVars
<1> QED BY <1>2, <1>4, <1>5, GoesOn

LEMMA TimeoutKeeps ==
    ASSUME IInv, NEW c \in Call, Timeout(c)
    PROVE  IInv'
<1>1. call[c].origin \in Node
  BY DEF IInv, Timeout, Addressed
<1>2. PICK n \in Node : n = call[c].origin
  BY <1>1
<1>3. c \in pending[n] /\ Settle(c, "timeout") /\ pending' = [pending EXCEPT ![n] = @ \ {c}]
  BY <1>2 DEF Timeout
<1>4. "timeout" \in Settled
  BY DEF Settled
<1>5. /\ call' \in [Call -> [phase : Phase, origin : Node \cup {NoNode},
                             target : Identity \cup {NoNode}, node : Node \cup {NoNode}]]
      /\ pending' \in [Node -> SUBSET Call]
      /\ PendingExact' /\ CallsGoOn
  BY <1>3, <1>4, SettlesExactly
<1>6. RequestsGoOn
  BY RequestsUnchanged DEF Timeout
<1>7. Typed'
  BY <1>5 DEF IInv, Timeout, Typed, TypeOK, Streams, presenceVars
<1> QED BY <1>5, <1>6, <1>7, GoesOn

LEMMA DeliverKeeps ==
    ASSUME IInv, NEW n \in Node, Deliver(n)
    PROVE  IInv'
<1>1. PICK m : m = Head(stream[n])
  OBVIOUS
<1>2. Taken(stream, stream', m) /\ m.type = "request"
  BY <1>1, HeadIsTaken DEF Deliver
<1>3. /\ serving' = [serving EXCEPT ![n] = @ \cup {m.call}]
      /\ delivered' = [delivered EXCEPT ![m.call] = @ + 1]
      /\ UNCHANGED <<up, presenceVars, call, unpublished, pending>>
  BY <1>1 DEF Deliver
<1>4. m.call \in Call /\ m.call \in Asked(stream) /\ m.call \notin Asked(stream')
  BY <1>2 DEF Taken, Messages
<1>5. delivered[m.call] = 0 /\ delivered'[m.call] = 1
      /\ \A c \in Call : c # m.call => delivered'[c] = delivered[c]
  BY <1>3, <1>4 DEF IInv, OneRequest, Typed, TypeOK
<1>6. RequestsGoOn
  <2>1. \A c \in Answered(stream') : delivered'[c] = 1
    BY <1>2, <1>5 DEF Taken, IInv, OneRequest, Answered
  <2>2. \A k \in Node : \A c \in serving'[k] : delivered'[c] = 1
    BY <1>3, <1>4, <1>5 DEF IInv, OneRequest, Typed, TypeOK
  <2>3. /\ Once(stream') /\ Asked(stream') \subseteq Asked(stream)
        /\ unpublished' = unpublished /\ Asked(stream) \cap unpublished = {}
    BY <1>2, <1>3 DEF Taken, IInv, OneRequest
  <2> QED BY <1>4, <1>5, <2>1, <2>2, <2>3 DEF RequestsGoOn
<1>7. PendingExact' /\ CallsGoOn
  BY <1>3, CallsUnchanged
<1>8. Typed'
  BY <1>2, <1>3, <1>4 DEF Taken, IInv, Typed, TypeOK, Streams, presenceVars
<1> QED BY <1>6, <1>7, <1>8, GoesOn

(* A result is added to the streams: only what was handed over is answered. *)
LEMMA ResultSent ==
    ASSUME IInv, NEW st, NEW c \in Call, NEW ok \in BOOLEAN,
           Asked(st) \subseteq Asked(stream), Answered(st) \subseteq Answered(stream),
           Sent(st, stream', Result(c, ok)), ok => delivered[c] = 1,
           UNCHANGED <<unpublished, delivered>>,
           \A n \in Node : serving'[n] \subseteq serving[n]
    PROVE  RequestsGoOn
<1>1. Result(c, ok).type = "result" /\ Result(c, ok).ok = ok /\ Result(c, ok).call = c
  BY DEF Result
<1>2. Once(stream') /\ Asked(stream') \subseteq Asked(stream)
  BY <1>1 DEF Sent
<1>3. \A d \in Answered(stream') : d \in Answered(stream) \/ (ok /\ d = c)
  BY <1>1 DEF Sent
<1>4. \A d \in Answered(stream') : delivered[d] = 1
  BY <1>3 DEF IInv, OneRequest
<1> QED BY <1>2, <1>4 DEF IInv, OneRequest, RequestsGoOn

LEMMA ResultIsMessage ==
    ASSUME NEW c \in Call, NEW ok \in BOOLEAN
    PROVE  Result(c, ok) \in Messages /\ Result(c, ok).type = "result"
BY DEF Result, Messages

LEMMA NotHereKeeps ==
    ASSUME IInv, NEW n \in Node, NotHere(n)
    PROVE  IInv'
<1>1. PICK m : m = Head(stream[n])
  OBVIOUS
<1>2. PICK rest : rest = [stream EXCEPT ![n] = Tail(@)]
  OBVIOUS
<1>3. Taken(stream, rest, m) /\ m.type = "request"
  BY <1>1, <1>2, HeadIsTaken DEF NotHere
<1>4. PICK c \in Call : c = m.call
  BY <1>3 DEF Taken, Messages
<1>5. c \in Asked(stream) /\ call[c].origin \in Node /\ call[c].target \in Identity
  BY <1>3, <1>4 DEF Taken, IInv, OneRequest, Addressed
<1>6. /\ stream' = [rest EXCEPT ![call[c].origin] = Append(@, Result(c, FALSE))]
      /\ Issue(n, RemoveOf(call[c].target))
      /\ UNCHANGED <<up, local, registry, connects, blackouts, callVars>>
  BY <1>1, <1>2, <1>4 DEF NotHere
<1>7. Sent(rest, stream', Result(c, FALSE))
  <2>1. /\ rest \in Streams /\ Once(rest)
        /\ Result(c, FALSE) \in Messages /\ Result(c, FALSE).type = "result"
    BY <1>3, ResultIsMessage DEF Taken
  <2> QED BY <1>5, <1>6, <2>1, SendKeeps
<1>8. RequestsGoOn
  <2>1. Asked(rest) \subseteq Asked(stream) /\ Answered(rest) \subseteq Answered(stream)
    BY <1>3 DEF Taken
  <2>2. UNCHANGED <<unpublished, delivered, serving>>
    BY <1>6 DEF callVars
  <2> QED BY <1>7, <2>1, <2>2, ResultSent
<1>9. PendingExact' /\ CallsGoOn
  BY <1>6, CallsUnchanged DEF callVars
<1>10. Typed'
  <2>1. RemoveOf(call[c].target) \in Commands
    BY <1>5 DEF RemoveOf, Commands
  <2>2. commands' \in [Node -> Seq(Commands)]
    BY <1>6, <2>1, IssueTyped DEF IInv
  <2> QED BY <1>6, <1>7, <2>2 DEF Sent, IInv, Typed, TypeOK, Streams, callVars
<1> QED BY <1>8, <1>9, <1>10, GoesOn

LEMMA ResultArrivesKeeps ==
    ASSUME IInv, NEW n \in Node, ResultArrives(n)
    PROVE  IInv'
<1>1. PICK m : m = Head(stream[n])
  OBVIOUS
<1>2. Taken(stream, stream', m) /\ m.type = "result"
  BY <1>1, HeadIsTaken DEF ResultArrives
<1>3. PICK c \in Call : c = m.call
  BY <1>2 DEF Taken, Messages
<1>4. UNCHANGED <<up, presenceVars, unpublished, serving, delivered>>
  BY DEF ResultArrives
<1>5. RequestsGoOn
  BY <1>2, <1>4 DEF Taken, IInv, OneRequest, RequestsGoOn
<1>6. /\ call' \in [Call -> [phase : Phase, origin : Node \cup {NoNode},
                             target : Identity \cup {NoNode}, node : Node \cup {NoNode}]]
      /\ pending' \in [Node -> SUBSET Call]
      /\ PendingExact' /\ CallsGoOn
  <2>1. CASE c \in pending[n]
    <3>1. PICK how : how = IF m.ok THEN "answered" ELSE "refused"
      OBVIOUS
    <3>2. Settle(c, how) /\ pending' = [pending EXCEPT ![n] = @ \ {c}]
      BY <1>1, <1>3, <2>1, <3>1 DEF ResultArrives
    <3>3. how \in Settled /\ (how = "answered" => m.ok)
      BY <3>1 DEF Settled
    <3>4. how = "answered" => delivered[c] = 1
      BY <1>2, <1>3, <3>3 DEF Taken, IInv, OneRequest
    <3> QED BY <2>1, <3>2, <3>3, <3>4, SettlesExactly
  <2>2. CASE c \notin pending[n]
    <3>1. UNCHANGED <<call, pending>>
      BY <1>1, <1>3, <2>2 DEF ResultArrives
    <3> QED BY <3>1, CallsUnchanged DEF IInv, Typed, TypeOK
  <2> QED BY <2>1, <2>2
<1>7. Typed'
  BY <1>2, <1>4, <1>6 DEF Taken, IInv, Typed, TypeOK, Streams, presenceVars
<1> QED BY <1>5, <1>6, <1>7, GoesOn

LEMMA ServedKeeps ==
    ASSUME IInv, NEW n \in Node, NEW c \in Call, NEW ok \in BOOLEAN, Served(n, c, ok)
    PROVE  IInv'
<1>1. /\ serving' = [serving EXCEPT ![n] = @ \ {c}]
      /\ UNCHANGED <<up, presenceVars, call, unpublished, pending, delivered>>
  BY DEF Served
<1>2. serving' \in [Node -> SUBSET Call] /\ \A k \in Node : serving'[k] \subseteq serving[k]
  BY <1>1 DEF IInv, Typed, TypeOK
<1>3. delivered[c] = 1 /\ call[c].origin \in Node
  BY DEF Served, IInv, OneRequest, Addressed
<1>4. stream' \in Streams /\ RequestsGoOn
  <2>1. CASE stream' = stream
    BY <1>1, <1>2, <2>1, RequestsUnchanged DEF IInv, Typed
  <2>2. CASE stream' = Send(call[c].origin, Result(c, ok))
    <3>1. stream' = [stream EXCEPT ![call[c].origin] = Append(@, Result(c, ok))]
      BY <2>2 DEF Send
    <3>2. /\ stream \in Streams /\ Once(stream)
          /\ Result(c, ok) \in Messages /\ Result(c, ok).type = "result"
      BY ResultIsMessage DEF IInv, Typed, OneRequest
    <3>3. Sent(stream, stream', Result(c, ok))
      BY <1>3, <3>1, <3>2, SendKeeps
    <3>4. RequestsGoOn
      BY <1>1, <1>2, <1>3, <3>3, ResultSent
    <3> QED BY <3>3, <3>4 DEF Sent
  <2> QED BY <2>1, <2>2 DEF Served
<1>5. PendingExact' /\ CallsGoOn
  BY <1>1, CallsUnchanged
<1>6. Typed'
  BY <1>1, <1>2, <1>4 DEF IInv, Typed, TypeOK, Streams, presenceVars
<1> QED BY <1>4, <1>5, <1>6, GoesOn

-----------------------------------------------------------------------------
LEMMA CrashKeeps ==
    ASSUME IInv, NEW n \in Node, Crash(n)
    PROVE  IInv'
<1>1. \A c \in Call : [call[c] EXCEPT !.phase = "crashed"] =
         [phase |-> "crashed", origin |-> call[c].origin,
          target |-> call[c].target, node |-> call[c].node]
  BY DEF IInv, Typed
<1>2. call' = [c \in Call |->
         IF c \in Mine(n) THEN [phase |-> "crashed", origin |-> call[c].origin,
                            target |-> call[c].target, node |-> call[c].node]
         ELSE call[c]]
  BY <1>1 DEF Crash
<1>3. call' \in [Call -> [phase : Phase, origin : Node \cup {NoNode},
                         target : Identity \cup {NoNode}, node : Node \cup {NoNode}]]
  BY <1>2 DEF IInv, Typed, Phase, Settled
<1>4. PendingExact'
  BY <1>2 DEF Crash, Mine, IInv, PendingExact, Typed, TypeOK
<1>5. CallsGoOn
  <2>1. \A c \in Call : c \in Mine(n) => call[c].phase # "idle"
    BY DEF Mine
  <2> QED BY <1>2, <2>1 DEF CallsGoOn
<1>6. RequestsGoOn
  <2>1. \A k \in Node : serving'[k] \subseteq serving[k]
    BY DEF Crash, IInv, Typed, TypeOK
  <2> QED BY <2>1, RequestsUnchanged DEF Crash
<1>7. Typed'
  <2>1. <<>> \in Seq(Commands)
    OBVIOUS
  <2>2. commands' \in [Node -> Seq(Commands)]
    BY <2>1 DEF Crash, IInv, Typed
  <2> QED BY <1>3, <2>2 DEF Crash, IInv, Typed, TypeOK
<1> QED BY <1>4, <1>5, <1>6, <1>7, GoesOn

LEMMA CloseServerKeeps ==
    ASSUME IInv, NEW n \in Node, CloseServer(n)
    PROVE  IInv'
<1>1. \A c \in Call : [call[c] EXCEPT !.phase = "failed"] =
         [phase |-> "failed", origin |-> call[c].origin,
          target |-> call[c].target, node |-> call[c].node]
  BY DEF IInv, Typed
<1>2. call' = [c \in Call |->
         IF c \in pending[n] THEN [phase |-> "failed", origin |-> call[c].origin,
                            target |-> call[c].target, node |-> call[c].node]
         ELSE call[c]]
  BY <1>1 DEF CloseServer
<1>3. call' \in [Call -> [phase : Phase, origin : Node \cup {NoNode},
                         target : Identity \cup {NoNode}, node : Node \cup {NoNode}]]
  BY <1>2 DEF IInv, Typed, Phase, Settled
<1>4. PendingExact'
  BY <1>2 DEF CloseServer, IInv, PendingExact, Typed, TypeOK
<1>5. CallsGoOn
  <2>1. \A c \in Call : c \in pending[n] => call[c].phase # "idle"
    BY DEF IInv, PendingExact
  <2> QED BY <1>2, <2>1 DEF CallsGoOn
<1>6. RequestsGoOn
  BY RequestsUnchanged DEF CloseServer
<1>7. Typed'
  BY <1>3 DEF CloseServer, IInv, Typed, TypeOK, presenceVars
<1> QED BY <1>4, <1>5, <1>6, <1>7, GoesOn

LEMMA NextKeeps == IInv /\ [Next]_vars => IInv'
<1> SUFFICES ASSUME IInv, [Next]_vars PROVE IInv'
  OBVIOUS
<1>1. CASE \E n \in Node, i \in Identity : Connect(n, i) \/ Disconnect(n, i)
  BY <1>1, StationMoves
<1>2. ASSUME NEW n \in Node, Start(n) \/ RefreshPresence(n) \/ ExecuteCommand(n)
      PROVE  IInv'
  BY <1>2, PresenceSteps
<1>3. ASSUME NEW n \in Node, Deliver(n) \/ NotHere(n) \/ ResultArrives(n)
      PROVE  IInv'
  BY <1>3, DeliverKeeps, NotHereKeeps, ResultArrivesKeeps
<1>4. ASSUME NEW n \in Node, Crash(n) \/ CloseServer(n)
      PROVE  IInv'
  BY <1>4, CrashKeeps, CloseServerKeeps
<1>5. ASSUME NEW i \in Identity, Expire(i)
      PROVE  IInv'
  BY <1>5, ExpireKeeps
<1>6. CASE Blackout
  BY <1>6, BlackoutKeeps
<1>7. ASSUME NEW c \in Call, LookupEnds(c) \/ Published(c) \/ PublishFails(c) \/ Timeout(c)
      PROVE  IInv'
  BY <1>7, LookupEndsKeeps, PublishedKeeps, PublishFailsKeeps, TimeoutKeeps
<1>8. CASE \E n \in Node, i \in Identity, c \in Call : SendToClient(n, i, c)
  BY <1>8, SendToClientKeeps
<1>9. CASE \E n \in Node, c \in Call, ok \in BOOLEAN : Served(n, c, ok)
  BY <1>9, ServedKeeps
<1>10. CASE UNCHANGED vars
  <2>1. UNCHANGED <<stream, callVars>> /\ Typed'
    BY <1>10 DEF vars, callVars, IInv, Typed, TypeOK
  <2> QED BY <2>1, PresenceKeeps
<1> QED BY <1>1, <1>2, <1>3, <1>4, <1>5, <1>6, <1>7, <1>8, <1>9, <1>10 DEF Next

(* The outcome of a call does not change any more.                         *)
LEMMA OutcomeStays ==
    ASSUME IInv, [Next]_vars, NEW c \in Call, call[c].phase \in Settled
    PROVE  call'[c].phase = call[c].phase
<1>1. call[c].phase \notin {"idle", "lookup", "waiting"}
  BY DEF Settled
<1>2. \A n \in Node : c \notin pending[n]
  BY <1>1 DEF IInv, PendingExact
<1>3. \A d \in Call : call[d].origin \in Node \/ call[d].phase = "idle"
  BY DEF IInv, Addressed
<1>4. UNCHANGED call => call'[c].phase = call[c].phase
  OBVIOUS
<1>5. ASSUME NEW d \in Call, call[d].phase \in {"idle", "lookup", "waiting"}, NEW rec,
             call' = [call EXCEPT ![d] = rec]
      PROVE  call'[c].phase = call[c].phase
  BY <1>1, <1>5 DEF IInv, Typed
<1>6. ASSUME NEW d \in Call, NEW n \in Node, d \in pending[n], NEW how, Settle(d, how)
      PROVE  call'[c].phase = call[c].phase
  <2>1. call[d].phase = "waiting"
    BY <1>6 DEF IInv, PendingExact
  <2> QED BY <1>5, <1>6, <2>1, SettleIs DEF IInv
<1>7. ASSUME NEW d \in Call, LookupEnds(d) PROVE call'[c].phase = call[c].phase
  <2>1. c # d
    BY <1>1, <1>7 DEF LookupEnds
  <2>2. call'[c] = call[c]
    BY <1>7, <2>1 DEF LookupEnds, Settle, IInv, Typed
  <2> QED BY <2>2
<1>8. ASSUME NEW d \in Call, PublishFails(d) \/ Timeout(d) PROVE call'[c].phase = call[c].phase
  BY <1>3, <1>4, <1>6, <1>8 DEF PublishFails, Timeout, IInv, OneRequest
<1>9. ASSUME NEW n \in Node, ResultArrives(n) PROVE call'[c].phase = call[c].phase
  <2>1. PICK m : m = Head(stream[n])
    OBVIOUS
  <2>2. Taken(stream, stream', m)
    BY <1>9, <2>1, HeadIsTaken DEF ResultArrives
  <2>3. PICK d \in Call : d = m.call
    BY <2>2 DEF Taken, Messages
  <2>4. \/ UNCHANGED call
        \/ d \in pending[n] /\ Settle(d, IF m.ok THEN "answered" ELSE "refused")
    BY <1>9, <2>1, <2>3 DEF ResultArrives
  <2> QED BY <1>4, <1>6, <2>4
<1>10. ASSUME NEW n \in Node, Crash(n) \/ CloseServer(n) PROVE call'[c].phase = call[c].phase
  BY <1>1, <1>2, <1>10 DEF Crash, CloseServer, Mine
<1>11. ASSUME NEW n \in Node, NEW i \in Identity, NEW d \in Call, SendToClient(n, i, d)
       PROVE  call'[c].phase = call[c].phase
  BY <1>5, <1>11 DEF SendToClient
<1> QED
  BY <1>4, <1>7, <1>8, <1>9, <1>10, <1>11
  DEF Next, vars, callVars, Connect, Disconnect, Start, RefreshPresence, ExecuteCommand, Deliver,
      NotHere, Expire, Blackout, Published, Served

-----------------------------------------------------------------------------
THEOREM ClusterInvariant == Spec => []IInv
<1>1. IInv /\ [Next]_vars => IInv'
  BY NextKeeps
<1> QED BY InitIInv, <1>1, PTL DEF Spec

(* Whatever is lost, crashes or comes late: the map of pending calls holds *)
(* exactly the calls that wait, a request reaches a client at most once,   *)
(* and an answer is that of a client it reached.                           *)
THEOREM ForwardedCallsExact == Spec => []RequestsExact
<1>1. IInv => RequestsExact
  BY DEF IInv, Typed, RequestsExact
<1> QED BY <1>1, ClusterInvariant, PTL

(* What the caller of sendToClient was told is final.                      *)
THEOREM OutcomeIsFinal == Spec => SettledIsFinal
<1>1. IInv /\ [Next]_vars =>
         [\A c \in Call : call[c].phase \in Settled => call'[c].phase = call[c].phase]_vars
  BY OutcomeStays
<1> QED BY <1>1, ClusterInvariant, PTL DEF Spec, SettledIsFinal
=============================================================================
