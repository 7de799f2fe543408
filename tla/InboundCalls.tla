------------------------------ MODULE InboundCalls ------------------------------
(***************************************************************************)
(* What a client does with the CALLs it receives (client.ts: _onMessage,   *)
(* _handleIncomingCall, _onBadMessage), and the pipeline the server's side *)
(* of a connection puts in front (server-client.ts: _inboundChain,         *)
(* _processInboundMessage).                                                *)
(*                                                                         *)
(* An arrival is one message on the wire; a peer that sends a CALL again   *)
(* makes another arrival with the same message id.  Plugins, middlewares,  *)
(* handlers and onBeforeSend may all await: between the steps below other  *)
(* messages arrive and the connection may close and come back.             *)
(***************************************************************************)
EXTENDS Integers, Sequences, FiniteSets, SequencesExt

CONSTANTS
    MsgId,            \* the message ids the peer uses
    MaxArrivals,      \* bound: messages in a behaviour
    MaxBadMessages    \* options.maxBadMessages

Arrival == 1..MaxArrivals

VARIABLES
    side,             \* is it an OCPPClient or an OCPPServerClient?
    conn,             \* _state
    chain,            \* the arrivals in _inboundChain, oldest first
    id,               \* the message id of each arrival so far, in order
    bad,              \* the arrivals that are no valid message
    stage,            \* how far each arrival has come
    guards,           \* _pendingResponses
    badCount,         \* _badMessageCount
    answers           \* how many responses were sent for each arrival

vars == <<side, conn, chain, id, bad, stage, guards, badCount, answers>>

(* "entering": in the middlewares; "handling": in the handler; "replying": *)
(* the response is in onBeforeSend.                                        *)
Stage == {"none", "chained", "entering", "handling", "replying", "done"}

TypeOK ==
    /\ side \in {"client", "server"}
    /\ conn \in {"OPEN", "CLOSING", "CLOSED"}
    /\ chain \in Seq(Arrival) /\ id \in Seq(MsgId) /\ Len(id) <= MaxArrivals
    /\ bad \subseteq Arrival /\ stage \in [Arrival -> Stage]
    /\ guards \subseteq MsgId /\ badCount \in 0..MaxArrivals
    /\ answers \in [Arrival -> Nat]

Init ==
    /\ side \in {"client", "server"}
    /\ conn = "OPEN"
    /\ chain = <<>> /\ id = <<>> /\ bad = {}
    /\ stage = [i \in Arrival |-> "none"]
    /\ guards = {} /\ badCount = 0
    /\ answers = [i \in Arrival |-> 0]

-----------------------------------------------------------------------------
Goes(i, to) == stage' = [stage EXCEPT ![i] = to]

(* ws.send of a response of i: nothing is sent on a socket that is not     *)
(* open (on one that is connecting it throws, twice, and is swallowed).    *)
Respond(i) ==
    answers' = IF conn = "OPEN" THEN [answers EXCEPT ![i] = @ + 1] ELSE answers

(* A message arrives.                                                      *)
Arrive(m) ==
    LET i == Len(id) + 1 IN
    /\ conn # "CLOSED" /\ i <= MaxArrivals
    /\ id' = Append(id, m)
    /\ bad' \in {bad, bad \cup {i}}
    /\ IF side = "server"
         THEN chain' = Append(chain, i) /\ Goes(i, "chained")
         ELSE Goes(i, "entering") /\ UNCHANGED chain
    /\ UNCHANGED <<side, conn, guards, badCount, answers>>

(* _processInboundMessage of the oldest arrival ends: a plugin or the rate *)
(* limit has dropped the message, or it is parsed and dispatched.          *)
Preprocess ==
    /\ chain # <<>>
    /\ chain' = Tail(chain)
    /\ \E to \in {"entering", "done"} : Goes(Head(chain), to)
    /\ UNCHANGED <<side, conn, id, bad, guards, badCount, answers>>

(* _onBadMessage: an error response if it reads like a CALL, and close()   *)
(* after too many.                                                         *)
Malformed(i) ==
    /\ stage[i] = "entering" /\ i \in bad
    /\ Goes(i, "done")
    /\ badCount' = badCount + 1
    /\ Respond(i) \/ UNCHANGED answers
    /\ conn' = IF badCount' >= MaxBadMessages /\ conn = "OPEN" THEN "CLOSING" ELSE conn
    /\ UNCHANGED <<side, chain, id, bad, guards>>

Enters(i) == stage[i] = "entering" /\ i \notin bad

(* A CALL whose middlewares end when the client is no longer OPEN.         *)
Ignore(i) ==
    /\ Enters(i) /\ conn # "OPEN"
    /\ Goes(i, "done")
    /\ UNCHANGED <<side, conn, chain, id, bad, guards, badCount, answers>>

(* A duplicate: the error goes through the catch, which deletes the guard  *)
(* of the call being processed.                                            *)
Refuse(i) ==
    /\ Enters(i) /\ conn = "OPEN" /\ id[i] \in guards
    /\ guards' = guards \ {id[i]}
    /\ Goes(i, "replying")
    /\ UNCHANGED <<side, conn, chain, id, bad, badCount, answers>>

(* No handler for the method, or the parameters are not valid.             *)
Reject(i) ==
    /\ Enters(i) /\ conn = "OPEN" /\ id[i] \notin guards
    /\ Goes(i, "replying")
    /\ UNCHANGED <<side, conn, chain, id, bad, guards, badCount, answers>>

(* The handler starts.                                                     *)
Handle(i) ==
    /\ Enters(i) /\ conn = "OPEN" /\ id[i] \notin guards
    /\ guards' = guards \cup {id[i]}
    /\ Goes(i, "handling")
    /\ UNCHANGED <<side, conn, chain, id, bad, badCount, answers>>

(* Definitions with a suffix, such as this one, are slips a change to the  *)
(* code could make: each of them breaks a property of this module.         *)
HandlerEnds_KeepsGuardOnThrow(i) ==
    /\ stage[i] = "handling"
    /\ \E to \in {"replying", "done"} :
         /\ guards' = IF to = "done" THEN guards \ {id[i]} ELSE guards
         /\ Goes(i, to)
    /\ UNCHANGED <<side, conn, chain, id, bad, badCount, answers>>

(* The handler returns or throws: there is a response unless it returned   *)
(* NOREPLY.                                                                *)
HandlerEnds(i) ==
    /\ stage[i] = "handling"
    /\ guards' = guards \ {id[i]}
    /\ \E to \in {"replying", "done"} : Goes(i, to)
    /\ UNCHANGED <<side, conn, chain, id, bad, badCount, answers>>

(* onBeforeSend ends and lets the response pass, or suppresses it.         *)
Reply(i) ==
    /\ stage[i] = "replying"
    /\ Goes(i, "done")
    /\ Respond(i) \/ UNCHANGED answers
    /\ UNCHANGED <<side, conn, chain, id, bad, guards, badCount>>

(* _onClose: the guards are cleared, the handlers go on.                   *)
Lose ==
    /\ conn # "CLOSED" /\ conn' = "CLOSED"
    /\ guards' = {}
    /\ UNCHANGED <<side, chain, id, bad, stage, badCount, answers>>

(* close()                                                                 *)
Close ==
    /\ conn = "OPEN" /\ conn' = "CLOSING"
    /\ UNCHANGED <<side, chain, id, bad, stage, guards, badCount, answers>>

(* onOpen of a later connection; the server makes a new OCPPServerClient.  *)
Reconnect ==
    /\ side = "client" /\ conn = "CLOSED" /\ conn' = "OPEN"
    /\ badCount' = 0
    /\ UNCHANGED <<side, chain, id, bad, stage, guards, answers>>

Step(i) ==
    \/ Malformed(i) \/ Ignore(i) \/ Refuse(i) \/ Reject(i) \/ Handle(i)
    \/ HandlerEnds(i) \/ Reply(i)

Next ==
    \/ \E m \in MsgId : Arrive(m)
    \/ Preprocess \/ Lose \/ Close \/ Reconnect
    \/ \E i \in 1..Len(id) : Step(i)

Spec == Init /\ [][Next]_vars

(* Plugins, middlewares and handlers end.                                  *)
Fairness ==
    /\ WF_vars(Preprocess)
    /\ \A i \in Arrival : WF_vars(i <= Len(id) /\ Step(i))

FairSpec == Spec /\ Fairness

-----------------------------------------------------------------------------
Handling(m) == {i \in 1..Len(id) : stage[i] = "handling" /\ id[i] = m}

(* A guard belongs to a handler that runs: none is left behind, after      *)
(* which every later CALL with that id would be refused                    *)
(* (client.ts:1221-1226,1243,1261,1294,1510).                              *)
NoStaleGuard == \A m \in guards : Handling(m) # {}

(* "messages are dispatched in wire order - OCPP transaction semantics     *)
(* depend on it" (server-client.ts:69-75), whatever the plugins and the    *)
(* parser await.                                                           *)
DispatchedInOrder ==
    \A i, j \in 1..Len(id) : i < j /\ stage[i] = "chained" => stage[j] = "chained"

(* Order before the handlers, no trace after them (client.ts:1221-1294,    *)
(* server-client.ts:157-165).                                              *)
InboundExact == TypeOK /\ NoStaleGuard /\ DispatchedInOrder

(* Every message that arrives is processed to its end: no plugin, parser   *)
(* or close of the connection leaves the pipeline stuck, and the guard of  *)
(* its call is released (server-client.ts:157-165,196-260).                *)
EveryArrivalEnds == \A i \in Arrival : stage[i] # "none" ~> stage[i] = "done"

=============================================================================
