------------------------------- MODULE RpcCalls -------------------------------
(***************************************************************************)
(* The calls an OCPPClient makes (client.ts: call, _callWithRetry,         *)
(* _sendCall, the offline queue, the buffer of a client that is            *)
(* connecting, _pendingCalls with its answers, timeouts and aborts), over  *)
(* the connection of ConnectionView and through the queue of CallQueue.    *)
(*                                                                         *)
(* An attempt <<c, n>> is the n-th time call c is sent; _sendCall gives    *)
(* each attempt a message id of its own unless the call has an             *)
(* idempotencyKey.  The middlewares of a call and of an answer may await:  *)
(* a started attempt is sent by a step of its own (Send), an answer is     *)
(* looked up again after the await (Resolve).  A message that the socket   *)
(* cannot take waits in the backpressure queue (SendBuffer has its order); *)
(* the callback of its send comes when the attempt may long have ended.    *)
(***************************************************************************)
EXTENDS Integers, Sequences, FiniteSets, SequencesExt

CONSTANTS
    Call,             \* the calls a behaviour may make
    Keyed,            \* those with an idempotencyKey, all keys different
    MaxRetries,       \* options.retries of every call
    Limits,           \* values of options.callConcurrency, initial or by reconfigure
    OfflineQueue,     \* options.offlineQueue
    OfflineMax,       \* options.offlineQueueMaxSize
    Reconnects        \* options.reconnect

ASSUME CallAssumption        == IsFiniteSet(Call) /\ Keyed \subseteq Call
ASSUME MaxRetriesAssumption  == MaxRetries \in Nat
ASSUME LimitsAssumption      == Limits \subseteq Int
ASSUME OfflineAssumption     == OfflineMax \in Nat \ {0} /\ OfflineQueue \in BOOLEAN
ASSUME ReconnectsAssumption  == Reconnects \in BOOLEAN

Attempt   == Call \X (1 .. MaxRetries + 1)
NoAttempt == <<>>

(* The message id of an attempt.                                           *)
Id(a) == IF a[1] \in Keyed THEN <<a[1], 1>> ELSE a

VARIABLES
    conn, link,       \* the connection, see ConnectionView
    concurrency, running, waiting, slot,   \* _callQueue, see CallQueue
    phase,            \* what the caller of each call waits for, or has been told
    tries,            \* how often it has been pushed onto _callQueue
    flushed,          \* the calls that went through the offline queue
    immediate,        \* the calls that pass by _callQueue
    offline,          \* _offlineQueue
    buffer,           \* _outboundBuffer
    backlog,          \* the attempts in _backpressureQueue
    stale,            \* its drain timer was started for an earlier socket
    pending,          \* _pendingCalls: message id -> attempt
    answering,        \* answers whose middlewares are running
    sent,             \* how often each attempt was put on the wire
    awaited           \* the attempts a graceful close() waits to be told about

View == INSTANCE ConnectionView WITH MayReconnect <- Reconnects
Q    == INSTANCE CallQueue WITH Task <- Attempt, Requested <- Limits,
                                queue <- waiting, stage <- slot

connVars  == <<conn, link>>
queueVars == <<concurrency, running, waiting, slot>>
wireVars  == <<buffer, backlog, stale, pending, answering, sent>>
callVars  == <<phase, tries, flushed, immediate, offline>>
vars == <<connVars, queueVars, callVars, wireVars, awaited>>

Phase   == {"new", "offline", "queued", "pending", "backoff", "ok", "failed", "timedout"}
Settled == {"ok", "failed", "timedout"}
Current(c) == <<c, tries[c]>>

TypeOK ==
    /\ conn \in {"CLOSED", "CONNECTING", "OPEN", "CLOSING"} /\ link \in {"none", "open", "closing"}
    /\ Q!TypeOK
    /\ phase \in [Call -> Phase] /\ tries \in [Call -> 0 .. MaxRetries + 1]
    /\ flushed \subseteq Call /\ immediate \subseteq Call /\ offline \in Seq(Call)
    /\ buffer \in Seq(Attempt) /\ backlog \in Seq(Attempt) /\ stale \in BOOLEAN
    /\ sent \in [Attempt -> Nat]
    /\ pending \in [Attempt -> Attempt \cup {NoAttempt}] /\ answering \subseteq Attempt
    /\ awaited \subseteq Attempt

Init ==
    /\ View!ViewInit
    /\ Q!Init
    /\ phase = [c \in Call |-> "new"] /\ tries = [c \in Call |-> 0]
    /\ flushed = {} /\ immediate = {} /\ offline = <<>>
    /\ buffer = <<>> /\ backlog = <<>> /\ stale = FALSE
    /\ pending = [a \in Attempt |-> NoAttempt] /\ answering = {}
    /\ sent = [a \in Attempt |-> 0] /\ awaited = {}

-----------------------------------------------------------------------------
(* Timers and socket events are tasks: the microtasks of the one before,   *)
(* which give the slots of settled attempts back, have all run.            *)
NextTask == \A a \in Attempt : slot[a] # "settled"

InPending(a) == pending[Id(a)] # NoAttempt

(* The promise of attempt a settles and call c is told.                    *)
Tell(c, a, outcome) ==
    /\ phase' = [phase EXCEPT ![c] = outcome]
    /\ IF c \in immediate THEN UNCHANGED queueVars ELSE Q!Settle(a)

Forget(a) == pending' = [pending EXCEPT ![Id(a)] = NoAttempt]

-----------------------------------------------------------------------------
(* call() on a client that is not connected, with an offline queue.        *)
CallOffline(c) ==
    /\ phase[c] = "new" /\ conn \in {"CLOSED", "CONNECTING"} /\ OfflineQueue
    /\ IF Len(offline) >= OfflineMax
         THEN /\ offline' = Append(Tail(offline), c)
              /\ phase' = [phase EXCEPT ![c] = "offline", ![Head(offline)] = "failed"]
         ELSE /\ offline' = Append(offline, c)
              /\ phase' = [phase EXCEPT ![c] = "offline"]
    /\ UNCHANGED <<connVars, queueVars, tries, flushed, immediate, wireVars, awaited>>

(* call() on a client that is not connected, otherwise.                    *)
CallRejected(c) ==
    /\ phase[c] = "new" /\ conn # "OPEN"
    /\ ~ (OfflineQueue /\ conn \in {"CLOSED", "CONNECTING"})
    /\ phase' = [phase EXCEPT ![c] = "failed"]
    /\ UNCHANGED <<connVars, queueVars, tries, flushed, immediate, offline, wireVars, awaited>>

(* The n-th attempt of c is pushed onto _callQueue.                        *)
PushAttempt(c, n) ==
    /\ Q!Push(<<c, n>>)
    /\ tries' = [tries EXCEPT ![c] = n]
    /\ phase' = [phase EXCEPT ![c] = "queued"]
    /\ UNCHANGED <<connVars, flushed, immediate, offline, wireVars, awaited>>

(* call() on a client that is OPEN.                                        *)
CallOnline(c) == phase[c] = "new" /\ conn = "OPEN" /\ PushAttempt(c, 1)

(* callImmediate(), of which sendBatch() of the server makes many: no      *)
(* queue and no retries.                                                   *)
CallImmediate(c) ==
    /\ phase[c] = "new"
    /\ IF conn = "OPEN"
         THEN /\ tries' = [tries EXCEPT ![c] = 1]
              /\ phase' = [phase EXCEPT ![c] = "queued"]
              /\ immediate' = immediate \cup {c}
         ELSE /\ phase' = [phase EXCEPT ![c] = "failed"]
              /\ UNCHANGED <<tries, immediate>>
    /\ UNCHANGED <<connVars, queueVars, flushed, offline, wireVars, awaited>>

(* Definitions with a suffix, such as this one, are slips a change to      *)
(* client.ts could make: each of them breaks a property of this module.    *)
BackoffEnds_WhenOpen(c) ==
    phase[c] = "backoff" /\ conn = "OPEN" /\ NextTask /\ PushAttempt(c, tries[c] + 1)

(* The next turn of the loop of _callWithRetry: whatever the state is now. *)
BackoffEnds(c) == phase[c] = "backoff" /\ NextTask /\ PushAttempt(c, tries[c] + 1)

-----------------------------------------------------------------------------
(* An attempt that has its slot, or needs none, and is past its            *)
(* middlewares.                                                            *)
Ready(c) == phase[c] = "queued" /\ (slot[Current(c)] = "running" \/ c \in immediate)

Register(c) ==
    /\ pending' = [pending EXCEPT ![Id(Current(c))] = Current(c)]
    /\ phase' = [phase EXCEPT ![c] = "pending"]
    /\ UNCHANGED <<connVars, queueVars, tries, flushed, immediate, offline, answering, awaited>>

(* _sendCall on an open socket, whatever _state is: _safeSend writes the   *)
(* message, or queues it when the socket has too much to send already.     *)
SendNow(c) ==
    /\ Ready(c) /\ link = "open"
    /\ Register(c)
    /\ \/ /\ backlog = <<>>
          /\ sent' = [sent EXCEPT ![Current(c)] = @ + 1]
          /\ UNCHANGED backlog
       \/ backlog' = Append(backlog, Current(c)) /\ UNCHANGED sent
    /\ UNCHANGED <<buffer, stale>>

(* _sendCall while CONNECTING: the message waits in _outboundBuffer.       *)
SendLater(c) ==
    /\ Ready(c) /\ link # "open" /\ conn = "CONNECTING"
    /\ Register(c)
    /\ buffer' = Append(buffer, Current(c))
    /\ UNCHANGED <<backlog, stale, sent>>

(* _sendCall with no socket to send on.                                    *)
SendRejected(c) ==
    /\ Ready(c) /\ link # "open" /\ conn # "CONNECTING"
    /\ Tell(c, Current(c), "failed")
    /\ UNCHANGED <<connVars, tries, flushed, immediate, offline, wireVars, awaited>>

(* A middleware or the validation throws, or beforeSend suppresses the     *)
(* message: the call resolves with undefined.                              *)
SendSuppressed(c) ==
    /\ Ready(c)
    /\ \E outcome \in {"failed", "ok"} : Tell(c, Current(c), outcome)
    /\ UNCHANGED <<connVars, tries, flushed, immediate, offline, wireVars, awaited>>

-----------------------------------------------------------------------------
(* After a timeout the retry loop goes on; a flushed or an immediate call  *)
(* is in no loop.                                                          *)
AfterTimeout(c) ==
    IF tries[c] <= MaxRetries /\ c \notin flushed \cup immediate THEN "backoff" ELSE "timedout"

(* The timeout of a pending call.  It rejects the promise of the call, not *)
(* through its entry, so a close() that waits for the entry never hears.   *)
Timeout(c) ==
    /\ phase[c] = "pending" /\ NextTask
    /\ Tell(c, Current(c), AfterTimeout(c))
    /\ Forget(Current(c))
    /\ UNCHANGED <<connVars, tries, flushed, immediate, offline, buffer, backlog, stale, answering, sent,
                   awaited>>

(* The signal of a pending call aborts, or writing its message fails.      *)
AbortOrSendError(c) ==
    /\ phase[c] = "pending"
    /\ Tell(c, Current(c), "failed")
    /\ Forget(Current(c))
    /\ UNCHANGED <<connVars, tries, flushed, immediate, offline, buffer, backlog, stale, answering, sent,
                   awaited>>

(* _handleCallResult, _handleCallError up to the await.  The peer answers  *)
(* what it has received, on this connection or on an earlier one, perhaps  *)
(* more than once; an answer for no pending call is dropped.               *)
Answer(a) ==
    /\ NextTask /\ link # "none"
    /\ sent[a] > 0 /\ InPending(a)
    /\ answering' = answering \cup {Id(a)}
    /\ UNCHANGED <<connVars, queueVars, callVars, buffer, backlog, stale, pending, sent, awaited>>

(* The rest of them: the entry is looked up again.                         *)
Resolve(id) ==
    /\ id \in answering
    /\ answering' = answering \ {id}
    /\ LET a == pending[id] IN
         IF a = NoAttempt
           THEN UNCHANGED <<phase, queueVars, pending, awaited>>
           ELSE /\ \E outcome \in {"ok", "failed"} : Tell(a[1], a, outcome)
                /\ Forget(a)
                /\ awaited' = awaited \ {a}
    /\ UNCHANGED <<connVars, tries, flushed, immediate, offline, buffer, backlog, stale, sent>>

(* A tick of the drain timer on its own socket: the head is written, also  *)
(* when its attempt has ended.                                             *)
Drains ==
    /\ backlog # <<>> /\ ~ stale /\ link = "open"
    /\ sent' = [sent EXCEPT ![Head(backlog)] = @ + 1]
    /\ backlog' = Tail(backlog)
    /\ UNCHANGED <<connVars, queueVars, callVars, buffer, stale, pending, answering, awaited>>

(* The promises of the attempts in A are rejected.                         *)
Fail(A) ==
    /\ slot' = [a \in Attempt |-> IF a \in A /\ a[1] \notin immediate THEN "settled" ELSE slot[a]]
    /\ phase' = [c \in Call |-> IF \E a \in A : a[1] = c THEN "failed" ELSE phase[c]]
    /\ UNCHANGED <<concurrency, running, waiting>>

Waits(a) == phase[a[1]] = "pending" /\ a = Current(a[1])

(* A tick that finds its socket no longer open, be it an earlier one or    *)
(* one that has begun to close, or _cleanup() at the end of close(): every *)
(* callback gets an error, rejects its promise and removes the entry under *)
(* its message id, whichever attempt that entry is of.                     *)
DrainFails ==
    /\ backlog # <<>>
    /\ Fail({a \in Range(backlog) : Waits(a)})
    /\ pending' = [id \in Attempt |-> IF \E a \in Range(backlog) : Id(a) = id
                                         THEN NoAttempt ELSE pending[id]]
    /\ backlog' = <<>> /\ stale' = FALSE
    /\ UNCHANGED <<connVars, tries, flushed, immediate, offline, buffer, answering, sent, awaited>>

(* The queue's `finally': the slot of a settled attempt goes to the next.  *)
Release(a) ==
    /\ Q!Release(a)
    /\ UNCHANGED <<connVars, callVars, wireVars, awaited>>

(* reconfigure({ callConcurrency: n }), in any state.                      *)
Reconfigure(n) ==
    /\ Q!SetConcurrency(n)
    /\ UNCHANGED <<connVars, callVars, wireVars, awaited>>

-----------------------------------------------------------------------------
Open_KeepsBuffer ==
    /\ NextTask /\ View!Opens
    /\ LET new == [i \in DOMAIN offline |-> <<offline[i], 1>>] IN
         Q!Drain(running, concurrency, waiting \o new,
                 [a \in Attempt |-> IF a \in Range(new) THEN "queued" ELSE slot[a]])
    /\ phase' = [c \in Call |-> IF phase[c] = "offline" THEN "queued" ELSE phase[c]]
    /\ tries' = [c \in Call |-> IF phase[c] = "offline" THEN 1 ELSE tries[c]]
    /\ flushed' = flushed \cup Range(offline)
    /\ offline' = <<>>
    /\ sent' = [a \in Attempt |-> IF a \in Range(buffer) THEN sent[a] + 1 ELSE sent[a]]
    /\ UNCHANGED <<concurrency, immediate, buffer, backlog, stale, pending, answering, awaited>>

(* onOpen: the offline queue goes onto _callQueue, then the buffer onto    *)
(* the wire.                                                               *)
Open ==
    /\ NextTask /\ View!Opens
    /\ LET new == [i \in DOMAIN offline |-> <<offline[i], 1>>] IN
         Q!Drain(running, concurrency, waiting \o new,
                 [a \in Attempt |-> IF a \in Range(new) THEN "queued" ELSE slot[a]])
    /\ phase' = [c \in Call |-> IF phase[c] = "offline" THEN "queued" ELSE phase[c]]
    /\ tries' = [c \in Call |-> IF phase[c] = "offline" THEN 1 ELSE tries[c]]
    /\ flushed' = flushed \cup Range(offline)
    /\ offline' = <<>>
    /\ sent' = [a \in Attempt |-> IF a \in Range(buffer) THEN sent[a] + 1 ELSE sent[a]]
    /\ buffer' = <<>>
    /\ UNCHANGED <<concurrency, immediate, backlog, stale, pending, answering, awaited>>

(* What _rejectPendingCalls no longer finds when the socket breaks: the    *)
(* callbacks of what it had not written come first, and that of an earlier *)
(* attempt removes the entry of one, under the same id, that still waits   *)
(* in the backpressure queue.                                              *)
Displaced ==
    {a \in Range(backlog) : a[1] \in Keyed /\ \E n \in 1 .. a[2] - 1 : sent[<<a[1], n>>] > 0}

(* The close event: _rejectPendingCalls.  The drain timer goes on.         *)
Lose ==
    /\ NextTask /\ View!Loses
    /\ \E displaced \in SUBSET Displaced :
          LET lost == Range(pending) \ ({NoAttempt} \cup displaced) IN
            Fail(lost) /\ awaited' = awaited \ lost
    /\ pending' = [a \in Attempt |-> NoAttempt]
    /\ stale' = (backlog # <<>>)
    /\ UNCHANGED <<tries, flushed, immediate, offline, buffer, backlog, answering, sent>>

(* The steps of the connection that leave the calls alone.                 *)
Connection ==
    /\ View!BeginsConnecting \/ View!FailsToOpen \/ View!Disconnects \/ View!FinishesClosing
    /\ UNCHANGED <<queueVars, callVars, wireVars, awaited>>

(* close(): by default it waits for what is in _pendingCalls now.  Until   *)
(* the wait is over another close() only returns the promise of this one.  *)
CloseGracefully ==
    /\ View!BeginsClosing /\ awaited = {}
    /\ awaited' = Range(pending) \ {NoAttempt}
    /\ (link' = link) <=> (awaited' # {} \/ link # "open")
    /\ UNCHANGED <<queueVars, callVars, wireVars>>

(* close() with force, or with awaitPending false.                         *)
CloseAtOnce ==
    /\ View!BeginsClosing /\ link' # "open"
    /\ awaited = {}
    /\ UNCHANGED <<queueVars, callVars, wireVars, awaited>>

(* The end of the wait.                                                    *)
ShutSocket ==
    /\ View!ShutsSocket
    /\ awaited = {}
    /\ UNCHANGED <<queueVars, callVars, wireVars, awaited>>

CallStep(c) ==
    \/ CallOffline(c) \/ CallRejected(c) \/ CallOnline(c) \/ CallImmediate(c)
    \/ SendNow(c) \/ SendLater(c) \/ SendRejected(c) \/ SendSuppressed(c)
    \/ Timeout(c) \/ AbortOrSendError(c) \/ BackoffEnds(c)

Next ==
    \/ \E c \in Call : CallStep(c)
    \/ \E a \in Attempt : Answer(a) \/ Resolve(a) \/ Release(a)
    \/ \E n \in Limits : Reconfigure(n)
    \/ Drains \/ DrainFails \/ Open \/ Lose \/ Connection \/ CloseGracefully \/ CloseAtOnce \/ ShutSocket

Spec == Init /\ [][Next]_vars

(* Timers fire, promise continuations run, and a middleware finishes.      *)
(* Nothing is assumed of the connection, the peer or the application.      *)
FairSpec ==
    /\ Spec
    /\ \A c \in Call : /\ WF_vars(SendNow(c) \/ SendLater(c) \/ SendRejected(c) \/ SendSuppressed(c))
                       /\ WF_vars(Timeout(c)) /\ WF_vars(BackoffEnds(c))
    /\ \A a \in Attempt : WF_vars(Release(a))

-----------------------------------------------------------------------------
(* The message of an attempt was dropped from the backpressure queue.      *)
Dropped(a) == sent[a] = 0 /\ a \notin Range(backlog) \cup Range(buffer)

(* A retry under an idempotencyKey that has no entry any more: the send of *)
(* an earlier attempt, under the same id, failed late.                     *)
Bereft(c) ==
    /\ c \in Keyed
    /\ \/ \E n \in 1 .. tries[c] - 1 : Dropped(<<c, n>>)
       \/ stale /\ Current(c) \in Range(backlog)

(* _pendingCalls holds exactly the current attempts of the calls that wait *)
(* for an answer: no entry outlives its call, whichever of answer,         *)
(* timeout, abort and close comes first, and no call loses its entry but a *)
(* retry under an idempotencyKey, and that only when a message of the same *)
(* id was dropped, or waits to be, from a backpressure queue.  Without a   *)
(* connection a call that has its entry waits only for its message to be   *)
(* sent on the next (client.ts:916-981,1349-1447,1503-1511,1741-1749).     *)
PendingExact ==
    /\ \A id \in Attempt : pending[id] # NoAttempt =>
          LET a == pending[id] IN
            /\ Id(a) = id /\ phase[a[1]] = "pending" /\ a = Current(a[1])
            /\ a[1] \in immediate \/ slot[a] = "running"
    /\ \A c \in Call : phase[c] = "pending" =>
          \/ /\ pending[Id(Current(c))] = Current(c)
             /\ link # "none" \/ Current(c) \in Range(buffer)
          \/ Bereft(c)

(* What the close event leaves: no call waits for an answer that cannot    *)
(* come, "Reject all in-flight calls" (client.ts:1501).  A retry that lost *)
(* its entry to the late failure of an earlier attempt (client.ts:954) is  *)
(* not rejected and waits for its own timeout.                             *)
LossIsTold ==
    link = "none" =>
        \A c \in Call : phase[c] = "pending" => Current(c) \in Range(buffer) \cup Range(backlog)

(* Every call that waits for an answer holds a slot of the call queue,     *)
(* retried, flushed and direct calls alike but not immediate ones, and the *)
(* queue loses no slot and leaves none idle in this use of it, where one   *)
(* close settles many calls (client.ts:775,1626-1630,1652; queue.ts:50-64).*)
SlotsHeld ==
    /\ Cardinality({c \in Call \ immediate : phase[c] = "pending"}) <= running
    /\ Q!SlotAccounting /\ Q!NoIdleSlot

(* The offline queue holds each call that waits in it once, and never more *)
(* than its limit: a call dropped on overflow is told (client.ts:738-764). *)
OfflineExact ==
    /\ Range(offline) = {c \in Call : phase[c] = "offline"}
    /\ Len(offline) = Cardinality(Range(offline)) /\ Len(offline) <= OfflineMax

(* No attempt is on the wire twice, however often the connection drops     *)
(* while the queues are flushed, and through whichever of them it went     *)
(* (client.ts:351-356,1612-1616,1715-1767).                                *)
SentOnce == \A a \in Attempt : sent[a] <= 1

(* At every step, what the client keeps of its calls is exact: entries,    *)
(* slots, the offline queue, and what went out                             *)
(* (client.ts:351-356,732-764,916-981,1349-1447,1612-1616).                *)
CallsExact == TypeOK /\ PendingExact /\ SlotsHeld /\ OfflineExact /\ SentOnce

(* Whatever the connection and the peer do, the promise of every call that *)
(* is not held for a later connection settles.                             *)
EveryCallSettles ==
    \A c \in Call : phase[c] \in {"queued", "pending", "backoff"} ~> phase[c] \in Settled

=============================================================================
