--------------------------- MODULE ClientConnection ---------------------------
(***************************************************************************)
(* The connection of an OCPPClient (client.ts): connect, the handshake,    *)
(* reconnection with backoff, close with and without waiting for pending   *)
(* calls, and the `ws' sockets underneath.                                 *)
(*                                                                         *)
(* Node runs one task at a time.  A task here is a socket event, a timer   *)
(* or a call of the application; what a task leaves to be done before the  *)
(* next one (the rest of a handler after it has emitted an event, or a     *)
(* promise continuation) is held in `cont'.  Event handlers of the         *)
(* application, which run in the middle of a task, are taken not to call   *)
(* connect or close themselves.                                            *)
(*                                                                         *)
(* Calls are only counted: how they are made and answered is in RpcCalls,  *)
(* keep-alive pings are in KeepAlive.                                      *)
(***************************************************************************)
EXTENDS Integers, FiniteSets

CONSTANTS
    Socket,           \* the ws sockets a behaviour may have alive at once
    NoSocket,         \* _ws = null
    Reconnect,        \* options.reconnect
    MaxReconnects,    \* options.maxReconnects
    MaxPending,       \* bound: calls counted at once
    Refusals          \* may the server answer the upgrade with an HTTP status?

ASSUME NoSocketAssumption      == NoSocket \notin Socket
ASSUME MaxReconnectsAssumption == MaxReconnects \in Nat
ASSUME MaxPendingAssumption    == MaxPending \in Nat
ASSUME OptionsAssumption       == /\ Reconnect \in BOOLEAN
                                  /\ Refusals \in BOOLEAN

VARIABLES
    state,            \* _state
    ws,               \* _ws, the current socket
    sock,             \* what has become of each socket
    byTimer,          \* was the socket created by the reconnect timer?
    attempt,          \* _reconnectAttempt
    timer,            \* is the timer in _reconnectTimer running?
    orphans,          \* running reconnect timers _reconnectTimer does not refer to
    closePromise,     \* _closePromise: null, pending, or resolved and left behind
    closing,          \* where the activation of _closeInternal has got to
    closeSock,        \* the socket whose close event it waits for
    awaited,          \* pending calls it waits for
    unheard,          \* did an awaited call end without its waiter being told?
    others,           \* the other pending calls
    cont,             \* what the running task has still to do
    told,             \* has close() resolved since the last connect()?
    crashed           \* an error event without a listener ended the process

vars == <<state, ws, sock, byTimer, attempt, timer, orphans, closePromise,
          closing, closeSock, awaited, unheard, others, cont, told, crashed>>

closeVars == <<closePromise, closing, closeSock>>
callVars  == <<awaited, unheard, others>>

(* "refused": the server answered with an HTTP status.  The library leaves *)
(* the socket connecting when somebody listens for that, and the client    *)
(* has removed its listeners.  "aborting", "abandoned": close was called   *)
(* on a connecting, on a refused socket.  "gone": closed, or never used.   *)
SocketState == {"gone", "connecting", "refused", "aborting", "abandoned", "open", "closing"}
Live        == {s \in Socket : sock[s] \in {"connecting", "aborting", "open", "closing"}}

(* What is left of the running task, and whether the listener of a close   *)
(* that waits for the event being delivered comes after that.              *)
Cont == [k : {"idle", "disconnected", "arming", "retry", "stop"}, closes : BOOLEAN]
Idle == [k |-> "idle", closes |-> FALSE]

TypeOK ==
    /\ state \in {"CONNECTING", "OPEN", "CLOSING", "CLOSED"}
    /\ ws \in Socket \cup {NoSocket}
    /\ sock \in [Socket -> SocketState]
    /\ byTimer \in [Socket -> BOOLEAN]
    /\ attempt \in 0..MaxReconnects
    /\ timer \in BOOLEAN
    /\ orphans \in Nat
    /\ closePromise \in {"null", "pending", "resolved"}
    /\ closing \in {"idle", "awaiting", "waiting"}
    /\ closeSock \in Socket \cup {NoSocket}
    /\ awaited \in 0..MaxPending
    /\ unheard \in BOOLEAN
    /\ others \in 0..MaxPending
    /\ cont \in Cont
    /\ told \in BOOLEAN
    /\ crashed \in BOOLEAN

Init ==
    /\ state = "CLOSED"
    /\ ws = NoSocket
    /\ sock = [s \in Socket |-> "gone"]
    /\ byTimer = [s \in Socket |-> FALSE]
    /\ attempt = 0
    /\ timer = FALSE
    /\ orphans = 0
    /\ closePromise = "null"
    /\ closing = "idle"
    /\ closeSock = NoSocket
    /\ awaited = 0
    /\ unheard = FALSE
    /\ others = 0
    /\ cont = Idle
    /\ told = FALSE
    /\ crashed = FALSE

-----------------------------------------------------------------------------
(* The event loop starts a new task: no continuation is left, and the      *)
(* await of _closeInternal, a promise continuation too, is not due.        *)
WaitOver == closing = "awaiting" /\ awaited = 0 /\ ~unheard
NextTask == cont = Idle /\ ~WaitOver /\ ~crashed

Dead(s) == s = NoSocket \/ sock[s] = "gone"

(* _connectInternal up to the listeners: a new socket becomes the current  *)
(* one.  A refused socket nobody refers to any more is never heard of.     *)
NewSocket(timed) ==
    \E s \in Socket :
        /\ sock[s] = "gone"
        /\ ws' = s
        /\ sock' = [r \in Socket |-> IF r = s THEN "connecting"
                                     ELSE IF r = ws /\ sock[r] = "refused" THEN "gone"
                                     ELSE sock[r]]
        /\ byTimer' = [byTimer EXCEPT ![s] = timed]

(* connect(): anything but CLOSED throws and changes nothing.              *)
Connect ==
    /\ NextTask
    /\ state = "CLOSED"
    /\ state' = "CONNECTING"
    /\ attempt' = 0
    /\ NewSocket(FALSE)
    /\ told' = FALSE
    /\ UNCHANGED <<timer, orphans, closeVars, callVars, cont, crashed>>

-----------------------------------------------------------------------------
(* Definitions with a suffix, such as this one, are slips a change to      *)
(* client.ts could make: each of them breaks a property of this module.    *)
ScheduleReconnect_NotCounted(closes) ==
    /\ attempt' = attempt
    /\ state' = "CONNECTING"
    /\ cont' = [k |-> "arming", closes |-> closes]

(* _scheduleReconnect up to the "reconnect" event; the timer is set after  *)
(* the handlers of the event have run (Arm).                               *)
ScheduleReconnect(closes) ==
    /\ attempt' = attempt + 1
    /\ state' = "CONNECTING"
    /\ cont' = [k |-> "arming", closes |-> closes]

FinishClose_KeepsTimer ==
    /\ state' = "CLOSED"
    /\ timer' = timer
    /\ ws' = NoSocket
    /\ closing' = "idle"
    /\ closeSock' = NoSocket
    /\ told' = TRUE

(* The close-event listener of _closeInternal, and its branch for a socket *)
(* that is dead already: _cleanup, and close() resolves.                   *)
FinishClose ==
    /\ state' = "CLOSED"
    /\ timer' = FALSE
    /\ ws' = NoSocket
    /\ closing' = "idle"
    /\ closeSock' = NoSocket
    /\ told' = TRUE

(* _closeInternal has added its listener to the close event of s, after    *)
(* that of _attachWebsocket.                                               *)
CloseWaitsFor(s) == closing = "waiting" /\ closeSock = s

(* The end of the delivery of a close event.                               *)
Closed(closes) ==
    IF closes
      THEN FinishClose /\ closePromise' = "null"
      ELSE state' = "CLOSED" /\ UNCHANGED <<timer, ws, closeVars, told>>

-----------------------------------------------------------------------------
(* onOpen: the handshake succeeds.  Flushing the queues is in RpcCalls.    *)
HandshakeOpens(s) ==
    /\ NextTask
    /\ sock[s] = "connecting"
    /\ sock' = [sock EXCEPT ![s] = "open"]
    /\ state' = "OPEN"
    /\ attempt' = 0
    /\ UNCHANGED <<ws, byTimer, timer, orphans, closeVars, callVars, cont, told, crashed>>

HandshakeFails_ForgetsClose(s, kind) ==
    /\ NextTask
    /\ sock[s] = "connecting" \/ (sock[s] = "aborting" /\ kind = "retry")
    /\ sock' = [sock EXCEPT ![s] = "gone"]
    /\ cont' = IF byTimer[s] THEN [k |-> kind, closes |-> FALSE] ELSE Idle
    /\ Closed(FALSE)
    /\ UNCHANGED <<byTimer, attempt, orphans, callVars, crashed>>

(* onError, then the close event of a socket that never opened.  A failed  *)
(* reconnection continues in the catch of the timer's callback; `kind' is  *)
(* "stop" for the messages in _INTOLERABLE_ERRORS.                         *)
HandshakeFails(s, kind) ==
    /\ NextTask
    /\ sock[s] = "connecting" \/ (sock[s] = "aborting" /\ kind = "retry")
    /\ sock' = [sock EXCEPT ![s] = "gone"]
    /\ cont' = IF byTimer[s] THEN [k |-> kind, closes |-> FALSE] ELSE Idle
    /\ Closed(CloseWaitsFor(s))
    /\ UNCHANGED <<byTimer, attempt, orphans, callVars, crashed>>

(* onUnexpectedResponse: it removes the listeners, but nothing closes the  *)
(* socket.                                                                 *)
HandshakeRefused(s) ==
    /\ NextTask
    /\ Refusals
    /\ sock[s] = "connecting"
    /\ sock' = [sock EXCEPT ![s] = "refused"]
    /\ state' = "CLOSED"
    /\ cont' = IF byTimer[s] THEN [k |-> "retry", closes |-> FALSE] ELSE Idle
    /\ UNCHANGED <<ws, byTimer, attempt, timer, orphans, closeVars, callVars, told, crashed>>

(* The library reports the abort of a refused socket as an error event     *)
(* that nobody listens to, which Node turns into an uncaught exception.    *)
AbandonedErrors(s) ==
    /\ NextTask
    /\ sock[s] = "abandoned"
    /\ crashed' = TRUE
    /\ UNCHANGED <<state, ws, sock, byTimer, attempt, timer, orphans, closeVars,
                   callVars, cont, told>>

SocketCloses_IgnoresClosing(s) ==
    /\ NextTask
    /\ sock[s] \in {"open", "closing"}
    /\ sock' = [sock EXCEPT ![s] = "gone"]
    /\ awaited' = 0
    /\ others' = 0
    /\ cont' = [k |-> "disconnected", closes |-> CloseWaitsFor(s)]
    /\ UNCHANGED <<state, timer, ws, closeVars, told, byTimer, attempt, orphans, unheard, crashed>>

(* An open socket closes: the peer, the network, a pong timeout, or the    *)
(* end of the closing handshake.  _onClose rejects every pending call and, *)
(* unless the client is CLOSING, emits "disconnect".                       *)
SocketCloses(s) ==
    /\ NextTask
    /\ sock[s] \in {"open", "closing"}
    /\ sock' = [sock EXCEPT ![s] = "gone"]
    /\ awaited' = 0
    /\ others' = 0
    /\ IF state # "CLOSING"
         THEN /\ cont' = [k |-> "disconnected", closes |-> CloseWaitsFor(s)]
              /\ UNCHANGED <<state, timer, ws, closeVars, told>>
         ELSE Closed(CloseWaitsFor(s)) /\ UNCHANGED cont
    /\ UNCHANGED <<byTimer, attempt, orphans, unheard, crashed>>

(* The rest of _onClose: reconnect, or settle for CLOSED.                  *)
AfterDisconnect ==
    /\ cont.k = "disconnected"
    /\ IF Reconnect /\ attempt < MaxReconnects
         THEN ScheduleReconnect(cont.closes) /\ UNCHANGED <<timer, ws, closeVars, told>>
         ELSE cont' = Idle /\ UNCHANGED attempt /\ Closed(cont.closes)
    /\ UNCHANGED <<sock, byTimer, orphans, callVars, crashed>>

(* The rest of _scheduleReconnect: the timer is set, whatever the handlers *)
(* of "reconnect" did; an older timer in _reconnectTimer is forgotten, not *)
(* cancelled.  A close that waits for this socket comes next.              *)
Arm ==
    /\ cont.k = "arming"
    /\ cont' = Idle
    /\ orphans' = IF timer THEN orphans + 1 ELSE orphans
    /\ IF cont.closes
         THEN Closed(TRUE)
         ELSE timer' = TRUE /\ UNCHANGED <<state, ws, closeVars, told>>
    /\ UNCHANGED <<sock, byTimer, attempt, callVars, crashed>>

(* The catch of the timer's callback, a promise continuation.              *)
AfterFailedReconnect ==
    /\ cont.k \in {"retry", "stop"}
    /\ IF cont.k = "retry" /\ attempt < MaxReconnects /\ Reconnect
         THEN ScheduleReconnect(FALSE)
         ELSE state' = "CLOSED" /\ cont' = Idle /\ UNCHANGED attempt
    /\ UNCHANGED <<ws, sock, byTimer, timer, orphans, closeVars, callVars, told, crashed>>

(* A reconnect timer fires, the one in _reconnectTimer or a forgotten one; *)
(* the callback clears _reconnectTimer in both cases.                      *)
ReconnectTimer ==
    /\ NextTask
    /\ \/ timer /\ UNCHANGED orphans
       \/ orphans > 0 /\ orphans' = IF timer THEN orphans ELSE orphans - 1
    /\ timer' = FALSE
    /\ NewSocket(TRUE)
    /\ UNCHANGED <<state, attempt, closeVars, callVars, cont, told, crashed>>

-----------------------------------------------------------------------------
(* What ws.close() and ws.terminate() do to a socket.                      *)
Shut(how) ==
    CASE how = "connecting" -> "aborting"
      [] how = "refused"    -> "abandoned"
      [] how = "open"       -> "closing"
      [] OTHER              -> how

CloseSocket_ResolvesEarly(left) ==
    IF Dead(ws)
      THEN FinishClose /\ closePromise' = left /\ UNCHANGED sock
      ELSE /\ sock' = [sock EXCEPT ![ws] = Shut(@)]
           /\ closing' = "waiting"
           /\ closeSock' = ws
           /\ closePromise' = "pending"
           /\ told' = TRUE
           /\ UNCHANGED ws

(* The second half of _closeInternal.  `left' is what _closePromise is     *)
(* when it has run with a dead socket.                                     *)
CloseSocket(left) ==
    IF Dead(ws)
      THEN FinishClose /\ closePromise' = left /\ UNCHANGED sock
      ELSE /\ sock' = [sock EXCEPT ![ws] = Shut(@)]
           /\ closing' = "waiting"
           /\ closeSock' = ws
           /\ closePromise' = "pending"
           /\ UNCHANGED <<ws, told>>

(* close() when a promise of an earlier close is there, or when CLOSED: it *)
(* changes nothing; the caller is told at once unless the earlier close is *)
(* still going on, whose end will tell it.                                 *)
CloseAgain ==
    /\ NextTask
    /\ closePromise = "resolved" \/ (closePromise = "null" /\ state = "CLOSED")
    /\ told' = TRUE
    /\ UNCHANGED <<state, ws, sock, byTimer, attempt, timer, orphans, closeVars, callVars,
                   cont, crashed>>

(* close() that has nothing to wait for runs _closeInternal to its end, or *)
(* to the wait for the close event, before _closePromise is assigned: what *)
(* _cleanup did to _closePromise is undone.                                *)
CloseNow ==
    /\ NextTask
    /\ closePromise = "null" /\ state # "CLOSED"
    /\ IF Dead(ws) THEN TRUE ELSE state' = "CLOSING" /\ timer' = FALSE
    /\ CloseSocket("resolved")
    /\ UNCHANGED <<byTimer, attempt, orphans, callVars, cont, crashed>>

(* close() that waits for the calls pending at this moment.                *)
CloseGracefully ==
    /\ NextTask
    /\ closePromise = "null" /\ state # "CLOSED"
    /\ others > 0
    /\ state' = "CLOSING"
    /\ timer' = FALSE
    /\ closing' = "awaiting"
    /\ closePromise' = "pending"
    /\ awaited' = others
    /\ others' = 0
    /\ UNCHANGED <<ws, sock, byTimer, attempt, orphans, closeSock, unheard, cont, told, crashed>>

(* The waiters of all awaited calls have been told: the rest of            *)
(* _closeInternal, which looks at _ws only now.                            *)
CloseProceeds ==
    /\ WaitOver /\ cont = Idle
    /\ CloseSocket("null")
    /\ IF Dead(ws) THEN TRUE ELSE UNCHANGED <<state, timer>>
    /\ UNCHANGED <<byTimer, attempt, orphans, callVars, cont, crashed>>

-----------------------------------------------------------------------------
(* A call becomes pending: on an open socket, also when it was queued      *)
(* behind another and the client is CLOSING by now, or buffered while      *)
(* CONNECTING (a queued call or a retry whose turn comes then).            *)
CallStarts ==
    /\ NextTask
    /\ awaited + others < MaxPending
    /\ (~ Dead(ws) /\ sock[ws] = "open") \/ state = "CONNECTING"
    /\ others' = others + 1
    /\ UNCHANGED <<state, ws, sock, byTimer, attempt, timer, orphans, closeVars, awaited,
                   unheard, cont, told, crashed>>

EntryGoes ==
    \/ awaited > 0 /\ awaited' = awaited - 1 /\ UNCHANGED others
    \/ others > 0 /\ others' = others - 1 /\ UNCHANGED awaited

(* A pending call is answered: through its entry, and so the waiter that   *)
(* close() has put around the entry is told.                               *)
CallAnswered ==
    /\ NextTask
    /\ EntryGoes
    /\ UNCHANGED <<state, ws, sock, byTimer, attempt, timer, orphans, closeVars, unheard,
                   cont, told, crashed>>

(* A pending call times out, is aborted, or cannot be written.  That       *)
(* deletes the entry and rejects the promise of the call directly: the     *)
(* waiter of close() is never told.                                        *)
CallGivenUp ==
    /\ NextTask
    /\ EntryGoes
    /\ unheard' = (unheard \/ awaited' # awaited)
    /\ UNCHANGED <<state, ws, sock, byTimer, attempt, timer, orphans, closeVars, cont, told, crashed>>

Next ==
    \/ Connect \/ CloseAgain \/ CloseNow \/ CloseGracefully \/ CloseProceeds
    \/ AfterDisconnect \/ Arm \/ AfterFailedReconnect \/ ReconnectTimer
    \/ CallStarts \/ CallAnswered \/ CallGivenUp
    \/ \E s \in Socket :
          \/ HandshakeOpens(s) \/ HandshakeRefused(s) \/ SocketCloses(s) \/ AbandonedErrors(s)
          \/ \E kind \in {"retry", "stop"} : HandshakeFails(s, kind)

Spec == Init /\ [][Next]_vars

(* Promise continuations and the code after an event handler always run;   *)
(* a timer fires; every handshake ends, and so does every closing          *)
(* handshake (the ws library limits it); a pending call has a timeout.     *)
(* No handshake has a limit in the code: that a server which accepted the  *)
(* connection answers, or drops it, is an assumption about the network.    *)
HandshakeEnds(s) ==
    HandshakeOpens(s) \/ HandshakeRefused(s) \/ HandshakeFails(s, "retry") \/ HandshakeFails(s, "stop")

FairSpec ==
    /\ Spec
    /\ WF_vars(AfterDisconnect) /\ WF_vars(Arm) /\ WF_vars(AfterFailedReconnect)
    /\ WF_vars(CloseProceeds) /\ WF_vars(ReconnectTimer)
    /\ WF_vars((CallAnswered \/ CallGivenUp) /\ awaited' < awaited)
    /\ \A s \in Socket :
          WF_vars(HandshakeEnds(s)) /\ WF_vars(sock[s] = "closing" /\ SocketCloses(s))

-----------------------------------------------------------------------------
(* The connection as the calls of the client see it: this specification    *)
(* implements the abstract one that RpcCalls is composed with              *)
(* (client.ts:300-345,425-512,1513-1608).                                  *)
View == INSTANCE ConnectionView WITH
    MayReconnect <- Reconnect,
    conn <- state,
    link <- IF ws # NoSocket /\ sock[ws] \in {"open", "closing"} THEN sock[ws] ELSE "none"

ViewImplemented == View!ViewSpec

(* The state tells the truth.  No two sockets are at work: the events of   *)
(* an old connection would change the state of the new one.  While OPEN,   *)
(* the current socket is one that opened, until its close event is being   *)
(* delivered.  While CONNECTING there is a timer, a handshake or a         *)
(* continuation that takes the client further; while CLOSED there is none  *)
(* (client.ts:324-345,425-512,1513-1608).                                  *)
Attempting ==
    timer \/ orphans > 0 \/ cont # Idle \/ \E s \in Socket : sock[s] \in {"connecting", "aborting"}
StateIsTrue ==
    /\ TypeOK
    /\ Cardinality(Live) <= 1
    /\ state = "OPEN" =>
          ws # NoSocket /\ (sock[ws] \in {"open", "closing"} \/ cont.k = "disconnected")
    /\ state = "CONNECTING" => Attempting
    /\ state = "CLOSED" /\ cont = Idle => ~ Attempting

(* What close() promises, "a promise that resolves when the connection is  *)
(* fully closed" (client.ts:423): the state is CLOSED then, unless it is   *)
(* the promise that a close() of a client waiting to reconnect has left in *)
(* _closePromise; and neither a timer nor a socket takes the client out of *)
(* CLOSED again, except a reconnection whose handshake close() interrupted *)
(* although it is to "Cancel reconnection" (client.ts:435-460,482-502,     *)
(* 1593-1607).                                                             *)
CloseMeansClosed ==
    [][ /\ ~told /\ told' => state' = "CLOSED" \/ closePromise = "resolved"
        /\ told /\ told' /\ state = "CLOSED" /\ cont.k # "retry" => state' = "CLOSED" ]_vars

(* Every close() that waits for calls or for its socket resolves, but for  *)
(* two cases: a call it waits for is given up, not answered (see           *)
(* EveryCloseResolves), and its socket is one the server has refused with  *)
(* an HTTP status, which nothing ever closes (client.ts:386-412,462-511).  *)
CloseResolves ==
    closing # "idle" ~> (closing = "idle" \/ unheard \/ \E s \in Socket : sock[s] = "abandoned")

(* What close() promises: "By default, it awaits any pending calls to      *)
(* finish before closing", and returns "a promise that resolves when the   *)
(* connection is fully closed" (client.ts:420,423).                        *)
EveryCloseResolves == closing # "idle" ~> closing = "idle"

(* A lost connection comes back or is given up, by itself or by close():   *)
(* the client does not try to reconnect for ever, nor stop trying without  *)
(* saying so, as long as the process lives (client.ts:1556-1607).          *)
ReconnectingEnds ==
    state = "CONNECTING" ~> (crashed \/ (cont = Idle /\ state # "CONNECTING"))
=============================================================================
