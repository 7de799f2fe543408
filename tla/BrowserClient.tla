----------------------------- MODULE BrowserClient -----------------------------
(***************************************************************************)
(* The client for browsers (browser/client.ts, browser/queue.ts): its      *)
(* connection over the WebSocket of the browser, reconnection with         *)
(* timers, close(), and its calls, from the queue to their answers.  It is *)
(* written apart from the client for Node, and differs from it.            *)
(*                                                                         *)
(* A task of the event loop and the microtasks it leads to are one step,   *)
(* but for the middleware of a call.                                       *)
(***************************************************************************)
EXTENDS Integers, Sequences, FiniteSets

CONSTANTS
    Call,           \* the calls the application makes
    Concurrency,    \* callConcurrency
    MaxReconnects,  \* maxReconnects
    MaxSockets,     \* bound: WebSockets made
    MaxCloses       \* bound: calls of close() that begin one

Socket == 1 .. MaxSockets
None   == 0

VARIABLES
    state,      \* _state
    ws,         \* _ws
    sock,       \* readyState of each WebSocket; one closed in its handshake is "aborting"
    byTimer,    \* the WebSockets made to reconnect
    attempt,    \* _reconnectAttempt
    timers,     \* reconnection timers running
    held,       \* does _reconnectTimer hold the last of them?
    closing,    \* _closePromise: "none", or what close() waits for
    closeOn,    \* the WebSocket whose "close" event it waits for
    awaited,    \* the calls it waits for
    crossed,    \* has close() been called in a handshake it cannot call off?
    closes,
    call,       \* each call: "running" in its middleware, then "sent", then "done"
    queue,      \* calls that wait for a slot
    entries,    \* _pendingCalls
    sentOn      \* the WebSocket each call went out on, if it did

connVars == <<state, ws, sock, byTimer, attempt, timers, held>>
closeVars == <<closing, closeOn, awaited, crossed, closes>>
callVars == <<call, queue, entries, sentOn>>
vars == <<connVars, closeVars, callVars>>

TypeOK ==
    /\ state \in {"closed", "connecting", "open", "closing"}
    /\ ws \in Socket \cup {None} /\ closeOn \in Socket \cup {None}
    /\ sock \in [Socket -> {"new", "connecting", "open", "closing", "aborting", "closed"}]
    /\ byTimer \subseteq Socket
    /\ attempt \in 0 .. MaxReconnects
    /\ timers \in Nat /\ held \in BOOLEAN
    /\ closing \in {"none", "calls", "socket"} /\ closes \in 0 .. MaxCloses
    /\ awaited \subseteq Call /\ entries \subseteq Call /\ crossed \in BOOLEAN
    /\ call \in [Call -> {"new", "queued", "running", "sent", "done"}]
    /\ queue \in Seq(Call)
    /\ sentOn \in [Call -> Socket \cup {None}]

Init ==
    /\ state = "closed" /\ ws = None /\ sock = [k \in Socket |-> "new"]
    /\ byTimer = {} /\ attempt = 0 /\ timers = 0 /\ held = FALSE
    /\ closing = "none" /\ closeOn = None /\ awaited = {} /\ crossed = FALSE /\ closes = 0
    /\ call = [c \in Call |-> "new"] /\ queue = <<>> /\ entries = {}
    /\ sentOn = [c \in Call |-> None]

-----------------------------------------------------------------------------
(* The queue of calls *)

InSlots(cs) == Cardinality({c \in Call : cs[c] \in {"running", "sent"}})

\* Queue._drain: as many of those that wait as there are free slots begin.
Drained(cs, q) ==
    LET free == Concurrency - InSlots(cs)
        n    == IF free < Len(q) THEN free ELSE Len(q)
        go   == {q[i] : i \in 1 .. n}
    IN /\ call' = [c \in Call |-> IF c \in go THEN "running" ELSE cs[c]]
       /\ queue' = SubSeq(q, n + 1, Len(q))

\* The promises of these calls settle, if they have not yet, and give their slots back.
Settled(S) == Drained([c \in Call |-> IF c \in S THEN "done" ELSE call[c]], queue)

\* call(): refused unless the client is open.
MakesCall(c) ==
    /\ call[c] = "new" /\ state = "open"
    /\ Drained([call EXCEPT ![c] = "queued"], Append(queue, c))
    /\ UNCHANGED <<entries, sentOn, connVars, closeVars>>

\* Its middleware is through: the entry, then the message, whatever the state is by now.
\* A WebSocket in its handshake throws, and the entry stays; one that has closed, or none,
\* ignores the message.
Sends(c) ==
    /\ call[c] = "running"
    /\ entries' = entries \cup {c}
    /\ IF ws # None /\ sock[ws] = "connecting"
         THEN Settled({c}) /\ UNCHANGED sentOn
         ELSE /\ call' = [call EXCEPT ![c] = "sent"]
              /\ sentOn' = [sentOn EXCEPT ![c] = IF ws # None /\ sock[ws] = "open" THEN ws ELSE None]
              /\ UNCHANGED queue
    /\ UNCHANGED <<connVars, closeVars>>

\* _handleCallResult, _handleCallError: close() hears of it.
Answered(c) ==
    /\ c \in entries /\ sentOn[c] # None /\ sock[sentOn[c]] \in {"open", "closing"}
    /\ entries' = entries \ {c}
    /\ awaited' = awaited \ {c}
    /\ Settled({c})
    /\ UNCHANGED <<sentOn, connVars, closing, closeOn, crossed, closes>>

\* Its timeout, or its abort signal: close() does not hear of it.
GivesUp(c) ==
    /\ c \in entries
    /\ entries' = entries \ {c}
    /\ Settled({c})
    /\ UNCHANGED <<sentOn, connVars, closeVars>>

-----------------------------------------------------------------------------
(* The connection *)

\* _connectInternal
MakesSocket(k) ==
    /\ sock[k] = "new" /\ \A j \in 1 .. k - 1 : sock[j] # "new"
    /\ sock' = [sock EXCEPT ![k] = "connecting"]
    /\ ws' = k

Connect(k) ==
    /\ state = "closed"
    /\ state' = "connecting" /\ attempt' = 0
    /\ MakesSocket(k)
    /\ UNCHANGED <<byTimer, timers, held, closeVars, callVars>>

\* onOpen, whatever the state
Opens(k) ==
    /\ sock[k] = "connecting"
    /\ sock' = [sock EXCEPT ![k] = "open"]
    /\ state' = "open" /\ attempt' = 0
    /\ UNCHANGED <<ws, byTimer, timers, held, closeVars, callVars>>

\* _cleanup, and the promise of close() resolves.
FinishesClose ==
    /\ closing' = "none" /\ closeOn' = None
    /\ ws' = None

\* What a loss leads to: another attempt by a timer (_scheduleReconnect), or a client that
\* is closed.  The last listener of the "close" event is that of close(), if it waits for
\* this WebSocket: the state, _cleanup, and it is done.
AfterLoss(k, again) ==
    LET closed == closing = "socket" /\ closeOn = k
    IN /\ state' = IF again /\ ~closed THEN "connecting" ELSE "closed"
       /\ IF again THEN attempt' = attempt + 1 /\ timers' = timers + 1 /\ held' = TRUE
          ELSE UNCHANGED <<attempt, timers, held>>
       /\ IF closed THEN FinishesClose ELSE UNCHANGED <<ws, closing, closeOn>>

\* The handshake fails, or the one close() cut off ends: the "error" event with its
\* microtasks, in which the reconnection is scheduled, then the "close" event.
Fails(k) ==
    /\ sock[k] \in {"connecting", "aborting"}
    /\ sock' = [sock EXCEPT ![k] = "closed"]
    /\ AfterLoss(k, k \in byTimer /\ attempt < MaxReconnects)
    /\ UNCHANGED <<byTimer, awaited, crossed, closes, callVars>>

\* Definitions with a suffix, such as this one, are slips a change to the code
\* could make: each of them breaks a property of this module.  Here the calls under way
\* are left to their timeouts, as they are when they were never sent.
RejectsPending_None == UNCHANGED <<call, queue, entries, awaited>>

\* _rejectPendingCalls: close() hears of it.
RejectsPending ==
    /\ entries' = {} /\ awaited' = awaited \ entries
    /\ Settled(entries)

\* The "close" event of a connection: _onClose, then the listener of close().
Ends(k) ==
    /\ sock[k] \in {"open", "closing"}
    /\ sock' = [sock EXCEPT ![k] = "closed"]
    /\ RejectsPending
    /\ AfterLoss(k, state # "closing" /\ attempt < MaxReconnects)
    /\ UNCHANGED <<byTimer, crossed, closes, sentOn>>

\* A timer fires: the state is not looked at.
TimerFires(k) ==
    /\ timers > 0 /\ timers' = timers - 1 /\ held' = FALSE
    /\ MakesSocket(k)
    /\ byTimer' = byTimer \cup {k}
    /\ UNCHANGED <<state, attempt, closeVars, callVars>>

-----------------------------------------------------------------------------
(* close() *)

SocketGone == ws = None \/ sock[ws] = "closed"

\* The second half of _closeInternal
ClosesSocket ==
    IF SocketGone
      THEN /\ state' = "closed" /\ FinishesClose
           /\ UNCHANGED sock
      ELSE /\ state' = "closing" /\ closing' = "socket" /\ closeOn' = ws
           /\ sock' = [sock EXCEPT ![ws] = CASE @ = "open"       -> "closing"
                                             [] @ = "connecting" -> "aborting"
                                             [] OTHER            -> @]
           /\ UNCHANGED ws

InHandshake == ws # None /\ sock[ws] = "connecting"

\* While there is a close() under way, another returns its promise.
Close(waits) ==
    /\ closes < MaxCloses /\ closes' = closes + 1
    /\ closing = "none" /\ state # "closed"
    /\ timers' = IF held THEN timers - 1 ELSE timers
    /\ held' = FALSE
    /\ awaited' = IF waits THEN entries ELSE {}
    /\ crossed' = (crossed \/ (InHandshake /\ (ws \in byTimer \/ awaited' # {})))
    /\ IF awaited' = {} THEN ClosesSocket
       ELSE state' = "closing" /\ closing' = "calls" /\ UNCHANGED <<closeOn, ws, sock>>
    /\ UNCHANGED <<byTimer, attempt, callVars>>

\* The calls have been heard of: close() goes on in a microtask, before the next task.
CloseDue == closing = "calls" /\ awaited = {}

CloseGoesOn ==
    /\ CloseDue
    /\ ClosesSocket
    /\ UNCHANGED <<byTimer, attempt, timers, held, awaited, crossed, closes, callVars>>

-----------------------------------------------------------------------------

Task ==
    \/ \E c \in Call : MakesCall(c) \/ Sends(c) \/ Answered(c) \/ GivesUp(c)
    \/ \E k \in Socket : Connect(k) \/ Opens(k) \/ Fails(k) \/ Ends(k) \/ TimerFires(k)
    \/ \E waits \in BOOLEAN : Close(waits)

Next == CloseGoesOn \/ (~CloseDue /\ Task)

\* Middleware ends, timers fire, and a WebSocket that was closed reports it.
Fairness ==
    /\ WF_vars(CloseGoesOn)
    /\ \A c \in Call : WF_vars(~CloseDue /\ (Sends(c) \/ GivesUp(c)))
    /\ \A k \in Socket : WF_vars(~CloseDue /\ \/ sock[k] = "closing" /\ Ends(k)
                                              \/ sock[k] = "aborting" /\ Fails(k))

Spec == Init /\ [][Next]_vars
FairSpec == Spec /\ Fairness

-----------------------------------------------------------------------------
\* A caller that waits has an entry by which it will be told, no call waits on a connection
\* that has ended, and the slots of the queue are neither exceeded nor left idle: across
\* reconnections, calls sent into no connection, and entries left by a send that threw
\* (browser/client.ts:497-580,887-895, browser/queue.ts:47-63).
CallsExact ==
    /\ \A c \in Call : call[c] = "sent" => c \in entries
    /\ \A c \in entries : call[c] \in {"sent", "done"} /\ (sentOn[c] # None => sock[sentOn[c]] # "closed")
    /\ InSlots(call) <= Concurrency
    /\ queue # <<>> => InSlots(call) = Concurrency

\* The state is true of the WebSockets: "open" and "connecting" have one behind them or a
\* timer, "closing" a close() under way, and a client that is closed has no connection and
\* makes none.  The exception, and everything after it: a close() during a handshake that
\* it leaves going, or that a timer began.  The "error" event then schedules the next
\* attempt (browser/client.ts:238-244,932-981).
StateIsTrue ==
    crossed \/
      CASE state = "open"       -> ws # None /\ sock[ws] = "open"
        [] state = "connecting" -> timers = 1 \/ InHandshake
        [] state = "closing"    -> closing # "none"
        [] state = "closed"     -> timers = 0 /\ \A k \in Socket : sock[k] \in {"new", "closed"}

ClientSound == TypeOK /\ CallsExact /\ StateIsTrue

\* Every call settles, and every close() ends: but for one that waits for a call which is
\* then given up, as nobody tells it of that (browser/client.ts:303-319,524-535,553-557).
AllSettled ==
    /\ \A c \in Call : call[c] \in {"new", "done"}
    /\ closing # "none" => ~(awaited \subseteq entries)

AllSettles == <>[]AllSettled
=============================================================================
