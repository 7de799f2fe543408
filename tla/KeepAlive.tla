------------------------------- MODULE KeepAlive -------------------------------
(***************************************************************************)
(* Pings, pongs and the detection of a dead peer (client.ts: _startPing,   *)
(* _stopPing, the listeners of _attachWebsocket and the timer handling of  *)
(* close() and _onClose), for the client and, by inheritance, for the      *)
(* server's side of a connection.  Time passes in ticks; a timer that is   *)
(* due fires before the next tick.                                         *)
(***************************************************************************)
EXTENDS Integers, FiniteSetsExt

CONSTANTS
    Interval,         \* options.pingIntervalMs, in ticks
    PongTimeouts      \* values of options.pongTimeoutMs, 0 to disable

ASSUME IntervalAssumption     == Interval \in Nat \ {0} /\ Interval % 4 = 0
ASSUME PongTimeoutsAssumption ==
    PongTimeouts \subseteq Nat /\ \E longest \in PongTimeouts : \A n \in PongTimeouts : n <= longest

VARIABLES
    pongTimeout,      \* options.pongTimeoutMs, five seconds above the interval by default
    defer,            \* options.deferPingsOnActivity
    state,            \* of the connection: open, being closed, or closed
    ping,             \* ticks left of _pingTimer
    pong,             \* the timer in _pongTimer, none or one
    lost,             \* running pong timers that _pongTimer no longer refers to
    peerAlive,        \* does the peer answer?
    flight,           \* pings the peer has still to answer
    idle,             \* ticks since _lastActivity
    age               \* ticks since the connection opened

options == <<pongTimeout, defer>>
vars == <<options, state, ping, pong, lost, peerAlive, flight, idle, age>>

(* The interval with its jitter of 25% either way.                         *)
Jittered == (3 * Interval) \div 4 .. (5 * Interval) \div 4
ShortestPing == (3 * Interval) \div 4
LongestPing == (5 * Interval) \div 4

(* `heard': a pong has come since the timer was set; `old': it was set on  *)
(* an earlier connection.                                                  *)
PongTimer == [left : 0..Max(PongTimeouts), heard : BOOLEAN, old : BOOLEAN]

(* Bounds: ticks are counted up to Quiet, pings in flight up to MaxFlight. *)
Quiet     == LongestPing + Max(PongTimeouts) + 1
MaxFlight == 3

TypeOK ==
    /\ pongTimeout \in PongTimeouts /\ defer \in BOOLEAN
    /\ state \in {"open", "closing", "closed"} /\ peerAlive \in BOOLEAN
    /\ ping \in 0..LongestPing
    /\ pong \subseteq PongTimer /\ lost \subseteq PongTimer
    /\ flight \in 0..MaxFlight /\ idle \in 0..Quiet /\ age \in 0..Quiet

(* onOpen: _attachWebsocket and _startPing; no activity is recorded.       *)
Opened ==
    /\ state' = "open" /\ peerAlive' = TRUE
    /\ ping' \in Jittered
    /\ flight' = 0 /\ age' = 0

(* A new connection, with _lastActivity = 0: ages ago.                     *)
Init ==
    /\ pongTimeout \in PongTimeouts /\ defer \in BOOLEAN
    /\ state = "open" /\ peerAlive = TRUE
    /\ ping \in Jittered
    /\ pong = {} /\ lost = {} /\ flight = 0 /\ idle = Quiet /\ age = 0

-----------------------------------------------------------------------------
AllTimers == pong \cup lost
Due(t) == t.left = 0
Older(t) == [t EXCEPT !.left = @ - 1]
Later(n) == IF n < Quiet THEN n + 1 ELSE n

(* The event loop runs the timers that are due before it reads sockets.    *)
TimersRun == ~ \E t \in AllTimers : Due(t)

(* Time passes once every timer that is due has fired.                     *)
Tick ==
    /\ TimersRun
    /\ state = "open" => ping > 0
    /\ ping' = IF state = "open" THEN ping - 1 ELSE ping
    /\ pong' = {Older(t) : t \in pong}
    /\ lost' = {Older(t) : t \in lost}
    /\ idle' = Later(idle) /\ age' = Later(age)
    /\ UNCHANGED <<options, state, peerAlive, flight>>

(* doPing, when recent activity makes a ping unnecessary.                  *)
DeferPing ==
    /\ state = "open" /\ ping = 0
    /\ defer /\ idle < Interval
    /\ ping' = Interval - idle
    /\ UNCHANGED <<options, state, pong, lost, peerAlive, flight, idle, age>>

(* doPing: the timer in _pongTimer, if there is one, is overwritten and    *)
(* goes on running.                                                        *)
SendPing ==
    /\ state = "open" /\ ping = 0
    /\ ~ (defer /\ idle < Interval)
    /\ flight' = IF peerAlive /\ flight < MaxFlight THEN flight + 1 ELSE flight
    /\ IF pongTimeout = 0
         THEN UNCHANGED <<pong, lost>>
         ELSE /\ pong' = {[left |-> pongTimeout, heard |-> FALSE, old |-> FALSE]}
              /\ lost' = lost \cup pong
    /\ ping' \in Jittered
    /\ UNCHANGED <<options, state, peerAlive, idle, age>>

(* The listener of "pong": it clears the newest timer only.                *)
PongArrives ==
    /\ state # "closed" /\ flight > 0 /\ TimersRun
    /\ flight' = flight - 1
    /\ pong' = {}
    /\ lost' = {[t EXCEPT !.heard = TRUE] : t \in lost}
    /\ idle' = 0
    /\ UNCHANGED <<options, state, ping, peerAlive, age>>

(* A message or a ping of the peer: _recordActivity.                       *)
MessageArrives ==
    /\ state # "closed" /\ peerAlive /\ TimersRun
    /\ idle' = 0
    /\ UNCHANGED <<options, state, ping, pong, lost, peerAlive, flight, age>>

(* The connection breaks and neither side is told.                         *)
PeerDies ==
    /\ state # "closed" /\ peerAlive
    /\ peerAlive' = FALSE /\ flight' = 0
    /\ UNCHANGED <<options, state, ping, pong, lost, idle, age>>

-----------------------------------------------------------------------------
(* close(): _stopPing; the pong timer of the last ping runs on.            *)
Close ==
    /\ state = "open" /\ state' = "closing"
    /\ UNCHANGED <<options, ping, pong, lost, peerAlive, flight, idle, age>>

(* Definitions with a suffix, such as this one, are slips a change to      *)
(* client.ts could make: each of them breaks a property of this module.    *)
Closed_KeepsPongTimer(rest) ==
    /\ state' = "closed"
    /\ pong' = {}
    /\ lost' = {[t EXCEPT !.old = TRUE] : t \in rest \cup pong}
    /\ UNCHANGED <<options, ping, peerAlive, flight, idle, age>>

(* _onClose, with the pong timers in `rest' still running: the ping timer  *)
(* and the newest pong timer are cleared.                                  *)
Closed(rest) ==
    /\ state' = "closed"
    /\ pong' = {}
    /\ lost' = {[t EXCEPT !.old = TRUE] : t \in rest}
    /\ UNCHANGED <<options, ping, peerAlive, flight, idle, age>>

(* A pong timer is due: it terminates the socket that is current now.      *)
PongTimesOut ==
    \E t \in AllTimers :
        /\ Due(t)
        /\ IF state # "closed"
             THEN Closed(lost \ {t})
             ELSE /\ lost' = lost \ {t}
                  /\ UNCHANGED <<options, state, ping, pong, peerAlive, flight, idle, age>>

(* The connection closes for another reason.                               *)
Closes == state # "closed" /\ Closed(lost)

(* The client reconnects.                                                  *)
Reconnects == state = "closed" /\ Opened /\ UNCHANGED <<options, pong, lost, idle>>

Next ==
    \/ Tick \/ DeferPing \/ SendPing \/ PongArrives \/ MessageArrives \/ PeerDies
    \/ Close \/ PongTimesOut \/ Closes \/ Reconnects

Spec == Init /\ [][Next]_vars

-----------------------------------------------------------------------------
(* "If no pong is received within this window after a ping, the connection *)
(* is considered dead and terminated" (types.ts:388-389): no timer that is *)
(* due will terminate a connection on which a pong has come since, nor a   *)
(* later connection than its own (client.ts:1040,1515-1516).  The default  *)
(* timeout is too long for that: with a timeout shorter than the time to   *)
(* the next ping there is one timer at a time.                             *)
TimeoutMeansSilence ==
    state = "open" /\ pongTimeout < ShortestPing =>
        \A t \in AllTimers : Due(t) => ~ t.heard /\ ~ t.old

(* How long nothing has been heard on this connection.                     *)
Silent == IF idle < age THEN idle ELSE age

(* A connection whose peer is silent lives no longer than the longest      *)
(* interval between pings and the timeout after it, whatever was deferred, *)
(* whichever pongs came late and however many timers overlap               *)
(* (client.ts:1786-1825).                                                  *)
DeadPeerDetected ==
    state = "open" /\ pongTimeout > 0 => Silent <= LongestPing + pongTimeout

(* Silence and nothing else ends a connection, and it does.                *)
PeersWatched == TypeOK /\ TimeoutMeansSilence /\ DeadPeerDetected

=============================================================================
