------------------------ MODULE ClientConnectionProofs ------------------------
(***************************************************************************)
(* The connection of a client, for any number of sockets, reconnections    *)
(* and pending calls, with and without reconnecting and refusals: the      *)
(* state tells the truth, close() means it, no reconnect timer is          *)
(* forgotten, and ConnectionView is implemented.                           *)
(***************************************************************************)
EXTENDS ClientConnection, FiniteSetTheorems, TLAPS

(* What has become of the current socket; when it is quiet, nothing that   *)
(* happens to it reaches the client.                                       *)
Link  == IF ws = NoSocket THEN "gone" ELSE sock[ws]
Quiet == {"gone", "refused", "abandoned"}

(* The type invariant in three parts.                                      *)
Counters ==
    /\ attempt \in 0 .. MaxReconnects
    /\ orphans \in Nat
    /\ awaited \in 0 .. MaxPending
    /\ others \in 0 .. MaxPending

Flags == timer \in BOOLEAN /\ unheard \in BOOLEAN /\ told \in BOOLEAN /\ crashed \in BOOLEAN

Places ==
    /\ state \in {"CONNECTING", "OPEN", "CLOSING", "CLOSED"}
    /\ ws \in Socket \cup {NoSocket}
    /\ sock \in [Socket -> SocketState]
    /\ byTimer \in [Socket -> BOOLEAN]
    /\ closePromise \in {"null", "pending", "resolved"}
    /\ closing \in {"idle", "awaiting", "waiting"}
    /\ closeSock \in Socket \cup {NoSocket}
    /\ cont \in Cont

(* Only the current socket is at work.                                     *)
OneAtWork == \A s \in Socket : s # ws => sock[s] \in {"gone", "abandoned"}

(* No timer is forgotten, and one runs only while there is nothing else.   *)
Timed ==
    /\ orphans = 0
    /\ timer => state = "CONNECTING" /\ cont = Idle /\ Link \in Quiet

(* The rest of a task finds the state as the task has left it.             *)
Running ==
    /\ cont.k # "idle" => Link \in Quiet /\ ~timer
    /\ cont.k = "disconnected" => state = "OPEN" /\ ws # NoSocket
    /\ cont.k = "arming" => state = "CONNECTING"
    /\ cont.k \in {"retry", "stop"} => state = "CLOSED"
    /\ cont.closes =>
          /\ cont.k \in {"disconnected", "arming"} /\ Link = "gone"
          /\ closing = "waiting" /\ closeSock = ws

(* The states a socket at work allows, and the other way round.            *)
Linked ==
    /\ Link = "connecting" => state \in {"CONNECTING", "CLOSING"}
    /\ Link = "aborting" =>
          state \in {"CONNECTING", "CLOSING"} /\ closing = "waiting" /\ closeSock = ws
    /\ Link = "open" => state \in {"OPEN", "CLOSING"}
    /\ Link = "closing" =>
          state \in {"OPEN", "CLOSING"} /\ closing = "waiting" /\ closeSock = ws
    /\ state = "OPEN" => Link \in {"open", "closing"} \/ cont.k = "disconnected"
    /\ state = "CONNECTING" => timer \/ cont.k = "arming" \/ Link \in {"connecting", "aborting"}
    /\ state = "CLOSED" => Link \in Quiet /\ ~timer

(* A close() that is going on has left its promise; a client is CLOSING    *)
(* only then.                                                              *)
Promised ==
    /\ closing # "idle" => closePromise = "pending"
    /\ state = "CLOSING" => closing # "idle"

IInv == Counters /\ Flags /\ Places /\ OneAtWork /\ Timed /\ Running /\ Linked /\ Promised

LEMMA IdleIs == Idle \in Cont /\ Idle.k = "idle" /\ ~ Idle.closes
BY DEF Idle, Cont

LEMMA TypeParts == Counters /\ Flags /\ Places => TypeOK
BY DEF Counters, Flags, Places, TypeOK

LEMMA InitIInv == Init => IInv
<1> SUFFICES ASSUME Init PROVE IInv
  OBVIOUS
<1>1. Link = "gone" /\ cont \in Cont /\ cont.k = "idle" /\ ~ cont.closes
  BY IdleIs DEF Init, Link
<1>2. Counters
  BY MaxReconnectsAssumption, MaxPendingAssumption DEF Init, Counters
<1>3. Flags
  BY DEF Init, Flags
<1>4. Places
  BY <1>1 DEF Init, Places, SocketState
<1>5. OneAtWork /\ Timed /\ Running
  BY <1>1 DEF Init, OneAtWork, Timed, Running
<1>6. Linked /\ Promised
  BY <1>1 DEF Init, Linked, Promised, Quiet
<1> QED BY <1>2, <1>3, <1>4, <1>5, <1>6 DEF IInv

-----------------------------------------------------------------------------
(* A new socket is made when the current one is quiet.                     *)
LEMMA NewSocketKeeps ==
    ASSUME IInv, Link \in Quiet, NEW timed \in BOOLEAN, NewSocket(timed)
    PROVE  /\ ws' \in Socket /\ sock' \in [Socket -> SocketState]
           /\ byTimer' \in [Socket -> BOOLEAN]
           /\ OneAtWork' /\ Link' = "connecting"
<1>1. PICK s \in Socket :
        /\ sock[s] = "gone" /\ ws' = s
        /\ sock' = [r \in Socket |-> IF r = s THEN "connecting"
                                     ELSE IF r = ws /\ sock[r] = "refused" THEN "gone"
                                     ELSE sock[r]]
        /\ byTimer' = [byTimer EXCEPT ![s] = timed]
  BY DEF NewSocket
<1>2. ws' # NoSocket
  BY <1>1, NoSocketAssumption
<1>3. sock' \in [Socket -> SocketState] /\ byTimer' \in [Socket -> BOOLEAN] /\ ws' \in Socket
  BY <1>1 DEF IInv, Places, SocketState
<1>4. Link' = "connecting"
  BY <1>1, <1>2 DEF Link
<1>5. OneAtWork'
  <2>1. ASSUME NEW r \in Socket, r # s PROVE sock'[r] \in {"gone", "abandoned"}
    <3>1. CASE r = ws
      <4>1. sock[r] \in Quiet
        BY <3>1, NoSocketAssumption DEF Link
      <4> QED BY <1>1, <2>1, <3>1, <4>1 DEF Quiet
    <3>2. CASE r # ws
      BY <1>1, <2>1, <3>2 DEF IInv, OneAtWork
    <3> QED BY <3>1, <3>2
  <2> QED BY <1>1, <2>1 DEF OneAtWork
<1> QED BY <1>3, <1>4, <1>5

LEMMA ConnectKeeps == ASSUME IInv, Connect PROVE IInv'
<1>1. Link \in Quiet /\ NewSocket(FALSE)
  BY DEF Connect, IInv, Linked
<1>2. /\ ws' \in Socket /\ sock' \in [Socket -> SocketState] /\ byTimer' \in [Socket -> BOOLEAN]
      /\ OneAtWork' /\ Link' = "connecting"
  BY <1>1, NewSocketKeeps
<1>3. cont.k = "idle" /\ ~ cont.closes
  BY IdleIs DEF Connect, NextTask
<1>4. Counters'
  BY MaxReconnectsAssumption DEF Connect, IInv, Counters, callVars
<1>5. Flags'
  BY DEF Connect, IInv, Flags, callVars
<1>6. Places'
  BY <1>2 DEF Connect, IInv, Places, closeVars
<1>7. Timed' /\ Running'
  BY <1>2, <1>3 DEF Connect, IInv, Linked, Timed, Running
<1>8. Linked' /\ Promised'
  BY <1>2 DEF Connect, IInv, Linked, Promised, Quiet, closeVars
<1> QED BY <1>2, <1>4, <1>5, <1>6, <1>7, <1>8 DEF IInv

LEMMA ReconnectTimerKeeps == ASSUME IInv, ReconnectTimer PROVE IInv'
<1>1. orphans = 0
  BY DEF IInv, Timed
<1>2. timer
  BY <1>1 DEF ReconnectTimer
<1>3. Link \in Quiet /\ state = "CONNECTING" /\ cont.k = "idle" /\ ~ cont.closes
  BY <1>2, IdleIs DEF IInv, Timed
<1>4. NewSocket(TRUE)
  BY DEF ReconnectTimer
<1>5. /\ ws' \in Socket /\ sock' \in [Socket -> SocketState] /\ byTimer' \in [Socket -> BOOLEAN]
      /\ OneAtWork' /\ Link' = "connecting"
  BY <1>3, <1>4, NewSocketKeeps
<1>6. /\ orphans' = 0 /\ timer' = FALSE
      /\ UNCHANGED <<state, attempt, closeVars, callVars, cont, told, crashed>>
  BY <1>1 DEF ReconnectTimer
<1>7. Counters'
  BY <1>6 DEF IInv, Counters, callVars
<1>8. Flags'
  BY <1>6 DEF IInv, Flags, callVars
<1>9. Places'
  BY <1>5, <1>6 DEF IInv, Places, closeVars
<1>10. Timed' /\ Running'
  BY <1>3, <1>5, <1>6 DEF Timed, Running
<1>11. Linked' /\ Promised'
  BY <1>3, <1>5, <1>6 DEF IInv, Linked, Promised, Quiet, closeVars
<1> QED BY <1>5, <1>7, <1>8, <1>9, <1>10, <1>11 DEF IInv

-----------------------------------------------------------------------------
(* What a socket at work goes through is what the current one does.        *)
LEMMA AtWork ==
    ASSUME IInv, NEW s \in Socket, sock[s] \notin {"gone", "abandoned"}
    PROVE  ws = s /\ Link = sock[s] /\ s # NoSocket
BY NoSocketAssumption DEF IInv, OneAtWork, Link

LEMMA HandshakeOpensKeeps == ASSUME IInv, NEW s \in Socket, HandshakeOpens(s) PROVE IInv'
<1>1. ws = s /\ Link = "connecting" /\ s # NoSocket
  BY AtWork DEF HandshakeOpens
<1>2. sock' \in [Socket -> SocketState] /\ Link' = "open" /\ OneAtWork'
  BY <1>1 DEF HandshakeOpens, IInv, Places, SocketState, Link, OneAtWork
<1>3. cont.k = "idle" /\ ~ cont.closes
  BY IdleIs DEF HandshakeOpens, NextTask
<1>4. Counters'
  BY MaxReconnectsAssumption DEF HandshakeOpens, IInv, Counters, callVars
<1>5. Flags'
  BY DEF HandshakeOpens, IInv, Flags, callVars
<1>6. Places'
  BY <1>2 DEF HandshakeOpens, IInv, Places, closeVars
<1>7. Timed' /\ Running'
  BY <1>1, <1>3 DEF HandshakeOpens, IInv, Timed, Running, Quiet
<1>8. Linked' /\ Promised'
  BY <1>2 DEF HandshakeOpens, IInv, Linked, Promised, Quiet, closeVars
<1> QED BY <1>2, <1>4, <1>5, <1>6, <1>7, <1>8 DEF IInv

LEMMA HandshakeRefusedKeeps == ASSUME IInv, NEW s \in Socket, HandshakeRefused(s) PROVE IInv'
<1>1. ws = s /\ Link = "connecting" /\ s # NoSocket
  BY AtWork DEF HandshakeRefused
<1>2. sock' \in [Socket -> SocketState] /\ Link' = "refused" /\ OneAtWork'
  BY <1>1 DEF HandshakeRefused, IInv, Places, SocketState, Link, OneAtWork
<1>3. cont' \in Cont /\ cont'.k \in {"idle", "retry"} /\ ~ cont'.closes
  BY IdleIs DEF HandshakeRefused, Cont
<1>4. Counters'
  BY DEF HandshakeRefused, IInv, Counters, callVars
<1>5. Flags'
  BY DEF HandshakeRefused, IInv, Flags, callVars
<1>6. Places'
  BY <1>2, <1>3 DEF HandshakeRefused, IInv, Places, closeVars
<1>7. timer = FALSE
  BY <1>1 DEF IInv, Flags, Timed, Quiet
<1>8. Timed' /\ Running'
  BY <1>2, <1>3, <1>7 DEF HandshakeRefused, IInv, Timed, Running, Quiet
<1>9. Linked' /\ Promised'
  BY <1>2, <1>7 DEF HandshakeRefused, IInv, Linked, Promised, Quiet, closeVars
<1> QED BY <1>2, <1>4, <1>5, <1>6, <1>8, <1>9 DEF IInv

-----------------------------------------------------------------------------
(* Steps of the calls, and those that change nothing but what is told.     *)
LEMMA RestKeeps ==
    ASSUME IInv, Counters', Flags',
           UNCHANGED <<state, ws, sock, byTimer, timer, orphans, closeVars, cont>>
    PROVE  IInv'
<1>1. Places' /\ OneAtWork' /\ Link' = Link
  BY DEF IInv, Places, OneAtWork, Link, closeVars
<1>2. Timed' /\ Running' /\ Linked' /\ Promised'
  BY <1>1 DEF IInv, Timed, Running, Linked, Promised, closeVars
<1> QED BY <1>1, <1>2 DEF IInv

LEMMA CallStartsKeeps == ASSUME IInv, CallStarts PROVE IInv'
<1>1. Counters'
  BY MaxPendingAssumption DEF CallStarts, IInv, Counters
<1>2. Flags'
  BY DEF CallStarts, IInv, Flags
<1> QED BY <1>1, <1>2, RestKeeps DEF CallStarts

LEMMA EntryGoesKeeps ==
    ASSUME IInv, EntryGoes, UNCHANGED <<attempt, orphans>>
    PROVE  Counters'
BY MaxPendingAssumption DEF EntryGoes, IInv, Counters

LEMMA CallAnsweredKeeps == ASSUME IInv, CallAnswered PROVE IInv'
<1>1. Counters'
  BY EntryGoesKeeps DEF CallAnswered
<1>2. Flags'
  BY DEF CallAnswered, IInv, Flags
<1> QED BY <1>1, <1>2, RestKeeps DEF CallAnswered

LEMMA CallGivenUpKeeps == ASSUME IInv, CallGivenUp PROVE IInv'
<1>1. Counters'
  BY EntryGoesKeeps DEF CallGivenUp
<1>2. unheard' \in BOOLEAN
  BY DEF CallGivenUp, IInv, Flags
<1>3. Flags'
  BY <1>2 DEF CallGivenUp, IInv, Flags
<1> QED BY <1>1, <1>3, RestKeeps DEF CallGivenUp

LEMMA CloseAgainKeeps == ASSUME IInv, CloseAgain PROVE IInv'
<1>1. Counters'
  BY DEF CloseAgain, IInv, Counters, callVars
<1>2. Flags'
  BY DEF CloseAgain, IInv, Flags, callVars
<1> QED BY <1>1, <1>2, RestKeeps DEF CloseAgain

LEMMA AbandonedErrorsKeeps == ASSUME IInv, NEW s \in Socket, AbandonedErrors(s) PROVE IInv'
<1>1. Counters'
  BY DEF AbandonedErrors, IInv, Counters, callVars
<1>2. Flags'
  BY DEF AbandonedErrors, IInv, Flags, callVars
<1> QED BY <1>1, <1>2, RestKeeps DEF AbandonedErrors

-----------------------------------------------------------------------------
(* The end of the delivery of a close event, with or without a close().    *)
LEMMA ClosedIs ==
    ASSUME IInv, NEW closes \in BOOLEAN, Closed(closes)
    PROVE  /\ state' = "CLOSED" /\ timer' \in BOOLEAN /\ told' \in BOOLEAN
           /\ closes => /\ ws' = NoSocket /\ closing' = "idle" /\ closeSock' = NoSocket
                        /\ timer' = FALSE /\ closePromise' = "null" /\ told' = TRUE
           /\ ~ closes => UNCHANGED <<timer, ws, closePromise, closing, closeSock, told>>
BY DEF Closed, FinishClose, IInv, Flags, closeVars

LEMMA HandshakeFailsKeeps ==
    ASSUME IInv, NEW s \in Socket, NEW kind \in {"retry", "stop"}, HandshakeFails(s, kind)
    PROVE  IInv'
<1>1. ws = s /\ Link \in {"connecting", "aborting"} /\ s # NoSocket
  BY AtWork DEF HandshakeFails
<1>2. PICK closes \in BOOLEAN : closes = CloseWaitsFor(s)
  BY DEF CloseWaitsFor
<1>3. Closed(closes)
  BY <1>2 DEF HandshakeFails
<1>4. ws' = ws \/ ws' = NoSocket
  BY <1>3, ClosedIs
<1>5. sock' \in [Socket -> SocketState] /\ Link' = "gone" /\ OneAtWork'
  BY <1>1, <1>4 DEF HandshakeFails, IInv, Places, SocketState, Link, OneAtWork
<1>6. cont' \in Cont /\ cont'.k \in {"idle", "retry", "stop"} /\ ~ cont'.closes
  BY IdleIs DEF HandshakeFails, Cont
<1>7. timer = FALSE
  BY <1>1 DEF IInv, Flags, Timed, Quiet
<1>8. timer' = FALSE /\ state' = "CLOSED"
  BY <1>3, <1>7, ClosedIs
<1>9. Counters'
  BY DEF HandshakeFails, IInv, Counters, callVars
<1>10. Flags'
  BY <1>3, ClosedIs DEF HandshakeFails, IInv, Flags, callVars
<1>11. Places'
  <2>1. /\ ws' \in Socket \cup {NoSocket} /\ closeSock' \in Socket \cup {NoSocket}
        /\ closePromise' \in {"null", "pending", "resolved"}
        /\ closing' \in {"idle", "awaiting", "waiting"}
    BY <1>3, ClosedIs DEF IInv, Places
  <2> QED BY <1>5, <1>6, <1>8, <2>1 DEF HandshakeFails, IInv, Places
<1>12. Timed' /\ Running' /\ Linked'
  BY <1>5, <1>6, <1>8 DEF HandshakeFails, IInv, Timed, Running, Linked, Quiet
<1>13. Promised'
  BY <1>3, <1>8, ClosedIs DEF IInv, Promised
<1> QED BY <1>5, <1>9, <1>10, <1>11, <1>12, <1>13 DEF IInv

LEMMA SocketClosesKeeps == ASSUME IInv, NEW s \in Socket, SocketCloses(s) PROVE IInv'
<1>1. ws = s /\ Link \in {"open", "closing"} /\ s # NoSocket
  BY AtWork DEF SocketCloses
<1>2. PICK closes \in BOOLEAN : closes = CloseWaitsFor(s)
  BY DEF CloseWaitsFor
<1>3. timer = FALSE /\ state \in {"OPEN", "CLOSING"} /\ cont.k = "idle" /\ ~ cont.closes
  BY <1>1, IdleIs DEF SocketCloses, NextTask, IInv, Flags, Timed, Linked, Quiet
<1>4. Counters' /\ sock' = [sock EXCEPT ![s] = "gone"] /\ UNCHANGED <<byTimer, orphans>>
  BY MaxPendingAssumption DEF SocketCloses, IInv, Counters
<1>5. CASE state = "OPEN"
  <2>1. /\ cont' = [k |-> "disconnected", closes |-> closes]
        /\ UNCHANGED <<state, timer, ws, closeVars, told, unheard, crashed>>
    BY <1>2, <1>5 DEF SocketCloses
  <2>2. sock' \in [Socket -> SocketState] /\ Link' = "gone" /\ OneAtWork'
    BY <1>1, <1>4, <2>1 DEF IInv, Places, SocketState, Link, OneAtWork
  <2>3. cont' \in Cont /\ cont'.k = "disconnected" /\ cont'.closes = closes
    BY <2>1 DEF Cont
  <2>4. Flags'
    BY <2>1 DEF IInv, Flags
  <2>5. Places'
    BY <1>4, <2>1, <2>2, <2>3 DEF IInv, Places, closeVars
  <2>6. Timed' /\ Linked'
    BY <1>3, <1>4, <1>5, <2>1, <2>2, <2>3 DEF IInv, Timed, Linked
  <2>7. Running'
    BY <1>1, <1>2, <1>3, <1>5, <2>1, <2>2, <2>3 DEF Running, CloseWaitsFor, Quiet, closeVars
  <2>8. Promised'
    BY <1>5, <2>1 DEF IInv, Promised, closeVars
  <2> QED BY <1>4, <2>2, <2>4, <2>5, <2>6, <2>7, <2>8 DEF IInv
<1>6. CASE state = "CLOSING"
  <2>1. Closed(closes) /\ UNCHANGED <<cont, unheard, crashed>>
    BY <1>2, <1>6 DEF SocketCloses
  <2>2. timer' = FALSE /\ state' = "CLOSED" /\ (ws' = ws \/ ws' = NoSocket)
    BY <1>3, <2>1, ClosedIs
  <2>3. sock' \in [Socket -> SocketState] /\ Link' = "gone" /\ OneAtWork'
    BY <1>1, <1>4, <2>2 DEF IInv, Places, SocketState, Link, OneAtWork
  <2>4. Flags'
    BY <2>1, ClosedIs DEF IInv, Flags
  <2>5. Places'
    <3>1. /\ ws' \in Socket \cup {NoSocket} /\ closeSock' \in Socket \cup {NoSocket}
          /\ closePromise' \in {"null", "pending", "resolved"}
          /\ closing' \in {"idle", "awaiting", "waiting"}
      BY <2>1, ClosedIs DEF IInv, Places
    <3> QED BY <1>4, <2>1, <2>2, <2>3, <3>1 DEF IInv, Places
  <2>6. Timed' /\ Running' /\ Linked'
    BY <1>3, <1>4, <2>1, <2>2, <2>3 DEF IInv, Timed, Running, Linked, Quiet
  <2>7. Promised'
    BY <2>1, <2>2, ClosedIs DEF IInv, Promised
  <2> QED BY <1>4, <2>3, <2>4, <2>5, <2>6, <2>7 DEF IInv
<1> QED BY <1>3, <1>5, <1>6

-----------------------------------------------------------------------------
(* What a continuation that ends in the delivery of a close event, or in   *)
(* no event, leaves behind.                                                *)
LEMMA ClosedKeeps ==
    ASSUME IInv, cont.k # "idle", Closed(cont.closes), cont' = Idle, orphans' = 0,
           UNCHANGED <<sock, byTimer, attempt, callVars, crashed>>
    PROVE  IInv'
<1>1. cont.closes \in BOOLEAN /\ timer = FALSE /\ Link \in Quiet
      /\ (cont.closes => Link = "gone" /\ closing = "waiting" /\ closeSock = ws)
  BY DEF IInv, Places, Flags, Cont, Running
<1>2. /\ state' = "CLOSED" /\ timer' \in BOOLEAN /\ told' \in BOOLEAN
      /\ cont.closes => /\ ws' = NoSocket /\ closing' = "idle" /\ closeSock' = NoSocket
                        /\ timer' = FALSE /\ closePromise' = "null" /\ told' = TRUE
      /\ ~ cont.closes => UNCHANGED <<timer, ws, closePromise, closing, closeSock, told>>
  BY <1>1, ClosedIs
<1>3. timer' = FALSE /\ Link' \in Quiet
  BY <1>1, <1>2 DEF Link, Quiet
<1>4. OneAtWork'
  <2>1. CASE cont.closes
    <3>1. ASSUME NEW r \in Socket PROVE sock[r] \in {"gone", "abandoned"}
      BY <1>1, <2>1, NoSocketAssumption DEF Link, IInv, OneAtWork
    <3> QED BY <3>1 DEF OneAtWork
  <2>2. CASE ~ cont.closes
    BY <1>2, <2>2 DEF IInv, OneAtWork
  <2> QED BY <2>1, <2>2
<1>5. cont' \in Cont /\ cont'.k = "idle" /\ ~ cont'.closes
  BY IdleIs
<1>6. Counters'
  BY DEF IInv, Counters, callVars
<1>7. Flags'
  BY <1>2 DEF IInv, Flags, callVars
<1>8. Places'
  <2>1. /\ ws' \in Socket \cup {NoSocket} /\ closeSock' \in Socket \cup {NoSocket}
        /\ closePromise' \in {"null", "pending", "resolved"}
        /\ closing' \in {"idle", "awaiting", "waiting"}
    BY <1>1, <1>2 DEF IInv, Places
  <2> QED BY <1>2, <1>5, <2>1 DEF IInv, Places
<1>9. Timed' /\ Running' /\ Linked'
  BY <1>2, <1>3, <1>5 DEF Timed, Running, Linked, Quiet
<1>10. Promised'
  BY <1>1, <1>2 DEF IInv, Promised
<1> QED BY <1>4, <1>6, <1>7, <1>8, <1>9, <1>10 DEF IInv

LEMMA ScheduleKeeps ==
    ASSUME IInv, cont.k # "idle", NEW closes \in BOOLEAN, closes = cont.closes,
           ScheduleReconnect(closes), attempt < MaxReconnects,
           UNCHANGED <<ws, sock, byTimer, timer, orphans, closeVars, callVars, told, crashed>>
    PROVE  IInv'
<1>1. cont' \in Cont /\ cont'.k = "arming" /\ cont'.closes = closes
      /\ state' = "CONNECTING" /\ attempt' = attempt + 1
  BY DEF ScheduleReconnect, Cont
<1>2. Link' = Link /\ OneAtWork'
  BY DEF IInv, Link, OneAtWork
<1>3. Counters'
  BY <1>1, MaxReconnectsAssumption DEF IInv, Counters, callVars
<1>4. Flags'
  BY DEF IInv, Flags, callVars
<1>5. Places'
  BY <1>1 DEF IInv, Places, closeVars
<1>6. Timed' /\ Linked'
  BY <1>1, <1>2 DEF IInv, Flags, Timed, Running, Linked, Quiet, closeVars
<1>7. Running'
  BY <1>1, <1>2 DEF IInv, Running, closeVars
<1>8. Promised'
  BY <1>1 DEF IInv, Promised, closeVars
<1> QED BY <1>2, <1>3, <1>4, <1>5, <1>6, <1>7, <1>8 DEF IInv

LEMMA AfterDisconnectKeeps == ASSUME IInv, AfterDisconnect PROVE IInv'
<1>1. cont.k = "disconnected" /\ cont.closes \in BOOLEAN /\ orphans = 0
  BY DEF AfterDisconnect, IInv, Places, Cont, Timed
<1>2. CASE Reconnect /\ attempt < MaxReconnects
  <2>1. ScheduleReconnect(cont.closes)
    BY <1>2 DEF AfterDisconnect
  <2>2. UNCHANGED <<ws, sock, byTimer, timer, orphans, closeVars, callVars, told, crashed>>
    BY <1>2 DEF AfterDisconnect
  <2> QED BY <1>1, <1>2, <2>1, <2>2, ScheduleKeeps
<1>3. CASE ~ (Reconnect /\ attempt < MaxReconnects)
  <2>1. Closed(cont.closes) /\ cont' = Idle /\ orphans' = 0
    BY <1>1, <1>3 DEF AfterDisconnect
  <2>2. UNCHANGED <<sock, byTimer, attempt, callVars, crashed>>
    BY <1>3 DEF AfterDisconnect
  <2> QED BY <1>1, <2>1, <2>2, ClosedKeeps
<1> QED BY <1>2, <1>3

LEMMA ArmKeeps == ASSUME IInv, Arm PROVE IInv'
<1>1. /\ cont.k = "arming" /\ cont.closes \in BOOLEAN /\ orphans = 0 /\ timer = FALSE
      /\ state = "CONNECTING" /\ Link \in Quiet
  BY DEF Arm, IInv, Places, Flags, Cont, Timed, Running
<1>2. cont' = Idle /\ orphans' = 0 /\ UNCHANGED <<sock, byTimer, attempt, callVars, crashed>>
  BY <1>1 DEF Arm
<1>3. CASE cont.closes
  <2>1. Closed(cont.closes)
    <3>1. Closed(TRUE) /\ cont.closes = TRUE
      BY <1>1, <1>3 DEF Arm
    <3> QED BY <3>1
  <2> QED BY <1>1, <1>2, <2>1, ClosedKeeps
<1>4. CASE ~ cont.closes
  <2>1. timer' = TRUE /\ UNCHANGED <<state, ws, closeVars, told>>
    BY <1>4 DEF Arm
  <2>2. cont' \in Cont /\ cont'.k = "idle" /\ ~ cont'.closes
    BY <1>2, IdleIs
  <2>3. Link' = Link /\ OneAtWork'
    BY <1>2, <2>1 DEF IInv, Link, OneAtWork
  <2>4. Counters'
    BY <1>2 DEF IInv, Counters, callVars
  <2>5. Flags'
    BY <1>2, <2>1 DEF IInv, Flags, callVars
  <2>6. Places'
    BY <1>2, <2>1, <2>2 DEF IInv, Places, closeVars
  <2>7. Timed' /\ Running' /\ Linked'
    BY <1>1, <1>2, <2>1, <2>2, <2>3 DEF Timed, Running, Linked, Quiet
  <2>8. Promised'
    BY <2>1 DEF IInv, Promised, closeVars
  <2> QED BY <2>3, <2>4, <2>5, <2>6, <2>7, <2>8 DEF IInv
<1> QED BY <1>3, <1>4

LEMMA AfterFailedReconnectKeeps == ASSUME IInv, AfterFailedReconnect PROVE IInv'
<1>1. /\ cont.k \in {"retry", "stop"} /\ cont.closes = FALSE /\ orphans = 0
      /\ state = "CLOSED"
  BY DEF AfterFailedReconnect, IInv, Places, Cont, Timed, Running
<1>2. UNCHANGED <<ws, sock, byTimer, timer, orphans, closeVars, callVars, told, crashed>>
  BY DEF AfterFailedReconnect
<1>3. CASE cont.k = "retry" /\ attempt < MaxReconnects /\ Reconnect
  <2>1. ScheduleReconnect(FALSE)
    BY <1>3 DEF AfterFailedReconnect
  <2> QED BY <1>1, <1>2, <1>3, <2>1, ScheduleKeeps
<1>4. CASE ~ (cont.k = "retry" /\ attempt < MaxReconnects /\ Reconnect)
  <2>1. state' = "CLOSED" /\ cont' = Idle /\ UNCHANGED attempt
    BY <1>4 DEF AfterFailedReconnect
  <2>2. Closed(cont.closes)
    BY <1>1, <1>2, <2>1 DEF Closed
  <2> QED BY <1>1, <1>2, <2>1, <2>2, ClosedKeeps
<1> QED BY <1>3, <1>4

-----------------------------------------------------------------------------
(* The two halves of _closeInternal.                                       *)
LEMMA CloseSocketDead ==
    ASSUME IInv, Dead(ws), NEW left, CloseSocket(left)
    PROVE  /\ Link = "gone" /\ UNCHANGED sock /\ closePromise' = left
           /\ state' = "CLOSED" /\ timer' = FALSE /\ ws' = NoSocket /\ closing' = "idle"
           /\ closeSock' = NoSocket /\ told' = TRUE
           /\ Link' = "gone" /\ OneAtWork'
<1>1. /\ Link = "gone" /\ UNCHANGED sock /\ closePromise' = left
      /\ state' = "CLOSED" /\ timer' = FALSE /\ ws' = NoSocket /\ closing' = "idle"
      /\ closeSock' = NoSocket /\ told' = TRUE
  BY DEF CloseSocket, FinishClose, Dead, Link
<1>2. Link' = "gone"
  BY <1>1 DEF Link
<1>3. OneAtWork'
  BY <1>1 DEF IInv, OneAtWork, Link
<1> QED BY <1>1, <1>2, <1>3

LEMMA CloseSocketLive ==
    ASSUME IInv, ~ Dead(ws), NEW left, CloseSocket(left)
    PROVE  /\ ws \in Socket /\ Link # "gone" /\ Link' = Shut(Link) /\ OneAtWork'
           /\ sock' \in [Socket -> SocketState] /\ Link' # "gone"
           /\ closing' = "waiting" /\ closeSock' = ws /\ closePromise' = "pending"
           /\ UNCHANGED <<ws, told>>
<1>1. ws \in Socket /\ ws # NoSocket /\ Link = sock[ws] /\ Link # "gone" /\ Link \in SocketState
  BY DEF Dead, IInv, Places, Link
<1>2. /\ sock' = [sock EXCEPT ![ws] = Shut(sock[ws])]
      /\ closing' = "waiting" /\ closeSock' = ws /\ closePromise' = "pending"
      /\ UNCHANGED <<ws, told>>
  BY DEF CloseSocket
<1>3. Shut(Link) \in SocketState /\ Shut(Link) # "gone"
  BY <1>1 DEF Shut, SocketState
<1>4. Link' = Shut(Link) /\ sock' \in [Socket -> SocketState] /\ OneAtWork'
  BY <1>1, <1>2, <1>3 DEF IInv, Places, Link, OneAtWork
<1> QED BY <1>1, <1>2, <1>3, <1>4

LEMMA CloseNowKeeps == ASSUME IInv, CloseNow PROVE IInv'
<1>1. /\ closing = "idle" /\ state \in {"CONNECTING", "OPEN"}
      /\ cont.k = "idle" /\ cont.closes = FALSE /\ orphans' = 0
  BY IdleIs DEF CloseNow, NextTask, IInv, Places, Promised, Timed, Idle
<1>2. CloseSocket("resolved") /\ UNCHANGED <<byTimer, attempt, orphans, callVars, cont, crashed>>
  BY DEF CloseNow
<1>3. Counters'
  BY <1>2 DEF IInv, Counters, callVars
<1>4. CASE Dead(ws)
  <2>1. /\ UNCHANGED sock /\ closePromise' = "resolved"
        /\ state' = "CLOSED" /\ timer' = FALSE /\ ws' = NoSocket /\ closing' = "idle"
        /\ closeSock' = NoSocket /\ told' = TRUE /\ Link' = "gone" /\ OneAtWork'
    BY <1>2, <1>4, CloseSocketDead
  <2>2. Flags'
    BY <1>2, <2>1 DEF IInv, Flags, callVars
  <2>3. Places'
    BY <1>2, <2>1 DEF IInv, Places
  <2>4. Timed' /\ Running' /\ Linked' /\ Promised'
    BY <1>1, <1>2, <2>1 DEF Timed, Running, Linked, Promised, Quiet
  <2> QED BY <1>3, <2>1, <2>2, <2>3, <2>4 DEF IInv
<1>5. CASE ~ Dead(ws)
  <2>1. /\ ws \in Socket /\ Link # "gone" /\ Link' = Shut(Link) /\ OneAtWork'
        /\ sock' \in [Socket -> SocketState]
        /\ closing' = "waiting" /\ closeSock' = ws /\ closePromise' = "pending"
        /\ UNCHANGED <<ws, told>>
    BY <1>2, <1>5, CloseSocketLive
  <2>2. state' = "CLOSING" /\ timer' = FALSE
    BY <1>5 DEF CloseNow
  <2>3. Flags'
    BY <1>2, <2>1, <2>2 DEF IInv, Flags, callVars
  <2>4. Places'
    BY <1>2, <2>1, <2>2 DEF IInv, Places
  <2>5. Timed' /\ Running' /\ Promised'
    BY <1>1, <1>2, <2>1, <2>2 DEF Timed, Running, Promised
  <2>6. Link' # "open"
    BY <2>1 DEF Shut
  <2>7. Linked'
    BY <2>1, <2>2, <2>6 DEF Linked
  <2> QED BY <1>3, <2>1, <2>3, <2>4, <2>5, <2>7 DEF IInv
<1> QED BY <1>4, <1>5

LEMMA CloseGracefullyKeeps == ASSUME IInv, CloseGracefully PROVE IInv'
<1>1. /\ cont.k = "idle" /\ cont.closes = FALSE /\ orphans' = 0 /\ closing = "idle"
  BY IdleIs DEF CloseGracefully, NextTask, IInv, Places, Promised, Timed, Idle
<1>2. Link' = Link /\ OneAtWork'
  BY DEF CloseGracefully, IInv, Link, OneAtWork
<1>3. Counters'
  BY MaxPendingAssumption DEF CloseGracefully, IInv, Counters
<1>4. Flags'
  BY DEF CloseGracefully, IInv, Flags
<1>5. Places'
  BY DEF CloseGracefully, IInv, Places
<1>6. Timed' /\ Running' /\ Promised'
  BY <1>1 DEF CloseGracefully, Timed, Running, Promised
<1>7. Linked'
  BY <1>1, <1>2 DEF CloseGracefully, IInv, Linked
<1> QED BY <1>2, <1>3, <1>4, <1>5, <1>6, <1>7 DEF IInv

LEMMA CloseProceedsKeeps == ASSUME IInv, CloseProceeds PROVE IInv'
<1>1. /\ cont.k = "idle" /\ cont.closes = FALSE /\ orphans = 0 /\ orphans' = 0
      /\ closing = "awaiting"
  BY IdleIs DEF CloseProceeds, WaitOver, IInv, Places, Timed, Idle
<1>2. CloseSocket("null") /\ UNCHANGED <<byTimer, attempt, orphans, callVars, cont, crashed>>
  BY DEF CloseProceeds
<1>3. Counters'
  BY <1>2 DEF IInv, Counters, callVars
<1>4. CASE Dead(ws)
  <2>1. /\ UNCHANGED sock /\ closePromise' = "null"
        /\ state' = "CLOSED" /\ timer' = FALSE /\ ws' = NoSocket /\ closing' = "idle"
        /\ closeSock' = NoSocket /\ told' = TRUE /\ Link' = "gone" /\ OneAtWork'
    BY <1>2, <1>4, CloseSocketDead
  <2>2. Flags'
    BY <1>2, <2>1 DEF IInv, Flags, callVars
  <2>3. Places'
    BY <1>2, <2>1 DEF IInv, Places
  <2>4. Timed' /\ Running' /\ Linked' /\ Promised'
    BY <1>1, <1>2, <2>1 DEF Timed, Running, Linked, Promised, Quiet
  <2> QED BY <1>3, <2>1, <2>2, <2>3, <2>4 DEF IInv
<1>5. CASE ~ Dead(ws)
  <2>1. /\ ws \in Socket /\ Link # "gone" /\ Link' = Shut(Link) /\ OneAtWork'
        /\ sock' \in [Socket -> SocketState]
        /\ closing' = "waiting" /\ closeSock' = ws /\ closePromise' = "pending"
        /\ UNCHANGED <<ws, told>>
    BY <1>2, <1>5, CloseSocketLive
  <2>2. UNCHANGED <<state, timer>>
    BY <1>5 DEF CloseProceeds
  <2>3. Flags'
    BY <1>2, <2>1, <2>2 DEF IInv, Flags, callVars
  <2>4. Places'
    BY <1>2, <2>1, <2>2 DEF IInv, Places
  <2>5. /\ Link \in {"connecting", "aborting"} => Link' = "aborting"
        /\ Link \in {"open", "closing"} => Link' = "closing"
        /\ Link \in Quiet => Link' = "abandoned"
    BY <2>1 DEF Shut, Quiet
  <2>6. Link \in {"connecting", "aborting", "open", "closing"} \cup Quiet
    BY <2>1 DEF IInv, Places, Link, SocketState, Quiet
  <2>7. Timed' /\ Running' /\ Promised'
    BY <1>1, <1>2, <2>1, <2>2, <2>5 DEF IInv, Timed, Running, Promised, Quiet
  <2>8. Linked'
    BY <1>1, <1>2, <2>1, <2>2, <2>5, <2>6 DEF IInv, Linked, Quiet
  <2> QED BY <1>3, <2>1, <2>3, <2>4, <2>7, <2>8 DEF IInv
<1> QED BY <1>4, <1>5

LEMMA NextKeeps == IInv /\ [Next]_vars => IInv'
<1> SUFFICES ASSUME IInv, [Next]_vars PROVE IInv'
  OBVIOUS
<1>1. CASE UNCHANGED vars
  <2>1. Counters' /\ Flags'
    BY <1>1 DEF vars, callVars, IInv, Counters, Flags
  <2> QED BY <1>1, <2>1, RestKeeps DEF vars, closeVars
<1>2. ASSUME NEW s \in Socket,
             \/ HandshakeOpens(s) \/ HandshakeRefused(s) \/ SocketCloses(s) \/ AbandonedErrors(s)
             \/ \E kind \in {"retry", "stop"} : HandshakeFails(s, kind)
      PROVE  IInv'
  BY <1>2, HandshakeOpensKeeps, HandshakeRefusedKeeps, SocketClosesKeeps, AbandonedErrorsKeeps,
     HandshakeFailsKeeps
<1> QED
  BY <1>1, <1>2, ConnectKeeps, CloseAgainKeeps, CloseNowKeeps, CloseGracefullyKeeps,
     CloseProceedsKeeps, AfterDisconnectKeeps, ArmKeeps, AfterFailedReconnectKeeps,
     ReconnectTimerKeeps, CallStartsKeeps, CallAnsweredKeeps, CallGivenUpKeeps DEF Next

-----------------------------------------------------------------------------
THEOREM ConnectionInvariant == Spec => []IInv
<1>1. IInv /\ [Next]_vars => IInv'
  BY NextKeeps
<1> QED BY InitIInv, <1>1, PTL DEF Spec

(* The state tells the truth: one socket is at work at most, an OPEN       *)
(* client has one that opened, a CONNECTING one has something that takes   *)
(* it further and a CLOSED one has not.                                    *)
THEOREM StateTellsTruth == Spec => []StateIsTrue
<1>1. IInv => StateIsTrue
  <2> SUFFICES ASSUME IInv PROVE StateIsTrue
    OBVIOUS
  <2>1. TypeOK
    BY TypeParts DEF IInv
  <2>2. Cardinality(Live) <= 1
    <3>1. Live \subseteq {ws}
      BY DEF Live, IInv, OneAtWork
    <3>2. IsFiniteSet({ws}) /\ Cardinality({ws}) = 1
      BY FS_Singleton
    <3>3. Cardinality(Live) <= Cardinality({ws})
      BY <3>1, <3>2, FS_Subset
    <3> QED BY <3>2, <3>3
  <2>3. state = "OPEN" =>
           ws # NoSocket /\ (sock[ws] \in {"open", "closing"} \/ cont.k = "disconnected")
    BY DEF IInv, Linked, Link, Running
  <2>4. state = "CONNECTING" => Attempting
    BY IdleIs DEF Attempting, IInv, Linked, Link, Places
  <2>5. state = "CLOSED" /\ cont = Idle => ~ Attempting
    <3> SUFFICES ASSUME state = "CLOSED", cont = Idle PROVE ~ Attempting
      OBVIOUS
    <3>1. ~ timer /\ orphans = 0 /\ Link \in Quiet
      BY DEF IInv, Timed, Linked
    <3>2. \A s \in Socket : sock[s] \in Quiet
      BY <3>1, NoSocketAssumption DEF IInv, OneAtWork, Link, Quiet
    <3> QED BY <3>1, <3>2 DEF Attempting, Quiet
  <2> QED BY <2>1, <2>2, <2>3, <2>4, <2>5 DEF StateIsTrue
<1> QED BY <1>1, ConnectionInvariant, PTL

(* No reconnect timer is ever forgotten: _reconnectTimer refers to the one *)
(* that runs (client.ts:1593-1608).                                        *)
THEOREM NoTimerForgotten == Spec => [](orphans = 0)
<1>1. IInv => orphans = 0
  BY DEF IInv, Timed
<1> QED BY <1>1, ConnectionInvariant, PTL

-----------------------------------------------------------------------------
(* Who is told that the connection is closed, and what may follow.         *)
LEMMA ToldOnlyWhenClosed ==
    ASSUME IInv, [Next]_vars, told = FALSE, told' = TRUE
    PROVE  state' = "CLOSED" \/ closePromise = "resolved"
<1>1. ASSUME NEW left, CloseSocket(left) PROVE state' = "CLOSED"
  BY <1>1 DEF CloseSocket, FinishClose
<1>2. ASSUME NEW closes, Closed(closes) PROVE state' = "CLOSED"
  BY <1>2 DEF Closed, FinishClose
<1>3. ASSUME NEW s \in Socket, SocketCloses(s) PROVE state' = "CLOSED"
  BY <1>2, <1>3 DEF SocketCloses
<1>4. ASSUME NEW s \in Socket, NEW kind \in {"retry", "stop"}, HandshakeFails(s, kind)
      PROVE  state' = "CLOSED"
  BY <1>2, <1>4 DEF HandshakeFails
<1>5. ASSUME AfterDisconnect \/ Arm PROVE state' = "CLOSED"
  BY <1>2, <1>5 DEF AfterDisconnect, Arm
<1>6. ASSUME CloseNow \/ CloseProceeds PROVE state' = "CLOSED"
  BY <1>1, <1>6 DEF CloseNow, CloseProceeds
<1>7. ASSUME CloseAgain PROVE state' = "CLOSED" \/ closePromise = "resolved"
  BY <1>7 DEF CloseAgain
<1>8. \A s \in Socket : ~ HandshakeOpens(s) /\ ~ HandshakeRefused(s) /\ ~ AbandonedErrors(s)
  BY DEF HandshakeOpens, HandshakeRefused, AbandonedErrors
<1>9. ~ Connect /\ ~ CloseGracefully /\ ~ AfterFailedReconnect /\ ~ ReconnectTimer
      /\ ~ CallStarts /\ ~ CallAnswered /\ ~ CallGivenUp /\ ~ UNCHANGED vars
  BY DEF Connect, CloseGracefully, AfterFailedReconnect, ReconnectTimer, CallStarts,
         CallAnswered, CallGivenUp, vars
<1> QED BY <1>3, <1>4, <1>5, <1>6, <1>7, <1>8, <1>9 DEF Next

LEMMA ClosedStaysClosed ==
    ASSUME IInv, [Next]_vars, told' = TRUE, state = "CLOSED", cont.k # "retry"
    PROVE  state' = "CLOSED"
<1>1. Link \in Quiet /\ timer = FALSE /\ orphans = 0 /\ cont.k \notin {"disconnected", "arming"}
  BY DEF IInv, Flags, Timed, Running, Linked
<1>2. \A s \in Socket : sock[s] \in Quiet
  BY <1>1, NoSocketAssumption DEF IInv, OneAtWork, Link, Quiet
<1>3. \A s \in Socket : /\ ~ HandshakeOpens(s) /\ ~ HandshakeRefused(s) /\ ~ SocketCloses(s)
                        /\ \A kind \in {"retry", "stop"} : ~ HandshakeFails(s, kind)
  BY <1>2 DEF HandshakeOpens, HandshakeRefused, SocketCloses, HandshakeFails, Quiet
<1>4. \A s \in Socket : AbandonedErrors(s) => UNCHANGED state
  BY DEF AbandonedErrors
<1>5. ~ Connect /\ ~ CloseNow /\ ~ CloseGracefully /\ ~ AfterDisconnect /\ ~ Arm
  BY <1>1 DEF Connect, CloseNow, CloseGracefully, AfterDisconnect, Arm
<1>6. ~ ReconnectTimer
  <2>1. ~ timer /\ ~ (orphans > 0)
    BY <1>1
  <2> QED BY <2>1, Zenon DEF ReconnectTimer
<1>7. ASSUME CloseProceeds PROVE state' = "CLOSED"
  BY <1>7 DEF CloseProceeds, CloseSocket, FinishClose
<1>8. ASSUME AfterFailedReconnect PROVE state' = "CLOSED"
  BY <1>8 DEF AfterFailedReconnect
<1>9. CloseAgain \/ CallStarts \/ CallAnswered \/ CallGivenUp \/ UNCHANGED vars => UNCHANGED state
  BY DEF CloseAgain, CallStarts, CallAnswered, CallGivenUp, vars
<1> QED BY <1>3, <1>4, <1>5, <1>6, <1>7, <1>8, <1>9 DEF Next

(* The promise of close() says CLOSED, and CLOSED lasts until connect().   *)
THEOREM CloseIsMeant == Spec => CloseMeansClosed
<1>1. IInv /\ [Next]_vars =>
         [ /\ ~told /\ told' => state' = "CLOSED" \/ closePromise = "resolved"
           /\ told /\ told' /\ state = "CLOSED" /\ cont.k # "retry" => state' = "CLOSED" ]_vars
  <2>1. IInv /\ [Next]_vars => IInv'
    BY NextKeeps
  <2>2. IInv => told \in BOOLEAN
    BY DEF IInv, Flags
  <2>3. IInv' => told' \in BOOLEAN
    BY DEF IInv, Flags
  <2> QED BY <2>1, <2>2, <2>3, ToldOnlyWhenClosed, ClosedStaysClosed
<1> QED BY <1>1, ConnectionInvariant, PTL DEF Spec, CloseMeansClosed

-----------------------------------------------------------------------------
(* What ConnectionView sees of the current socket.                         *)
Seen == IF Link \in {"open", "closing"} THEN Link ELSE "none"

LEMMA SeenIs ==
    /\ Seen = IF ws # NoSocket /\ sock[ws] \in {"open", "closing"} THEN sock[ws] ELSE "none"
    /\ Seen' = (IF ws # NoSocket /\ sock[ws] \in {"open", "closing"} THEN sock[ws] ELSE "none")'
BY DEF Seen, Link

(* The steps of the view, by the state and the socket before and after.    *)
LEMMA ViewSteps ==
    ASSUME \/ state' = state /\ Seen' = Seen
           \/ state = "CLOSED" /\ Seen = "none" /\ state' = "CONNECTING" /\ Seen' = "none"
           \/ /\ state \in {"CONNECTING", "CLOSING"} /\ Seen = "none"
              /\ state' = "OPEN" /\ Seen' = "open"
           \/ /\ state \in {"CONNECTING", "CLOSING"} /\ Seen = "none"
              /\ state' = "CLOSED" /\ Seen' = "none"
           \/ /\ state \in {"OPEN", "CLOSING"} /\ Seen # "none" /\ Seen' = "none"
              /\ state' = IF state = "CLOSING" THEN "CLOSED" ELSE state
           \/ state = "OPEN" /\ Seen = "none" /\ Seen' = "none" /\ state' = "CLOSED"
           \/ state = "OPEN" /\ Seen = "none" /\ Seen' = "none" /\ state' = "CONNECTING" /\ Reconnect
           \/ /\ state \in {"CONNECTING", "OPEN"} /\ state' = "CLOSING"
              /\ Seen' \in {Seen, IF Seen = "open" THEN "closing" ELSE Seen}
           \/ /\ state \in {"CLOSING", "OPEN"} /\ Seen = "open"
              /\ state' = state /\ Seen' = "closing"
    PROVE  View!ViewNext \/ UNCHANGED View!viewVars
<1> HIDE DEF Seen
<1>1. CASE state' = state /\ Seen' = Seen
  BY <1>1, SeenIs DEF View!viewVars
<1>2. CASE state = "CLOSED" /\ Seen = "none" /\ state' = "CONNECTING" /\ Seen' = "none"
  BY <1>2, SeenIs DEF View!ViewNext, View!BeginsConnecting
<1>3. CASE /\ state \in {"CONNECTING", "CLOSING"} /\ Seen = "none"
           /\ state' = "OPEN" /\ Seen' = "open"
  BY <1>3, SeenIs DEF View!ViewNext, View!Opens
<1>4. CASE /\ state \in {"CONNECTING", "CLOSING"} /\ Seen = "none"
           /\ state' = "CLOSED" /\ Seen' = "none"
  BY <1>4, SeenIs DEF View!ViewNext, View!FailsToOpen
<1>5. CASE /\ state \in {"OPEN", "CLOSING"} /\ Seen # "none" /\ Seen' = "none"
           /\ state' = IF state = "CLOSING" THEN "CLOSED" ELSE state
  BY <1>5, SeenIs DEF View!ViewNext, View!Loses
<1>6. CASE state = "OPEN" /\ Seen = "none" /\ Seen' = "none" /\ state' = "CLOSED"
  BY <1>6, SeenIs DEF View!ViewNext, View!Disconnects
<1>7. CASE state = "OPEN" /\ Seen = "none" /\ Seen' = "none" /\ state' = "CONNECTING" /\ Reconnect
  BY <1>7, SeenIs DEF View!ViewNext, View!Disconnects
<1>8. CASE /\ state \in {"CONNECTING", "OPEN"} /\ state' = "CLOSING"
           /\ Seen' \in {Seen, IF Seen = "open" THEN "closing" ELSE Seen}
  BY <1>8, SeenIs DEF View!ViewNext, View!BeginsClosing
<1>9. CASE /\ state \in {"CLOSING", "OPEN"} /\ Seen = "open"
           /\ state' = state /\ Seen' = "closing"
  BY <1>9, SeenIs DEF View!ViewNext, View!ShutsSocket
<1> QED BY <1>1, <1>2, <1>3, <1>4, <1>5, <1>6, <1>7, <1>8, <1>9

LEMMA CloseSteps ==
    ASSUME IInv, CloseNow \/ CloseProceeds
    PROVE  View!ViewNext \/ UNCHANGED View!viewVars
<1>1. cont.k = "idle"
  BY IdleIs DEF CloseNow, CloseProceeds, NextTask
<1>2. PICK left : CloseSocket(left)
  BY DEF CloseNow, CloseProceeds
<1>3. CASE Dead(ws)
  <2>1. Link = "gone" /\ Link' = "gone" /\ state' = "CLOSED"
    BY <1>2, <1>3, CloseSocketDead
  <2>2. state \in {"CONNECTING", "CLOSING", "CLOSED"}
    BY <1>1, <2>1 DEF IInv, Linked, Places
  <2> QED BY <2>1, <2>2, ViewSteps DEF Seen
<1>4. CASE ~ Dead(ws)
  <2>1. Link' = Shut(Link) /\ Link # "gone" /\ ws \in Socket
    BY <1>2, <1>4, CloseSocketLive
  <2>2. Link \in SocketState
    BY <2>1 DEF IInv, Places, Link
  <2>3. Seen' = IF Seen = "open" THEN "closing" ELSE Seen
    BY <2>1, <2>2 DEF Seen, Shut, SocketState
  <2>4. CASE CloseNow
    <3>1. state \in {"CONNECTING", "OPEN"} /\ state' = "CLOSING"
      BY <1>4, <2>4 DEF CloseNow, IInv, Places, Promised, NextTask
    <3> QED BY <2>3, <3>1, ViewSteps
  <2>5. CASE CloseProceeds
    <3>1. state' = state
      BY <1>4, <2>5 DEF CloseProceeds
    <3>2. Seen = "open" => state \in {"CLOSING", "OPEN"}
      BY DEF Seen, IInv, Linked
    <3> QED BY <2>3, <3>1, <3>2, ViewSteps
  <2> QED BY <2>4, <2>5
<1> QED BY <1>3, <1>4

LEMMA SocketSteps ==
    ASSUME IInv, NEW s \in Socket,
           \/ HandshakeOpens(s) \/ HandshakeRefused(s) \/ SocketCloses(s) \/ AbandonedErrors(s)
           \/ \E kind \in {"retry", "stop"} : HandshakeFails(s, kind)
    PROVE  View!ViewNext \/ UNCHANGED View!viewVars
<1>1. CASE HandshakeOpens(s)
  <2>1. ws = s /\ Link = "connecting" /\ s # NoSocket
    BY <1>1, AtWork DEF HandshakeOpens
  <2>2. Link' = "open" /\ state' = "OPEN" /\ state \in {"CONNECTING", "CLOSING"}
    BY <1>1, <2>1 DEF HandshakeOpens, IInv, Places, Linked, Link
  <2> QED BY <2>1, <2>2, ViewSteps DEF Seen
<1>2. CASE HandshakeRefused(s)
  <2>1. ws = s /\ Link = "connecting" /\ s # NoSocket
    BY <1>2, AtWork DEF HandshakeRefused
  <2>2. Link' = "refused" /\ state' = "CLOSED" /\ state \in {"CONNECTING", "CLOSING"}
    BY <1>2, <2>1 DEF HandshakeRefused, IInv, Places, Linked, Link
  <2> QED BY <2>1, <2>2, ViewSteps DEF Seen
<1>3. CASE \E kind \in {"retry", "stop"} : HandshakeFails(s, kind)
  <2>1. ws = s /\ Link \in {"connecting", "aborting"} /\ s # NoSocket
    BY <1>3, AtWork DEF HandshakeFails
  <2>2. PICK closes \in BOOLEAN : Closed(closes)
    BY <1>3 DEF HandshakeFails, CloseWaitsFor
  <2>3. state' = "CLOSED" /\ (ws' = ws \/ ws' = NoSocket)
    BY <2>2, ClosedIs
  <2>4. Link' = "gone" /\ state \in {"CONNECTING", "CLOSING"}
    BY <1>3, <2>1, <2>3 DEF HandshakeFails, IInv, Places, Linked, Link
  <2> QED BY <2>1, <2>3, <2>4, ViewSteps DEF Seen
<1>4. CASE SocketCloses(s)
  <2>1. ws = s /\ Link \in {"open", "closing"} /\ s # NoSocket /\ state \in {"OPEN", "CLOSING"}
    BY <1>4, AtWork DEF SocketCloses, IInv, Linked
  <2>2. /\ sock' = [sock EXCEPT ![s] = "gone"]
        /\ state' = IF state = "CLOSING" THEN "CLOSED" ELSE state
        /\ ws' = ws \/ ws' = NoSocket
    <3>1. CASE state = "OPEN"
      BY <1>4, <3>1 DEF SocketCloses
    <3>2. CASE state = "CLOSING"
      <4>1. PICK closes \in BOOLEAN : Closed(closes)
        BY <1>4, <3>2 DEF SocketCloses, CloseWaitsFor
      <4>2. state' = "CLOSED" /\ (ws' = ws \/ ws' = NoSocket)
        BY <4>1, ClosedIs
      <4> QED BY <1>4, <3>2, <4>2 DEF SocketCloses
    <3> QED BY <2>1, <3>1, <3>2
  <2>3. Link' = "gone"
    BY <2>1, <2>2 DEF IInv, Places, Link
  <2> QED BY <2>1, <2>2, <2>3, ViewSteps DEF Seen
<1>5. CASE AbandonedErrors(s)
  <2>1. UNCHANGED <<state, ws, sock>>
    BY <1>5 DEF AbandonedErrors
  <2> QED BY <2>1, ViewSteps DEF Seen, Link
<1> QED BY <1>1, <1>2, <1>3, <1>4, <1>5

LEMMA RestSteps ==
    ASSUME IInv, AfterDisconnect \/ Arm \/ AfterFailedReconnect \/ Connect \/ ReconnectTimer
    PROVE  View!ViewNext \/ UNCHANGED View!viewVars
<1>1. cont.closes \in BOOLEAN
  BY DEF IInv, Places, Cont
<1>2. CASE Connect
  <2>1. Link \in Quiet /\ NewSocket(FALSE) /\ state = "CLOSED" /\ state' = "CONNECTING"
    BY <1>2 DEF Connect, IInv, Linked
  <2>2. Link' = "connecting"
    BY <2>1, NewSocketKeeps
  <2> QED BY <2>1, <2>2, ViewSteps DEF Seen, Quiet
<1>3. CASE ReconnectTimer
  <2>1. orphans = 0
    BY DEF IInv, Timed
  <2>2. timer
    BY <1>3, <2>1 DEF ReconnectTimer
  <2>3. Link \in Quiet /\ NewSocket(TRUE) /\ state' = state
    BY <1>3, <2>2 DEF ReconnectTimer, IInv, Timed
  <2>4. Link' = "connecting"
    BY <2>3, NewSocketKeeps
  <2> QED BY <2>3, <2>4, ViewSteps DEF Seen, Quiet
<1>4. ASSUME cont.k # "idle", UNCHANGED sock, ws' = ws \/ ws' = NoSocket
      PROVE  Seen = "none" /\ Seen' = "none"
  BY <1>4 DEF IInv, Running, Seen, Link, Quiet
<1>5. ASSUME Closed(cont.closes)
      PROVE  state' = "CLOSED" /\ (ws' = ws \/ ws' = NoSocket)
  BY <1>1, <1>5, ClosedIs
<1>6. CASE AfterDisconnect
  <2>1. cont.k = "disconnected" /\ state = "OPEN" /\ UNCHANGED sock
    BY <1>6 DEF AfterDisconnect, IInv, Running
  <2>2. \/ Closed(cont.closes)
        \/ Reconnect /\ state' = "CONNECTING" /\ UNCHANGED ws
    BY <1>6 DEF AfterDisconnect, ScheduleReconnect
  <2> QED BY <1>4, <1>5, <2>1, <2>2, ViewSteps
<1>7. CASE Arm
  <2>1. cont.k = "arming" /\ state = "CONNECTING" /\ UNCHANGED sock
    BY <1>7 DEF Arm, IInv, Running
  <2>2. CASE cont.closes
    <3>1. Closed(TRUE)
      BY <1>7, <2>2 DEF Arm
    <3>2. state' = "CLOSED" /\ (ws' = ws \/ ws' = NoSocket)
      BY <3>1, ClosedIs
    <3> QED BY <1>4, <2>1, <3>2, ViewSteps
  <2>3. CASE ~ cont.closes
    <3>1. UNCHANGED <<state, ws>>
      BY <1>7, <2>3 DEF Arm
    <3> QED BY <1>4, <2>1, <3>1, ViewSteps
  <2> QED BY <2>2, <2>3
<1>8. CASE AfterFailedReconnect
  <2>1. cont.k # "idle" /\ state = "CLOSED" /\ UNCHANGED <<sock, ws>>
    BY <1>8 DEF AfterFailedReconnect, IInv, Running
  <2>2. state' = "CLOSED" \/ state' = "CONNECTING"
    BY <1>8 DEF AfterFailedReconnect, ScheduleReconnect
  <2> QED BY <1>4, <2>1, <2>2, ViewSteps
<1> QED BY <1>2, <1>3, <1>6, <1>7, <1>8

(* The connection implements ConnectionView: the calls of the client may   *)
(* rely on it.                                                             *)
THEOREM ImplementsConnectionView == Spec => ViewImplemented
<1>1. Init => View!ViewInit
  BY DEF Init, View!ViewInit
<1>2. IInv /\ [Next]_vars => [View!ViewNext]_(View!viewVars)
  <2> SUFFICES ASSUME IInv, [Next]_vars PROVE View!ViewNext \/ UNCHANGED View!viewVars
    OBVIOUS
  <2>1. CASE CloseGracefully
    <3>1. state' = "CLOSING" /\ state \in {"CONNECTING", "OPEN"} /\ UNCHANGED <<ws, sock>>
      BY <2>1 DEF CloseGracefully, IInv, Places, Promised
    <3> QED BY <3>1, ViewSteps DEF Seen, Link
  <2>2. CASE CloseAgain \/ CallStarts \/ CallAnswered \/ CallGivenUp \/ UNCHANGED vars
    <3>1. UNCHANGED <<state, ws, sock>>
      BY <2>2 DEF CloseAgain, CallStarts, CallAnswered, CallGivenUp, vars
    <3> QED BY <3>1, ViewSteps DEF Seen, Link
  <2> QED BY <2>1, <2>2, CloseSteps, SocketSteps, RestSteps DEF Next
<1> QED BY <1>1, <1>2, ConnectionInvariant, PTL DEF Spec, ViewImplemented, View!ViewSpec
=============================================================================
