------------------------------- MODULE Simulator -------------------------------
(***************************************************************************)
(* The charge point that `ocpp simulate' plays (cli, simulator/Engine.ts): *)
(* its methods run side by side, started by keys, by requests of the CSMS  *)
(* and by timers, and each waits for answers in its middle.                *)
(*                                                                         *)
(* A run is one method under way: `at' is the call it waits for, `on' the  *)
(* socket the call went to, and `rejected' says that its promise has been  *)
(* rejected and what follows runs before any other event.  What an answer  *)
(* leads to is a microtask as well, and is part of the step that brings    *)
(* the answer.  Tags, meter readings and configuration are left out, and   *)
(* Charging, Finishing, Unavailable and Faulted, which no code tells apart *)
(* are one state of the connector, "Busy".                                 *)
(***************************************************************************)
EXTENDS Naturals, FiniteSets

CONSTANTS
    Run,            \* methods that can be under way at a time
    MaxTransactions,
    MaxSockets,
    MaxTimers       \* of each kind, at a time

VARIABLES
    engineState, connectorState,
    activeTransactionId,    \* 0 for null
    runs,
    ws, sockets,            \* the socket in use, 0 for null, and all that were made
    reconnects, bootRetries,    \* timers that nothing clears
    meters, meterTrigger,   \* meter intervals that run, whether the engine can clear one
    transaction,            \* what the engine has heard of each transaction
    crossed                 \* whether commands overlapped: see Overlap

connection == <<ws, sockets, reconnects, bootRetries>>
metering   == <<meters, meterTrigger>>
vars == <<engineState, connectorState, activeTransactionId, runs, connection,
          metering, transaction, crossed>>

Socket == 1 .. MaxSockets
TransactionId == 1 .. MaxTransactions

\* "status" stands for every call whose answer changes nothing.
Call == {"boot", "station", "status", "charging", "start", "refuse", "stop", "authorize"}
Idle == [at |-> "none", tx |-> 0, on |-> 0, rejected |-> FALSE]

TypeOK ==
    /\ engineState \in {"POWER_ON", "IDLE", "CHARGING"}
    /\ connectorState \in {"Available", "Preparing", "Busy"}
    /\ crossed \in BOOLEAN /\ meterTrigger \in BOOLEAN
    /\ activeTransactionId \in {0} \cup TransactionId
    /\ runs \in [Run -> [at : Call \cup {"none"}, tx : {0} \cup TransactionId,
                         on : {0} \cup Socket, rejected : BOOLEAN]]
    /\ ws \in {0} \cup Socket
    /\ sockets \in [Socket -> {"unmade", "connecting", "open", "closed"}]
    /\ {reconnects, bootRetries} \subseteq 0 .. MaxTimers
    /\ meters \in Nat
    /\ transaction \in [TransactionId -> {"unknown", "asked", "refused", "started", "stopped"}]

Init ==
    /\ engineState = "POWER_ON" /\ connectorState = "Available"
    /\ activeTransactionId = 0 /\ crossed = FALSE
    /\ runs = [r \in Run |-> Idle]
    /\ ws = 1 /\ sockets = [s \in Socket |-> IF s = 1 THEN "connecting" ELSE "unmade"]
    /\ reconnects = 0 /\ bootRetries = 0
    /\ meters = 0 /\ meterTrigger = FALSE
    /\ transaction = [t \in TransactionId |-> "unknown"]

NextTask == \A r \in Run : ~runs[r].rejected

IsOpen == ws # 0 /\ sockets[ws] = "open"
IsConnecting == ws # 0 /\ sockets[ws] = "connecting"

\* sendCall: an entry with a timer, or a rejection at once.
Sends(r, call, tx) ==
    runs' = [runs EXCEPT ![r] = [at |-> call, tx |-> tx, on |-> ws, rejected |-> ~IsOpen]]

Ends(r) == runs' = [runs EXCEPT ![r] = Idle]

\* updateConnectorState, and what awaits its StatusNotification.
ToState(r, status, call) == connectorState' = status /\ Sends(r, call, 0)

-----------------------------------------------------------------------------
(***************************************************************************)
(* Transactions.                                                           *)
(***************************************************************************)
Doing(calls) == \E r \in Run : runs[r].at \in calls

\* The engine keeps one transaction and one interval, and looks only at the connector: a
\* start may come while a transaction is active or being started, and a stop while another
\* stop or the end of a start is under way.
Overlap == crossed' = TRUE

StartTransaction(r) ==
    /\ connectorState \in {"Preparing", "Available"}
    /\ \E t \in TransactionId :
          /\ transaction[t] = "unknown" /\ \A u \in 1 .. t - 1 : transaction[u] # "unknown"
          /\ transaction' = [transaction EXCEPT ![t] = "asked"]
          /\ Sends(r, "start", t)
    /\ IF activeTransactionId # 0 \/ Doing({"start", "charging"})
         THEN Overlap ELSE UNCHANGED crossed
    /\ UNCHANGED <<engineState, connectorState, activeTransactionId, connection,
                   metering>>

ClearMeter ==
    /\ meters' = IF meterTrigger THEN meters - 1 ELSE meters
    /\ meterTrigger' = FALSE

StopTransaction_ForgetsFirst(r) ==
    /\ activeTransactionId # 0
    /\ activeTransactionId' = 0
    /\ ClearMeter
    /\ Sends(r, "stop", activeTransactionId)
    /\ IF Doing({"stop", "charging"}) THEN Overlap ELSE UNCHANGED crossed
    /\ UNCHANGED <<engineState, connectorState, connection, transaction>>

StopTransaction(r) ==
    /\ activeTransactionId # 0
    /\ ClearMeter
    /\ Sends(r, "stop", activeTransactionId)
    /\ IF Doing({"stop", "charging"}) THEN Overlap ELSE UNCHANGED crossed
    /\ UNCHANGED <<engineState, connectorState, activeTransactionId, connection,
                   transaction>>

StartAccepted(r) ==
    /\ transaction' = [transaction EXCEPT ![runs[r].tx] = "started"]
    /\ activeTransactionId' = runs[r].tx
    /\ engineState' = "CHARGING"
    /\ ToState(r, "Busy", "charging")
    /\ UNCHANGED <<connection, metering, crossed>>

\* The CSMS refuses the tag but has opened the transaction, which the engine closes.
StartRefused(r) ==
    /\ transaction' = [transaction EXCEPT ![runs[r].tx] = "refused"]
    /\ Sends(r, "refuse", runs[r].tx)
    /\ UNCHANGED <<engineState, connectorState, activeTransactionId, connection, metering,
                   crossed>>

RefusalStopped(r) ==
    /\ ToState(r, "Available", "status")
    /\ UNCHANGED <<engineState, activeTransactionId, connection, metering, transaction,
                   crossed>>

\* The new interval takes the place of one that was not cleared.
Metered(r) ==
    /\ meters' = meters + 1 /\ meterTrigger' = TRUE
    /\ Ends(r)
    /\ UNCHANGED <<engineState, connectorState, activeTransactionId, connection,
                   transaction, crossed>>

Stopped(r) ==
    /\ transaction' = [transaction EXCEPT ![runs[r].tx] = "stopped"]
    /\ activeTransactionId' = 0
    /\ engineState' = "IDLE"
    /\ ToState(r, "Busy", "status")
    /\ UNCHANGED <<connection, metering, crossed>>

Quiet == UNCHANGED <<engineState, activeTransactionId, connection, metering,
                     transaction, crossed>>

\* The CSMS may have opened the transaction of a start that it did not answer.
Unanswered(r) == Ends(r) /\ UNCHANGED connectorState /\ Quiet

-----------------------------------------------------------------------------
(***************************************************************************)
(* Boot, and the calls that change nothing but the connector's state.      *)
(***************************************************************************)
RunBootSequence(r) ==
    /\ engineState' = "POWER_ON"
    /\ Sends(r, "boot", 0)

\* OCPP 1.6 tells the state of the station first, and then that of the connector.
BootAccepted(r) ==
    /\ engineState' = "IDLE"
    /\ \/ ToState(r, "Available", "status")
       \/ Sends(r, "station", 0) /\ UNCHANGED connectorState
    /\ UNCHANGED <<activeTransactionId, connection, metering, transaction, crossed>>

BootFails(r) ==
    /\ bootRetries < MaxTimers
    /\ bootRetries' = bootRetries + 1
    /\ Ends(r)
    /\ UNCHANGED <<engineState, connectorState, activeTransactionId, ws, sockets,
                   reconnects, metering, transaction, crossed>>

BootRetry(r) ==
    /\ bootRetries > 0
    /\ bootRetries' = bootRetries - 1
    /\ RunBootSequence(r)
    /\ UNCHANGED <<connectorState, activeTransactionId, ws, sockets, reconnects, metering,
                   transaction, crossed>>

\* Keys, requests of the CSMS and timers.  Nothing is kept of availability, and ids of
\* reservations are left out: what is left is the state they set.
Moves(r, status) == ToState(r, status, "status") /\ Quiet

ChangeAvailability(r) == \E status \in {"Available", "Busy"} : Moves(r, status)

ReserveNow(r) == connectorState = "Available" /\ Moves(r, "Preparing")

CancelReservation(r) == Moves(r, "Available")

\* Two seconds after the end of a transaction, whatever has begun since.
AvailableTimer(r) == (\E t \in TransactionId : transaction[t] = "stopped") /\ Moves(r, "Available")

Asks(r, call) == Sends(r, call, 0) /\ UNCHANGED connectorState /\ Quiet

Authorize(r) == Asks(r, "authorize")

Authorized(r) == Moves(r, "Preparing")

\* Heartbeats, meter values, notifications.
Notify(r) == Asks(r, "status")

-----------------------------------------------------------------------------
(***************************************************************************)
(* The connection.                                                         *)
(***************************************************************************)
\* A further socket; the one that was in use keeps its listeners.
Connect(made) ==
    \E s \in Socket :
        /\ made[s] = "unmade" /\ \A u \in 1 .. s - 1 : made[u] # "unmade"
        /\ sockets' = [made EXCEPT ![s] = "connecting"]
        /\ ws' = s

\* Without its listeners the old socket is as good as closed.
Dropped == [s \in Socket |-> IF s = ws THEN "closed" ELSE sockets[s]]

\* stop() rejects every call that waits and clears the meter interval, but neither the
\* timers nor activeTransactionId.  Left out is a call while the socket connects: ws then
\* emits the error of an aborted handshake, no listener is left, and the process ends.
Stop ==
    /\ ClearMeter
    /\ runs' = [r \in Run |-> IF runs[r].at = "none" THEN Idle
                            ELSE [runs[r] EXCEPT !.rejected = TRUE]]
    /\ UNCHANGED <<engineState, connectorState, activeTransactionId, reconnects,
                   bootRetries, transaction, crossed>>

Quit ==
    /\ ws # 0 /\ ~IsConnecting
    /\ Stop
    /\ ws' = 0 /\ sockets' = Dropped

\* Two seconds after a request that came over a connection, whatever became of it.
ResetFires ==
    /\ \E s \in Socket : sockets[s] \in {"open", "closed"}
    /\ ~IsConnecting
    /\ Stop
    /\ Connect(Dropped)

SocketOpens(s, r) ==
    /\ sockets[s] = "connecting"
    /\ sockets' = [sockets EXCEPT ![s] = "open"]
    /\ engineState' = "POWER_ON"
    /\ runs' = [runs EXCEPT ![r] = [at |-> "boot", tx |-> 0, on |-> ws,
                                    rejected |-> ws = 0 \/ sockets'[ws] # "open"]]
    /\ UNCHANGED <<connectorState, activeTransactionId, ws, reconnects, bootRetries,
                   metering, transaction, crossed>>

\* A lost connection is made again unless the engine is booting; calls that wait for an
\* answer on it wait for their timers.
SocketCloses(s) ==
    /\ sockets[s] \in {"connecting", "open"}
    /\ sockets' = [sockets EXCEPT ![s] = "closed"]
    /\ IF engineState = "POWER_ON" THEN UNCHANGED reconnects
       ELSE reconnects < MaxTimers /\ reconnects' = reconnects + 1
    /\ UNCHANGED <<engineState, connectorState, activeTransactionId, runs, ws,
                   bootRetries, metering, transaction, crossed>>

ReconnectTimer ==
    /\ reconnects > 0
    /\ reconnects' = reconnects - 1
    /\ Connect(sockets)
    /\ UNCHANGED <<engineState, connectorState, activeTransactionId, runs, bootRetries,
                   metering, transaction, crossed>>

-----------------------------------------------------------------------------
\* What follows a call that fails; errors of a StatusNotification are caught.
Fails(r) ==
    \/ runs[r].at = "boot" /\ BootFails(r)
    \/ runs[r].at = "station" /\ Moves(r, "Available")
    \/ runs[r].at = "charging" /\ Metered(r)
    \/ runs[r].at \in {"start", "refuse", "stop", "status", "authorize"} /\ Unanswered(r)

\* A CALLRESULT, or the CALLERROR that is a failure.
Answered(r) ==
    /\ runs[r].at # "none" /\ ~runs[r].rejected
    /\ sockets[runs[r].on] = "open"
    /\ \/ Fails(r)
       \/ runs[r].at = "boot" /\ BootAccepted(r)
       \/ runs[r].at = "start" /\ (StartAccepted(r) \/ StartRefused(r))
       \/ runs[r].at = "refuse" /\ RefusalStopped(r)
       \/ runs[r].at = "stop" /\ Stopped(r)
       \/ runs[r].at = "authorize" /\ Authorized(r)

TimesOut(r) == runs[r].at # "none" /\ ~runs[r].rejected /\ Fails(r)

Rejected(r) == runs[r].rejected /\ Fails(r)

\* A request of the CSMS comes over a socket whose listeners are there.
Asked == \E s \in Socket : sockets[s] = "open"

\* What keys, requests, timers and the hardware loop begin.  Keys can do all that the CSMS
\* may ask for but reservations.
Begins(r) ==
    /\ runs[r].at = "none"
    /\ \/ StartTransaction(r) \/ StopTransaction(r)
       \/ ChangeAvailability(r) \/ Authorize(r) \/ Notify(r)
       \/ Asked /\ (ReserveNow(r) \/ CancelReservation(r))
       \/ BootRetry(r) \/ AvailableTimer(r)
       \/ \E s \in Socket : SocketOpens(s, r)

Next ==
    \/ \E r \in Run : Rejected(r)
    \/ /\ NextTask
       /\ \/ \E r \in Run : Begins(r) \/ Answered(r) \/ TimesOut(r)
          \/ \E s \in Socket : SocketCloses(s)
          \/ ReconnectTimer \/ Quit \/ ResetFires

Spec == Init /\ [][Next]_vars

-----------------------------------------------------------------------------
\* The engine knows which transaction it has open: one that the CSMS has accepted stays
\* active until the CSMS has answered its stop, and a failed stop leaves it to be stopped
\* again, over reconnections and reboots, unless commands overlapped; it is charging only
\* with a transaction, and stops none that it did not start; and the meter interval runs
\* for the active transaction alone (simulator/Engine.ts:972-1236).
TransactionsKept ==
    /\ TypeOK
    /\ engineState = "CHARGING" => activeTransactionId # 0
    /\ \A r \in Run :
          /\ runs[r].at = "stop" => transaction[runs[r].tx] \in {"started", "stopped"}
          /\ runs[r].at = "refuse" => transaction[runs[r].tx] = "refused"
    /\ ~crossed =>
          /\ \A t \in TransactionId : transaction[t] = "started" <=> activeTransactionId = t
          /\ meters = IF meterTrigger THEN 1 ELSE 0
          /\ meters > 0 => activeTransactionId # 0
=============================================================================
