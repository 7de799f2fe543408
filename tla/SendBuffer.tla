------------------------------- MODULE SendBuffer -------------------------------
(***************************************************************************)
(* The backpressure queue of outgoing calls (client.ts: _safeSend,         *)
(* _startBackpressureDrain, _stopBackpressureDrain, and _cleanup): while a *)
(* socket has too much to send, messages wait in a queue that one timer    *)
(* drains.  The timer belongs to the socket that was current when it was   *)
(* started, the queue to the client.                                       *)
(***************************************************************************)
EXTENDS Integers, Sequences, SequencesExt

CONSTANTS
    MaxMessages,      \* bound: messages in a behaviour
    MaxSockets        \* bound: connections in a behaviour

Message == 1..MaxMessages

VARIABLES
    socket,           \* the number of the current socket, 0 for none
    up,               \* is it open?
    sockets,          \* how many there have been
    congested,        \* bufferedAmount is over the threshold
    queue,            \* _backpressureQueue
    timer,            \* the socket the drain timer was started for, 0 for no timer
    count,            \* messages given to _safeSend so far: 1, 2, ...
    wire,             \* the messages written, in order
    failed            \* the messages whose callback got an error

vars == <<socket, up, sockets, congested, queue, timer, count, wire, failed>>

TypeOK ==
    /\ socket \in 0..MaxSockets /\ sockets \in 1..MaxSockets /\ up \in BOOLEAN
    /\ congested \in BOOLEAN /\ timer \in 0..MaxSockets
    /\ queue \in Seq(Message) /\ wire \in Seq(Message)
    /\ count \in 0..MaxMessages /\ failed \subseteq Message

Init ==
    /\ socket = 1 /\ up = TRUE /\ sockets = 1 /\ congested = FALSE
    /\ queue = <<>> /\ timer = 0 /\ count = 0 /\ wire = <<>> /\ failed = {}

-----------------------------------------------------------------------------
(* Definitions with a suffix, such as this one, are slips a change to      *)
(* client.ts could make: each of them breaks a property of this module.    *)
SendDirectly_Overtakes(m) ==
    /\ up /\ ~ congested
    /\ wire' = Append(wire, m)
    /\ congested' \in BOOLEAN
    /\ UNCHANGED <<queue, timer, failed>>

SendDirectly(m) ==
    /\ up /\ ~ congested /\ queue = <<>>
    /\ wire' = Append(wire, m)
    /\ congested' \in BOOLEAN
    /\ UNCHANGED <<queue, timer, failed>>

SendLater(m) ==
    /\ up /\ (congested \/ queue # <<>>)
    /\ queue' = Append(queue, m)
    /\ timer' = IF timer = 0 THEN socket ELSE timer
    /\ UNCHANGED <<congested, wire, failed>>

SendFails(m) ==
    /\ ~ up
    /\ failed' = failed \cup {m}
    /\ UNCHANGED <<congested, queue, timer, wire>>

(* _safeSend                                                               *)
SafeSend ==
    LET m == count + 1 IN
    /\ count < MaxMessages /\ count' = m
    /\ SendDirectly(m) \/ SendLater(m) \/ SendFails(m)
    /\ UNCHANGED <<socket, up, sockets>>

DrainTick_StopsTimer ==
    /\ timer # 0 /\ timer = socket /\ up
    /\ \E n \in 0..Len(queue) :
         /\ wire' = wire \o SubSeq(queue, 1, n)
         /\ queue' = SubSeq(queue, n + 1, Len(queue))
         /\ timer' = 0
         /\ congested' \in IF n < Len(queue) THEN {TRUE} ELSE BOOLEAN
    /\ UNCHANGED <<socket, up, sockets, count, failed>>

(* A tick of the timer on its open socket: the head is sent as long as the *)
(* socket takes it, or it has waited for ten seconds.                      *)
DrainTick ==
    /\ timer # 0 /\ timer = socket /\ up
    /\ \E n \in 0..Len(queue) :
         /\ wire' = wire \o SubSeq(queue, 1, n)
         /\ queue' = SubSeq(queue, n + 1, Len(queue))
         /\ timer' = IF n = Len(queue) THEN 0 ELSE timer
         /\ congested' \in IF n < Len(queue) THEN {TRUE} ELSE BOOLEAN
    /\ UNCHANGED <<socket, up, sockets, count, failed>>

FailTick_KeepsQueue ==
    /\ timer # 0 /\ ~ (timer = socket /\ up)
    /\ failed' = failed \cup Range(queue)
    /\ timer' = 0
    /\ UNCHANGED <<socket, up, sockets, congested, queue, count, wire>>

(* A tick when the timer's socket is no longer open: everything fails.     *)
FailTick ==
    /\ timer # 0 /\ ~ (timer = socket /\ up)
    /\ failed' = failed \cup Range(queue)
    /\ queue' = <<>> /\ timer' = 0
    /\ UNCHANGED <<socket, up, sockets, congested, count, wire>>

(* The network takes what the socket has buffered.                         *)
Drained ==
    /\ congested /\ congested' = FALSE
    /\ UNCHANGED <<socket, up, sockets, queue, timer, count, wire, failed>>

(* The socket closes by itself: the queue and its timer stay.              *)
Lost ==
    /\ up /\ up' = FALSE
    /\ UNCHANGED <<socket, sockets, congested, queue, timer, count, wire, failed>>

(* _cleanup, when close() ends.                                            *)
Cleanup ==
    /\ socket # 0 /\ ~ up
    /\ socket' = 0
    /\ failed' = failed \cup Range(queue)
    /\ queue' = <<>> /\ timer' = 0
    /\ UNCHANGED <<up, sockets, congested, count, wire>>

(* A new connection opens; the delay of a reconnection may be shorter than *)
(* the 50 ms of the drain timer.                                           *)
Reopened ==
    /\ ~ up /\ sockets < MaxSockets
    /\ sockets' = sockets + 1 /\ socket' = sockets + 1 /\ up' = TRUE
    /\ congested' = FALSE
    /\ UNCHANGED <<queue, timer, count, wire, failed>>

Next ==
    \/ SafeSend \/ DrainTick \/ FailTick \/ Drained \/ Lost \/ Cleanup \/ Reopened

Spec == Init /\ [][Next]_vars

(* The timer ticks, and a tick of a socket that keeps its queue for ten    *)
(* seconds sends the head in any case.                                     *)
Fairness == WF_vars(DrainTick /\ Len(queue') < Len(queue)) /\ WF_vars(FailTick)

FairSpec == Spec /\ Fairness

-----------------------------------------------------------------------------
(* Messages are written in the order they were given to _safeSend, also    *)
(* when some of them waited and others did not (client.ts:1680-1737).      *)
WrittenInOrder == \A i, j \in DOMAIN wire : i < j => wire[i] < wire[j]

(* Each message given to _safeSend is in one place: written, waiting or    *)
(* failed; none is sent after its call was told that it was not            *)
(* (client.ts:1739-1767,2019-2023).                                        *)
OneFate ==
    /\ Range(wire) \cup Range(queue) \cup failed = 1..count
    /\ Range(wire) \cap Range(queue) = {}
    /\ failed \cap (Range(wire) \cup Range(queue)) = {}

(* Every message that waits is written or fails.                           *)
QueueEmpties == queue # <<>> ~> queue = <<>>
=============================================================================
