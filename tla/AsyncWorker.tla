------------------------------ MODULE AsyncWorker ------------------------------
(***************************************************************************)
(* The bounded queue through which plugins export events                   *)
(* (plugins/async-worker.ts): at most Concurrency tasks run at a time, a   *)
(* full queue drops the oldest or the newest task, and the close of the    *)
(* server waits for what is left, up to a timeout.                         *)
(*                                                                         *)
(* Tasks are numbered as they are enqueued.  They are async functions, as  *)
(* those of the plugins of this repository are: what fails in one is a     *)
(* rejection.  What follows its end is a microtask, and one step with it.  *)
(***************************************************************************)
EXTENDS Integers, Sequences, FiniteSets

CONSTANTS
    MaxTasks,
    MaxRunning,         \* concurrency
    MaxWaiting          \* maxQueueSize

VARIABLES
    dropOldest,         \* overflowStrategy
    fate,               \* of each task
    queue, active, dropped, accepting,
    draining,           \* whether drainResolve is set
    drainTimer,
    closing             \* the server: plugins are asked to close, and closed

vars == <<dropOldest, fate, queue, active, dropped, accepting, draining, drainTimer, closing>>

Task == 1 .. MaxTasks
Of(state) == {t \in Task : fate[t] = state}

TypeOK ==
    /\ dropOldest \in BOOLEAN
    /\ fate \in [Task -> {"none", "queued", "running", "ended", "dropped", "refused", "cleared"}]
    /\ \A i \in 1 .. Len(queue) : queue[i] \in Task
    /\ active \in Nat /\ dropped \in Nat
    /\ accepting \in BOOLEAN /\ draining \in BOOLEAN /\ drainTimer \in BOOLEAN
    /\ closing \in {"no", "waiting", "drained", "closed"}

Init ==
    /\ dropOldest \in BOOLEAN
    /\ fate = [t \in Task |-> "none"]
    /\ queue = <<>> /\ active = 0 /\ dropped = 0
    /\ accepting = TRUE /\ draining = FALSE /\ drainTimer = FALSE
    /\ closing = "no"

Least(a, b) == IF a < b THEN a ELSE b

\* tryFlush, with `running' tasks and what waits in q: as many start as there are slots.
Flush(q, running, fates) ==
    LET n == Least(Len(q), MaxRunning - running)
    IN  /\ queue' = SubSeq(q, n + 1, Len(q))
        /\ active' = running + n
        /\ fate' = [t \in Task |-> IF \E i \in 1 .. n : q[i] = t THEN "running" ELSE fates[t]]

-----------------------------------------------------------------------------
IsNext(t) == fate[t] = "none" /\ \A u \in 1 .. t - 1 : fate[u] # "none"

Refused(t) ==
    /\ ~accepting
    /\ fate' = [fate EXCEPT ![t] = "refused"]
    /\ UNCHANGED <<queue, active, dropped>>

HasRoom(t) ==
    /\ accepting /\ Len(queue) < MaxWaiting
    /\ Flush(Append(queue, t), active, [fate EXCEPT ![t] = "queued"])
    /\ UNCHANGED dropped

DropsOldest(t) ==
    /\ accepting /\ Len(queue) >= MaxWaiting /\ dropOldest
    /\ dropped' = dropped + 1
    /\ Flush(Append(Tail(queue), t), active,
             [fate EXCEPT ![t] = "queued", ![Head(queue)] = "dropped"])

DropsNewest(t) ==
    /\ accepting /\ Len(queue) >= MaxWaiting /\ ~dropOldest
    /\ dropped' = dropped + 1
    /\ fate' = [fate EXCEPT ![t] = "dropped"]
    /\ UNCHANGED <<queue, active>>

Enqueue ==
    /\ \E t \in Task : IsNext(t) /\ (Refused(t) \/ HasRoom(t) \/ DropsOldest(t) \/ DropsNewest(t))
    /\ UNCHANGED <<dropOldest, accepting, draining, drainTimer, closing>>

\* A task resolves or rejects; the last one of a drain ends it.
Ends_NoFlush(t) ==
    /\ fate[t] = "running"
    /\ active' = active - 1
    /\ fate' = [fate EXCEPT ![t] = "ended"]
    /\ IF draining /\ active = 1 /\ queue = <<>>
         THEN draining' = FALSE /\ closing' = "drained"
         ELSE UNCHANGED <<draining, closing>>
    /\ UNCHANGED <<dropOldest, queue, dropped, accepting, drainTimer>>

Ends(t) ==
    /\ fate[t] = "running"
    /\ Flush(queue, active - 1, [fate EXCEPT ![t] = "ended"])
    /\ IF draining /\ active = 1 /\ queue = <<>>
         THEN draining' = FALSE /\ closing' = "drained"
         ELSE UNCHANGED <<draining, closing>>
    /\ UNCHANGED <<dropOldest, dropped, accepting, drainTimer>>

-----------------------------------------------------------------------------
OnClosing ==
    /\ closing = "no"
    /\ accepting' = FALSE
    /\ IF active = 0 /\ queue = <<>>
         THEN closing' = "drained" /\ UNCHANGED <<draining, drainTimer>>
         ELSE closing' = "waiting" /\ draining' = TRUE /\ drainTimer' = TRUE
    /\ UNCHANGED <<dropOldest, fate, queue, active, dropped>>

Clear ==
    /\ queue' = <<>>
    /\ fate' = [t \in Task |-> IF fate[t] = "queued" THEN "cleared" ELSE fate[t]]
    /\ draining' = FALSE

\* Nothing stops the timer of a drain that has ended.
DrainTimesOut ==
    /\ drainTimer
    /\ drainTimer' = FALSE
    /\ Clear
    /\ closing' = IF closing = "waiting" THEN "drained" ELSE closing
    /\ UNCHANGED <<dropOldest, active, dropped, accepting>>

\* The server closes its clients in between, and then the plugins.
OnClose ==
    /\ closing = "drained"
    /\ closing' = "closed"
    /\ Clear
    /\ UNCHANGED <<dropOldest, active, dropped, accepting, drainTimer>>

Next ==
    \/ Enqueue
    \/ \E t \in Task : Ends(t)
    \/ OnClosing \/ DrainTimesOut \/ OnClose

Spec == Init /\ [][Next]_vars

\* The timer of the drain fires; nothing is assumed of the tasks.
Fairness == WF_vars(DrainTimesOut)

FairSpec == Spec /\ Fairness

-----------------------------------------------------------------------------
\* Every task that was taken runs, was dropped for want of room and counted, or was left
\* by the drain; a slot is never lost, never used twice and never idle while a task waits,
\* whatever rejections, overflows and shutdowns come together; tasks start in the order in
\* which they came; and the drain ends with nothing waiting or running unless it timed out
\* (plugins/async-worker.ts:105-163,187-221).
WorkKept ==
    /\ TypeOK
    /\ active = Cardinality(Of("running")) /\ active <= MaxRunning
    /\ Len(queue) <= MaxWaiting /\ Of("queued") = {queue[i] : i \in 1 .. Len(queue)}
    /\ queue # <<>> => active = MaxRunning
    /\ \A i, j \in 1 .. Len(queue) : i < j => queue[i] < queue[j]
    /\ \A t \in Of("queued"), u \in Of("running") \cup Of("ended") : u < t
    /\ dropped = Cardinality(Of("dropped"))
    /\ Of("refused") # {} => closing # "no"
    /\ closing \in {"drained", "closed"} /\ drainTimer =>
          Of("running") \cup Of("queued") \cup Of("cleared") = {}

\* The drain of a closing server ends although a task never does.
DrainEnded == closing # "waiting"
DrainEnds  == <>[]DrainEnded
=============================================================================
