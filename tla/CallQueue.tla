------------------------------ MODULE CallQueue ------------------------------
(***************************************************************************)
(* The concurrency-limited queue that every outgoing OCPP call of a client *)
(* goes through (queue.ts; client.ts pushes onto it from call, from the    *)
(* retry loop and from the offline flush, and resizes it in reconfigure).  *)
(*                                                                         *)
(* A pushed function waits in a FIFO queue until one of `concurrency'      *)
(* slots is free.  The slot is given back by the `finally' callback of the *)
(* function's promise, which the event loop runs some microtasks after the *)
(* caller has seen the result: other code runs in between, and that window *)
(* is the state "settled" below.                                           *)
(***************************************************************************)
EXTENDS Integers, Sequences, FiniteSets

CONSTANTS
    Task,             \* the functions pushed onto the queue
    Requested         \* the values passed to the constructor and to setConcurrency

ASSUME TaskAssumption      == IsFiniteSet(Task)
ASSUME RequestedAssumption == Requested \subseteq Int

VARIABLES
    concurrency,      \* _concurrency, the number of slots
    running,          \* _running, the slots in use
    queue,            \* _queue, the tasks waiting for a slot, oldest first
    stage             \* how far each task has come

vars == <<concurrency, running, queue, stage>>

(* "settled": the caller has the result, the slot is still held.           *)
Stage == {"new", "queued", "running", "settled", "done"}

(* Math.max(1, concurrency)                                                *)
Clamp(n) == IF n < 1 THEN 1 ELSE n

TypeOK ==
    /\ concurrency \in Nat \ {0}
    /\ running \in Nat
    /\ queue \in Seq(Task)
    /\ stage \in [Task -> Stage]

Init ==
    /\ concurrency \in {Clamp(n) : n \in Requested}
    /\ running = 0
    /\ queue = <<>>
    /\ stage = [t \in Task |-> "new"]

-----------------------------------------------------------------------------
(* The number of iterations of the while loop of _drain: it starts waiting *)
(* tasks as long as a slot is free.                                        *)
Starts(used, slots, waiting) ==
    IF used >= slots THEN 0
    ELSE IF Len(waiting) < slots - used THEN Len(waiting) ELSE slots - used

(* Definitions with a suffix, such as this one, are slips a change to      *)
(* queue.ts could make: each of them breaks a property of this module.     *)
Drain_Lifo(used, slots, waiting, stages) ==
    LET k == Starts(used, slots, waiting)
        rest == Len(waiting) - k
        started == {waiting[i] : i \in rest + 1 .. Len(waiting)}
    IN  /\ running' = used + k
        /\ queue' = SubSeq(waiting, 1, rest)
        /\ stage' = [t \in Task |-> IF t \in started THEN "running" ELSE stages[t]]

(* _drain, called with `used' slots taken out of `slots' and the tasks of  *)
(* `waiting' in the queue: it takes tasks from the front.  `stages' is the *)
(* stage of every task when it is called.                                  *)
Drain(used, slots, waiting, stages) ==
    LET k == Starts(used, slots, waiting)
        started == {waiting[i] : i \in 1..k}
    IN  /\ running' = used + k
        /\ queue' = SubSeq(waiting, k + 1, Len(waiting))
        /\ stage' = [t \in Task |-> IF t \in started THEN "running" ELSE stages[t]]

(* push: the task goes to the back of the queue, then the queue is drained.*)
Push(t) ==
    /\ stage[t] = "new"
    /\ Drain(running, concurrency, Append(queue, t), [stage EXCEPT ![t] = "queued"])
    /\ UNCHANGED concurrency

(* The promise of the task settles and the caller is told, by resolve or   *)
(* by reject alike; the `finally' callback is still to run.                *)
Settle(t) ==
    /\ stage[t] = "running"
    /\ stage' = [stage EXCEPT ![t] = "settled"]
    /\ UNCHANGED <<concurrency, running, queue>>

Release_SlotLeak(t) ==
    /\ stage[t] = "settled"
    /\ Drain(running, concurrency, queue, [stage EXCEPT ![t] = "done"])
    /\ UNCHANGED concurrency

(* The `finally' callback: one slot back, and another drain.               *)
Release(t) ==
    /\ stage[t] = "settled"
    /\ Drain(running - 1, concurrency, queue, [stage EXCEPT ![t] = "done"])
    /\ UNCHANGED concurrency

SetConcurrency_NoDrain(n) ==
    /\ concurrency' = Clamp(n)
    /\ UNCHANGED <<running, queue, stage>>

(* setConcurrency: running tasks are left alone, whatever the new limit.   *)
SetConcurrency(n) ==
    /\ concurrency' = Clamp(n)
    /\ Drain(running, Clamp(n), queue, stage)

Next ==
    \/ \E t \in Task : Push(t) \/ Settle(t) \/ Release(t)
    \/ \E n \in Requested : SetConcurrency(n)

Spec == Init /\ [][Next]_vars

-----------------------------------------------------------------------------
InFlight == {t \in Task : stage[t] \in {"running", "settled"}}
Queued   == {t \in Task : stage[t] = "queued"}

(* The counter is the number of slots really held, so no slot is ever lost *)
(* and none is given back twice; and the queue holds each waiting task     *)
(* exactly once (queue.ts:49-64).                                          *)
SlotAccounting ==
    /\ running = Cardinality(InFlight)
    /\ Len(queue) = Cardinality(Queued)
    /\ {queue[i] : i \in 1..Len(queue)} = Queued

(* No lost wakeup: a task waits only while every slot is taken, whatever   *)
(* pushes, completions and resizes came before (queue.ts:49-51).           *)
NoIdleSlot == queue # <<>> => running >= concurrency

(* A task starts only into a free slot of the limit now in force: lowering *)
(* the limit while calls run holds back new ones until enough slots have   *)
(* been given back (queue.ts:34-37,50).                                    *)
StartsWithinLimit ==
    [][running' > running => running' <= concurrency']_vars

(* Tasks start in the order they were pushed: one that is taken from the   *)
(* queue leaves nothing that was in front of it behind (queue.ts:51).      *)
StartsInOrder ==
    [][\A i, j \in 1..Len(queue) :
          i < j /\ stage'[queue[j]] # "queued" => stage'[queue[i]] # "queued"]_vars

=============================================================================
