------------------------------ MODULE WorkerPool ------------------------------
(***************************************************************************)
(* The pool of worker threads that parse messages off the main thread      *)
(* (worker-pool.ts): round-robin distribution, workers that crash and are  *)
(* started again at their index, the limit on pending tasks, shutdown.     *)
(*                                                                         *)
(* The chain of a connection awaits each parse, so one that never settles  *)
(* blocks every later message of that connection.                          *)
(***************************************************************************)
EXTENDS Integers, Sequences, FiniteSets

CONSTANTS
    Task,           \* the messages to parse
    PoolSize,       \* number of workers
    MaxQueueSize,   \* most tasks pending
    MaxCrashes,     \* bound: crashes of workers
    NoIndex         \* a task that is not pending

Index == 0 .. PoolSize - 1

VARIABLES
    worker,     \* the worker at each index: "up"; "crashed" ("error" and "exit" events are
                \* to come); "exiting" ("exit" is to come); or "dead", with no other started
                \* in its place
    posted,     \* what each of them has been posted and has not answered
    answers,    \* its answers the main thread has not seen yet
    next,       \* _nextWorker
    pending,    \* _pending: the index of the worker of each pending task
    outcome,    \* what the caller of parse() was told
    terminated, \* _terminated
    crashes

vars == <<worker, posted, answers, next, pending, outcome, terminated, crashes>>

Init ==
    /\ worker = [i \in Index |-> "up"]
    /\ posted = [i \in Index |-> <<>>] /\ answers = [i \in Index |-> <<>>]
    /\ next = 0
    /\ pending = [t \in Task |-> NoIndex] /\ outcome = [t \in Task |-> "new"]
    /\ terminated = FALSE
    /\ crashes = 0

Pending == {t \in Task : pending[t] # NoIndex}
Owned(i) == {t \in Task : pending[t] = i}

-----------------------------------------------------------------------------
(* The main thread *)

\* _failWorkerTasks
FailTasks(i) ==
    /\ pending' = [t \in Task |-> IF t \in Owned(i) THEN NoIndex ELSE pending[t]]
    /\ outcome' = [t \in Task |-> IF t \in Owned(i) THEN "failed" ELSE outcome[t]]

\* parse() of a message.  Posting to a worker that is gone is silently ignored.
ParseRefused(t) ==
    /\ outcome[t] = "new"
    /\ terminated \/ Cardinality(Pending) >= MaxQueueSize
    /\ outcome' = [outcome EXCEPT ![t] = "failed"]
    /\ UNCHANGED <<worker, posted, answers, next, pending, terminated, crashes>>

Parse(t) ==
    /\ outcome[t] = "new"
    /\ ~terminated /\ Cardinality(Pending) < MaxQueueSize
    /\ outcome' = [outcome EXCEPT ![t] = "waiting"]
    /\ pending' = [pending EXCEPT ![t] = next]
    /\ posted' = IF worker[next] = "up" THEN [posted EXCEPT ![next] = Append(@, t)] ELSE posted
    /\ next' = (next + 1) % PoolSize
    /\ UNCHANGED <<worker, answers, terminated, crashes>>

\* "message" event: the answer to a task that is still pending settles it, with the
\* message, or with the error of one that cannot be parsed.
Answered(i) ==
    /\ answers[i] # <<>>
    /\ answers' = [answers EXCEPT ![i] = Tail(@)]
    /\ LET t == Head(answers[i])
       IN  IF pending[t] = NoIndex THEN UNCHANGED <<pending, outcome>>
           ELSE /\ pending' = [pending EXCEPT ![t] = NoIndex]
                /\ \E told \in {"ok", "failed"} : outcome' = [outcome EXCEPT ![t] = told]
    /\ UNCHANGED <<worker, posted, next, terminated, crashes>>

\* "error" event
Failed(i) ==
    /\ worker[i] = "crashed"
    /\ worker' = [worker EXCEPT ![i] = "exiting"]
    /\ FailTasks(i)
    /\ UNCHANGED <<posted, answers, next, terminated, crashes>>

\* Definitions with a suffix, such as this one, are slips a change to the code
\* could make: each of them breaks a property of this module.  Here the tasks of the old
\* worker are left to the new one.
Exited_KeepsStragglers(i) ==
    /\ worker[i] \in {"crashed", "exiting"} /\ answers[i] = <<>>
    /\ worker' = [worker EXCEPT ![i] = "up"]
    /\ UNCHANGED <<posted, answers, next, pending, outcome, terminated, crashes>>

\* "exit" event, after all answers of the worker, with an "error" event before it or
\* none.  A worker is started in its place, or none can be.
Exited(i) ==
    /\ worker[i] \in {"crashed", "exiting"} /\ answers[i] = <<>>
    /\ IF terminated THEN worker' = [worker EXCEPT ![i] = "dead"] /\ UNCHANGED <<pending, outcome>>
       ELSE /\ FailTasks(i)
            /\ \E become \in {"up", "dead"} : worker' = [worker EXCEPT ![i] = become]
    /\ UNCHANGED <<posted, answers, next, terminated, crashes>>

\* shutdown(): all pending tasks are rejected and the workers terminated.
Shutdown ==
    /\ ~terminated /\ terminated' = TRUE
    /\ pending' = [t \in Task |-> NoIndex]
    /\ outcome' = [t \in Task |-> IF t \in Pending THEN "failed" ELSE outcome[t]]
    /\ worker' = [i \in Index |-> IF worker[i] = "up" THEN "exiting" ELSE worker[i]]
    /\ posted' = [i \in Index |-> <<>>]
    /\ UNCHANGED <<answers, next, crashes>>

-----------------------------------------------------------------------------
(* The worker threads *)

Work(i) ==
    /\ worker[i] = "up" /\ posted[i] # <<>>
    /\ posted' = [posted EXCEPT ![i] = Tail(@)]
    /\ answers' = [answers EXCEPT ![i] = Append(@, Head(posted[i]))]
    /\ UNCHANGED <<worker, next, pending, outcome, terminated, crashes>>

Crash(i) ==
    /\ worker[i] = "up" /\ crashes < MaxCrashes
    /\ crashes' = crashes + 1
    /\ worker' = [worker EXCEPT ![i] = "crashed"]
    /\ posted' = [posted EXCEPT ![i] = <<>>]
    /\ UNCHANGED <<answers, next, pending, outcome, terminated>>

Next ==
    \/ \E t \in Task : Parse(t) \/ ParseRefused(t)
    \/ \E i \in Index : Answered(i) \/ Failed(i) \/ Exited(i) \/ Work(i) \/ Crash(i)
    \/ Shutdown

Spec == Init /\ [][Next]_vars

\* Threads work, and the events of a thread reach the main thread.
Fairness ==
    \A i \in Index : WF_vars(Work(i)) /\ WF_vars(Answered(i)) /\ WF_vars(Exited(i))

FairSpec == Spec /\ Fairness

-----------------------------------------------------------------------------
\* "reject any stragglers ... so callers never hang" (worker-pool.ts:64-65,100-101): every
\* parse settles, whatever crashes, unless the worker could not be started again.
ParsesSettled ==
    \A t \in Task : outcome[t] = "waiting" => worker[pending[t]] = "dead"

ParsesSettle == <>[]ParsesSettled
=============================================================================
