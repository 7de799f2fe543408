------------------------------ MODULE MCLiveParts ------------------------------
(***************************************************************************)
(* Instances of the parts that share no state with others and promise that *)
(* something will happen, in one run: `part' says which of them a          *)
(* behaviour is of, and the others rest in their initial state.            *)
(***************************************************************************)
EXTENDS Integers, FiniteSets

CONSTANTS
    Message, PoolSize, MaxQueueSize, MaxCrashes, NoIndex,       \* WorkerPool
    Copy, MaxDrops,                                             \* MessageDedup
    Command, MaxConnections, MaxMisread,                        \* ReplayBuffer
    MaxDedupFailures, MaxReplayFailures,
    BrowserCall, Concurrency, MaxReconnects, MaxSockets, MaxCloses, \* BrowserClient
    MaxMiddlewares,                                             \* Handshake
    MaxTasks, MaxRunning, MaxWaiting,                           \* AsyncWorker
    MaxPool, MaxLength, MaxMessages, MaxSubscribes, MaxErrors   \* RedisStream

\* What the proofs about the parts ask of their constants.
ASSUME HandshakeAssumption == MaxMiddlewares \in Nat

ASSUME DedupAssumption == IsFiniteSet(Copy) /\ MaxDedupFailures \in Nat

\* The code takes an export queue to have room for a task.
ASSUME WorkerAssumption ==
    MaxTasks \in Nat /\ MaxRunning \in Nat /\ MaxWaiting \in Nat \ {0}

ASSUME BrowserAssumption ==
    /\ IsFiniteSet(BrowserCall) /\ Concurrency \in Nat
    /\ MaxReconnects \in Nat /\ MaxSockets \in Nat /\ MaxCloses \in Nat

ASSUME StreamAssumption == MaxMessages \in Nat /\ MaxLength \in Nat /\ MaxPool \in Nat

VARIABLES
    part,
    worker, posted, answers, next, pending, outcome, terminated, crashes,
    copy, claim, cached, storing, executed, station, expired, dedupFailures, drops,
    conn, flush, hand, list, calls, backlog, told, frames, misread, lost, replayFailures,
    state, ws, sock, byTimer, attempt, timers, held, closing, closeOn, awaited, crossed, closes,
    call, queue, entries, sentOn,
    depth, handler, timed, at, dir, auth, authCalled, aborted, socket, swallowed, upgrade,
    dropOldest, fate, waiting, active, dropped, accepting, draining, drainTimer, shutdown,
    poolSize, wires, published, stream, lastId, subscribed, streamOffset, loop, read,
    shut, subscribes, errors, heard, missed, resent

poolVars    == <<worker, posted, answers, next, pending, outcome, terminated, crashes>>
dedupVars   == <<copy, claim, cached, storing, executed, station, expired, dedupFailures, drops>>
replayVars  == <<conn, flush, hand, list, calls, backlog, told, frames, misread, lost,
                 replayFailures>>
browserVars == <<state, ws, sock, byTimer, attempt, timers, held, closing, closeOn, awaited,
                 crossed, closes, call, queue, entries, sentOn>>
shakeVars   == <<depth, handler, timed, at, dir, auth, authCalled, aborted, socket, swallowed, upgrade>>
workerVars  == <<dropOldest, fate, waiting, active, dropped, accepting, draining, drainTimer, shutdown>>
streamVars  == <<poolSize, wires, published, stream, lastId, subscribed,
                 streamOffset, loop, read, shut, subscribes, errors, heard, missed, resent>>

Pool    == INSTANCE WorkerPool WITH Task <- Message
Dedup   == INSTANCE MessageDedup WITH failures <- dedupFailures, MaxFailures <- MaxDedupFailures
Replay  == INSTANCE ReplayBuffer WITH failures <- replayFailures, MaxFailures <- MaxReplayFailures
Browser == INSTANCE BrowserClient WITH Call <- BrowserCall
Shake   == INSTANCE Handshake WITH outcome <- upgrade
Worker  == INSTANCE AsyncWorker WITH queue <- waiting, closing <- shutdown
Stream  == INSTANCE RedisStream WITH entries <- read

InitParts ==
    /\ part \in {"pool", "dedup", "replay", "browser", "handshake", "worker", "stream"}
    /\ Pool!Init /\ Dedup!Init /\ Replay!Init /\ Browser!Init
    /\ Shake!Init /\ (part # "handshake" => depth = 0 /\ ~timed)
    /\ Worker!Init /\ (part # "worker" => dropOldest)
    /\ Stream!Init /\ (part # "stream" => poolSize = 1)

NextParts ==
    \/ /\ part = "pool" /\ Pool!Next
       /\ UNCHANGED <<part, dedupVars, replayVars, browserVars, shakeVars, workerVars, streamVars>>
    \/ /\ part = "dedup" /\ Dedup!Next
       /\ UNCHANGED <<part, poolVars, replayVars, browserVars, shakeVars, workerVars, streamVars>>
    \/ /\ part = "replay" /\ Replay!Next
       /\ UNCHANGED <<part, poolVars, dedupVars, browserVars, shakeVars, workerVars, streamVars>>
    \/ /\ part = "browser" /\ Browser!Next
       /\ UNCHANGED <<part, poolVars, dedupVars, replayVars, shakeVars, workerVars, streamVars>>
    \/ /\ part = "handshake" /\ Shake!Next
       /\ UNCHANGED <<part, poolVars, dedupVars, replayVars, browserVars, workerVars, streamVars>>
    \/ /\ part = "worker" /\ Worker!Next
       /\ UNCHANGED <<part, poolVars, dedupVars, replayVars, browserVars, shakeVars, streamVars>>
    \/ /\ part = "stream" /\ Stream!Next
       /\ UNCHANGED <<part, poolVars, dedupVars, replayVars, browserVars, shakeVars, workerVars>>

\* Nothing is enabled of the fair actions of a part at rest: at rest the handshake has no
\* middleware and no timeout.
SpecParts ==
    /\ InitParts
    /\ [][NextParts]_<<part, poolVars, dedupVars, replayVars, browserVars, shakeVars, workerVars,
                       streamVars>>
    /\ Pool!Fairness /\ Dedup!Fairness /\ Replay!Fairness /\ Browser!Fairness
    /\ Shake!Fairness /\ Worker!Fairness /\ Stream!Fairness

\* The handler of a CALL runs once while Redis works and the claim lives
\* (plugins/message-dedup.ts:160-183); stated in MessageDedup.
ExecutedOnce == part = "dedup" => Dedup!ExecutedOnce

\* A queued command is in one place and written once (plugins/replay-buffer.ts:99-186);
\* stated in ReplayBuffer.
CommandsKept == part = "replay" => Replay!CommandsKept

\* The state of the browser client is true of its WebSockets, and its callers have entries
\* (browser/client.ts:497-981); stated in BrowserClient.
ClientSound == part = "browser" => Browser!ClientSound

\* An upgrade is completed on an open socket that was authenticated in time
\* (server.ts:1095-1300); stated in Handshake.
UpgradeJustified == part = "handshake" => Shake!UpgradeJustified

\* Every exported event runs or is accounted for (plugins/async-worker.ts:105-221); stated
\* in AsyncWorker.
WorkKept == part = "worker" => Worker!WorkKept

\* What one node publishes to another is heard once, in order, with no gap but those that
\* errors, trimming and unsubscribing leave (adapters/redis/index.ts:137-154,195-250,282-327);
\* stated in RedisStream.
StreamExact == part = "stream" => Stream!StreamExact

\* Every parse settles (worker-pool.ts:64-124), a station that retries is answered
\* (plugins/message-dedup.ts:133-193), every flush ends (plugins/replay-buffer.ts:149-204),
\* every call and close() of the browser client (browser/client.ts:268-354,497-580), every
\* handshake with a timeout (server.ts:1106-1176), every drain
\* (plugins/async-worker.ts:187-215), and a subscribed channel is read to its end
\* (adapters/redis/index.ts:282-327); stated in the modules of the parts.
PartsSettle ==
    <>[]( /\ Pool!ParsesSettled /\ Dedup!RetryAnswered /\ Replay!FlushesEnded
          /\ Browser!AllSettled /\ Shake!HandshakeSettled /\ Worker!DrainEnded
          /\ Stream!Delivered )
=============================================================================
