----------------------------- MODULE ReplayBuffer -----------------------------
(***************************************************************************)
(* The replay buffer plugin (plugins/replay-buffer.ts) for one station:    *)
(* calls that find its connection closed are put on a list in Redis and    *)
(* made again on the next connection.                                      *)
(*                                                                         *)
(* call() of a client that is not OPEN throws before any middleware runs   *)
(* (client.ts:732-767), so that the plugin sees only calls that were       *)
(* admitted and whose turn came later.                                     *)
(***************************************************************************)
EXTENDS Integers, Sequences, FiniteSets

CONSTANTS
    Command,            \* the commands of the application
    MaxConnections,     \* bound: connections of the station
    MaxMisread,         \* bound: errors of a written command taken for a closed connection's
    MaxFailures         \* bound: failures of Redis

Connection == 1 .. MaxConnections

VARIABLES
    conn,       \* the connections; a client is OPEN until the "close" event
    flush,      \* the loop that onConnection starts for each of them
    hand,       \* what the loop has taken from the list and not made a call of
    list,       \* the list in Redis
    calls,      \* the calls of the clients, see Calls
    backlog,    \* the messages that wait for a socket to take more (client.ts:1681)
    told,       \* what the caller of each command knows
    frames,     \* how often each command was written to a socket
    misread,    \* how often an error of a command that was written was misread
    lost,       \* commands dropped after their callers were told that they are queued
    failures

vars == <<conn, flush, hand, list, calls, backlog, told, frames, misread, lost, failures>>

\* "queued": in the call queue; "stalled": its message is in the backlog; "offline",
\* "failed": its error is on its way to the interceptor, which takes it for that of a
\* closed connection, or for another.
Phases == {"queued", "stalled", "sent", "offline", "failed"}
Calls  == [cmd : Command, on : Connection, phase : Phases]

Is(r, phase) == [r EXCEPT !.phase = phase]
Change(r, phase) == calls' = (calls \ {r}) \cup {Is(r, phase)}

TypeOK ==
    /\ conn \in [Connection -> {"new", "open", "closing", "closed"}]
    /\ flush \in [Connection -> {"none", "on", "done"}]
    /\ hand \in [Connection -> SUBSET Command]
    /\ list \in Seq(Command) /\ calls \subseteq Calls
    /\ backlog \in [Connection -> SUBSET Command]
    /\ told \in [Command -> {"new", "waiting", "queued", "settled"}]
    /\ lost \subseteq Command

Init ==
    /\ conn = [k \in Connection |-> "new"] /\ flush = [k \in Connection |-> "none"]
    /\ hand = [k \in Connection |-> {}]
    /\ list = <<>> /\ calls = {} /\ backlog = [k \in Connection |-> {}]
    /\ told = [c \in Command |-> "new"] /\ frames = [c \in Command |-> 0]
    /\ misread = [c \in Command |-> 0]
    /\ lost = {}
    /\ failures = 0

OPEN(k) == conn[k] \in {"open", "closing"}
Misread(C) ==
    /\ \A c \in C : misread[c] < MaxMisread
    /\ misread' = [c \in Command |-> IF c \in C THEN misread[c] + 1 ELSE misread[c]]
Drops(C) == lost' = lost \cup {c \in C : told[c] = "queued"}
Settled(c) == told' = IF told[c] = "waiting" THEN [told EXCEPT ![c] = "settled"] ELSE told

-----------------------------------------------------------------------------
(* Connections *)

\* A connection that replaces another comes before the other has closed.
Connect(k) ==
    /\ conn[k] = "new" /\ \A j \in 1 .. k - 1 : conn[j] # "new"
    /\ conn' = [conn EXCEPT ![k] = "open"]
    /\ flush' = [flush EXCEPT ![k] = "on"]
    /\ UNCHANGED <<hand, list, calls, backlog, told, frames, misread, lost, failures>>

\* The station starts closing: the socket takes no more messages.
StartsClosing(k) ==
    /\ conn[k] = "open"
    /\ conn' = [conn EXCEPT ![k] = "closing"]
    /\ UNCHANGED <<flush, hand, list, calls, backlog, told, frames, misread, lost, failures>>

\* The "close" event: the calls whose entries are in _pendingCalls are rejected, with the
\* reason the peer gave, which the plugin may misread.  The backlog is never written from
\* here on: the next tick, or the clean-up, calls back calls that were all settled.
Closes(k) ==
    /\ OPEN(k)
    /\ conn' = [conn EXCEPT ![k] = "closed"]
    /\ backlog' = [backlog EXCEPT ![k] = {}]
    /\ LET pending == {r \in calls : r.on = k /\ r.phase \in {"stalled", "sent"}}
       IN  \/ /\ calls' = (calls \ pending) \cup {Is(r, "failed") : r \in pending}
              /\ Drops(backlog[k]) /\ UNCHANGED misread
           \/ /\ pending # {} /\ Misread({r.cmd : r \in {w \in pending : w.phase = "sent"}})
              /\ calls' = (calls \ pending) \cup {Is(r, "offline") : r \in pending}
              /\ Drops(backlog[k] \ {r.cmd : r \in pending})
    /\ UNCHANGED <<flush, hand, list, told, frames, failures>>

-----------------------------------------------------------------------------
(* Calls *)

Call(c, k) ==
    /\ told[c] = "new" /\ OPEN(k)
    /\ told' = [told EXCEPT ![c] = "waiting"]
    /\ calls' = calls \cup {[cmd |-> c, on |-> k, phase |-> "queued"]}
    /\ UNCHANGED <<conn, flush, hand, list, backlog, frames, misread, lost, failures>>

\* Its turn in the call queue.  An open socket is given the message at once, unless it has
\* too much to send or other messages already wait for it.
Runs(r) ==
    /\ r.phase = "queued"
    /\ LET k == r.on
       IN  \/ /\ conn[k] = "open" /\ backlog[k] = {}
              /\ Change(r, "sent") /\ frames' = [frames EXCEPT ![r.cmd] = @ + 1]
              /\ UNCHANGED backlog
           \/ /\ conn[k] = "open"
              /\ Change(r, "stalled") /\ backlog' = [backlog EXCEPT ![k] = @ \cup {r.cmd}]
              /\ UNCHANGED frames
           \/ /\ conn[k] # "open"
              /\ Change(r, "offline") /\ UNCHANGED <<backlog, frames>>
    /\ UNCHANGED <<conn, flush, hand, list, told, misread, lost, failures>>

\* The calls that still wait for messages of the backlog: none for one that timed out.
Stalled(k, C) == {r \in calls : r.on = k /\ r.phase = "stalled" /\ r.cmd \in C}

\* A tick of the drain timer has room for a message.
Drains(k) ==
    /\ conn[k] = "open"
    /\ \E c \in backlog[k] :
          /\ backlog' = [backlog EXCEPT ![k] = @ \ {c}]
          /\ frames' = [frames EXCEPT ![c] = @ + 1]
          /\ calls' = (calls \ Stalled(k, {c})) \cup {Is(r, "sent") : r \in Stalled(k, {c})}
    /\ UNCHANGED <<conn, flush, hand, list, told, misread, lost, failures>>

\* A tick that finds the socket closing fails what still waits, with an error that is none
\* the plugin takes for that of a closed connection.
DrainFails(k) ==
    /\ conn[k] = "closing" /\ backlog[k] # {}
    /\ backlog' = [backlog EXCEPT ![k] = {}]
    /\ calls' = (calls \ Stalled(k, backlog[k]))
                   \cup {Is(r, "failed") : r \in Stalled(k, backlog[k])}
    /\ Drops(backlog[k])
    /\ UNCHANGED <<conn, flush, hand, list, told, frames, misread, failures>>

Answered(r) ==
    /\ r.phase = "sent" /\ OPEN(r.on)
    /\ calls' = calls \ {r}
    /\ Settled(r.cmd)
    /\ UNCHANGED <<conn, flush, hand, list, backlog, frames, misread, lost, failures>>

\* The station answers with an error, or the call times out: one whose message waits in
\* the backlog leaves it there.
Fails(r) ==
    /\ r.phase \in {"stalled", "sent"}
    /\ \/ Change(r, "failed") /\ UNCHANGED misread
       \/ /\ r.phase = "sent" /\ OPEN(r.on)
          /\ Misread({r.cmd}) /\ Change(r, "offline")
    /\ UNCHANGED <<conn, flush, hand, list, backlog, told, frames, lost, failures>>

-----------------------------------------------------------------------------
(* The interceptor *)

IsOffline_AnyError(r) == r.phase \in {"offline", "failed"}

\* Definitions with a suffix, such as the one above, are slips a change to the code could
\* make: each of them breaks a property of this module.  That one has the plugin take every
\* error for that of a closed connection.
IsOffline(r) == r.phase = "offline"

\* rpush, and the caller gets the synthetic answer.
Stores(r) ==
    /\ IsOffline(r)
    /\ calls' = calls \ {r}
    /\ list' = Append(list, r.cmd)
    /\ told' = IF told[r.cmd] = "waiting" THEN [told EXCEPT ![r.cmd] = "queued"] ELSE told
    /\ UNCHANGED <<conn, flush, hand, backlog, frames, misread, lost, failures>>

\* Redis fails too: the caller gets the error, if it still waits for one.
StoreFails(r) ==
    /\ IsOffline(r)
    /\ failures < MaxFailures /\ failures' = failures + 1
    /\ calls' = calls \ {r}
    /\ Settled(r.cmd)
    /\ Drops({r.cmd})
    /\ UNCHANGED <<conn, flush, hand, list, backlog, frames, misread>>

Rethrows(r) ==
    /\ r.phase = "failed"
    /\ calls' = calls \ {r}
    /\ Settled(r.cmd)
    /\ UNCHANGED <<conn, flush, hand, list, backlog, frames, misread, lost, failures>>

-----------------------------------------------------------------------------
(* The loop that flushes the list; nothing ends it when its client is closed *)

Pops(k) ==
    /\ flush[k] = "on" /\ hand[k] = {} /\ list # <<>>
    /\ hand' = [hand EXCEPT ![k] = {Head(list)}]
    /\ list' = Tail(list)
    /\ UNCHANGED <<conn, flush, calls, backlog, told, frames, misread, lost, failures>>

\* call() of the client; one that is closed throws, which is only logged.
Replays(k) ==
    /\ hand[k] # {}
    /\ hand' = [hand EXCEPT ![k] = {}]
    /\ IF OPEN(k)
         THEN /\ calls' = calls \cup {[cmd |-> c, on |-> k, phase |-> "queued"] : c \in hand[k]}
              /\ UNCHANGED lost
         ELSE Drops(hand[k]) /\ UNCHANGED calls
    /\ UNCHANGED <<conn, flush, list, backlog, told, frames, misread, failures>>

\* The list is empty, or lpop fails.
FlushEnds(k) ==
    /\ flush[k] = "on" /\ hand[k] = {}
    /\ \/ list = <<>> /\ UNCHANGED failures
       \/ list # <<>> /\ failures < MaxFailures /\ failures' = failures + 1
    /\ flush' = [flush EXCEPT ![k] = "done"]
    /\ UNCHANGED <<conn, hand, list, calls, backlog, told, frames, misread, lost>>

Next ==
    \/ \E k \in Connection : \/ Connect(k) \/ StartsClosing(k) \/ Closes(k)
                             \/ Drains(k) \/ DrainFails(k)
                             \/ Pops(k) \/ Replays(k) \/ FlushEnds(k)
    \/ \E c \in Command, k \in Connection : Call(c, k)
    \/ \E r \in calls : \/ Runs(r) \/ Answered(r) \/ Fails(r)
                        \/ Stores(r) \/ StoreFails(r) \/ Rethrows(r)

Spec == Init /\ [][Next]_vars

\* A connection that is closing closes, Redis answers, and the loop goes on.
Fairness ==
    \A k \in Connection :
        /\ WF_vars(conn[k] = "closing" /\ Closes(k))
        /\ WF_vars(Pops(k) \/ Replays(k) \/ FlushEnds(k))

FairSpec == Spec /\ Fairness

-----------------------------------------------------------------------------
Holders(c) ==
    Cardinality({i \in DOMAIN list : list[i] = c}) + Cardinality({k \in Connection : c \in hand[k]})
        + Cardinality({r \in calls : r.cmd = c})

\* Where a command is that was not written yet.
Kept(c) == Holders(c) = 1 \/ \E k \in Connection : c \in backlog[k]

\* A command is in one place at a time, over all connections and their loops.  It is
\* written at most once, unless an error whose text speaks of "offline" or "CLOSED" was
\* taken for one that says it was not.  One whose caller was told that it is queued is
\* kept until it was written, unless it was dropped: see QueuedIsKept
\* (plugins/replay-buffer.ts:99-106,148-186).
CommandsKept ==
    /\ TypeOK
    /\ \A c \in Command :
          /\ Holders(c) <= 1
          /\ frames[c] <= 1 + misread[c]
          /\ told[c] = "queued" /\ frames[c] = 0 => Kept(c) \/ c \in lost

\* "The interceptor middleware will re-queue if the client disconnected again"
\* (plugins/replay-buffer.ts:176): a command whose caller was told that it is queued is kept
\* until it was written.  It is not: call() of a client that closed before its loop came to
\* the command throws before any middleware (client.ts:732-767), and the error of a message
\* that the backlog of a closed socket fails, "WebSocket closed during backpressure wait", is
\* none that the plugin knows (client.ts:1741-1748).
QueuedIsKept == \A c \in Command : told[c] = "queued" /\ frames[c] = 0 => Kept(c)

\* onClosing waits for every loop: each of them ends, although what it sends may be put
\* on the list behind it while it runs, as long as errors are not misread for ever
\* (plugins/replay-buffer.ts:149-204).
FlushesEnded == \A k \in Connection : flush[k] # "on"

FlushesEnd == <>[]FlushesEnded
=============================================================================
