----------------------------- MODULE MessageDedup -----------------------------
(***************************************************************************)
(* The deduplication plugin (plugins/message-dedup.ts) and one CALL of a   *)
(* station, which sends it again and again, over one connection or         *)
(* several, on one server or several, until it is answered.                *)
(*                                                                         *)
(* Redis holds a claim and the cached answer, under keys of their own that *)
(* expire by themselves.                                                   *)
(***************************************************************************)
EXTENDS Integers, FiniteSets

CONSTANTS
    Copy,           \* copies of the CALL that may be under way at once
    MaxFailures,    \* bound: operations of Redis that fail
    MaxDrops        \* bound: copies dropped and answers lost on their way

VARIABLES
    copy,       \* where each copy is, see Phase
    claim,      \* is the key of the message set?
    cached,     \* is the key of its answer set?
    storing,    \* answers on their way to Redis
    executed,   \* how often the handler ran, counted up to 2
    station,    \* "idle", "waiting" for an answer, "answered"
    expired,    \* has the claim ever expired?
    failures, drops

vars == <<copy, claim, cached, storing, executed, station, expired, failures, drops>>

\* "arrived": in onBeforeReceive; "duplicate": the claim was not acquired; "passed":
\* handed on to the core of the server; "running": the handler has it.
Phase == {"idle", "arrived", "duplicate", "passed", "running"}

TypeOK ==
    /\ copy \in [Copy -> Phase]
    /\ claim \in BOOLEAN /\ cached \in BOOLEAN /\ storing \in 0 .. Cardinality(Copy)
    /\ executed \in 0 .. 2 /\ station \in {"idle", "waiting", "answered"} /\ expired \in BOOLEAN

Init ==
    /\ copy = [c \in Copy |-> "idle"]
    /\ claim = FALSE /\ cached = FALSE /\ storing = 0
    /\ executed = 0 /\ station = "idle" /\ expired = FALSE
    /\ failures = 0 /\ drops = 0

Move(c, from, to) == copy[c] = from /\ copy' = [copy EXCEPT ![c] = to]
Fault == failures < MaxFailures /\ failures' = failures + 1
Drop  == drops < MaxDrops /\ drops' = drops + 1

-----------------------------------------------------------------------------
\* The station sends the CALL, for the first time or because no answer came.
StationSends(c) ==
    /\ station # "answered" /\ station' = "waiting"
    /\ Move(c, "idle", "arrived")
    /\ UNCHANGED <<claim, cached, storing, executed, expired, failures, drops>>

\* setNX: one copy gets the key.
Claims(c) ==
    /\ Move(c, "arrived", IF claim THEN "duplicate" ELSE "passed")
    /\ claim' = TRUE
    /\ UNCHANGED <<cached, storing, executed, station, expired, failures, drops>>

\* Redis fails, before or after it has set the key: the message is let through.
ClaimFails(c) ==
    /\ Fault
    /\ Move(c, "arrived", "passed")
    /\ claim' \in {claim, TRUE}
    /\ UNCHANGED <<cached, storing, executed, station, expired, drops>>

\* Definitions with a suffix, such as this one, are slips a change to the code
\* could make: each of them breaks a property of this module.  Here a duplicate whose
\* answer is not there yet is handed on.
Replays_HandsOn(c) ==
    /\ Move(c, "duplicate", IF cached THEN "idle" ELSE "passed")
    /\ station' = IF cached THEN "answered" ELSE station
    /\ UNCHANGED <<claim, cached, storing, executed, expired, failures, drops>>

\* The duplicate is dropped, and answered if there is an answer; which may be lost, or
\* finds its connection closed.
Replays(c) ==
    /\ Move(c, "duplicate", "idle")
    /\ \/ station' = (IF cached THEN "answered" ELSE station) /\ UNCHANGED drops
       \/ cached /\ Drop /\ UNCHANGED station
    /\ UNCHANGED <<claim, cached, storing, executed, expired, failures>>

\* Redis fails between the two requests: a known duplicate is let through.
ReplayFails(c) ==
    /\ Fault
    /\ Move(c, "duplicate", "passed")
    /\ UNCHANGED <<claim, cached, storing, executed, station, expired, drops>>

-----------------------------------------------------------------------------
\* What the server does with the message.  It may drop it: the rate limit, a connection
\* that is closing, a restart of the server.
Executes(c) ==
    /\ Move(c, "passed", "running")
    /\ executed' = IF executed < 2 THEN executed + 1 ELSE 2
    /\ UNCHANGED <<claim, cached, storing, station, expired, failures, drops>>

IsDropped(c) ==
    /\ copy[c] \in {"passed", "running"} /\ copy' = [copy EXCEPT ![c] = "idle"]
    /\ Drop
    /\ UNCHANGED <<claim, cached, storing, executed, station, expired, failures>>

\* The handler has ended: onBeforeSend passes the answer to Redis, without waiting for
\* it, and then it is sent, on a connection that may be gone.
Answers(c) ==
    /\ Move(c, "running", "idle")
    /\ storing < Cardinality(Copy) /\ storing' = storing + 1
    /\ \/ station' = "answered" /\ UNCHANGED drops
       \/ Drop /\ UNCHANGED station
    /\ UNCHANGED <<claim, cached, executed, expired, failures>>

Stored ==
    /\ storing > 0 /\ storing' = storing - 1
    /\ \/ cached' = TRUE /\ UNCHANGED failures
       \/ Fault /\ UNCHANGED cached
    /\ UNCHANGED <<copy, claim, executed, station, expired, drops>>

-----------------------------------------------------------------------------
ClaimExpires ==
    /\ claim /\ claim' = FALSE
    /\ expired' = TRUE
    /\ UNCHANGED <<copy, cached, storing, executed, station, failures, drops>>

AnswerExpires ==
    /\ cached /\ cached' = FALSE
    /\ UNCHANGED <<copy, claim, storing, executed, station, expired, failures, drops>>

\* A copy the server has begun with goes on.
Handled(c) ==
    \/ Claims(c) \/ ClaimFails(c) \/ Replays(c) \/ ReplayFails(c)
    \/ Executes(c) \/ IsDropped(c) \/ Answers(c)

Next ==
    \/ \E c \in Copy : StationSends(c) \/ Handled(c)
    \/ Stored \/ ClaimExpires \/ AnswerExpires

Spec == Init /\ [][Next]_vars

\* What the server and Redis have begun goes on, keys expire, and the station retries.
Fairness ==
    /\ \A c \in Copy :
          /\ WF_vars(station = "waiting" /\ StationSends(c))
          /\ WF_vars(Handled(c))
    /\ WF_vars(Stored) /\ WF_vars(ClaimExpires)

FairSpec == Spec /\ Fairness

-----------------------------------------------------------------------------
\* While Redis works and the claim lives, the handler runs once, however many copies
\* come in whatever order (plugins/message-dedup.ts:160-183).
ExecutedOnce ==
    TypeOK /\ (executed > 1 => expired \/ failures > 0)

\* "retrying chargers are not left to time out" (plugins/message-dedup.ts:133-134): a
\* station that goes on retrying is answered at last, also when the copy that had the
\* claim was dropped, when answers were lost, or the cached one expired before the
\* claim; but maybe not before the claim has expired.
RetryAnswered == station # "waiting"

RetriesAnswered == <>[]RetryAnswered
=============================================================================
