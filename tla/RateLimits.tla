------------------------------- MODULE RateLimits -------------------------------
(***************************************************************************)
(* The rate limits of the server, which are token buckets: upgrades by     *)
(* address (server.ts), with the sweep that forgets idle buckets, messages *)
(* of a connection, all of them and by method (server-client.ts), and the  *)
(* limiter that slows the refill of the latter under load                  *)
(* (adaptive-limiter.ts).                                                  *)
(*                                                                         *)
(* Time is counted in ticks, and tokens in fractions of one, so that what  *)
(* a tick refills is a whole number; a tick is the interval at which the   *)
(* load is sampled.  Buckets of upgrades and of messages do not depend on  *)
(* each other: a behaviour has an address that asks for upgrades, or a     *)
(* connection with messages, some of a method with a limit of its own.     *)
(***************************************************************************)
EXTENDS Integers, Sequences, FiniteSets

CONSTANTS
    Limit, Window,          \* of upgrades, and of messages
    MethodLimit,            \* of messages of the limited method, in the same window
    Cooldown,               \* cooldownMs
    MaxTime                 \* bound: ticks

\* The multiplier in twentieths: it is halved, not below a quarter, and grows by a tenth.
Scale == 20
Token == Window * Scale
Full(limit) == limit * Token

VARIABLES
    limited,        \* "upgrades" or "messages"
    now,
    upgrades,       \* _connectionBuckets: the bucket of the address, or none
    kept,           \* the same bucket, were it never swept
    messages,       \* _rateLimits["global"], or none
    method,         \* _rateLimits["method:..."], or none
    multiplier,
    lastOverload,   \* _lastOverloadTime
    accepted        \* the times at which upgrades, messages, and those of the method were let through

vars == <<limited, now, upgrades, kept, messages, method, multiplier, lastOverload, accepted>>

NoBucket == [tokens |-> -1, lastRefill |-> 0]
Bucket(limit) == [tokens : 0 .. Full(limit), lastRefill : 0 .. MaxTime]

TypeOK ==
    /\ limited \in {"upgrades", "messages"} /\ now \in 0 .. MaxTime
    /\ upgrades \in Bucket(Limit) \cup {NoBucket} /\ kept \in Bucket(Limit) \cup {NoBucket}
    /\ messages \in Bucket(Limit) \cup {NoBucket}
    /\ method \in Bucket(MethodLimit) \cup {NoBucket}
    /\ multiplier \in Scale \div 4 .. Scale
    /\ lastOverload \in -Cooldown - 1 .. MaxTime
    /\ accepted \in [{"upgrade", "message", "method"} -> Seq(0 .. MaxTime)]

Init ==
    /\ limited \in {"upgrades", "messages"} /\ now = 0
    /\ upgrades = NoBucket /\ kept = NoBucket /\ messages = NoBucket /\ method = NoBucket
    /\ multiplier = Scale /\ lastOverload = -Cooldown - 1
    /\ accepted = [k \in {"upgrade", "message", "method"} |-> <<>>]

-----------------------------------------------------------------------------
Least(a, b) == IF a < b THEN a ELSE b

\* What a bucket holds when it is looked at: it is full when it is new.
Refilled(b, limit, rate) ==
    [tokens     |-> IF b = NoBucket THEN Full(limit)
                    ELSE Least(Full(limit), b.tokens + (now - b.lastRefill) * limit * rate),
     lastRefill |-> now]

Allows(b) == b.tokens >= Token
Taken(b) == IF Allows(b) THEN [b EXCEPT !.tokens = @ - Token] ELSE b

Lets(k, yes) == accepted' = IF yes THEN [accepted EXCEPT ![k] = Append(@, now)] ELSE accepted

\* _handleUpgrade
Upgrade ==
    /\ limited = "upgrades"
    /\ upgrades' = Taken(Refilled(upgrades, Limit, Scale))
    /\ kept' = Taken(Refilled(kept, Limit, Scale))
    /\ Lets("upgrade", Allows(Refilled(upgrades, Limit, Scale)))
    /\ UNCHANGED <<limited, now, messages, method, multiplier, lastOverload>>

\* _checkRateLimit for a message without a limit of its own
Message ==
    LET all == Refilled(messages, Limit, multiplier)
    IN /\ limited = "messages"
       /\ messages' = Taken(all)
       /\ Lets("message", Allows(all))
       /\ UNCHANGED <<limited, now, upgrades, kept, method, multiplier, lastOverload>>

\* and for one of the method: the token it takes of all messages is not given back if the
\* method has none.
MethodMessage ==
    LET all == Refilled(messages, Limit, multiplier)
        own == Refilled(method, MethodLimit, multiplier)
    IN /\ limited = "messages"
       /\ messages' = Taken(all)
       /\ method' = IF Allows(all) THEN Taken(own) ELSE method
       /\ IF Allows(all) /\ Allows(own)
            THEN accepted' = [accepted EXCEPT !["message"] = Append(@, now),
                                              !["method"] = Append(@, now)]
            ELSE UNCHANGED accepted
       /\ UNCHANGED <<limited, now, upgrades, kept, multiplier, lastOverload>>

\* Definitions with a suffix, such as this one, are slips a change to the code
\* could make: each of them breaks a property of this module.  Here a bucket is taken to
\* be full again a tick too early.
Idle_TooSoon == now - upgrades.lastRefill >= Window - 1

Idle == now - upgrades.lastRefill > Window

\* _sweepConnectionBuckets
Sweep ==
    /\ upgrades # NoBucket /\ Idle
    /\ upgrades' = NoBucket
    /\ UNCHANGED <<limited, now, kept, messages, method, multiplier, lastOverload, accepted>>

\* AdaptiveLimiter._sample, with the system overloaded or not
Sample(overloaded) ==
    IF overloaded
      THEN /\ lastOverload' = now + 1
           /\ multiplier' = IF multiplier \div 2 > Scale \div 4 THEN multiplier \div 2 ELSE Scale \div 4
      ELSE /\ multiplier' = IF now + 1 - lastOverload > Cooldown THEN Least(Scale, multiplier + 2)
                                                                 ELSE multiplier
           /\ UNCHANGED lastOverload

Tick(overloaded) ==
    /\ now < MaxTime /\ now' = now + 1
    /\ IF limited = "messages" THEN Sample(overloaded) ELSE UNCHANGED <<multiplier, lastOverload>>
    /\ UNCHANGED <<limited, upgrades, kept, messages, method, accepted>>

Next == \/ Upgrade \/ Message \/ MethodMessage \/ Sweep
        \/ \E overloaded \in BOOLEAN : Tick(overloaded)

Spec == Init /\ [][Next]_vars

-----------------------------------------------------------------------------
\* From the i-th acceptance to the j-th there are no more than a full bucket and what the
\* time between refills.
Bounded(times, limit) ==
    \A i, j \in 1 .. Len(times) :
        i <= j => (j - i + 1) * Window <= limit * Window + (times[j] - times[i]) * limit

\* No burst passes more than a full bucket and its refill: not by way of the sweep, by a
\* bucket made anew, or by a multiplier that changes between two refills.  And "eviction
\* is behavior-preserving" (server.ts:1541-1545): the address is let through exactly when
\* it would be had its bucket been kept (server-client.ts:76-122, server.ts:850-890,
\* 1546-1558, adaptive-limiter.ts:77-117).
LimitsHold ==
    /\ TypeOK
    /\ Bounded(accepted["upgrade"], Limit)
    /\ Bounded(accepted["message"], Limit) /\ Bounded(accepted["method"], MethodLimit)
    /\ Refilled(upgrades, Limit, Scale) = Refilled(kept, Limit, Scale)
=============================================================================
