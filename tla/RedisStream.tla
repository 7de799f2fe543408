----------------------------- MODULE RedisStream ------------------------------
(***************************************************************************)
(* The stream of one node in the Redis adapter (adapters/redis/index.ts):  *)
(* what another node publishes on ocpp:node:<id>, over the connections of  *)
(* its pool in turn, is read by a poll loop and handed to the handler of   *)
(* the channel.  The stream is trimmed and expires; the channel may be     *)
(* unsubscribed and subscribed again while a read is under way.            *)
(*                                                                         *)
(* Messages are numbered as they are published.                            *)
(***************************************************************************)
EXTENDS Integers, Sequences, SequencesExt, FiniteSets

CONSTANTS
    MaxPool,        \* bound: connections of the publisher
    MaxLength,      \* streamMaxLen
    MaxMessages,    \* bound: messages
    MaxSubscribes,  \* bound: calls of subscribe that change something
    MaxErrors       \* bound: commands that fail, expiries of the key

VARIABLES
    poolSize,
    wires,          \* XADD commands under way, on each connection
    published,
    stream, lastId, \* in Redis: entries [id, msg], and the id given last
    subscribed,     \* the channel is in _streams and in _handlers
    streamOffset,
    loop,           \* the poll loop
    entries,        \* what its XREAD returned
    shut,           \* _closed
    subscribes, errors,
    heard, missed,  \* history: entries handled, and messages that were lost
    resent          \* history: messages that were added more than once

vars == <<poolSize, wires, published, stream, lastId, subscribed, streamOffset,
          loop, entries, shut, subscribes, errors, heard, missed, resent>>

publisherVars == <<poolSize, published, resent>>
redisVars == <<stream, lastId>>
readerVars == <<subscribed, streamOffset, loop, entries, shut, subscribes, heard>>

Msg == 1 .. MaxMessages
Entry == [id : Nat, msg : Msg]

TypeOK ==
    /\ poolSize \in 1 .. MaxPool
    /\ \A d \in 1 .. MaxPool : \A i \in DOMAIN wires[d] : wires[d][i] \in Msg
    /\ published \in 0 .. MaxMessages
    /\ ToSet(stream) \cup ToSet(entries) \cup ToSet(heard) \subseteq Entry
    /\ lastId \in Nat /\ streamOffset \in 0 .. lastId
    /\ subscribed \in BOOLEAN /\ shut \in BOOLEAN
    /\ loop \in {"off", "idle", "reading", "read"}
    /\ subscribes \in Nat /\ errors \in Nat
    /\ missed \cup resent \subseteq Msg

Init ==
    /\ poolSize \in 1 .. MaxPool
    /\ wires = [d \in 1 .. MaxPool |-> <<>>]
    /\ published = 0
    /\ stream = <<>> /\ lastId = 0
    /\ subscribed = FALSE /\ streamOffset = 0
    /\ loop = "off" /\ entries = <<>>
    /\ shut = FALSE
    /\ subscribes = 0 /\ errors = 0
    /\ heard = <<>> /\ missed = {} /\ resent = {}

-----------------------------------------------------------------------------
(* The publisher, and Redis *)

Msgs(es) == {es[i].msg : i \in DOMAIN es}

\* The entries that follow an id: ids increase along a stream.
After(es, id) ==
    LET later == {i \in DOMAIN es : es[i].id > id}
    IN  IF later = {} THEN <<>> ELSE SubSeq(es, Min(later), Len(es))

\* The messages of these entries that were not consumed, nor read to be.
Unread(es) == Msgs(After(es, streamOffset)) \ Msgs(entries)

\* publish, or publishBatch of several messages.  The connections of the pool take turns,
\* with the broadcasts too: it may be any of them.
Publish(n, d) ==
    /\ published + n <= MaxMessages
    /\ published' = published + n
    /\ wires' = [wires EXCEPT ![d] = @ \o [i \in 1 .. n |-> published + i]]
    /\ UNCHANGED <<poolSize, resent, redisVars, readerVars, errors, missed>>

\* XADD with MAXLEN ~: the oldest entries may go, down to MaxLength.
Executed(d) ==
    /\ wires[d] # <<>>
    /\ wires' = [wires EXCEPT ![d] = Tail(@)]
    /\ lastId' = lastId + 1
    /\ LET all == Append(stream, [id |-> lastId', msg |-> Head(wires[d])])
       IN  \E k \in {0} \cup 1 .. Len(all) - MaxLength :
              /\ stream' = SubSeq(all, k + 1, Len(all))
              /\ missed' = missed \cup Unread(SubSeq(all, 1, k))
    /\ UNCHANGED <<publisherVars, readerVars, errors>>

\* Its connection is lost when n commands were executed and not answered: the Redis
\* client sends them again.
Resent(d) ==
    /\ errors < MaxErrors
    /\ errors' = errors + 1
    /\ \E n \in DOMAIN wires[d] :
          /\ stream' = stream \o [i \in 1 .. n |-> [id |-> lastId + i, msg |-> wires[d][i]]]
          /\ lastId' = lastId + n
          /\ resent' = resent \cup {wires[d][i] : i \in 1 .. n}
    /\ UNCHANGED <<poolSize, published, wires, readerVars, missed>>

\* It does not reach Redis.
Failed(d) ==
    /\ wires[d] # <<>> /\ errors < MaxErrors
    /\ errors' = errors + 1
    /\ wires' = [wires EXCEPT ![d] = Tail(@)]
    /\ missed' = missed \cup {Head(wires[d])}
    /\ UNCHANGED <<publisherVars, redisVars, readerVars>>

\* The lease of a key that no one reads any more, or that is all read, runs out.
Expires ==
    /\ stream # <<>> /\ errors < MaxErrors
    /\ ~subscribed \/ After(stream, streamOffset) = <<>>
    /\ errors' = errors + 1
    /\ stream' = <<>>
    /\ missed' = missed \cup Unread(stream)
    /\ UNCHANGED <<publisherVars, wires, lastId, readerVars>>

-----------------------------------------------------------------------------
(* The reader *)

\* Definitions with a suffix, such as this one, are slips a change to the code
\* could make: each of them breaks a property of this module.

\* every subscription replays what the stream retains
OffsetOf_Start == 0

\* A channel subscribed again resumes after the last entry it consumed.
OffsetOf == streamOffset

\* subscribe: the loop begins with the first stream, unless the adapter was disconnected.
Subscribe ==
    /\ ~subscribed /\ subscribes < MaxSubscribes
    /\ subscribes' = subscribes + 1
    /\ subscribed' = TRUE
    /\ streamOffset' = OffsetOf
    /\ loop' = IF loop = "off" /\ ~shut THEN "idle" ELSE loop
    /\ UNCHANGED <<publisherVars, wires, redisVars, entries, shut, errors, heard, missed>>

Unsubscribe ==
    /\ subscribed
    /\ subscribed' = FALSE
    /\ UNCHANGED <<publisherVars, wires, redisVars, streamOffset, loop, entries, shut, subscribes,
                   errors, heard, missed>>

Disconnect ==
    /\ ~shut
    /\ shut' = TRUE
    /\ subscribed' = FALSE
    /\ UNCHANGED <<publisherVars, wires, redisVars, streamOffset, loop, entries, subscribes, errors,
                   heard, missed>>

\* The next turn of the loop: it ends, or reads the streams of this moment; with none it
\* sleeps.
Turn ==
    /\ loop = "idle"
    /\ IF shut THEN loop' = "off" ELSE subscribed /\ loop' = "reading"
    /\ UNCHANGED <<publisherVars, wires, redisVars, subscribed, streamOffset, entries, shut,
                   subscribes, errors, heard, missed>>

\* XREAD returns what lies after the offset, or nothing after a second.
Read ==
    /\ loop = "reading"
    /\ entries' = After(stream, streamOffset)
    /\ loop' = "read"
    /\ UNCHANGED <<publisherVars, wires, redisVars, subscribed, streamOffset, shut, subscribes,
                   errors, heard, missed>>

ReadFails ==
    /\ loop = "reading" /\ errors < MaxErrors
    /\ errors' = errors + 1
    /\ loop' = "idle"
    /\ UNCHANGED <<publisherVars, wires, redisVars, subscribed, streamOffset, entries, shut,
                   subscribes, heard, missed>>

\* The offset moves over each entry, whether or not a handler is left for it.
Handle ==
    /\ loop = "read"
    /\ loop' = "idle"
    /\ entries' = <<>>
    /\ streamOffset' = IF entries = <<>> THEN streamOffset ELSE Last(entries).id
    /\ IF subscribed
       THEN heard' = heard \o entries /\ UNCHANGED missed
       ELSE missed' = missed \cup Msgs(entries) /\ UNCHANGED heard
    /\ UNCHANGED <<publisherVars, wires, redisVars, subscribed, shut, subscribes, errors>>

-----------------------------------------------------------------------------
Next ==
    \/ \E n \in 1 .. 2, d \in 1 .. poolSize : Publish(n, d)
    \/ \E d \in 1 .. MaxPool : Executed(d) \/ Resent(d) \/ Failed(d)
    \/ Expires
    \/ Subscribe \/ Unsubscribe \/ Disconnect
    \/ Turn \/ Read \/ ReadFails \/ Handle

\* Commands are executed, the loop goes round: its sleeps and blocking reads last a second.
Fairness ==
    /\ \A d \in 1 .. MaxPool : WF_vars(Executed(d))
    /\ WF_vars(Turn) /\ WF_vars(Read) /\ WF_vars(Handle)

Spec == Init /\ [][Next]_vars /\ Fairness

-----------------------------------------------------------------------------
InFlight == UNION {ToSet(wires[d]) : d \in 1 .. MaxPool}

\* Entries are handled at most once and in the order of the stream, over every
\* unsubscription: in the order of publishing where the publisher has one connection and
\* sent no command again.
HeardInOrder ==
    \A i, j \in DOMAIN heard : i < j =>
       /\ heard[i].id < heard[j].id
       /\ poolSize = 1 /\ resent = {} => heard[i].msg < heard[j].msg

\* Each message is under way, unread, heard or lost to an error, a trim, an expiry or an
\* unsubscription: the offset skips none.
Accounted ==
    LET unread == Msgs(After(stream, streamOffset)) \cup Msgs(entries)
    IN  /\ 1 .. published = InFlight \cup unread \cup Msgs(heard) \cup missed
        /\ Msgs(heard) \cap missed \subseteq resent

\* What one node publishes to another is heard once, in order, with no gap but those that
\* errors, trimming and unsubscribing leave (adapters/redis/index.ts:137-154,195-250,282-327).
StreamExact == TypeOK /\ HeardInOrder /\ Accounted

\* While the channel is subscribed nothing stays unread: in the end, for what is begun in
\* the model is finite.
Delivered ==
    subscribed /\ ~shut => InFlight = {} /\ 1 .. published \subseteq Msgs(heard) \cup missed
=============================================================================
