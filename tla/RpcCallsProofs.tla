----------------------------- MODULE RpcCallsProofs -----------------------------
(***************************************************************************)
(* The calls of a client, for any set of calls, any number of retries and  *)
(* any limits: entries, slots, the offline queue and what went out are     *)
(* exact in every reachable state.  What a step does to the call queue is  *)
(* taken from CallQueueProofs, of which this is an instance.               *)
(***************************************************************************)
EXTENDS RpcCalls, FiniteSetTheorems, SequenceTheorems, TLAPS

QP == INSTANCE CallQueueProofs WITH Task <- Attempt, Requested <- Limits,
                                    queue <- waiting, stage <- slot

-----------------------------------------------------------------------------
Distinct(seq) == \A i, j \in 1 .. Len(seq) : seq[i] = seq[j] => i = j

(* What the state other than the queue is made of.                         *)
Links ==
    conn \in {"CLOSED", "CONNECTING", "OPEN", "CLOSING"} /\ link \in {"none", "open", "closing"}

Callers ==
    /\ phase \in [Call -> Phase] /\ tries \in [Call -> 0 .. MaxRetries + 1]
    /\ flushed \subseteq Call /\ immediate \subseteq Call

Messages ==
    /\ buffer \in Seq(Attempt) /\ backlog \in Seq(Attempt) /\ stale \in BOOLEAN
    /\ sent \in [Attempt -> Nat]
    /\ pending \in [Attempt -> Attempt \cup {NoAttempt}] /\ answering \subseteq Attempt
    /\ awaited \subseteq Attempt

(* Where the attempts of a call stand in the queue: only the current one   *)
(* is in it, and only while the call waits; a call that passes by the      *)
(* queue has none there.                                                   *)
SlotsOf(c) ==
    /\ \A n \in 1 .. MaxRetries + 1 :
          /\ c \in immediate \/ n > tries[c] => slot[<<c, n>>] = "new"
          /\ slot[<<c, n>>] \in {"queued", "running"}
                => n = tries[c] /\ phase[c] \in {"queued", "pending"}
    /\ phase[c] \in {"new", "offline"} => tries[c] = 0 /\ c \notin immediate
    /\ phase[c] \in {"queued", "pending", "backoff"} => tries[c] > 0
    /\ phase[c] = "backoff" => tries[c] <= MaxRetries /\ c \notin immediate
    /\ phase[c] = "queued" /\ c \notin immediate => slot[Current(c)] \in {"queued", "running"}
    /\ phase[c] = "pending" /\ c \notin immediate => slot[Current(c)] = "running"

(* An entry is of the current attempt of a call that waits for an answer,  *)
(* and each of them has one, of which a message that is not in the buffer  *)
(* was given to the socket the client still has, unless the late failure   *)
(* of an earlier attempt removed it.                                       *)
EntryAt(id) ==
    pending[id] # NoAttempt =>
        /\ Id(pending[id]) = id
        /\ phase[pending[id][1]] = "pending"
        /\ pending[id] = Current(pending[id][1])

EntryOf(c) ==
    phase[c] = "pending" =>
        \/ /\ pending[Id(Current(c))] = Current(c)
           /\ link # "none" \/ \E i \in 1 .. Len(buffer) : buffer[i] = Current(c)
        \/ Bereft(c)

(* An attempt that is still to be sent is neither in the buffer nor in the *)
(* backpressure queue, and one that is in either is in one and unsent.     *)
ToBeSent(a) == a[2] > tries[a[1]] \/ (a[2] = tries[a[1]] /\ phase[a[1]] = "queued")

Unsent ==
    /\ Distinct(buffer) /\ Distinct(backlog)
    /\ \A i \in 1 .. Len(buffer) : sent[buffer[i]] = 0 /\ ~ ToBeSent(buffer[i])
    /\ \A i \in 1 .. Len(backlog) : sent[backlog[i]] = 0 /\ ~ ToBeSent(backlog[i])
    /\ \A i \in 1 .. Len(buffer), j \in 1 .. Len(backlog) : buffer[i] # backlog[j]
    /\ \A a \in Attempt : sent[a] <= 1 /\ (ToBeSent(a) => sent[a] = 0)

(* The offline queue, without repetitions.                                 *)
Offline ==
    /\ offline \in Seq(Call) /\ Distinct(offline) /\ Len(offline) <= OfflineMax
    /\ \A i \in 1 .. Len(offline) : phase[offline[i]] = "offline"
    /\ \A c \in Call : phase[c] = "offline" => \E i \in 1 .. Len(offline) : offline[i] = c

Slotted == \A c \in Call : SlotsOf(c)
Entered == (\A id \in Attempt : EntryAt(id)) /\ \A c \in Call : EntryOf(c)

IInv ==
    /\ Links /\ Callers /\ Messages
    /\ QP!IInv /\ Slotted /\ Entered /\ Unsent /\ Offline

-----------------------------------------------------------------------------
(* The instance has its own copies of these operators.                     *)
LEMMA SameFinite == ASSUME NEW S PROVE QP!IsFiniteSet(S) <=> IsFiniteSet(S)
  BY DEF QP!IsFiniteSet, IsFiniteSet

LEMMA SameCardinality ==
    ASSUME NEW S PROVE QP!Cardinality(S) = Cardinality(S) /\ Q!Cardinality(S) = Cardinality(S)
  BY DEF QP!Cardinality, Q!Cardinality, Cardinality

LEMMA AttemptsFinite == IsFiniteSet(Attempt) /\ QP!IsFiniteSet(Attempt)
<1>1. IsFiniteSet(1 .. MaxRetries + 1)
  BY MaxRetriesAssumption, FS_Interval
<1>2. IsFiniteSet(Attempt)
  BY <1>1, CallAssumption, FS_Product DEF Attempt
<1> QED
  BY <1>2, SameFinite

LEMMA Attempts ==
    /\ NoAttempt \notin Attempt
    /\ \A c \in Call, n \in 1 .. MaxRetries + 1 :
          <<c, n>> \in Attempt /\ <<c, n>>[1] = c /\ <<c, n>>[2] = n
    /\ \A a \in Attempt : a[1] \in Call /\ a[2] \in 1 .. MaxRetries + 1 /\ a = <<a[1], a[2]>>
  BY DEF Attempt, NoAttempt

LEMMA Ids ==
    \A a \in Attempt : Id(a) \in Attempt /\ Id(a)[1] = a[1]
<1>1. 1 \in 1 .. MaxRetries + 1
  BY MaxRetriesAssumption
<1> QED
  BY <1>1, Attempts DEF Id

(* The current attempt of a call that has been pushed.                     *)
LEMMA CurrentAttempt ==
    ASSUME Callers, NEW c \in Call, tries[c] > 0
    PROVE  /\ Current(c) \in Attempt /\ Current(c)[1] = c /\ Current(c)[2] = tries[c]
           /\ Id(Current(c)) \in Attempt /\ Id(Current(c))[1] = c
<1>1. tries[c] \in 1 .. MaxRetries + 1
  BY MaxRetriesAssumption DEF Callers
<1> QED
  BY <1>1, Attempts, Ids DEF Current

(* What is in a sequence has a place there.                                *)
Holds(seq, a) == \E i \in 1 .. Len(seq) : seq[i] = a

LEMMA InRange ==
    ASSUME NEW seq \in Seq(Attempt), NEW a
    PROVE  a \in Range(seq) <=> Holds(seq, a)
  BY DEF Range, Holds

LEMMA Appended ==
    ASSUME NEW seq \in Seq(Attempt), Distinct(seq), NEW a \in Attempt, ~ Holds(seq, a),
           NEW new, new = Append(seq, a)
    PROVE  /\ new \in Seq(Attempt) /\ Distinct(new) /\ Holds(new, a)
           /\ \A b \in Attempt \ {a} : Holds(new, b) <=> Holds(seq, b)
<1>1. /\ new \in Seq(Attempt) /\ Len(new) = Len(seq) + 1 /\ Len(seq) \in Nat
      /\ new[Len(seq) + 1] = a /\ \A i \in 1 .. Len(seq) : new[i] = seq[i]
  BY AppendProperties
<1>2. /\ \A i \in 1 .. Len(seq) + 1 : i \in 1 .. Len(seq) \/ i = Len(seq) + 1
      /\ Len(seq) + 1 \in 1 .. Len(seq) + 1 /\ \A i \in 1 .. Len(seq) : i \in 1 .. Len(seq) + 1
  BY <1>1
<1> QED
  BY <1>1, <1>2 DEF Holds, Distinct

LEMMA DroppedHeld ==
    ASSUME Messages, NEW a \in Attempt
    PROVE  Dropped(a) <=> sent[a] = 0 /\ ~ Holds(backlog, a) /\ ~ Holds(buffer, a)
  BY InRange DEF Messages, Dropped

-----------------------------------------------------------------------------
(* A queue step moves attempts forward: what waited may run, and nothing   *)
(* else changes.                                                           *)
Forward(from, to) == to = from \/ (from = "queued" /\ to = "running")

Drained(used, slots, seq, stages) ==
    /\ QP!Drainable(running', slots, waiting', slot')
    /\ waiting' # <<>> => running' >= slots
    /\ \A a \in Attempt : Forward(stages[a], slot'[a])

LEMMA DrainMoves ==
    ASSUME NEW used, NEW slots, NEW seq, NEW stages,
           QP!Drainable(used, slots, seq, stages), Q!Drain(used, slots, seq, stages)
    PROVE  Drained(used, slots, seq, stages)
<1>1. QP!Drain(used, slots, seq, stages)
  BY DEF Q!Drain, QP!Drain, Q!Starts, QP!Starts
<1>2. /\ QP!Drainable(running', slots, waiting', slot')
      /\ waiting' # <<>> => running' >= slots
  BY <1>1, AttemptsFinite, LimitsAssumption, QP!DrainStep
<1>3. \A a \in Attempt : Forward(stages[a], slot'[a])
  <2> DEFINE k == QP!Starts(used, slots, seq)
             started == {seq[i] : i \in 1 .. k}
  <2>1. slot' = [a \in Attempt |-> IF a \in started THEN "running" ELSE stages[a]]
    BY <1>1 DEF QP!Drain
  <2>2. k \in 0 .. Len(seq)
    BY DEF QP!Drainable, QP!Starts
  <2>3. \A i \in 1 .. Len(seq) : stages[seq[i]] = "queued"
    BY DEF QP!Drainable, QP!Waiting
  <2> HIDE DEF k
  <2>4. \A a \in started : stages[a] = "queued"
    BY <2>2, <2>3
  <2> HIDE DEF started
  <2> QED
    BY <2>1, <2>4 DEF Forward
<1> QED
  BY <1>2, <1>3 DEF Drained

LEMMA DrainKeepsQueue ==
    ASSUME NEW used, NEW seq, NEW stages,
           Drained(used, concurrency', seq, stages)
    PROVE  QP!IInv' /\ \A a \in Attempt : Forward(stages[a], slot'[a])
  BY DEF Drained, QP!IInv, QP!NoIdleSlot

(* What the four methods of the queue do.                                  *)
LEMMA PushKeeps ==
    ASSUME QP!IInv, NEW a \in Attempt, Q!Push(a)
    PROVE  /\ QP!IInv'
           /\ slot[a] = "new" /\ slot'[a] \in {"queued", "running"}
           /\ \A b \in Attempt \ {a} : Forward(slot[b], slot'[b])
<1> DEFINE stages == [slot EXCEPT ![a] = "queued"]
<1>1. slot[a] = "new" /\ concurrency' = concurrency
  BY DEF Q!Push
<1>2. QP!Drainable(running, concurrency, Append(waiting, a), stages)
  BY <1>1, AttemptsFinite, LimitsAssumption, QP!PushDrainable
<1>3. Q!Drain(running, concurrency, Append(waiting, a), stages)
  BY DEF Q!Push
<1>4. stages[a] = "queued" /\ \A b \in Attempt \ {a} : stages[b] = slot[b]
  BY DEF QP!IInv, QP!Drainable
<1> HIDE DEF stages
<1>5. Drained(running, concurrency', Append(waiting, a), stages)
  BY <1>1, <1>2, <1>3, DrainMoves
<1>6. QP!IInv' /\ \A b \in Attempt : Forward(stages[b], slot'[b])
  BY <1>5, DrainKeepsQueue
<1> QED
  BY <1>1, <1>4, <1>6 DEF Forward

LEMMA ReleaseKeeps ==
    ASSUME QP!IInv, NEW a \in Attempt, Q!Release(a)
    PROVE  /\ QP!IInv'
           /\ slot[a] = "settled" /\ slot'[a] = "done"
           /\ \A b \in Attempt \ {a} : Forward(slot[b], slot'[b])
<1> DEFINE stages == [slot EXCEPT ![a] = "done"]
<1>1. slot[a] = "settled" /\ concurrency' = concurrency
  BY DEF Q!Release
<1>2. QP!Drainable(running - 1, concurrency, waiting, stages)
  BY <1>1, AttemptsFinite, LimitsAssumption, QP!ReleaseDrainable
<1>3. Q!Drain(running - 1, concurrency, waiting, stages)
  BY DEF Q!Release
<1>4. stages[a] = "done" /\ \A b \in Attempt \ {a} : stages[b] = slot[b]
  BY DEF QP!IInv, QP!Drainable
<1> HIDE DEF stages
<1>5. Drained(running - 1, concurrency', waiting, stages)
  BY <1>1, <1>2, <1>3, DrainMoves
<1>6. QP!IInv' /\ \A b \in Attempt : Forward(stages[b], slot'[b])
  BY <1>5, DrainKeepsQueue
<1> QED
  BY <1>1, <1>4, <1>6 DEF Forward

LEMMA SetConcurrencyKeeps ==
    ASSUME QP!IInv, NEW n \in Limits, Q!SetConcurrency(n)
    PROVE  QP!IInv' /\ \A b \in Attempt : Forward(slot[b], slot'[b])
<1>1. concurrency' = QP!Clamp(n) /\ Q!Drain(running, QP!Clamp(n), waiting, slot)
  BY DEF Q!SetConcurrency, Q!Clamp, QP!Clamp
<1>2. QP!Drainable(running, QP!Clamp(n), waiting, slot)
  BY AttemptsFinite, LimitsAssumption, QP!SetConcurrencyDrainable
<1>3. Drained(running, QP!Clamp(n), waiting, slot)
  BY <1>1, <1>2, DrainMoves
<1> QED
  BY <1>1, <1>3, DrainKeepsQueue

(* Any number of running attempts settle.                                  *)
LEMMA SettleKeeps ==
    ASSUME QP!IInv, NEW A \in SUBSET Attempt, \A a \in A : slot[a] = "running",
           slot' = [a \in Attempt |-> IF a \in A THEN "settled" ELSE slot[a]],
           UNCHANGED <<concurrency, running, waiting>>
    PROVE  QP!IInv'
<1>1. slot \in [Attempt -> QP!Stage] /\ slot' \in [Attempt -> QP!Stage]
  BY DEF QP!IInv, QP!Drainable, QP!Stage
<1>2. QP!Waiting(slot') = QP!Waiting(slot) /\ QP!Busy(slot') = QP!Busy(slot)
  BY DEF QP!Waiting, QP!Busy
<1> QED
  BY <1>1, <1>2 DEF QP!IInv, QP!Drainable, QP!NoIdleSlot

LEMMA SettleOne ==
    ASSUME QP!IInv, NEW a \in Attempt, Q!Settle(a)
    PROVE  /\ QP!IInv'
           /\ slot[a] = "running" /\ slot'[a] = "settled"
           /\ \A b \in Attempt \ {a} : slot'[b] = slot[b]
<1>1. /\ slot[a] = "running" /\ slot' = [slot EXCEPT ![a] = "settled"]
      /\ UNCHANGED <<concurrency, running, waiting>>
  BY DEF Q!Settle
<1>2. slot \in [Attempt -> QP!Stage]
  BY DEF QP!IInv, QP!Drainable
<1>3. /\ slot' = [b \in Attempt |-> IF b \in {a} THEN "settled" ELSE slot[b]]
      /\ slot'[a] = "settled" /\ \A b \in Attempt \ {a} : slot'[b] = slot[b]
  BY <1>1, <1>2
<1>4. {a} \in SUBSET Attempt /\ \A b \in {a} : slot[b] = "running"
  BY <1>1
<1>5. QP!IInv'
  BY <1>1, <1>3, <1>4, SettleKeeps
<1> QED
  BY <1>1, <1>3, <1>5

LEMMA QueueRests == ASSUME QP!IInv, UNCHANGED queueVars PROVE QP!IInv'
  BY DEF queueVars, QP!IInv, QP!Drainable, QP!Distinct, QP!Waiting, QP!Busy, QP!NoIdleSlot

-----------------------------------------------------------------------------
(* Parts of the invariant that a step may leave alone.                     *)
Same(c) ==
    /\ phase'[c] = phase[c] /\ tries'[c] = tries[c]
    /\ c \in immediate' <=> c \in immediate

LEMMA SlotsGoOn ==
    ASSUME Callers, NEW c \in Call, SlotsOf(c), Same(c),
           \A n \in 1 .. MaxRetries + 1 : Forward(slot[<<c, n>>], slot'[<<c, n>>])
    PROVE  SlotsOf(c)'
<1>1. tries[c] > 0 => tries[c] \in 1 .. MaxRetries + 1
  BY MaxRetriesAssumption DEF Callers
<1>2. \A n \in 1 .. MaxRetries + 1 :
          /\ c \in immediate' \/ n > tries'[c] => slot'[<<c, n>>] = "new"
          /\ slot'[<<c, n>>] \in {"queued", "running"}
                => n = tries'[c] /\ phase'[c] \in {"queued", "pending"}
  BY DEF SlotsOf, Same, Forward
<1>3. phase'[c] = "queued" /\ c \notin immediate' => slot'[Current(c)'] \in {"queued", "running"}
  BY <1>1 DEF SlotsOf, Same, Forward, Current
<1>4. phase'[c] = "pending" /\ c \notin immediate' => slot'[Current(c)'] = "running"
  BY <1>1 DEF SlotsOf, Same, Forward, Current
<1>5. /\ phase'[c] \in {"new", "offline"} => tries'[c] = 0 /\ c \notin immediate'
      /\ phase'[c] \in {"queued", "pending", "backoff"} => tries'[c] > 0
      /\ phase'[c] = "backoff" => tries'[c] <= MaxRetries /\ c \notin immediate'
  BY DEF SlotsOf, Same
<1> QED
  BY <1>2, <1>3, <1>4, <1>5 DEF SlotsOf

(* A step of one call c that leaves every entry alone: the calls that wait *)
(* for an answer go on waiting for the same attempt.                       *)
LEMMA EntriesRest ==
    ASSUME Entered, Callers, UNCHANGED pending,
           \A d \in Call : phase'[d] = "pending" <=> phase[d] = "pending",
           \A d \in Call : phase[d] = "pending" => tries'[d] = tries[d],
           link' = link \/ link' # "none",
           UNCHANGED <<buffer, backlog, stale, sent>>, Messages
    PROVE  Entered'
<1>1. ASSUME NEW id \in Attempt PROVE EntryAt(id)'
  <2>1. CASE pending[id] # NoAttempt
    <3>1. pending[id] \in Attempt /\ pending[id][1] \in Call
      BY <2>1, Attempts DEF Messages
    <3> QED
      BY <2>1, <3>1 DEF Entered, EntryAt, Current
  <2> QED
    BY <2>1 DEF EntryAt
<1>2. ASSUME NEW c \in Call, phase'[c] = "pending" PROVE EntryOf(c)'
  <2>1. phase[c] = "pending" /\ tries'[c] = tries[c] /\ Current(c)' = Current(c)
    BY <1>2 DEF Current
  <2>2. Bereft(c)' <=> Bereft(c)
    BY <2>1 DEF Bereft, Dropped
  <2> QED
    BY <2>1, <2>2 DEF Entered, EntryOf, Id
<1> QED
  BY <1>1, <1>2 DEF Entered, EntryOf

(* Nothing is sent or buffered, and no more is to be sent than before.     *)
LEMMA UnsentRests ==
    ASSUME Unsent, Messages, UNCHANGED <<buffer, backlog, sent>>,
           \A a \in Attempt : ToBeSent(a)' => ToBeSent(a)
    PROVE  Unsent'
<1>1. /\ \A i \in 1 .. Len(buffer) : buffer[i] \in Attempt
      /\ \A i \in 1 .. Len(backlog) : backlog[i] \in Attempt
  BY DEF Messages
<1>2. \A i \in 1 .. Len(buffer) : ~ ToBeSent(buffer[i])'
  BY <1>1 DEF Unsent
<1>3. \A i \in 1 .. Len(backlog) : ~ ToBeSent(backlog[i])'
  BY <1>1 DEF Unsent
<1> QED
  BY <1>2, <1>3 DEF Unsent, Distinct

LEMMA OfflineRests ==
    ASSUME Offline, UNCHANGED offline,
           \A c \in Call : phase'[c] = "offline" <=> phase[c] = "offline"
    PROVE  Offline'
<1>1. \A i \in 1 .. Len(offline) : offline[i] \in Call
  BY DEF Offline
<1> QED
  BY <1>1 DEF Offline, Distinct

-----------------------------------------------------------------------------
(* A call that is dropped before it was pushed.                            *)
LEMMA DroppedSlots ==
    ASSUME Callers, NEW c \in Call, SlotsOf(c), phase[c] \in {"new", "offline"},
           phase'[c] \in {"failed", "offline"}, tries'[c] = tries[c],
           c \in immediate' <=> c \in immediate,
           \A n \in 1 .. MaxRetries + 1 : slot'[<<c, n>>] = slot[<<c, n>>]
    PROVE  SlotsOf(c)'
  BY DEF SlotsOf

LEMMA CallRejectedKeeps == ASSUME IInv, NEW c \in Call, CallRejected(c) PROVE IInv'
<1>1. /\ phase[c] = "new" /\ phase' = [phase EXCEPT ![c] = "failed"]
      /\ UNCHANGED <<conn, link, concurrency, running, waiting, slot, tries, flushed, immediate,
                     offline, buffer, backlog, stale, pending, answering, sent, awaited>>
  BY DEF CallRejected, connVars, queueVars, wireVars
<1>2. phase'[c] = "failed" /\ \A d \in Call \ {c} : phase'[d] = phase[d]
  BY <1>1 DEF IInv, Callers
<1>3. Links' /\ Callers' /\ Messages'
  BY <1>1 DEF IInv, Links, Callers, Messages, Phase
<1>4. QP!IInv'
  BY <1>1, QueueRests DEF IInv, queueVars
<1>5. Slotted'
  <2>1. SlotsOf(c)'
    BY <1>1, <1>2, DroppedSlots DEF IInv, Slotted
  <2>2. \A d \in Call \ {c} : SlotsOf(d)'
    BY <1>1, <1>2, SlotsGoOn DEF IInv, Slotted, Same, Forward
  <2> QED
    BY <2>1, <2>2 DEF Slotted
<1>6. Entered'
  BY <1>1, <1>2, EntriesRest DEF IInv
<1>7. Unsent'
  <2>1. \A a \in Attempt : ToBeSent(a)' => ToBeSent(a)
    BY <1>1, <1>2, Attempts DEF ToBeSent
  <2> QED
    BY <1>1, <2>1, UnsentRests DEF IInv
<1>8. Offline'
  BY <1>1, <1>2, OfflineRests DEF IInv
<1> QED
  BY <1>3, <1>4, <1>5, <1>6, <1>7, <1>8 DEF IInv

LEMMA CallOfflineKeeps == ASSUME IInv, NEW c \in Call, CallOffline(c) PROVE IInv'
<1> DEFINE full == Len(offline) >= OfflineMax
           h == Head(offline)
<1>1. /\ phase[c] = "new"
      /\ UNCHANGED <<conn, link, concurrency, running, waiting, slot, tries, flushed, immediate,
                     buffer, backlog, stale, pending, answering, sent, awaited>>
  BY DEF CallOffline, connVars, queueVars, wireVars
<1>2. /\ OfflineMax \in Nat /\ OfflineMax > 0
      /\ offline \in Seq(Call) /\ Len(offline) \in Nat /\ Len(offline) <= OfflineMax
      /\ \A i \in 1 .. Len(offline) : offline[i] \in Call /\ phase[offline[i]] = "offline"
      /\ \A d \in Call : phase[d] = "offline" => \E i \in 1 .. Len(offline) : offline[i] = d
      /\ \A i, j \in 1 .. Len(offline) : offline[i] = offline[j] => i = j
  BY OfflineAssumption DEF IInv, Offline, Distinct
<1>3. full => offline # <<>> /\ h = offline[1] /\ 1 \in 1 .. Len(offline) /\ h \in Call
  BY <1>2
<1>4. /\ phase' \in [Call -> Phase] /\ phase'[c] = "offline"
      /\ \A d \in Call \ {c} : phase'[d] = IF full /\ d = h THEN "failed" ELSE phase[d]
  <2>1. CASE full
    <3>1. phase' = [phase EXCEPT ![c] = "offline", ![h] = "failed"]
      BY <2>1 DEF CallOffline
    <3>2. h # c
      BY <1>1, <1>2, <1>3, <2>1
    <3> HIDE DEF full, h
    <3> QED
      BY <1>3, <2>1, <3>1, <3>2 DEF IInv, Callers, Phase
  <2>2. CASE ~ full
    <3>1. phase' = [phase EXCEPT ![c] = "offline"]
      BY <2>2 DEF CallOffline
    <3> HIDE DEF full, h
    <3> QED
      BY <2>2, <3>1 DEF IInv, Callers, Phase
  <2> QED
    BY <2>1, <2>2
<1>5. Offline'
  <2>1. CASE full
    <3> DEFINE n == Len(offline)
               rest == Tail(offline)
    <3>1. offline' = Append(rest, c)
      BY <2>1 DEF CallOffline
    <3>2. /\ rest \in Seq(Call) /\ Len(rest) = n - 1
          /\ \A i \in 1 .. n - 1 : rest[i] = offline[i + 1]
      BY <1>2, <1>3, <2>1, HeadTailProperties
    <3> HIDE DEF rest
    <3>3. /\ offline' \in Seq(Call) /\ Len(offline') = n /\ offline'[n] = c
          /\ \A i \in 1 .. n - 1 : offline'[i] = offline[i + 1]
      <4>1. n - 1 + 1 = n
        BY <1>2
      <4> QED
        BY <1>2, <3>1, <3>2, <4>1, AppendProperties
    <3>4. n \in Nat /\ n > 0 /\ \A i \in 1 .. n : i = n \/ (i \in 1 .. n - 1 /\ i + 1 \in 1 .. n)
      BY <1>2, <1>3, <2>1
    <3>5. \A i \in 1 .. n : offline[i] # c
      BY <1>1, <1>2
    <3>6. \A d \in Call \ {c} : phase'[d] = "offline" => \E i \in 1 .. n : offline'[i] = d
      <4> SUFFICES ASSUME NEW d \in Call \ {c}, phase'[d] = "offline"
                   PROVE  \E i \in 1 .. n : offline'[i] = d
        OBVIOUS
      <4>1. d # h /\ phase[d] = "offline"
        BY <1>4, <2>1
      <4>2. PICK i \in 1 .. n : offline[i] = d
        BY <1>2, <4>1
      <4>3. i # 1
        BY <1>3, <2>1, <4>1, <4>2
      <4>4. i - 1 \in 1 .. n - 1 /\ i - 1 \in 1 .. n /\ (i - 1) + 1 = i
        BY <3>4, <4>3
      <4> QED
        BY <3>3, <4>2, <4>4
    <3>7. Distinct(offline')
      <4> SUFFICES ASSUME NEW i \in 1 .. n, NEW j \in 1 .. n, offline'[i] = offline'[j]
                   PROVE  i = j
        BY <3>3 DEF Distinct
      <4>1. CASE i = n \/ j = n
        BY <3>3, <3>4, <3>5, <4>1
      <4>2. CASE i \in 1 .. n - 1 /\ j \in 1 .. n - 1
        <5>1. offline[i + 1] = offline[j + 1] /\ i + 1 \in 1 .. n /\ j + 1 \in 1 .. n
          BY <3>3, <3>4, <4>2
        <5> QED
          BY <1>2, <5>1
      <4> QED
        BY <3>4, <4>1, <4>2
    <3>8. \A i \in 1 .. n : phase'[offline'[i]] = "offline"
      <4> TAKE i \in 1 .. n
      <4>1. CASE i = n
        BY <1>4, <3>3, <4>1
      <4>2. CASE i \in 1 .. n - 1 /\ i + 1 \in 1 .. n
        <5>1. offline[i + 1] # h
          BY <1>2, <1>3, <2>1, <4>2
        <5> QED
          BY <1>2, <1>4, <3>3, <3>5, <4>2, <5>1
      <4> QED
        BY <3>4, <4>1, <4>2
    <3> QED
      BY <1>2, <3>3, <3>4, <3>6, <3>7, <3>8 DEF Offline
  <2>2. CASE ~ full
    <3> DEFINE n == Len(offline)
    <3>1. offline' = Append(offline, c)
      BY <2>2 DEF CallOffline
    <3>2. /\ offline' \in Seq(Call) /\ Len(offline') = n + 1 /\ offline'[n + 1] = c
          /\ \A i \in 1 .. n : offline'[i] = offline[i]
      BY <1>2, <3>1, AppendProperties
    <3>3. \A i \in 1 .. n + 1 : i = n + 1 \/ i \in 1 .. n
      BY <1>2
    <3>4. \A i \in 1 .. n : offline[i] # c
      BY <1>1, <1>2
    <3>5. n \in Nat /\ n + 1 <= OfflineMax /\ n + 1 \in 1 .. n + 1 /\ \A i \in 1 .. n : i \in 1 .. n + 1
      BY <1>2, <2>2
    <3>6. /\ \A i \in 1 .. n + 1 : phase'[offline'[i]] = "offline"
          /\ \A d \in Call : phase'[d] = "offline" => \E i \in 1 .. n + 1 : offline'[i] = d
      BY <1>2, <1>4, <2>2, <3>2, <3>3, <3>4, <3>5
    <3>7. \A i, j \in 1 .. n + 1 : offline'[i] = offline'[j] => i = j
      BY <1>2, <3>2, <3>3, <3>4
    <3> QED
      BY <3>2, <3>5, <3>6, <3>7 DEF Offline, Distinct
  <2> QED
    BY <2>1, <2>2
<1>6. Links' /\ Callers' /\ Messages'
  BY <1>1, <1>4 DEF IInv, Links, Callers, Messages
<1>7. QP!IInv'
  BY <1>1, QueueRests DEF IInv, queueVars
<1> HIDE DEF full, h
<1>8. Slotted'
  <2>1. ASSUME NEW d \in Call, d = c \/ (full /\ d = h) PROVE SlotsOf(d)'
    <3>1. phase[d] \in {"new", "offline"} /\ phase'[d] \in {"failed", "offline"}
      BY <1>1, <1>2, <1>3, <1>4, <2>1
    <3> QED
      BY <1>1, <3>1, DroppedSlots DEF IInv, Slotted
  <2>2. ASSUME NEW d \in Call, d # c, ~ (full /\ d = h) PROVE SlotsOf(d)'
    BY <1>1, <1>4, <2>2, SlotsGoOn DEF IInv, Slotted, Same, Forward
  <2> QED
    BY <2>1, <2>2 DEF Slotted
<1>9. \A d \in Call : /\ phase'[d] = "pending" <=> phase[d] = "pending"
                      /\ phase'[d] = "queued" <=> phase[d] = "queued"
  BY <1>1, <1>2, <1>3, <1>4
<1>10. Entered'
  BY <1>1, <1>9, EntriesRest DEF IInv
<1>11. Unsent'
  <2>1. \A a \in Attempt : ToBeSent(a)' => ToBeSent(a)
    BY <1>1, <1>9, Attempts DEF ToBeSent
  <2> QED
    BY <1>1, <2>1, UnsentRests DEF IInv
<1> QED
  BY <1>5, <1>6, <1>7, <1>8, <1>10, <1>11 DEF IInv

-----------------------------------------------------------------------------
(* The next attempt of a call that is in the queue no more.                *)
LEMMA PushAttemptKeeps ==
    ASSUME IInv, NEW c \in Call, phase[c] \in {"new", "backoff"},
           NEW n, n = tries[c] + 1, PushAttempt(c, n)
    PROVE  IInv'
<1>1. Links /\ Callers /\ Messages /\ QP!IInv /\ Slotted /\ Entered /\ Unsent /\ Offline
  BY DEF IInv
<1>2. SlotsOf(c) /\ c \notin immediate /\ tries[c] \in Nat /\ tries[c] <= MaxRetries
  BY <1>1, MaxRetriesAssumption DEF Slotted, SlotsOf, Callers
<1>3. n \in 1 .. MaxRetries + 1 /\ <<c, n>> \in Attempt
  BY <1>2, MaxRetriesAssumption, Attempts
<1>4. /\ Q!Push(<<c, n>>)
      /\ tries' = [tries EXCEPT ![c] = n] /\ phase' = [phase EXCEPT ![c] = "queued"]
      /\ UNCHANGED <<conn, link, flushed, immediate, offline, buffer, backlog, stale, pending, answering, sent,
                     awaited>>
  BY DEF PushAttempt, connVars, wireVars
<1>5. /\ QP!IInv' /\ slot'[<<c, n>>] \in {"queued", "running"}
      /\ \A b \in Attempt \ {<<c, n>>} : Forward(slot[b], slot'[b])
  BY <1>1, <1>3, <1>4, PushKeeps
<1>6. /\ phase'[c] = "queued" /\ \A d \in Call \ {c} : phase'[d] = phase[d]
      /\ tries'[c] = n /\ \A d \in Call \ {c} : tries'[d] = tries[d]
  BY <1>1, <1>4 DEF Callers
<1>7. Links' /\ Callers' /\ Messages'
  <2>1. tries' \in [Call -> 0 .. MaxRetries + 1]
    BY <1>1, <1>3, <1>4, MaxRetriesAssumption DEF Callers
  <2> QED
    BY <1>1, <1>4, <2>1 DEF Links, Callers, Messages, Phase
<1>8. Slotted'
  <2>1. SlotsOf(c)'
    <3>1. ASSUME NEW m \in 1 .. MaxRetries + 1, m # n
          PROVE  slot'[<<c, m>>] = slot[<<c, m>>] /\ slot[<<c, m>>] \notin {"queued", "running"}
      <4>1. <<c, m>> \in Attempt \ {<<c, n>>}
        BY <3>1, Attempts
      <4>2. slot[<<c, m>>] \notin {"queued", "running"}
        BY <1>2 DEF SlotsOf
      <4> QED
        BY <1>5, <4>1, <4>2 DEF Forward
    <3>2. \A m \in 1 .. MaxRetries + 1 : m > n => slot'[<<c, m>>] = "new"
      BY <1>2, <3>1 DEF SlotsOf
    <3>3. n > 0
      BY <1>3
    <3> QED
      BY <1>2, <1>4, <1>5, <1>6, <3>1, <3>2, <3>3 DEF SlotsOf, Current
  <2>2. ASSUME NEW d \in Call \ {c} PROVE SlotsOf(d)'
    <3>1. \A m \in 1 .. MaxRetries + 1 : <<d, m>> \in Attempt \ {<<c, n>>}
      BY Attempts
    <3> QED
      BY <1>1, <1>4, <1>5, <1>6, <3>1, SlotsGoOn DEF Slotted, Same
  <2> QED
    BY <2>1, <2>2 DEF Slotted
<1>9. Entered'
  BY <1>1, <1>4, <1>6, EntriesRest
<1>10. Unsent'
  <2>1. ASSUME NEW a \in Attempt, ToBeSent(a)' PROVE ToBeSent(a)
    <3>1. a[1] \in Call /\ a[2] \in Nat
      BY Attempts, MaxRetriesAssumption
    <3>2. CASE a[1] = c
      BY <1>2, <1>6, <2>1, <3>1, <3>2 DEF ToBeSent
    <3>3. CASE a[1] # c
      BY <1>6, <2>1, <3>1, <3>3 DEF ToBeSent
    <3> QED
      BY <3>2, <3>3
  <2> QED
    BY <1>1, <1>4, <2>1, UnsentRests
<1>11. Offline'
  BY <1>1, <1>4, <1>6, OfflineRests
<1> QED
  BY <1>5, <1>7, <1>8, <1>9, <1>10, <1>11 DEF IInv

LEMMA CallOnlineKeeps == ASSUME IInv, NEW c \in Call, CallOnline(c) PROVE IInv'
<1>1. phase[c] = "new" /\ PushAttempt(c, 1)
  BY DEF CallOnline
<1>2. 1 = tries[c] + 1
  BY <1>1 DEF IInv, Slotted, SlotsOf
<1> QED
  BY <1>1, <1>2, PushAttemptKeeps

LEMMA BackoffEndsKeeps == ASSUME IInv, NEW c \in Call, BackoffEnds(c) PROVE IInv'
<1>1. phase[c] = "backoff" /\ PushAttempt(c, tries[c] + 1)
  BY DEF BackoffEnds
<1> QED
  BY <1>1, PushAttemptKeeps

LEMMA CallImmediateKeeps == ASSUME IInv, NEW c \in Call, CallImmediate(c) PROVE IInv'
<1>1. Links /\ Callers /\ Messages /\ QP!IInv /\ Slotted /\ Entered /\ Unsent /\ Offline
  BY DEF IInv
<1>2. /\ phase[c] = "new"
      /\ UNCHANGED <<conn, link, concurrency, running, waiting, slot, flushed, offline, buffer, backlog,
                     stale, pending, answering, sent, awaited>>
  BY DEF CallImmediate, connVars, queueVars, wireVars
<1>3. SlotsOf(c) /\ c \notin immediate /\ tries[c] = 0
  BY <1>1, <1>2 DEF Slotted, SlotsOf
<1>4. PICK to \in {"queued", "failed"} :
        /\ phase' = [phase EXCEPT ![c] = to]
        /\ tries' = IF to = "queued" THEN [tries EXCEPT ![c] = 1] ELSE tries
        /\ immediate' = IF to = "queued" THEN immediate \cup {c} ELSE immediate
  BY DEF CallImmediate
<1>5. /\ phase'[c] = to /\ \A d \in Call \ {c} : phase'[d] = phase[d]
      /\ tries'[c] = (IF to = "queued" THEN 1 ELSE 0)
      /\ \A d \in Call \ {c} : tries'[d] = tries[d] /\ (d \in immediate' <=> d \in immediate)
      /\ c \in immediate' <=> to = "queued"
  BY <1>1, <1>3, <1>4 DEF Callers
<1>6. Links' /\ Callers' /\ Messages'
  <2>1. tries' \in [Call -> 0 .. MaxRetries + 1]
    BY <1>1, <1>4, MaxRetriesAssumption DEF Callers
  <2> QED
    BY <1>1, <1>2, <1>4, <2>1 DEF Links, Callers, Messages, Phase
<1>7. QP!IInv'
  BY <1>1, <1>2, QueueRests DEF queueVars
<1>8. Slotted'
  <2>1. \A n \in 1 .. MaxRetries + 1 : slot'[<<c, n>>] = "new"
    BY <1>2, <1>3 DEF SlotsOf
  <2>2. SlotsOf(c)'
    BY <1>5, <2>1 DEF SlotsOf
  <2>3. \A d \in Call \ {c} : SlotsOf(d)'
    BY <1>1, <1>2, <1>5, SlotsGoOn DEF Slotted, Same, Forward
  <2> QED
    BY <2>2, <2>3 DEF Slotted
<1>9. Entered'
  BY <1>1, <1>2, <1>5, EntriesRest
<1>10. Unsent'
  <2>1. ASSUME NEW a \in Attempt, ToBeSent(a)' PROVE ToBeSent(a)
    <3>1. a[1] \in Call /\ a[2] \in Nat /\ a[2] > 0
      BY Attempts, MaxRetriesAssumption
    <3>2. CASE a[1] = c
      BY <1>3, <3>1, <3>2 DEF ToBeSent
    <3>3. CASE a[1] # c
      BY <1>5, <2>1, <3>1, <3>3 DEF ToBeSent
    <3> QED
      BY <3>2, <3>3
  <2> QED
    BY <1>1, <1>2, <2>1, UnsentRests
<1>11. Offline'
  BY <1>1, <1>2, <1>5, OfflineRests
<1> QED
  BY <1>6, <1>7, <1>8, <1>9, <1>10, <1>11 DEF IInv

(* An attempt that is ready is registered, and sent or put into one of the *)
(* two queues.                                                             *)
LEMMA RegisterKeeps ==
    ASSUME IInv, NEW c \in Call, Ready(c), Register(c), UNCHANGED stale,
           \/ link = "open" /\ sent' = [sent EXCEPT ![Current(c)] = @ + 1] /\ UNCHANGED <<buffer, backlog>>
           \/ link = "open" /\ backlog' = Append(backlog, Current(c)) /\ UNCHANGED <<buffer, sent>>
           \/ buffer' = Append(buffer, Current(c)) /\ UNCHANGED <<backlog, sent>>
    PROVE  IInv'
<1> DEFINE a == Current(c)
<1>1. Links /\ Callers /\ Messages /\ QP!IInv /\ Slotted /\ Entered /\ Unsent /\ Offline
  BY DEF IInv
<1>2. /\ phase[c] = "queued" /\ (slot[a] = "running" \/ c \in immediate)
      /\ pending' = [pending EXCEPT ![Id(a)] = a] /\ phase' = [phase EXCEPT ![c] = "pending"]
      /\ UNCHANGED <<conn, link, concurrency, running, waiting, slot, tries, flushed, immediate,
                     offline, stale, answering, awaited>>
  BY DEF Ready, Register, connVars, queueVars
<1>3. /\ tries[c] > 0 /\ a \in Attempt /\ a[1] = c /\ a[2] = tries[c]
      /\ Id(a) \in Attempt /\ Id(a)[1] = c
  <2>1. tries[c] > 0
    BY <1>1, <1>2 DEF Slotted, SlotsOf
  <2> QED
    BY <1>1, <2>1, CurrentAttempt
<1>4. /\ phase'[c] = "pending" /\ \A d \in Call \ {c} : phase'[d] = phase[d]
      /\ pending'[Id(a)] = a /\ \A id \in Attempt \ {Id(a)} : pending'[id] = pending[id]
      /\ Current(c)' = a /\ \A d \in Call : Current(d)' = Current(d)
  BY <1>1, <1>2, <1>3 DEF Callers, Messages, Current
<1>5. ToBeSent(a) /\ sent[a] = 0 /\ ~ Holds(buffer, a) /\ ~ Holds(backlog, a)
  BY <1>1, <1>2, <1>3 DEF ToBeSent, Unsent, Holds
<1>6. /\ buffer' \in Seq(Attempt) /\ backlog' \in Seq(Attempt) /\ sent' \in [Attempt -> Nat]
      /\ Distinct(buffer') /\ Distinct(backlog')
      /\ \A b \in Attempt \ {a} : /\ Holds(buffer', b) <=> Holds(buffer, b)
                                  /\ Holds(backlog', b) <=> Holds(backlog, b)
                                  /\ sent'[b] = sent[b]
      /\ sent'[a] <= 1 /\ (link = "open" \/ Holds(buffer', a))
      /\ Holds(buffer', a) => sent'[a] = 0 /\ ~ Holds(backlog', a)
      /\ Holds(backlog', a) => sent'[a] = 0
  <2>0. \/ link = "open" /\ sent' = [sent EXCEPT ![a] = @ + 1] /\ buffer' = buffer /\ backlog' = backlog
        \/ link = "open" /\ backlog' = Append(backlog, a) /\ buffer' = buffer /\ sent' = sent
        \/ buffer' = Append(buffer, a) /\ backlog' = backlog /\ sent' = sent
    OBVIOUS
  <2> HIDE DEF a
  <2>1. /\ buffer \in Seq(Attempt) /\ backlog \in Seq(Attempt) /\ sent \in [Attempt -> Nat]
        /\ Distinct(buffer) /\ Distinct(backlog)
    BY <1>1 DEF Messages, Unsent
  <2>2. CASE /\ link = "open" /\ sent' = [sent EXCEPT ![a] = @ + 1]
             /\ buffer' = buffer /\ backlog' = backlog
    BY <1>3, <1>5, <2>1, <2>2
  <2>3. CASE link = "open" /\ backlog' = Append(backlog, a) /\ buffer' = buffer /\ sent' = sent
    <3>1. /\ backlog' \in Seq(Attempt) /\ Distinct(backlog')
          /\ \A b \in Attempt \ {a} : Holds(backlog', b) <=> Holds(backlog, b)
      BY <1>3, <1>5, <2>1, <2>3, Appended
    <3>2. \A b : Holds(buffer', b) <=> Holds(buffer, b)
      BY <2>3
    <3> QED
      BY <1>5, <2>1, <2>3, <3>1, <3>2
  <2>4. CASE buffer' = Append(buffer, a) /\ backlog' = backlog /\ sent' = sent
    <3>1. /\ buffer' \in Seq(Attempt) /\ Distinct(buffer') /\ Holds(buffer', a)
          /\ \A b \in Attempt \ {a} : Holds(buffer', b) <=> Holds(buffer, b)
      BY <1>3, <1>5, <2>1, <2>4, Appended
    <3>2. \A b : Holds(backlog', b) <=> Holds(backlog, b)
      BY <2>4
    <3> QED
      BY <1>5, <2>1, <2>4, <3>1, <3>2
  <2> QED
    BY <2>0, <2>2, <2>3, <2>4
<1> HIDE DEF a
<1>7. Links' /\ Callers' /\ Messages'
  BY <1>1, <1>2, <1>3, <1>6 DEF Links, Callers, Messages, Phase
<1>8. QP!IInv'
  BY <1>1, <1>2, QueueRests DEF queueVars
<1>9. Slotted'
  <2>1. SlotsOf(c)'
    BY <1>1, <1>2, <1>3, <1>4 DEF Slotted, SlotsOf, a
  <2>2. \A d \in Call \ {c} : SlotsOf(d)'
    BY <1>1, <1>2, <1>4, SlotsGoOn DEF Slotted, Same, Forward
  <2> QED
    BY <2>1, <2>2 DEF Slotted
<1>10. \A b \in Attempt : ToBeSent(b)' <=> ToBeSent(b) /\ b # a
  <2> TAKE b \in Attempt
  <2>1. b[1] \in Call /\ b = <<b[1], b[2]>> /\ a = <<c, tries[c]>> /\ b[2] \in Nat /\ tries[c] \in Nat
    BY <1>1, <1>3, Attempts, MaxRetriesAssumption DEF Callers, a, Current
  <2>2. CASE b[1] = c
    BY <1>2, <1>4, <2>1, <2>2 DEF ToBeSent
  <2>3. CASE b[1] # c
    BY <1>2, <1>3, <1>4, <2>1, <2>3 DEF ToBeSent
  <2> QED
    BY <2>2, <2>3
<1>11. Unsent'
  <2>1. ASSUME NEW b \in Attempt
        PROVE  /\ Holds(buffer, b) => sent[b] = 0 /\ ~ ToBeSent(b) /\ ~ Holds(backlog, b)
               /\ Holds(backlog, b) => sent[b] = 0 /\ ~ ToBeSent(b)
               /\ sent[b] <= 1 /\ (ToBeSent(b) => sent[b] = 0)
    BY <1>1 DEF Unsent, Holds
  <2>2. ASSUME NEW b \in Attempt
        PROVE  /\ Holds(buffer', b) => sent'[b] = 0 /\ ~ ToBeSent(b)' /\ ~ Holds(backlog', b)
               /\ Holds(backlog', b) => sent'[b] = 0 /\ ~ ToBeSent(b)'
               /\ sent'[b] <= 1 /\ (ToBeSent(b)' => sent'[b] = 0)
    BY <1>6, <1>10, <2>1
  <2>3. /\ \A i \in 1 .. Len(buffer') : buffer'[i] \in Attempt /\ Holds(buffer', buffer'[i])
        /\ \A i \in 1 .. Len(backlog') : backlog'[i] \in Attempt /\ Holds(backlog', backlog'[i])
    BY <1>6 DEF Holds
  <2>4. \A i \in 1 .. Len(buffer') : sent'[buffer'[i]] = 0 /\ ~ ToBeSent(buffer[i])'
    <3> TAKE i \in 1 .. Len(buffer')
    <3>1. PICK b \in Attempt : b = buffer'[i] /\ Holds(buffer', b)
      BY <2>3
    <3> QED
      BY <2>2, <3>1 DEF ToBeSent
  <2>5. \A i \in 1 .. Len(backlog') :
           /\ sent'[backlog'[i]] = 0 /\ ~ ToBeSent(backlog[i])'
           /\ \A j \in 1 .. Len(buffer') : buffer'[j] # backlog'[i]
    <3> TAKE i \in 1 .. Len(backlog')
    <3>1. PICK b \in Attempt : b = backlog'[i] /\ Holds(backlog', b)
      BY <2>3
    <3>2. \A j \in 1 .. Len(buffer') : buffer'[j] # b
      BY <2>2, <2>3, <3>1
    <3> QED
      BY <2>2, <3>1, <3>2 DEF ToBeSent
  <2> QED
    BY <1>6, <2>2, <2>4, <2>5 DEF Unsent
<1>12. Entered'
  <2>1. ASSUME NEW id \in Attempt PROVE EntryAt(id)'
    <3>1. CASE id = Id(a)
      BY <1>3, <1>4, <3>1 DEF EntryAt, Id
    <3>2. CASE id # Id(a) /\ pending[id] # NoAttempt
      <4>1. pending[id] \in Attempt /\ pending[id][1] \in Call
        BY <1>1, <3>2, Attempts DEF Messages
      <4> QED
        BY <1>1, <1>2, <1>4, <3>2, <4>1 DEF Entered, EntryAt
    <3>3. CASE id # Id(a) /\ pending[id] = NoAttempt
      BY <1>4, <3>3 DEF EntryAt
    <3> QED
      BY <3>1, <3>2, <3>3
  <2>2. ASSUME NEW d \in Call, d # c, phase[d] = "pending"
        PROVE  EntryOf(d)'
    <3>1. tries[d] > 0 /\ tries[d] \in 1 .. MaxRetries + 1
      BY <1>1, <2>2, MaxRetriesAssumption DEF Slotted, SlotsOf, Callers
    <3>2. Id(Current(d)) \in Attempt \ {Id(a)} /\ Current(d) \in Attempt \ {a}
      BY <1>1, <1>3, <2>2, <3>1, CurrentAttempt
    <3>3. Current(d)' = Current(d) /\ Id(Current(d))' = Id(Current(d)) /\ link' = link
      BY <1>2, <1>4 DEF Id
    <3>4. CASE /\ pending[Id(Current(d))] = Current(d)
               /\ link # "none" \/ Holds(buffer, Current(d))
      <4>1. pending'[Id(Current(d))] = Current(d)
        BY <1>4, <3>2, <3>4
      <4>2. link # "none" \/ Holds(buffer', Current(d))
        BY <1>6, <3>2, <3>4
      <4> QED
        BY <3>3, <4>1, <4>2 DEF EntryOf, Holds
    <3>5. CASE Bereft(d)
      <4>1. CASE stale /\ Current(d) \in Range(backlog)
        <5>1. Current(d) \in Range(backlog')
          BY <1>1, <1>6, <3>2, <4>1, InRange DEF Messages
        <5> QED
          BY <1>2, <3>3, <3>5, <4>1, <5>1 DEF Bereft, EntryOf
      <4>2. CASE \E n \in 1 .. tries[d] - 1 : Dropped(<<d, n>>)
        <5>1. PICK n \in 1 .. tries[d] - 1 : Dropped(<<d, n>>)
          BY <4>2
        <5>2. n \in 1 .. MaxRetries + 1
          BY <3>1, <5>1, MaxRetriesAssumption
        <5>3. <<d, n>> \in Attempt \ {a}
          BY <1>3, <2>2, <5>2, Attempts
        <5>4. PICK b \in Attempt \ {a} : b = <<d, n>>
          BY <5>3
        <5>5. sent[b] = 0 /\ ~ Holds(backlog, b) /\ ~ Holds(buffer, b)
          BY <1>1, <5>1, <5>4, DroppedHeld
        <5>6. sent'[b] = 0 /\ b \notin Range(backlog') /\ b \notin Range(buffer')
          BY <1>6, <5>4, <5>5, InRange
        <5> QED
          BY <1>2, <3>5, <5>1, <5>4, <5>6 DEF Bereft, Dropped, EntryOf
      <4> QED
        BY <3>5, <4>1, <4>2 DEF Bereft
    <3> QED
      BY <1>1, <2>2, <3>4, <3>5 DEF Entered, EntryOf, Holds
  <2>3. EntryOf(c)'
    <3>1. Current(c)' = a /\ Id(Current(c))' = Id(a) /\ link' = link
      BY <1>2, <1>4 DEF Id
    <3> QED
      BY <1>4, <1>6, <3>1 DEF EntryOf, Holds
  <2>4. ASSUME NEW d \in Call, d # c, phase[d] # "pending" PROVE EntryOf(d)'
    BY <1>4, <2>4 DEF EntryOf
  <2> QED
    BY <2>1, <2>2, <2>3, <2>4 DEF Entered
<1>13. Offline'
  BY <1>1, <1>2, <1>4, OfflineRests
<1> QED
  BY <1>7, <1>8, <1>9, <1>11, <1>12, <1>13 DEF IInv

-----------------------------------------------------------------------------
(* A call that is sent, or is about to be, is told an outcome; an entry it *)
(* has goes with it.                                                       *)
LEMMA TellKeeps ==
    ASSUME IInv, NEW c \in Call, phase[c] \in {"queued", "pending"},
           NEW a, a = Current(c), c \in immediate \/ slot[a] = "running",
           NEW outcome \in {"ok", "failed", "timedout", "backoff"}, Tell(c, a, outcome),
           outcome = "backoff" => tries[c] <= MaxRetries /\ c \notin immediate,
           IF phase[c] = "pending" THEN Forget(a) ELSE UNCHANGED pending,
           answering' \subseteq Attempt, awaited' \subseteq Attempt,
           UNCHANGED <<conn, link, tries, flushed, immediate, offline, buffer, backlog, stale, sent>>
    PROVE  IInv'
<1>1. Links /\ Callers /\ Messages /\ QP!IInv /\ Slotted /\ Entered /\ Unsent /\ Offline
  BY DEF IInv
<1>2. /\ tries[c] > 0 /\ a \in Attempt /\ a[1] = c /\ a[2] = tries[c]
      /\ Id(a) \in Attempt /\ Id(a)[1] = c
  <2>1. tries[c] > 0
    BY <1>1 DEF Slotted, SlotsOf
  <2> QED
    BY <1>1, <2>1, CurrentAttempt
<1>3. phase'[c] = outcome /\ (\A d \in Call \ {c} : phase'[d] = phase[d]) /\ phase' \in [Call -> Phase]
  BY <1>1 DEF Tell, Callers, Phase
<1>4. /\ QP!IInv'
      /\ c \notin immediate => slot'[a] = "settled"
      /\ c \in immediate => slot'[a] = slot[a]
      /\ \A b \in Attempt \ {a} : slot'[b] = slot[b]
  <2>1. CASE c \in immediate
    BY <1>1, <2>1, QueueRests DEF Tell, queueVars
  <2>2. CASE c \notin immediate
    BY <1>1, <1>2, <2>2, SettleOne DEF Tell
  <2> QED
    BY <2>1, <2>2
<1>5. /\ pending' \in [Attempt -> Attempt \cup {NoAttempt}]
      /\ phase[c] = "pending" => pending'[Id(a)] = NoAttempt
      /\ phase[c] # "pending" => pending' = pending
      /\ \A id \in Attempt \ {Id(a)} : pending'[id] = pending[id]
  BY <1>1, <1>2 DEF Forget, Messages
<1>6. Links' /\ Callers' /\ Messages'
  BY <1>1, <1>3, <1>5 DEF Links, Callers, Messages
<1>7. Slotted'
  <2>1. SlotsOf(c)'
    <3>1. \A n \in 1 .. MaxRetries + 1 : slot'[<<c, n>>] \notin {"queued", "running"}
      <4> TAKE n \in 1 .. MaxRetries + 1
      <4>1. CASE n = tries[c]
        <5>1. <<c, n>> = a
          BY <4>1 DEF Current
        <5>2. c \in immediate => slot[a] = "new"
          BY <1>1, <5>1 DEF Slotted, SlotsOf
        <5> QED
          BY <1>4, <5>1, <5>2
      <4>2. CASE n # tries[c]
        <5>1. <<c, n>> \in Attempt \ {a}
          BY <1>2, <4>2, Attempts
        <5> QED
          BY <1>1, <1>4, <4>2, <5>1 DEF Slotted, SlotsOf
      <4> QED
        BY <4>1, <4>2
    <3>2. ASSUME NEW n \in 1 .. MaxRetries + 1, c \in immediate \/ n > tries[c]
          PROVE  slot'[<<c, n>>] = "new"
      <4>1. slot[<<c, n>>] = "new" /\ <<c, n>> \in Attempt /\ <<c, n>>[2] = n
        BY <1>1, <3>2, Attempts DEF Slotted, SlotsOf
      <4>2. CASE <<c, n>> = a
        <5>1. n = tries[c]
          BY <1>2, <4>1, <4>2
        <5>2. tries[c] \in Int
          BY <1>1, MaxRetriesAssumption DEF Callers
        <5>3. c \in immediate
          BY <3>2, <5>1, <5>2
        <5> QED
          BY <1>4, <4>1, <4>2, <5>3
      <4>3. CASE <<c, n>> # a
        BY <1>4, <4>1, <4>3
      <4> QED
        BY <4>2, <4>3
    <3> QED
      BY <1>2, <1>3, <3>1, <3>2 DEF SlotsOf
  <2>2. ASSUME NEW d \in Call \ {c} PROVE SlotsOf(d)'
    <3>1. \A n \in 1 .. MaxRetries + 1 : slot'[<<d, n>>] = slot[<<d, n>>]
      <4> TAKE n \in 1 .. MaxRetries + 1
      <4>1. <<d, n>> \in Attempt \ {a}
        BY <1>2, Attempts
      <4> QED
        BY <1>4, <4>1
    <3> QED
      BY <1>1, <1>3, <3>1, SlotsGoOn DEF Slotted, Same, Forward
  <2> QED
    BY <2>1, <2>2 DEF Slotted
<1>8. Entered'
  <2>1. ASSUME NEW id \in Attempt PROVE EntryAt(id)'
    <3> SUFFICES ASSUME pending'[id] # NoAttempt PROVE EntryAt(id)'
      BY DEF EntryAt
    <3>1. CASE id = Id(a)
      <4>1. phase[c] # "pending" /\ pending' = pending
        BY <1>5, <3>1
      <4>2. pending[id] \in Attempt /\ pending[id][1] = Id(pending[id])[1]
        BY <1>1, <4>1, Attempts, Ids DEF Messages
      <4>3. Id(pending[id]) = id /\ phase[pending[id][1]] = "pending"
        BY <1>1, <4>1 DEF Entered, EntryAt
      <4> QED
        BY <1>2, <3>1, <4>1, <4>2, <4>3
    <3>2. CASE id # Id(a)
      <4>1. pending'[id] = pending[id] /\ pending[id] \in Attempt /\ pending[id][1] \in Call
        BY <1>1, <1>5, <3>2, Attempts DEF Messages
      <4>2. /\ Id(pending[id]) = id /\ phase[pending[id][1]] = "pending"
            /\ pending[id] = Current(pending[id][1])
        BY <1>1, <4>1 DEF Entered, EntryAt
      <4>3. pending[id][1] # c
        BY <3>2, <4>2
      <4> QED
        BY <1>3, <4>1, <4>2, <4>3 DEF EntryAt, Current, Id
    <3> QED
      BY <3>1, <3>2
  <2>2. ASSUME NEW d \in Call, phase'[d] = "pending" PROVE EntryOf(d)'
    <3>1. d # c /\ phase[d] = "pending"
      BY <1>3, <2>2
    <3>2. tries[d] > 0
      BY <1>1, <3>1 DEF Slotted, SlotsOf
    <3>3. Id(Current(d)) \in Attempt /\ Id(Current(d)) # Id(a)
      BY <1>1, <1>2, <3>1, <3>2, CurrentAttempt
    <3>4. EntryOf(d) /\ pending'[Id(Current(d))] = pending[Id(Current(d))]
      BY <1>1, <1>5, <3>3 DEF Entered
    <3>5. Current(d)' = Current(d) /\ Id(Current(d))' = Id(Current(d))
      BY DEF Current, Id
    <3>6. Bereft(d)' <=> Bereft(d)
      BY <3>5 DEF Bereft, Dropped
    <3> QED
      BY <3>1, <3>4, <3>5, <3>6 DEF EntryOf
  <2> QED
    BY <2>1, <2>2 DEF Entered, EntryOf
<1>9. Unsent'
  <2>1. ASSUME NEW b \in Attempt, ToBeSent(b)' PROVE ToBeSent(b)
    <3>1. b[1] \in Call
      BY Attempts
    <3> QED
      BY <1>3, <2>1, <3>1 DEF ToBeSent
  <2> QED
    BY <1>1, <2>1, UnsentRests
<1>10. Offline'
  BY <1>1, <1>3, OfflineRests
<1> QED
  BY <1>4, <1>6, <1>7, <1>8, <1>9, <1>10 DEF IInv

LEMMA SendEndsKeeps ==
    ASSUME IInv, NEW c \in Call, SendRejected(c) \/ SendSuppressed(c) PROVE IInv'
<1>1. /\ Ready(c)
      /\ UNCHANGED <<conn, link, tries, flushed, immediate, offline, buffer, backlog, stale, pending, answering,
                     sent, awaited>>
  BY DEF SendRejected, SendSuppressed, connVars, wireVars
<1>2. PICK outcome \in {"ok", "failed"} : Tell(c, Current(c), outcome)
  BY DEF SendRejected, SendSuppressed
<1>3. answering \subseteq Attempt /\ awaited \subseteq Attempt
  BY DEF IInv, Messages
<1>4. PICK a : a = Current(c)
  OBVIOUS
<1> QED
  BY <1>1, <1>2, <1>3, <1>4, TellKeeps DEF Ready

(* A call that waits for an answer holds a slot unless it needs none.      *)
LEMMA PendingRuns ==
    ASSUME IInv, NEW c \in Call, phase[c] = "pending"
    PROVE  c \in immediate \/ slot[Current(c)] = "running"
  BY DEF IInv, Slotted, SlotsOf

LEMMA PendingEndsKeeps ==
    ASSUME IInv, NEW c \in Call, Timeout(c) \/ AbortOrSendError(c) PROVE IInv'
<1>1. /\ phase[c] = "pending" /\ Forget(Current(c))
      /\ UNCHANGED <<conn, link, tries, flushed, immediate, offline, buffer, backlog, stale, answering,
                     sent, awaited>>
  BY DEF Timeout, AbortOrSendError, connVars
<1>2. PICK outcome \in {"failed", "timedout", "backoff"} :
         /\ Tell(c, Current(c), outcome)
         /\ outcome = "backoff" => tries[c] <= MaxRetries /\ c \notin immediate
  BY DEF Timeout, AbortOrSendError, AfterTimeout
<1>3. answering \subseteq Attempt /\ awaited \subseteq Attempt
  BY DEF IInv, Messages
<1>4. PICK a : a = Current(c)
  OBVIOUS
<1> QED
  BY <1>1, <1>2, <1>3, <1>4, PendingRuns, TellKeeps

LEMMA NothingTold ==
    ASSUME IInv, UNCHANGED <<queueVars, callVars, buffer, backlog, stale, pending, sent>>,
           Links', link' = link \/ link' # "none",
           answering' \subseteq Attempt, awaited' \subseteq Attempt
    PROVE  IInv'
<1>1. Links /\ Callers /\ Messages /\ QP!IInv /\ Slotted /\ Entered /\ Unsent /\ Offline
  BY DEF IInv
<1>2. UNCHANGED <<slot, phase, tries, flushed, immediate, offline, buffer, backlog, stale, pending, sent>>
  BY DEF queueVars, callVars
<1>3. Callers' /\ Messages' /\ QP!IInv'
  BY <1>1, <1>2, QueueRests DEF Callers, Messages
<1>4. Slotted'
  BY <1>1, <1>2 DEF Slotted, SlotsOf, Current
<1>5. Entered'
  BY <1>1, <1>2, EntriesRest
<1>6. Unsent' /\ Offline'
  BY <1>1, <1>2 DEF Unsent, Offline, ToBeSent, Distinct
<1> QED
  BY <1>3, <1>4, <1>5, <1>6 DEF IInv

LEMMA AnswerKeeps == ASSUME IInv, NEW a \in Attempt, Answer(a) PROVE IInv'
<1>1. Id(a) \in Attempt
  BY Ids
<1> QED
  BY <1>1, NothingTold DEF Answer, IInv, Messages, Links, connVars

LEMMA ResolveKeeps == ASSUME IInv, NEW id \in Attempt, Resolve(id) PROVE IInv'
<1> DEFINE a == pending[id]
<1>1. /\ answering' \subseteq Attempt
      /\ UNCHANGED <<conn, link, tries, flushed, immediate, offline, buffer, backlog, stale, sent>>
      /\ awaited \subseteq Attempt
  BY DEF Resolve, connVars, IInv, Messages
<1>2. CASE a = NoAttempt
  BY <1>1, <1>2, NothingTold DEF Resolve, callVars, IInv, Links
<1>3. CASE a # NoAttempt
  <2>1. PICK outcome \in {"ok", "failed"} : Tell(a[1], a, outcome)
    BY <1>3 DEF Resolve
  <2>2. Forget(a) /\ awaited' \subseteq Attempt
    BY <1>1, <1>3 DEF Resolve
  <2>3. a[1] \in Call /\ phase[a[1]] = "pending" /\ a = Current(a[1])
    BY <1>3, Attempts DEF IInv, Entered, EntryAt, Messages
  <2>4. PICK b, c : b = a /\ c = a[1]
    OBVIOUS
  <2>5. /\ c \in Call /\ phase[c] = "pending" /\ b = Current(c) /\ Tell(c, b, outcome) /\ Forget(b)
        /\ outcome # "backoff"
    BY <2>1, <2>2, <2>3, <2>4
  <2> HIDE DEF a
  <2> QED
    BY <1>1, <2>2, <2>5, PendingRuns, TellKeeps
<1> QED
  BY <1>2, <1>3

-----------------------------------------------------------------------------
(* Steps of the queue alone.                                               *)
LEMMA QueueMoves ==
    ASSUME IInv, QP!IInv', UNCHANGED <<connVars, callVars, wireVars, awaited>>,
           Slotted'
    PROVE  IInv'
<1>1. Links /\ Callers /\ Messages /\ Slotted /\ Entered /\ Unsent /\ Offline
  BY DEF IInv
<1>2. UNCHANGED <<conn, link, phase, tries, flushed, immediate, offline, buffer, backlog, stale, pending, answering,
                  sent, awaited>>
  BY DEF connVars, callVars, wireVars
<1>3. Links' /\ Callers' /\ Messages'
  BY <1>1, <1>2 DEF Links, Callers, Messages
<1>4. Entered'
  BY <1>1, <1>2, EntriesRest
<1>5. Unsent' /\ Offline'
  BY <1>1, <1>2 DEF Unsent, Offline, ToBeSent, Distinct
<1> QED
  BY <1>3, <1>4, <1>5 DEF IInv

LEMMA ReleaseStepKeeps == ASSUME IInv, NEW a \in Attempt, Release(a) PROVE IInv'
<1>1. /\ UNCHANGED <<connVars, callVars, wireVars, awaited>>
      /\ UNCHANGED <<phase, tries, immediate>>
  BY DEF Release, callVars
<1>2. /\ QP!IInv' /\ slot[a] = "settled" /\ slot'[a] = "done"
      /\ \A b \in Attempt \ {a} : Forward(slot[b], slot'[b])
  BY ReleaseKeeps DEF Release, IInv
<1>3. ASSUME NEW c \in Call PROVE SlotsOf(c)'
  <2>0. Callers /\ SlotsOf(c)
    BY DEF IInv, Slotted
  <2>1. CASE c # a[1]
    <3>1. \A n \in 1 .. MaxRetries + 1 : <<c, n>> \in Attempt \ {a}
      BY <2>1, Attempts
    <3> QED
      BY <1>1, <1>2, <2>0, <3>1, SlotsGoOn DEF Same
  <2>2. CASE c = a[1]
    <3>1. PICK m \in 1 .. MaxRetries + 1 : a = <<c, m>>
      BY <2>2, Attempts
    <3>2. \A n \in 1 .. MaxRetries + 1 : n # m => Forward(slot[<<c, n>>], slot'[<<c, n>>])
      BY <1>2, <3>1, Attempts
    <3>3. /\ c \notin immediate /\ ~ (m > tries[c])
          /\ m = tries[c] => phase[c] \notin {"queued", "pending"} \/ c \in immediate
      BY <1>2, <2>0, <3>1 DEF SlotsOf, Current
    <3>4. \A n \in 1 .. MaxRetries + 1 :
             /\ n > tries[c] => slot'[<<c, n>>] = "new"
             /\ slot'[<<c, n>>] \in {"queued", "running"}
                  => n = tries[c] /\ phase[c] \in {"queued", "pending"}
      <4> TAKE n \in 1 .. MaxRetries + 1
      <4>1. CASE n = m
        BY <1>2, <3>1, <3>3, <4>1
      <4>2. CASE n # m
        BY <2>0, <3>2, <4>2 DEF SlotsOf, Forward
      <4> QED
        BY <4>1, <4>2
    <3>5. phase[c] \in {"queued", "pending"}
            => tries[c] \in 1 .. MaxRetries + 1 /\ tries[c] # m
      BY <2>0, <3>3, MaxRetriesAssumption DEF SlotsOf, Callers
    <3>6. /\ phase[c] = "queued" => slot'[Current(c)] \in {"queued", "running"}
          /\ phase[c] = "pending" => slot'[Current(c)] = "running"
      BY <2>0, <3>2, <3>3, <3>5 DEF SlotsOf, Current, Forward
    <3>7. Current(c)' = Current(c)
      BY <1>1 DEF Current
    <3> QED
      BY <1>1, <2>0, <3>3, <3>4, <3>6, <3>7 DEF SlotsOf
  <2> QED
    BY <2>1, <2>2
<1> QED
  BY <1>1, <1>2, <1>3, QueueMoves DEF Slotted

LEMMA ReconfigureKeeps == ASSUME IInv, NEW n \in Limits, Reconfigure(n) PROVE IInv'
<1>1. /\ UNCHANGED <<connVars, callVars, wireVars, awaited>>
      /\ UNCHANGED <<phase, tries, immediate>>
  BY DEF Reconfigure, callVars
<1>2. QP!IInv' /\ \A b \in Attempt : Forward(slot[b], slot'[b])
  BY SetConcurrencyKeeps DEF Reconfigure, IInv
<1>3. Slotted'
  BY <1>1, <1>2, Attempts, SlotsGoOn DEF IInv, Slotted, Same
<1> QED
  BY <1>1, <1>2, <1>3, QueueMoves

(* Steps of the connection that leave the calls alone.                     *)
LEMMA ConnectionKeeps ==
    ASSUME IInv, Connection \/ CloseGracefully \/ CloseAtOnce \/ ShutSocket PROVE IInv'
<1>1. Links /\ Messages
  BY DEF IInv
<1>2. Links' /\ (link' = link \/ link' # "none")
  BY <1>1 DEF Links, Connection, CloseGracefully, CloseAtOnce, ShutSocket, View!BeginsConnecting,
              View!FailsToOpen, View!Disconnects, View!FinishesClosing, View!BeginsClosing,
              View!ShutsSocket
<1>3. UNCHANGED <<queueVars, callVars, buffer, backlog, stale, pending, answering, sent>>
  BY DEF Connection, CloseGracefully, CloseAtOnce, ShutSocket, wireVars
<1>4. awaited' \subseteq Attempt
  <2>1. Range(pending) \ {NoAttempt} \subseteq Attempt
    BY <1>1 DEF Messages, Range
  <2> QED
    BY <1>1, <2>1 DEF Messages, Connection, CloseGracefully, CloseAtOnce, ShutSocket
<1>5. answering' \subseteq Attempt
  BY <1>1, <1>3 DEF Messages
<1> QED
  BY <1>2, <1>3, <1>4, <1>5, NothingTold

(* Some calls that wait for an answer are told that it will not come.      *)
Failed(A, c) == phase[c] = "pending" /\ Current(c) \in A

LEMMA FailKeeps ==
    ASSUME IInv, NEW A \in SUBSET Attempt, \A a \in A : Waits(a), Fail(A),
           UNCHANGED <<tries, flushed, immediate, offline>>
    PROVE  /\ \A c \in Call : phase'[c] = IF Failed(A, c) THEN "failed" ELSE phase[c]
           /\ QP!IInv' /\ Callers' /\ Slotted' /\ Offline'
           /\ \A a \in Attempt : ToBeSent(a)' <=> ToBeSent(a)
<1> DEFINE freed == {a \in A : a[1] \notin immediate}
<1>1. Callers /\ QP!IInv /\ Slotted /\ Offline
  BY DEF IInv
<1>2. /\ phase' = [c \in Call |-> IF \E a \in A : a[1] = c THEN "failed" ELSE phase[c]]
      /\ slot' = [a \in Attempt |-> IF a \in A /\ a[1] \notin immediate THEN "settled" ELSE slot[a]]
      /\ UNCHANGED <<concurrency, running, waiting>>
  BY DEF Fail
<1>3. \A a \in A : a \in Attempt /\ a[1] \in Call /\ phase[a[1]] = "pending" /\ a = Current(a[1])
  BY Attempts DEF Waits
<1>4. \A c \in Call : Failed(A, c) <=> \E a \in A : a[1] = c
  BY <1>3 DEF Failed, Current
<1>5. \A c \in Call : phase'[c] = IF Failed(A, c) THEN "failed" ELSE phase[c]
  BY <1>2, <1>4
<1>6. freed \in SUBSET Attempt /\ \A a \in freed : slot[a] = "running"
  <2> SUFFICES ASSUME NEW a \in freed PROVE a \in Attempt /\ slot[a] = "running"
    OBVIOUS
  <2>1. PICK c \in Call : c = a[1] /\ a = Current(c) /\ phase[c] = "pending" /\ c \notin immediate
    BY <1>3
  <2> QED
    BY <1>1, <1>3, <2>1 DEF Slotted, SlotsOf
<1>7. slot' = [a \in Attempt |-> IF a \in freed THEN "settled" ELSE slot[a]]
  BY <1>2
<1> HIDE DEF freed
<1>8. QP!IInv'
  BY <1>1, <1>2, <1>6, <1>7, SettleKeeps
<1>9. Callers'
  <2>1. phase' \in [Call -> Phase]
    BY <1>1, <1>2 DEF Callers, Phase
  <2> QED
    BY <1>1, <2>1 DEF Callers
<1>10. Slotted'
  <2> SUFFICES ASSUME NEW c \in Call PROVE SlotsOf(c)'
    BY DEF Slotted
  <2>1. \A n \in 1 .. MaxRetries + 1 :
          slot'[<<c, n>>] = IF <<c, n>> \in freed THEN "settled" ELSE slot[<<c, n>>]
    BY <1>7, Attempts
  <2>2. CASE Failed(A, c)
    <3>1. \A n \in 1 .. MaxRetries + 1 : <<c, n>> \in freed => n = tries[c] /\ c \notin immediate
      <4> SUFFICES ASSUME NEW n \in 1 .. MaxRetries + 1, <<c, n>> \in freed
                   PROVE  n = tries[c] /\ c \notin immediate
        OBVIOUS
      <4>1. <<c, n>> = Current(c) /\ c \notin immediate
        BY <1>3, Attempts DEF freed
      <4> QED
        BY <4>1 DEF Current
    <3>2. c \notin immediate => Current(c) \in freed
      BY <2>2 DEF freed, Failed, Current
    <3>3. \A n \in 1 .. MaxRetries + 1 :
             /\ c \in immediate \/ n > tries[c] => slot'[<<c, n>>] = "new"
             /\ slot'[<<c, n>>] \notin {"queued", "running"}
      <4> TAKE n \in 1 .. MaxRetries + 1
      <4>0. tries[c] \in Int /\ SlotsOf(c)
        BY <1>1, MaxRetriesAssumption DEF Callers, Slotted
      <4>1. CASE <<c, n>> \in freed
        BY <2>1, <3>1, <4>0, <4>1
      <4>2. CASE <<c, n>> \notin freed
        <5>1. slot'[<<c, n>>] = slot[<<c, n>>]
          BY <2>1, <4>2
        <5>2. n = tries[c] => c \in immediate
          BY <3>2, <4>2 DEF Current
        <5> QED
          BY <4>0, <5>1, <5>2 DEF SlotsOf
      <4> QED
        BY <4>1, <4>2
    <3>4. phase'[c] = "failed"
      BY <1>5, <2>2
    <3> QED
      BY <1>2, <3>3, <3>4 DEF SlotsOf
  <2>3. CASE ~ Failed(A, c)
    <3>1. \A n \in 1 .. MaxRetries + 1 : <<c, n>> \notin freed
      BY <1>4, <2>3, Attempts DEF freed
    <3>2. Same(c)
      BY <1>2, <1>5, <2>3 DEF Same
    <3> QED
      BY <1>1, <2>1, <3>1, <3>2, SlotsGoOn DEF Slotted, Forward
  <2> QED
    BY <2>2, <2>3
<1>11. \A a \in Attempt : ToBeSent(a)' <=> ToBeSent(a)
  BY <1>5, Attempts DEF ToBeSent, Failed
<1>12. Offline'
  BY <1>1, <1>5, OfflineRests DEF Failed
<1> QED
  BY <1>5, <1>8, <1>9, <1>10, <1>11, <1>12

(* An attempt among the entries is of a call that waits.                   *)
LEMMA EntriesWait ==
    ASSUME IInv, NEW a \in Range(pending), a # NoAttempt
    PROVE  a \in Attempt /\ Waits(a)
<1>1. Messages /\ Entered
  BY DEF IInv
<1>2. PICK id \in Attempt : a = pending[id]
  BY <1>1 DEF Range, Messages
<1>3. a \in Attempt /\ a[1] \in Call
  BY <1>1, <1>2, Attempts DEF Messages
<1> QED
  BY <1>1, <1>2, <1>3 DEF Entered, EntryAt, Waits

(* The close event tells every call that waits for an answer and has its   *)
(* entry still.                                                            *)
LEMMA LoseKeeps == ASSUME IInv, Lose PROVE IInv'
<1>1. Links /\ Messages /\ Slotted /\ Callers /\ Entered /\ Unsent
  BY DEF IInv
<1>2. PICK displaced \in SUBSET Displaced :
         LET lost == Range(pending) \ ({NoAttempt} \cup displaced) IN
           Fail(lost) /\ awaited' = awaited \ lost
  BY DEF Lose
<1> DEFINE lost == Range(pending) \ ({NoAttempt} \cup displaced)
<1>3. /\ Fail(lost) /\ awaited' = awaited \ lost
      /\ pending' = [a \in Attempt |-> NoAttempt] /\ stale' = (backlog # <<>>)
      /\ UNCHANGED <<tries, flushed, immediate, offline, buffer, backlog, answering, sent>>
      /\ View!Loses
  BY <1>2 DEF Lose
<1>4. lost \in SUBSET Attempt /\ \A a \in lost : Waits(a)
  BY EntriesWait
<1>5. ASSUME NEW c \in Call, phase[c] = "pending", Current(c) \notin lost
      PROVE  Bereft(c)'
  <2>1. tries[c] > 0
    BY <1>1, <1>5 DEF Slotted, SlotsOf
  <2>2. Current(c) \in Attempt /\ Current(c)[1] = c /\ Id(Current(c)) \in Attempt
    BY <1>1, <2>1, CurrentAttempt
  <2>3. Current(c)' = Current(c)
    BY <1>3 DEF Current
  <2>4. \A a \in Range(backlog) : backlog # <<>>
    BY DEF Range
  <2>5. CASE Bereft(c)
    BY <1>3, <2>3, <2>4, <2>5 DEF Bereft, Dropped
  <2>6. CASE pending[Id(Current(c))] = Current(c)
    <3>1. Current(c) \in Range(pending) /\ Current(c) # NoAttempt
      BY <1>1, <2>2, <2>6, Attempts DEF Range, Messages
    <3>2. Current(c) \in Displaced
      BY <1>2, <1>5, <3>1
    <3>3. Current(c) \in Range(backlog) /\ c \in Keyed
      BY <2>2, <3>2 DEF Displaced
    <3> QED
      BY <1>3, <2>3, <2>4, <3>3 DEF Bereft
  <2> QED
    BY <1>1, <1>5, <2>5, <2>6 DEF Entered, EntryOf
<1> HIDE DEF lost
<1>6. /\ \A c \in Call : phase'[c] = IF Failed(lost, c) THEN "failed" ELSE phase[c]
      /\ QP!IInv' /\ Callers' /\ Slotted' /\ Offline'
      /\ \A a \in Attempt : ToBeSent(a)' <=> ToBeSent(a)
  BY <1>3, <1>4, FailKeeps
<1>7. Links' /\ Messages'
  BY <1>1, <1>3 DEF Links, Messages, View!Loses
<1>8. Entered'
  <2>1. \A id \in Attempt : EntryAt(id)'
    BY <1>3 DEF EntryAt
  <2>2. \A c \in Call : EntryOf(c)'
    BY <1>5, <1>6 DEF EntryOf, Failed
  <2> QED
    BY <2>1, <2>2 DEF Entered
<1>9. Unsent'
  BY <1>1, <1>3, <1>6, UnsentRests
<1> QED
  BY <1>6, <1>7, <1>8, <1>9 DEF IInv

(* A message of the backpressure queue is written.                         *)
LEMMA DrainsKeeps == ASSUME IInv, Drains PROVE IInv'
<1> DEFINE h == Head(backlog)
           rest == Tail(backlog)
           n == Len(backlog)
<1>1. Links /\ Callers /\ Messages /\ QP!IInv /\ Slotted /\ Entered /\ Unsent /\ Offline
  BY DEF IInv
<1>2. /\ backlog # <<>> /\ ~ stale /\ sent' = [sent EXCEPT ![h] = @ + 1] /\ backlog' = rest
      /\ UNCHANGED <<conn, link, queueVars, phase, tries, flushed, immediate, offline, buffer, stale,
                     pending, answering, awaited>>
  BY DEF Drains, connVars, callVars
<1>3. /\ backlog \in Seq(Attempt) /\ n \in Nat /\ n > 0 /\ h = backlog[1] /\ h \in Attempt
      /\ rest \in Seq(Attempt) /\ Len(rest) = n - 1
      /\ \A i \in 1 .. n - 1 : rest[i] = backlog[i + 1]
  BY <1>1, <1>2, HeadTailProperties DEF Messages
<1> HIDE DEF h, rest
<1>4. /\ \A i \in 1 .. n - 1 : i + 1 \in 1 .. n /\ i + 1 # 1 /\ 1 \in 1 .. n
      /\ \A i, j \in 1 .. n - 1 : i + 1 = j + 1 => i = j
      /\ \A i \in 1 .. n : i = 1 \/ (i - 1 \in 1 .. n - 1 /\ i - 1 + 1 = i)
      /\ 1 \in 1 .. n
  BY <1>3
<1>5. sent[h] = 0 /\ ~ ToBeSent(h) /\ \A i \in 1 .. Len(buffer) : buffer[i] # h
  BY <1>1, <1>3, <1>4 DEF Unsent
<1>6. sent' \in [Attempt -> Nat] /\ sent'[h] = 1 /\ \A a \in Attempt \ {h} : sent'[a] = sent[a]
  BY <1>1, <1>2, <1>3, <1>5 DEF Messages
<1>7. \A i \in 1 .. n - 1 : /\ rest[i] \in Attempt /\ rest[i] # h
                            /\ sent'[rest[i]] = 0 /\ ~ ToBeSent(rest[i])
                            /\ \A j \in 1 .. Len(buffer) : buffer[j] # rest[i]
  <2> TAKE i \in 1 .. n - 1
  <2>1. PICK k \in 1 .. n : k = i + 1 /\ k # 1 /\ rest[i] = backlog[k]
    BY <1>3, <1>4
  <2>2. rest[i] \in Attempt /\ rest[i] # h /\ sent[rest[i]] = 0 /\ ~ ToBeSent(rest[i])
    BY <1>1, <1>3, <1>4, <2>1 DEF Unsent, Distinct
  <2>3. \A j \in 1 .. Len(buffer) : buffer[j] # rest[i]
    BY <1>1, <2>1 DEF Unsent
  <2> QED
    BY <1>6, <2>2, <2>3
<1>8. \A a \in Attempt : ToBeSent(a)' <=> ToBeSent(a)
  BY <1>2 DEF ToBeSent
<1>9. Unsent'
  <2>1. Distinct(rest)
    <3> SUFFICES ASSUME NEW i \in 1 .. n - 1, NEW j \in 1 .. n - 1, rest[i] = rest[j] PROVE i = j
      BY <1>3 DEF Distinct
    <3>1. i + 1 \in 1 .. n /\ j + 1 \in 1 .. n /\ backlog[i + 1] = backlog[j + 1]
      BY <1>3, <1>4
    <3> QED
      BY <1>1, <1>4, <3>1 DEF Unsent, Distinct
  <2>2. \A i \in 1 .. Len(buffer) : buffer[i] \in Attempt /\ sent'[buffer[i]] = 0
    BY <1>1, <1>5, <1>6 DEF Unsent, Messages
  <2>3. \A a \in Attempt : sent'[a] <= 1 /\ (ToBeSent(a)' => sent'[a] = 0)
    BY <1>1, <1>5, <1>6, <1>8 DEF Unsent
  <2>4. \A i \in 1 .. Len(buffer) : ~ ToBeSent(buffer[i])'
    BY <1>1, <1>2 DEF Unsent, ToBeSent
  <2>5. \A i \in 1 .. n - 1 : ~ ToBeSent(backlog[i])'
    BY <1>2, <1>7 DEF ToBeSent
  <2> QED
    BY <1>1, <1>2, <1>3, <1>7, <2>1, <2>2, <2>3, <2>4, <2>5 DEF Unsent, Distinct
<1>10. Links' /\ Callers' /\ Messages'
  BY <1>1, <1>2, <1>3, <1>6 DEF Links, Callers, Messages
<1>11. QP!IInv' /\ Slotted' /\ Offline'
  <2>1. UNCHANGED slot
    BY <1>2 DEF queueVars
  <2> QED
    BY <1>1, <1>2, <2>1, QueueRests DEF Slotted, SlotsOf, Current, Offline, Distinct
<1>12. Entered'
  <2>1. \A id \in Attempt : EntryAt(id)'
    BY <1>1, <1>2 DEF Entered, EntryAt, Current
  <2>2. ASSUME NEW c \in Call, phase[c] = "pending" PROVE EntryOf(c)'
    <3>1. Current(c)' = Current(c) /\ Id(Current(c))' = Id(Current(c))
      BY <1>2 DEF Current, Id
    <3>2. CASE Bereft(c)
      <4>1. PICK m \in 1 .. tries[c] - 1 : Dropped(<<c, m>>)
        BY <1>2, <3>2 DEF Bereft
      <4>2. m \in 1 .. MaxRetries + 1
        <5>1. tries[c] \in 0 .. MaxRetries + 1
          BY <1>1 DEF Callers
        <5> QED
          BY <4>1, <5>1, MaxRetriesAssumption
      <4>3. PICK b \in Attempt : b = <<c, m>>
        BY <4>2, Attempts
      <4>4. sent[b] = 0 /\ ~ Holds(backlog, b) /\ ~ Holds(buffer, b)
        BY <1>1, <4>1, <4>3, DroppedHeld
      <4>5. b # h /\ ~ Holds(rest, b)
        <5>1. \A i \in 1 .. n : backlog[i] # b
          BY <4>4 DEF Holds
        <5>2. \A i \in 1 .. n - 1 : rest[i] # b
          BY <1>3, <1>4, <5>1
        <5> QED
          BY <1>3, <1>4, <5>1, <5>2 DEF Holds
      <4>6. sent'[b] = 0 /\ b \notin Range(rest) /\ b \notin Range(buffer)
        BY <1>1, <1>3, <1>6, <4>4, <4>5, InRange DEF Messages
      <4> QED
        BY <1>2, <3>2, <4>1, <4>3, <4>6 DEF Bereft, Dropped, EntryOf
    <3>3. CASE ~ Bereft(c)
      BY <1>1, <1>2, <2>2, <3>1, <3>3 DEF Entered, EntryOf
    <3> QED
      BY <3>2, <3>3
  <2>3. \A c \in Call : phase[c] # "pending" => EntryOf(c)'
    BY <1>2 DEF EntryOf
  <2> QED
    BY <2>1, <2>2, <2>3 DEF Entered
<1> QED
  BY <1>9, <1>10, <1>11, <1>12 DEF IInv

(* All of the backpressure queue fails.                                    *)
LEMMA DrainFailsKeeps == ASSUME IInv, DrainFails PROVE IInv'
<1> DEFINE told == {a \in Range(backlog) : Waits(a)}
<1>1. Links /\ Messages /\ Slotted /\ Callers /\ Entered /\ Unsent
  BY DEF IInv
<1>2. /\ Fail(told) /\ backlog' = <<>> /\ stale' = FALSE
      /\ pending' = [id \in Attempt |-> IF \E a \in Range(backlog) : Id(a) = id
                                           THEN NoAttempt ELSE pending[id]]
      /\ UNCHANGED <<conn, link, tries, flushed, immediate, offline, buffer, answering, sent, awaited>>
  BY DEF DrainFails, connVars
<1>3. \A a : a \in Range(backlog) <=> Holds(backlog, a)
  BY <1>1, InRange DEF Messages
<1>4. \A a \in Range(backlog) : a \in Attempt /\ sent[a] = 0 /\ ~ ToBeSent(a) /\ ~ Holds(buffer, a)
  BY <1>1, <1>3 DEF Unsent, Holds, Messages
<1>5. told \in SUBSET Attempt /\ \A a \in told : Waits(a)
  BY <1>4
<1>6. \A c \in Call : phase[c] = "pending" /\ Current(c) \in Range(backlog) => Failed(told, c)
  <2> SUFFICES ASSUME NEW c \in Call, phase[c] = "pending", Current(c) \in Range(backlog)
               PROVE  Failed(told, c)
    OBVIOUS
  <2>1. Waits(Current(c))
    BY DEF Waits, Current
  <2> QED
    BY <2>1 DEF Failed
<1> HIDE DEF told
<1>7. /\ \A c \in Call : phase'[c] = IF Failed(told, c) THEN "failed" ELSE phase[c]
      /\ QP!IInv' /\ Callers' /\ Slotted' /\ Offline'
      /\ \A a \in Attempt : ToBeSent(a)' <=> ToBeSent(a)
  BY <1>2, <1>5, FailKeeps
<1>8. Links' /\ Messages'
  <2>1. \A id \in Attempt : pending[id] \in Attempt \cup {NoAttempt}
    BY <1>1 DEF Messages
  <2>2. pending' \in [Attempt -> Attempt \cup {NoAttempt}]
    BY <1>2, <2>1
  <2>3. backlog' \in Seq(Attempt) /\ stale' \in BOOLEAN
    BY <1>2, EmptySeq
  <2> QED
    BY <1>1, <1>2, <2>2, <2>3 DEF Links, Messages
<1>9. Unsent'
  <2>1. Len(backlog') = 0 /\ Distinct(backlog')
    BY <1>2 DEF Distinct
  <2>2. \A i \in 1 .. Len(buffer) : buffer[i] \in Attempt /\ ~ ToBeSent(buffer[i])'
    BY <1>1, <1>2, <1>7 DEF Unsent, Messages
  <2>3. \A a \in Attempt : sent'[a] <= 1 /\ (ToBeSent(a)' => sent'[a] = 0)
    BY <1>1, <1>2, <1>7 DEF Unsent
  <2> QED
    BY <1>1, <1>2, <2>1, <2>2, <2>3 DEF Unsent, Distinct
<1>10. ASSUME NEW id \in Attempt PROVE EntryAt(id)'
  <2> SUFFICES ASSUME pending'[id] # NoAttempt PROVE EntryAt(id)'
    BY DEF EntryAt
  <2>1. pending'[id] = pending[id] /\ \A a \in Range(backlog) : Id(a) # id
    BY <1>2
  <2>2. PICK a \in Attempt : a = pending[id] /\ a[1] \in Call
    BY <1>1, <2>1, Attempts DEF Messages
  <2>3. Id(a) = id /\ phase[a[1]] = "pending" /\ a = Current(a[1])
    BY <1>1, <2>1, <2>2 DEF Entered, EntryAt
  <2>4. a \notin told
    BY <2>1, <2>3 DEF told
  <2>5. phase'[a[1]] = "pending"
    BY <1>7, <2>2, <2>3, <2>4 DEF Failed
  <2> QED
    BY <1>2, <2>1, <2>2, <2>3, <2>5 DEF EntryAt, Current, Id
<1>11. ASSUME NEW c \in Call, phase'[c] = "pending" PROVE EntryOf(c)'
  <2>1. phase[c] = "pending" /\ Current(c) \notin Range(backlog)
    BY <1>6, <1>7, <1>11
  <2>2. tries[c] > 0 /\ tries[c] \in 1 .. MaxRetries + 1
    BY <1>1, <2>1, MaxRetriesAssumption DEF Slotted, SlotsOf, Callers
  <2>3. /\ Current(c) \in Attempt /\ Current(c)[1] = c /\ Id(Current(c)) \in Attempt
        /\ Current(c)' = Current(c) /\ Id(Current(c))' = Id(Current(c))
    BY <1>1, <1>2, <2>2, CurrentAttempt DEF Current, Id
  <2>4. CASE Bereft(c)
    <3>1. PICK n \in 1 .. tries[c] - 1 : Dropped(<<c, n>>)
      BY <2>1, <2>4 DEF Bereft
    <3>2. Dropped(<<c, n>>)'
      BY <1>2, <3>1 DEF Dropped, Range
    <3> QED
      BY <1>2, <2>4, <3>1, <3>2 DEF Bereft, EntryOf
  <2>5. CASE /\ ~ Bereft(c)
             /\ \A a \in Range(backlog) : Id(a) # Id(Current(c))
    BY <1>1, <1>2, <2>1, <2>3, <2>5 DEF Entered, EntryOf
  <2>6. CASE \E a \in Range(backlog) : Id(a) = Id(Current(c))
    <3>1. PICK a \in Range(backlog) : Id(a) = Id(Current(c))
      BY <2>6
    <3>2. a \in Attempt /\ a # Current(c)
      BY <1>4, <2>1, <3>1
    <3>3. a[1] = c /\ a = <<c, a[2]>> /\ a[2] \in 1 .. MaxRetries + 1
      <4>1. Id(a)[1] = a[1] /\ Id(Current(c))[1] = c
        BY <2>3, <3>2, Ids
      <4> QED
        BY <3>1, <3>2, <4>1, Attempts
    <3>4. c \in Keyed
      BY <2>3, <3>1, <3>2, <3>3 DEF Id
    <3>5. a[2] \in 1 .. tries[c] - 1
      <4>1. ~ (a[2] > tries[c])
        BY <1>4, <3>1, <3>3 DEF ToBeSent
      <4>2. a[2] # tries[c]
        BY <3>2, <3>3 DEF Current
      <4> QED
        BY <2>2, <3>3, <4>1, <4>2
    <3>6. Dropped(a)'
      <4>1. sent'[a] = 0 /\ a \notin Range(buffer) /\ Range(backlog') = {}
        <5>1. a \notin Range(buffer)
          BY <1>1, <1>4, <3>1, <3>2, InRange DEF Messages
        <5> QED
          BY <1>2, <1>4, <3>1, <5>1 DEF Range
      <4> QED
        BY <1>2, <4>1 DEF Dropped
    <3>7. PICK n \in 1 .. tries[c] - 1 : a = <<c, n>>
      BY <3>3, <3>5
    <3> QED
      BY <1>2, <3>4, <3>6, <3>7 DEF Bereft, EntryOf, Dropped
  <2> QED
    BY <2>4, <2>5, <2>6
<1>12. Entered'
  BY <1>10, <1>11 DEF Entered, EntryOf
<1> QED
  BY <1>7, <1>8, <1>9, <1>12 DEF IInv

-----------------------------------------------------------------------------
(* The offline queue goes onto the call queue in one go.                   *)
Flushed == [i \in DOMAIN offline |-> <<offline[i], 1>>]
Flushing == [a \in Attempt |-> IF a \in Range(Flushed) THEN "queued" ELSE slot[a]]

LEMMA FlushedCalls ==
    ASSUME IInv
    PROVE  /\ Flushed \in Seq(Attempt) /\ Len(Flushed) = Len(offline)
           /\ \A i \in 1 .. Len(offline) : Flushed[i] = <<offline[i], 1>>
           /\ Distinct(Flushed)
           /\ \A a \in Attempt : a \in Range(Flushed) <=> (phase[a[1]] = "offline" /\ a[2] = 1)
           /\ \A a \in Range(Flushed) : a \in Attempt /\ slot[a] = "new"
<1> DEFINE n == Len(offline)
<1>1. 1 \in 1 .. MaxRetries + 1
  BY MaxRetriesAssumption
<1>2. /\ n \in Nat /\ DOMAIN offline = 1 .. n
      /\ \A i \in 1 .. n : offline[i] \in Call /\ phase[offline[i]] = "offline"
      /\ \A i, j \in 1 .. n : offline[i] = offline[j] => i = j
      /\ \A c \in Call : phase[c] = "offline" => \E i \in 1 .. n : offline[i] = c
  BY DEF IInv, Offline, Distinct
<1>3. \A i \in 1 .. n : /\ <<offline[i], 1>> \in Attempt
                        /\ <<offline[i], 1>>[1] = offline[i] /\ <<offline[i], 1>>[2] = 1
  BY <1>1, <1>2, Attempts
<1> HIDE DEF n
<1>4. /\ Flushed \in Seq(Attempt) /\ Len(Flushed) = n /\ DOMAIN Flushed = 1 .. n
      /\ \A i \in 1 .. n : Flushed[i] = <<offline[i], 1>>
  <2>1. Flushed = [i \in 1 .. n |-> <<offline[i], 1>>]
    BY <1>2 DEF Flushed
  <2> QED
    BY <1>2, <1>3, <2>1, IsASeq
<1>5. Distinct(Flushed)
  BY <1>2, <1>3, <1>4 DEF Distinct
<1>6. \A a \in Range(Flushed) : \E i \in 1 .. n : a = <<offline[i], 1>>
  BY <1>4 DEF Range
<1>7. ASSUME NEW a \in Range(Flushed)
      PROVE  a \in Attempt /\ slot[a] = "new" /\ phase[a[1]] = "offline" /\ a[2] = 1
  <2>1. PICK i \in 1 .. n : a = <<offline[i], 1>>
    BY <1>6
  <2>2. PICK c \in Call : c = offline[i] /\ a = <<c, 1>> /\ phase[c] = "offline"
    BY <1>2, <2>1
  <2>3. SlotsOf(c) /\ tries[c] = 0
    BY <2>2 DEF IInv, Slotted, SlotsOf
  <2>4. slot[<<c, 1>>] = "new"
    BY <1>1, <2>3 DEF SlotsOf
  <2> QED
    BY <1>1, <2>2, <2>4, Attempts
<1>8. ASSUME NEW a \in Attempt, phase[a[1]] = "offline", a[2] = 1
      PROVE  a \in Range(Flushed)
  <2>1. a = <<a[1], 1>> /\ a[1] \in Call
    BY <1>8, Attempts
  <2>2. PICK i \in 1 .. n : offline[i] = a[1]
    BY <1>2, <1>8, <2>1
  <2>3. Flushed[i] = a
    BY <1>4, <2>1, <2>2
  <2> QED
    BY <1>4, <2>2, <2>3 DEF Range
<1> QED
  BY <1>4, <1>5, <1>7, <1>8 DEF n

LEMMA FlushDrainable ==
    ASSUME IInv
    PROVE  QP!Drainable(running, concurrency, waiting \o Flushed, Flushing)
<1> DEFINE n == Len(waiting)
           m == Len(Flushed)
           all == waiting \o Flushed
<1>1. /\ Flushed \in Seq(Attempt) /\ m \in Nat
      /\ \A i, j \in 1 .. m : Flushed[i] = Flushed[j] => i = j
      /\ \A a \in Range(Flushed) : a \in Attempt /\ slot[a] = "new"
      /\ \A i \in 1 .. m : Flushed[i] \in Range(Flushed)
      /\ \A a \in Range(Flushed) : \E i \in 1 .. m : a = Flushed[i]
  BY FlushedCalls DEF Distinct, Range
<1>2. /\ waiting \in Seq(Attempt) /\ n \in Nat
      /\ \A i, j \in 1 .. n : waiting[i] = waiting[j] => i = j
      /\ \A i \in 1 .. n : waiting[i] \in Attempt /\ slot[waiting[i]] = "queued"
      /\ \A a \in Attempt : slot[a] = "queued" => \E i \in 1 .. n : a = waiting[i]
      /\ slot \in [Attempt -> QP!Stage] /\ running \in Nat /\ concurrency \in Nat \ {0}
      /\ running = QP!Cardinality(QP!Busy(slot))
  BY DEF IInv, QP!IInv, QP!Drainable, QP!Distinct, QP!Waiting
<1>3. /\ all \in Seq(Attempt) /\ Len(all) = n + m
      /\ \A i \in 1 .. n + m : all[i] = IF i <= n THEN waiting[i] ELSE Flushed[i - n]
  BY <1>1, <1>2, ConcatProperties
<1>4. /\ Flushing \in [Attempt -> QP!Stage]
      /\ \A a \in Attempt : Flushing[a] = IF a \in Range(Flushed) THEN "queued" ELSE slot[a]
  BY <1>2 DEF Flushing, QP!Stage
<1> HIDE DEF all, n, m
<1>5. \A i \in 1 .. n + m :
         \/ i \in 1 .. n /\ all[i] = waiting[i] /\ all[i] \notin Range(Flushed)
         \/ i - n \in 1 .. m /\ all[i] = Flushed[i - n] /\ all[i] \in Range(Flushed)
  <2> TAKE i \in 1 .. n + m
  <2>1. CASE i <= n
    <3>1. i \in 1 .. n
      BY <1>2, <2>1
    <3> QED
      BY <1>1, <1>2, <1>3, <2>1, <3>1
  <2>2. CASE ~ (i <= n)
    <3>1. i - n \in 1 .. m
      BY <1>1, <1>2, <2>2
    <3> QED
      BY <1>1, <1>3, <2>2, <3>1
  <2> QED
    BY <2>1, <2>2
<1>6. QP!Distinct(all)
  <2> SUFFICES ASSUME NEW i \in 1 .. n + m, NEW j \in 1 .. n + m, all[i] = all[j] PROVE i = j
    BY <1>3 DEF QP!Distinct
  <2>1. CASE i \in 1 .. n /\ j \in 1 .. n
    <3>1. all[i] = waiting[i] /\ all[j] = waiting[j]
      BY <1>2, <1>3, <2>1
    <3> QED
      BY <1>2, <2>1, <3>1
  <2>2. CASE i - n \in 1 .. m /\ j - n \in 1 .. m
    <3>1. all[i] = Flushed[i - n] /\ all[j] = Flushed[j - n]
      <4>1. ~ (i <= n) /\ ~ (j <= n)
        BY <1>2, <2>2
      <4> QED
        BY <1>3, <4>1
    <3>2. i - n = j - n
      BY <1>1, <2>2, <3>1
    <3> QED
      BY <1>2, <3>2
  <2> QED
    BY <1>5, <2>1, <2>2
<1>7. {all[i] : i \in 1 .. Len(all)} = QP!Waiting(Flushing)
  <2>1. ASSUME NEW i \in 1 .. n + m PROVE all[i] \in QP!Waiting(Flushing)
    <3>1. all[i] \in Attempt /\ (slot[all[i]] = "queued" \/ all[i] \in Range(Flushed))
      BY <1>1, <1>2, <1>5
    <3> QED
      BY <1>4, <3>1 DEF QP!Waiting
  <2>2. ASSUME NEW a \in QP!Waiting(Flushing) PROVE \E i \in 1 .. n + m : a = all[i]
    <3>1. a \in Attempt /\ (slot[a] = "queued" \/ a \in Range(Flushed))
      BY <1>4 DEF QP!Waiting
    <3>2. CASE slot[a] = "queued"
      <4>1. PICK i \in 1 .. n : a = waiting[i]
        BY <1>2, <3>1, <3>2
      <4>2. i \in 1 .. n + m /\ i <= n
        BY <1>1, <1>2
      <4> QED
        BY <1>3, <4>1, <4>2
    <3>3. CASE a \in Range(Flushed)
      <4>1. PICK i \in 1 .. m : a = Flushed[i]
        BY <1>1, <3>3
      <4>2. n + i \in 1 .. n + m /\ ~ (n + i <= n) /\ (n + i) - n = i
        BY <1>1, <1>2
      <4> QED
        BY <1>3, <4>1, <4>2
    <3> QED
      BY <3>1, <3>2, <3>3
  <2> QED
    BY <1>3, <2>1, <2>2
<1>8. QP!Busy(Flushing) = QP!Busy(slot)
  BY <1>1, <1>4 DEF QP!Busy
<1> QED
  BY <1>2, <1>3, <1>4, <1>6, <1>7, <1>8 DEF QP!Drainable, all

LEMMA OpenKeeps == ASSUME IInv, Open PROVE IInv'
<1>1. Links /\ Callers /\ Messages /\ QP!IInv /\ Slotted /\ Entered /\ Unsent /\ Offline
  BY DEF IInv
<1>2. /\ View!Opens
      /\ Q!Drain(running, concurrency, waiting \o Flushed, Flushing)
      /\ phase' = [c \in Call |-> IF phase[c] = "offline" THEN "queued" ELSE phase[c]]
      /\ tries' = [c \in Call |-> IF phase[c] = "offline" THEN 1 ELSE tries[c]]
      /\ flushed' = flushed \cup Range(offline) /\ offline' = <<>>
      /\ sent' = [a \in Attempt |-> IF a \in Range(buffer) THEN sent[a] + 1 ELSE sent[a]]
      /\ buffer' = <<>>
      /\ UNCHANGED <<concurrency, immediate, backlog, stale, pending, answering, awaited>>
  BY DEF Open, Flushed, Flushing
<1>3. QP!IInv' /\ \A a \in Attempt : Forward(Flushing[a], slot'[a])
  <2>1. Drained(running, concurrency', waiting \o Flushed, Flushing)
    BY <1>2, FlushDrainable, DrainMoves
  <2> QED
    BY <2>1, DrainKeepsQueue
<1>4. \A a \in Attempt :
         Flushing[a] = IF phase[a[1]] = "offline" /\ a[2] = 1 THEN "queued" ELSE slot[a]
  BY FlushedCalls DEF Flushing
<1>5. \A c \in Call : /\ phase'[c] = IF phase[c] = "offline" THEN "queued" ELSE phase[c]
                      /\ tries'[c] = IF phase[c] = "offline" THEN 1 ELSE tries[c]
  BY <1>2
<1>6. /\ \A i \in 1 .. Len(buffer) : buffer[i] \in Range(buffer)
      /\ \A a \in Range(buffer) : a \in Attempt /\ sent[a] = 0 /\ ~ ToBeSent(a)
      /\ Range(offline) \subseteq Call
  BY <1>1 DEF Messages, Unsent, Offline, Range
<1>7. Links' /\ Callers' /\ Messages'
  <2>1. Links'
    BY <1>2 DEF Links, View!Opens
  <2>2. phase' \in [Call -> Phase]
    BY <1>1, <1>2 DEF Callers, Phase
  <2>3. tries' \in [Call -> 0 .. MaxRetries + 1]
    BY <1>1, <1>2, MaxRetriesAssumption DEF Callers
  <2>4. buffer' \in Seq(Attempt) /\ sent' \in [Attempt -> Nat]
    BY <1>1, <1>2 DEF Messages
  <2> QED
    BY <1>1, <1>2, <1>6, <2>1, <2>2, <2>3, <2>4 DEF Callers, Messages
<1>8. Slotted'
  <2> SUFFICES ASSUME NEW c \in Call PROVE SlotsOf(c)'
    BY DEF Slotted
  <2>1. \A n \in 1 .. MaxRetries + 1 :
          Forward(IF phase[c] = "offline" /\ n = 1 THEN "queued" ELSE slot[<<c, n>>], slot'[<<c, n>>])
    <3> TAKE n \in 1 .. MaxRetries + 1
    <3>1. PICK a \in Attempt : a = <<c, n>> /\ a[1] = c /\ a[2] = n
      BY Attempts
    <3> QED
      BY <1>3, <1>4, <3>1
  <2>2. CASE phase[c] # "offline"
    <3>1. Same(c)
      BY <1>2, <1>5, <2>2 DEF Same
    <3> QED
      BY <1>1, <2>1, <2>2, <3>1, SlotsGoOn DEF Slotted
  <2>3. CASE phase[c] = "offline"
    <3>1. /\ tries[c] = 0 /\ c \notin immediate
          /\ \A n \in 1 .. MaxRetries + 1 : slot[<<c, n>>] = "new"
      BY <1>1, <2>3 DEF Slotted, SlotsOf
    <3>2. /\ \A n \in 1 .. MaxRetries + 1 : n # 1 => slot'[<<c, n>>] = "new"
          /\ slot'[<<c, 1>>] \in {"queued", "running"}
      BY <2>1, <2>3, <3>1, MaxRetriesAssumption DEF Forward
    <3>3. phase'[c] = "queued" /\ tries'[c] = 1 /\ Current(c)' = <<c, 1>> /\ c \notin immediate'
      BY <1>2, <1>5, <2>3, <3>1 DEF Current
    <3> QED
      BY <3>2, <3>3 DEF SlotsOf
  <2> QED
    BY <2>2, <2>3
<1>9. Entered'
  <2>1. ASSUME NEW id \in Attempt PROVE EntryAt(id)'
    <3>1. CASE pending[id] # NoAttempt
      <4>1. pending[id] \in Attempt /\ pending[id][1] \in Call
        BY <1>1, <3>1, Attempts DEF Messages
      <4> QED
        BY <1>1, <1>2, <1>5, <3>1, <4>1 DEF Entered, EntryAt, Current
    <3>2. CASE pending[id] = NoAttempt
      BY <1>2, <3>2 DEF EntryAt
    <3> QED
      BY <3>1, <3>2
  <2>2. link' # "none"
    BY <1>2 DEF View!Opens
  <2>3. ASSUME NEW c \in Call, phase'[c] = "pending" PROVE EntryOf(c)'
    <3>1. phase[c] = "pending" /\ tries'[c] = tries[c] /\ Current(c)' = Current(c)
      BY <1>5, <2>3 DEF Current
    <3>2. CASE Bereft(c)
      <4>1. Range(buffer') = {}
        BY <1>2 DEF Range
      <4>2. \A n \in 1 .. tries[c] - 1 : Dropped(<<c, n>>) => Dropped(<<c, n>>)'
        <5> SUFFICES ASSUME NEW n \in 1 .. tries[c] - 1, Dropped(<<c, n>>)
                     PROVE  Dropped(<<c, n>>)'
          OBVIOUS
        <5>1. tries[c] \in 0 .. MaxRetries + 1
          BY <1>1 DEF Callers
        <5>2. n \in 1 .. MaxRetries + 1
          BY <5>1, MaxRetriesAssumption
        <5>3. PICK a \in Attempt : a = <<c, n>>
          BY <5>2, Attempts
        <5>4. sent'[a] = 0
          BY <1>2, <5>3 DEF Dropped
        <5> QED
          BY <1>2, <4>1, <5>3, <5>4 DEF Dropped
      <4> QED
        BY <1>2, <3>1, <3>2, <4>2 DEF Bereft, EntryOf
    <3>3. CASE ~ Bereft(c)
      BY <1>1, <1>2, <2>2, <3>1, <3>3 DEF Entered, EntryOf, Id
    <3> QED
      BY <3>2, <3>3
  <2> QED
    BY <2>1, <2>3 DEF Entered, EntryOf
<1>10. Unsent'
  <2>1. ASSUME NEW a \in Attempt PROVE sent'[a] <= 1 /\ (ToBeSent(a)' => sent'[a] = 0)
    <3>1. a[1] \in Call /\ a[2] \in Nat /\ a[2] > 0 /\ tries[a[1]] \in Nat
      BY <1>1, Attempts, MaxRetriesAssumption DEF Callers
    <3>2. ToBeSent(a)' => ToBeSent(a)
      <4>1. CASE phase[a[1]] = "offline"
        <5>1. tries[a[1]] = 0
          BY <1>1, <3>1, <4>1 DEF Slotted, SlotsOf
        <5> QED
          BY <3>1, <5>1 DEF ToBeSent
      <4>2. CASE phase[a[1]] # "offline"
        BY <1>5, <3>1, <4>2 DEF ToBeSent
      <4> QED
        BY <4>1, <4>2
    <3>3. sent'[a] = IF a \in Range(buffer) THEN sent[a] + 1 ELSE sent[a]
      BY <1>2
    <3> QED
      BY <1>1, <1>6, <3>2, <3>3 DEF Unsent
  <2>2. Len(buffer') = 0
    BY <1>2
  <2>3. ASSUME NEW i \in 1 .. Len(backlog)
        PROVE  sent'[backlog[i]] = 0 /\ ~ ToBeSent(backlog[i])'
    <3>1. PICK a \in Attempt : a = backlog[i]
      BY <1>1 DEF Messages
    <3>2. a \notin Range(buffer) /\ sent[a] = 0 /\ ~ ToBeSent(a)
      <4>1. ~ Holds(buffer, a) /\ sent[a] = 0 /\ ~ ToBeSent(a)
        BY <1>1, <3>1 DEF Unsent, Holds
      <4> QED
        BY <1>1, <4>1, InRange DEF Messages
    <3>3. sent'[a] = 0
      BY <1>2, <3>2
    <3>4. a[1] \in Call /\ a[2] \in Nat /\ a[2] > 0 /\ tries[a[1]] \in Nat
      BY <1>1, Attempts, MaxRetriesAssumption DEF Callers
    <3>5. ~ ToBeSent(a)'
      <4>1. phase[a[1]] = "offline" => tries[a[1]] = 0
        BY <1>1, <3>4 DEF Slotted, SlotsOf
      <4> QED
        BY <1>5, <3>2, <3>4, <4>1 DEF ToBeSent
    <3> QED
      BY <1>2, <3>1, <3>3, <3>5 DEF ToBeSent
  <2> QED
    BY <1>1, <1>2, <2>1, <2>2, <2>3 DEF Unsent, Distinct
<1>11. Offline'
  <2>1. offline' \in Seq(Call) /\ Len(offline') = 0
    BY <1>2
  <2>2. \A c \in Call : phase'[c] # "offline"
    BY <1>5
  <2> QED
    BY <2>1, <2>2, OfflineAssumption DEF Offline, Distinct
<1> QED
  BY <1>3, <1>7, <1>8, <1>9, <1>10, <1>11 DEF IInv

-----------------------------------------------------------------------------
LEMMA InitIInv == Init => IInv
<1> SUFFICES ASSUME Init PROVE IInv
  OBVIOUS
<1>1. /\ conn = "CLOSED" /\ link = "none"
      /\ phase = [c \in Call |-> "new"] /\ tries = [c \in Call |-> 0]
      /\ flushed = {} /\ immediate = {} /\ offline = <<>>
      /\ buffer = <<>> /\ backlog = <<>> /\ stale = FALSE
      /\ pending = [a \in Attempt |-> NoAttempt] /\ answering = {}
      /\ sent = [a \in Attempt |-> 0] /\ awaited = {}
  BY DEF Init, View!ViewInit
<1>2. Q!Init
  BY DEF Init
<1>3. QP!IInv
  <2>1. QP!Init
    BY <1>2 DEF Q!Init, QP!Init, Q!Clamp, QP!Clamp
  <2> QED
    BY <2>1, AttemptsFinite, LimitsAssumption, QP!InitIInv
<1>4. \A a \in Attempt : slot[a] = "new" /\ pending[a] = NoAttempt /\ sent[a] = 0
  BY <1>1, <1>2 DEF Q!Init
<1>5. \A c \in Call : phase[c] = "new" /\ tries[c] = 0
  BY <1>1
<1>6. Links
  BY <1>1 DEF Links
<1>7. Callers
  <2>1. phase \in [Call -> Phase]
    BY <1>1 DEF Phase
  <2>2. tries \in [Call -> 0 .. MaxRetries + 1]
    BY <1>1, MaxRetriesAssumption
  <2> QED
    BY <1>1, <2>1, <2>2 DEF Callers
<1>8. Messages
  <2>1. buffer \in Seq(Attempt) /\ backlog \in Seq(Attempt) /\ stale \in BOOLEAN
    BY <1>1, EmptySeq
  <2>2. sent \in [Attempt -> Nat] /\ pending \in [Attempt -> Attempt \cup {NoAttempt}]
    BY <1>1
  <2> QED
    BY <1>1, <2>1, <2>2 DEF Messages
<1>9. Slotted
  BY <1>1, <1>4, <1>5, Attempts DEF Slotted, SlotsOf
<1>10. Entered
  BY <1>4, <1>5 DEF Entered, EntryAt, EntryOf
<1>11. Unsent
  BY <1>1, <1>4 DEF Unsent, Distinct
<1>12. Offline
  <2>1. offline \in Seq(Call) /\ Len(offline) = 0
    BY <1>1
  <2> QED
    BY <1>5, <2>1, OfflineAssumption DEF Offline, Distinct
<1> QED
  BY <1>3, <1>6, <1>7, <1>8, <1>9, <1>10, <1>11, <1>12 DEF IInv

LEMMA NextIInv == IInv /\ [Next]_vars => IInv'
<1> SUFFICES ASSUME IInv, [Next]_vars PROVE IInv'
  OBVIOUS
<1>1. ASSUME NEW c \in Call, CallStep(c) PROVE IInv'
  <2>1. CASE SendNow(c)
    <3>1. /\ Ready(c) /\ Register(c) /\ UNCHANGED stale
          /\ \/ link = "open" /\ sent' = [sent EXCEPT ![Current(c)] = @ + 1]
                /\ UNCHANGED <<buffer, backlog>>
             \/ link = "open" /\ backlog' = Append(backlog, Current(c)) /\ UNCHANGED <<buffer, sent>>
      BY <2>1 DEF SendNow
    <3> QED
      BY <3>1, RegisterKeeps
  <2>2. CASE SendLater(c)
    BY <2>2, RegisterKeeps DEF SendLater
  <2> QED
    BY <1>1, <2>1, <2>2, CallOfflineKeeps, CallRejectedKeeps, CallOnlineKeeps, CallImmediateKeeps,
       SendEndsKeeps, PendingEndsKeeps, BackoffEndsKeeps DEF CallStep
<1>2. ASSUME NEW a \in Attempt, Answer(a) \/ Resolve(a) \/ Release(a) PROVE IInv'
  BY <1>2, AnswerKeeps, ResolveKeeps, ReleaseStepKeeps
<1>3. ASSUME UNCHANGED vars PROVE IInv'
  <2>1. Links /\ Messages
    BY DEF IInv
  <2> QED
    BY <1>3, <2>1, NothingTold DEF vars, connVars, wireVars, Links, Messages
<1> QED
  BY <1>1, <1>2, <1>3, ReconfigureKeeps, DrainsKeeps, DrainFailsKeeps, OpenKeeps, LoseKeeps,
     ConnectionKeeps DEF Next

-----------------------------------------------------------------------------
(* What the invariant says in the words of the property.                   *)
LEMMA ExactEntries == ASSUME IInv PROVE PendingExact
<1>1. Callers /\ Messages /\ Slotted /\ Entered
  BY DEF IInv
<1>2. ASSUME NEW id \in Attempt, pending[id] # NoAttempt
      PROVE  /\ Id(pending[id]) = id /\ phase[pending[id][1]] = "pending"
             /\ pending[id] = Current(pending[id][1])
             /\ pending[id][1] \in immediate \/ slot[pending[id]] = "running"
  <2>1. pending[id][1] \in Call
    BY <1>1, <1>2, Attempts DEF Messages
  <2>2. /\ Id(pending[id]) = id /\ phase[pending[id][1]] = "pending"
        /\ pending[id] = Current(pending[id][1])
    BY <1>1, <1>2 DEF Entered, EntryAt
  <2> QED
    BY <2>1, <2>2, PendingRuns
<1>3. ASSUME NEW c \in Call, phase[c] = "pending"
      PROVE  \/ /\ pending[Id(Current(c))] = Current(c)
                /\ link # "none" \/ Current(c) \in Range(buffer)
             \/ Bereft(c)
  <2>1. \A i \in 1 .. Len(buffer) : buffer[i] \in Range(buffer)
    BY <1>1 DEF Messages, Range
  <2> QED
    BY <1>1, <1>3, <2>1 DEF Entered, EntryOf
<1> QED
  BY <1>2, <1>3 DEF PendingExact

LEMMA ExactSlots == ASSUME IInv PROVE SlotsHeld /\ Q!TypeOK
<1> DEFINE D == {c \in Call \ immediate : phase[c] = "pending"}
           C == {Current(c) : c \in D}
           f == [a \in C |-> a[1]]
           B == QP!Busy(slot)
<1>1. Callers /\ QP!Drainable(running, concurrency, waiting, slot) /\ QP!NoIdleSlot /\ Slotted
  BY DEF IInv, QP!IInv
<1>2. /\ running = Cardinality(B) /\ IsFiniteSet(B) /\ Cardinality(B) \in Nat
      /\ waiting \in Seq(Attempt) /\ QP!Distinct(waiting)
  <2>1. B \subseteq Attempt
    BY DEF QP!Busy
  <2> HIDE DEF B
  <2>2. IsFiniteSet(B) /\ Cardinality(B) \in Nat
    BY <2>1, AttemptsFinite, FS_Subset, FS_CardinalityType
  <2> QED
    BY <1>1, <2>2, SameCardinality DEF QP!Drainable, B
<1>3. \A c \in D : Current(c) \in B /\ Current(c)[1] = c
  <2> SUFFICES ASSUME NEW c \in D PROVE Current(c) \in B /\ Current(c)[1] = c
    OBVIOUS
  <2>1. tries[c] > 0 /\ slot[Current(c)] = "running"
    BY <1>1 DEF Slotted, SlotsOf
  <2> QED
    BY <1>1, <2>1, CurrentAttempt DEF QP!Busy
<1> HIDE DEF D, B
<1>4. C \subseteq B /\ f \in Surjection(C, D)
  <2>1. C \subseteq B
    BY <1>3
  <2>2. f \in [C -> D]
    BY <1>3
  <2>3. \A c \in D : Current(c) \in C /\ f[Current(c)] = c
    BY <1>3
  <2> QED
    BY <2>1, <2>2, <2>3 DEF Surjection
<1> HIDE DEF C, f
<1>5. Cardinality(D) <= running
  <2>1. IsFiniteSet(C) /\ Cardinality(C) <= Cardinality(B) /\ Cardinality(C) \in Nat
    BY <1>2, <1>4, FS_Subset, FS_CardinalityType
  <2>2. IsFiniteSet(D) /\ Cardinality(D) <= Cardinality(C)
    BY <1>4, <2>1, FS_Surjection
  <2>3. Cardinality(D) \in Nat
    BY <2>2, FS_CardinalityType
  <2> QED
    BY <1>2, <2>1, <2>2, <2>3
<1>6. Q!SlotAccounting
  <2>1. B = Q!InFlight /\ QP!Waiting(slot) = Q!Queued
    BY DEF B, QP!Busy, Q!InFlight, QP!Waiting, Q!Queued
  <2>2. Len(waiting) \in 0 .. Len(waiting)
    BY <1>2
  <2>3. Len(waiting) = QP!Cardinality({waiting[i] : i \in 1 .. Len(waiting)})
    BY <1>2, <2>2, AttemptsFinite, LimitsAssumption, QP!PrefixCardinality
  <2> QED
    BY <1>1, <1>2, <2>1, <2>3, SameCardinality DEF Q!SlotAccounting, QP!Drainable
<1>7. Q!NoIdleSlot /\ Q!TypeOK
  BY <1>1 DEF QP!NoIdleSlot, Q!NoIdleSlot, QP!Drainable, Q!TypeOK, QP!Stage, Q!Stage
<1> QED
  BY <1>5, <1>6, <1>7 DEF SlotsHeld, D

LEMMA ExactOffline == ASSUME IInv PROVE OfflineExact
<1>1. /\ offline \in Seq(Call) /\ Distinct(offline) /\ Len(offline) <= OfflineMax
      /\ DOMAIN offline = 1 .. Len(offline) /\ Len(offline) \in 0 .. Len(offline)
      /\ \A i \in 1 .. Len(offline) : offline[i] \in Call /\ phase[offline[i]] = "offline"
      /\ \A c \in Call : phase[c] = "offline" => \E i \in 1 .. Len(offline) : offline[i] = c
  BY DEF IInv, Offline
<1>2. Range(offline) = {offline[i] : i \in 1 .. Len(offline)}
  BY <1>1 DEF Range
<1>3. Range(offline) = {c \in Call : phase[c] = "offline"}
  BY <1>1, <1>2
<1>4. QP!Distinct(offline)
  BY <1>1 DEF Distinct, QP!Distinct
<1>5. Len(offline) = QP!Cardinality({offline[i] : i \in 1 .. Len(offline)})
  BY <1>1, <1>4, AttemptsFinite, LimitsAssumption, QP!PrefixCardinality
<1> QED
  BY <1>1, <1>2, <1>3, <1>5, SameCardinality DEF OfflineExact

-----------------------------------------------------------------------------
(* In every reachable state only the current attempt of a call is in the   *)
(* queue or among the entries, and nothing that is to be sent is buffered. *)
THEOREM CallsInvariant == Spec => []IInv
  BY InitIInv, NextIInv, PTL DEF Spec

(* What a client keeps of its calls is exact: an entry for each call that  *)
(* waits for an answer and for no other, a slot under each, the offline    *)
(* queue within its limit and without repetitions, and nothing on the wire *)
(* twice (client.ts:351-356,732-764,916-981,1349-1447,1503-1511,1612-1616).*)
THEOREM CallsAreExact == Spec => []CallsExact
<1>1. ASSUME IInv PROVE CallsExact
  <2>1. Links /\ Callers /\ Messages /\ Unsent /\ Offline
    BY <1>1 DEF IInv
  <2>2. PendingExact /\ SlotsHeld /\ Q!TypeOK /\ OfflineExact
    BY <1>1, ExactEntries, ExactSlots, ExactOffline
  <2>3. SentOnce
    BY <2>1 DEF Unsent, SentOnce
  <2>4. TypeOK
    BY <2>1, <2>2 DEF Links, Callers, Messages, Offline, TypeOK
  <2> QED
    BY <2>2, <2>3, <2>4 DEF CallsExact
<1> QED
  BY <1>1, CallsInvariant, PTL

=============================================================================
