---------------------------- MODULE LivePartsProofs ----------------------------
(***************************************************************************)
(* Theorems about parts of MCLiveParts, for every value of their           *)
(* constants: the handshake, the deduplication of messages, the export of  *)
(* events, the replay of commands, the stream of a node and the client for *)
(* browsers.  A behaviour of SpecParts is of one part, and the others      *)
(* rest: each invariant below says what holds of its part when the         *)
(* behaviour is of it.                                                     *)
(***************************************************************************)
EXTENDS MCLiveParts, FiniteSetTheorems, SequenceTheorems, WellFoundedInduction,
        TLAPS

-----------------------------------------------------------------------------
(* Handshake *)

(* The chain goes in until the auth check and then out: no middleware that *)
(* has still to call next() is around a check that was reached, and the    *)
(* promise of the auth callback waits only inside the check.               *)
GoesIn ==
    /\ dir = "in" /\ at <= depth => ~authCalled
    /\ ~authCalled => auth = "none"
    /\ auth = "waiting" => at = depth + 1 /\ dir = "in"

(* A chain that returns past the check was accepted, unless a middleware   *)
(* caught the error; nothing of it is left once the upgrade is decided.    *)
ComesOut ==
    /\ authCalled /\ dir = "out" /\ ~swallowed =>
          auth # "aborted" /\ (handler => auth = "accepted")
    /\ upgrade # "pending" => at = 0

ShakeInv == Shake!UpgradeJustified /\ GoesIn /\ ComesOut

LEMMA ShakeInit == Shake!Init => ShakeInv
<1> SUFFICES ASSUME Shake!Init PROVE ShakeInv
  OBVIOUS
<1>1. /\ depth \in Nat /\ depth <= MaxMiddlewares /\ (depth > 0 \/ handler)
      /\ depth = 0 => auth = "waiting" /\ authCalled
      /\ depth # 0 => auth = "none" /\ ~authCalled
  <2>1. CASE depth = 0
    <3>1. authCalled
      BY ONLY <2>1, Shake!Init, Zenon DEF Shake!Init
    <3> QED
      BY <2>1, <3>1, HandshakeAssumption DEF Shake!Init
  <2>2. CASE depth # 0
    <3>1. authCalled = FALSE
      BY <2>2 DEF Shake!Init
    <3> QED
      BY <2>2, <3>1, HandshakeAssumption DEF Shake!Init
  <2> QED
    BY <2>1, <2>2
<1>2. /\ handler \in BOOLEAN /\ timed \in BOOLEAN /\ authCalled \in BOOLEAN
      /\ ~aborted /\ ~swallowed /\ aborted \in BOOLEAN /\ swallowed \in BOOLEAN
      /\ socket = "open" /\ upgrade = "pending" /\ at = 1 /\ dir = "in"
  BY DEF Shake!Init
<1>3. Shake!TypeOK
  <2>1. depth \in 0 .. MaxMiddlewares /\ at \in 0 .. depth + 1
    BY <1>1, <1>2, HandshakeAssumption
  <2> QED
    BY <2>1, <1>1, <1>2 DEF Shake!TypeOK
<1> QED
  BY <1>1, <1>2, <1>3 DEF ShakeInv, Shake!UpgradeJustified, GoesIn, ComesOut

LEMMA ShakeStep == ShakeInv /\ [Shake!Next]_shakeVars => ShakeInv'
<1> SUFFICES ASSUME ShakeInv, [Shake!Next]_shakeVars PROVE ShakeInv'
  OBVIOUS
<1> USE DEF ShakeInv, Shake!UpgradeJustified, Shake!TypeOK, GoesIn, ComesOut, Shake!rest,
            Shake!InMiddleware
<1> USE HandshakeAssumption
<1>1. ASSUME Shake!CallsNext PROVE ShakeInv'
  <2>1. /\ at \in 1 .. depth /\ dir = "in" /\ at' = at + 1 /\ Shake!Reaches(at + 1)
        /\ UNCHANGED <<depth, handler, timed, aborted, socket, swallowed, upgrade>>
    BY <1>1 DEF Shake!CallsNext, Shake!Reaches
  <2>2. ~authCalled /\ auth = "none" /\ upgrade = "pending"
    BY <2>1
  <2>3. CASE at < depth
    <3>1. dir' = "in" /\ auth' = "none" /\ ~authCalled'
      BY <2>1, <2>2, <2>3 DEF Shake!Reaches
    <3>2. at' = at + 1 /\ at' \in 0 .. depth + 1 /\ authCalled' \in BOOLEAN
      BY <2>1, <2>3, <3>1 DEF Shake!Reaches
    <3>3. Shake!TypeOK'
      BY <2>1, <3>1, <3>2
    <3> QED
      BY <2>1, <2>2, <3>1, <3>2, <3>3
  <2>4. CASE at = depth
    <3>1. /\ authCalled'
          /\ \/ ~handler /\ dir' = "out" /\ auth' = "none"
             \/ handler /\ aborted /\ dir' = "error" /\ auth' = "aborted"
             \/ handler /\ ~aborted /\ dir' = "in" /\ auth' = "waiting"
      BY <2>1, <2>2, <2>4 DEF Shake!Reaches
    <3> QED
      BY <2>1, <2>2, <2>4, <3>1
  <2> QED
    BY <2>1, <2>3, <2>4
<1>2. ASSUME Shake!Returns PROVE ShakeInv'
  BY <1>2 DEF Shake!Returns
<1>3. ASSUME Shake!Throws PROVE ShakeInv'
  BY <1>3 DEF Shake!Throws
<1>4. ASSUME Shake!GoesOn PROVE ShakeInv'
  <2>1. /\ at > 0 /\ dir # "in" /\ at' = at - 1 /\ dir' # "in"
        /\ \/ dir' = dir /\ swallowed' = swallowed
           \/ dir' = "out" /\ swallowed'
        /\ UNCHANGED <<depth, handler, timed, auth, authCalled, aborted, socket, upgrade>>
    BY ONLY <1>4 DEF Shake!GoesOn, Shake!rest
  <2>2. at' \in 0 .. depth + 1
    BY <2>1
  <2>3. Shake!TypeOK'
    BY <2>1, <2>2
  <2>4. auth # "waiting" /\ upgrade = "pending"
    BY <2>1
  <2>5. Shake!UpgradeJustified'
    BY <2>1, <2>3, <2>4
  <2>6. GoesIn' /\ ComesOut'
    BY <2>1, <2>4
  <2> QED
    BY <2>5, <2>6
<1>5. ASSUME Shake!Accepts PROVE ShakeInv'
  BY <1>5 DEF Shake!Accepts
<1>6. ASSUME Shake!Rejects PROVE ShakeInv'
  BY <1>6 DEF Shake!Rejects
<1>7. ASSUME Shake!TimesOut PROVE ShakeInv'
  BY <1>7 DEF Shake!TimesOut, Shake!Aborts, Shake!NextTask
<1>8. ASSUME Shake!SocketGoes PROVE ShakeInv'
  BY <1>8 DEF Shake!SocketGoes, Shake!Aborts, Shake!NextTask
<1>9. ASSUME Shake!Ends PROVE ShakeInv'
  BY <1>9 DEF Shake!Ends, Shake!Completes
<1>10. ASSUME UNCHANGED shakeVars PROVE ShakeInv'
  BY <1>10 DEF shakeVars
<1> QED
  BY <1>1, <1>2, <1>3, <1>4, <1>5, <1>6, <1>7, <1>8, <1>9, <1>10 DEF Shake!Next
-----------------------------------------------------------------------------
(* Deduplication of messages *)

LEMMA CopiesCounted == Dedup!Cardinality(Copy) = Cardinality(Copy) /\ Cardinality(Copy) \in Nat
<1>1. Dedup!Cardinality(Copy) = Cardinality(Copy)
  BY DEF Dedup!Cardinality, Cardinality
<1> QED
  BY <1>1, DedupAssumption, FS_CardinalityType

(* While Redis works and the claim lives, at most one copy has passed, it  *)
(* has passed before the handler ran, and the claim keeps others away.     *)
OnePasses ==
    /\ \A c \in Copy : copy[c] \in {"duplicate", "passed", "running"} => claim
    /\ executed > 0 => claim
    /\ executed <= 1
    /\ \A c \in Copy : copy[c] = "passed" => executed = 0
    /\ \A c, d \in Copy : copy[c] = "passed" /\ copy[d] = "passed" => c = d

DedupInv ==
    /\ Dedup!TypeOK /\ dedupFailures \in Nat
    /\ ~expired /\ dedupFailures = 0 => OnePasses

LEMMA DedupInit == Dedup!Init => DedupInv
<1> SUFFICES ASSUME Dedup!Init PROVE DedupInv
  OBVIOUS
<1> USE DEF Dedup!Init
<1>1. copy \in [Copy -> Dedup!Phase] /\ \A c \in Copy : copy[c] = "idle"
  BY DEF Dedup!Phase
<1>2. storing \in 0 .. Dedup!Cardinality(Copy) /\ executed = 0 /\ executed \in 0 .. 2
  BY CopiesCounted
<1>3. Dedup!TypeOK /\ dedupFailures \in Nat
  BY <1>1, <1>2 DEF Dedup!TypeOK
<1>4. OnePasses
  BY <1>1, <1>2 DEF OnePasses
<1> QED
  BY <1>3, <1>4 DEF DedupInv

(* What a move of a copy leaves of the types.                              *)
LEMMA DedupMoves ==
    ASSUME Dedup!TypeOK, NEW c \in Copy, NEW from, NEW to \in Dedup!Phase, Dedup!Move(c, from, to)
    PROVE  /\ copy' \in [Copy -> Dedup!Phase] /\ copy[c] = from /\ copy'[c] = to
           /\ \A d \in Copy : d # c => copy'[d] = copy[d]
  BY DEF Dedup!TypeOK, Dedup!Move

LEMMA DedupStep == DedupInv /\ [Dedup!Next]_dedupVars => DedupInv'
<1> SUFFICES ASSUME DedupInv, [Dedup!Next]_dedupVars PROVE DedupInv'
  OBVIOUS
<1>0. /\ Dedup!TypeOK /\ dedupFailures \in Nat /\ (~expired /\ dedupFailures = 0 => OnePasses)
      /\ copy \in [Copy -> Dedup!Phase]
      /\ claim \in BOOLEAN /\ cached \in BOOLEAN /\ expired \in BOOLEAN
      /\ executed \in 0 .. 2 /\ station \in {"idle", "waiting", "answered"}
      /\ storing \in 0 .. Cardinality(Copy) /\ Cardinality(Copy) \in Nat
      /\ Dedup!Cardinality(Copy) = Cardinality(Copy)
  BY CopiesCounted DEF DedupInv, Dedup!TypeOK
<1>1. ASSUME NEW c \in Copy, Dedup!StationSends(c) PROVE DedupInv'
  <2>1. /\ Dedup!Move(c, "idle", "arrived") /\ station' = "waiting"
        /\ UNCHANGED <<claim, cached, storing, executed, expired, dedupFailures, drops>>
    BY <1>1 DEF Dedup!StationSends
  <2>2. /\ copy' \in [Copy -> Dedup!Phase] /\ copy[c] = "idle" /\ copy'[c] = "arrived"
        /\ \A d \in Copy : d # c => copy'[d] = copy[d]
    BY <1>0, <2>1, DedupMoves DEF Dedup!Phase
  <2>3. OnePasses => OnePasses'
    BY <2>1, <2>2 DEF OnePasses
  <2> QED
    BY <1>0, <2>1, <2>2, <2>3 DEF DedupInv, Dedup!TypeOK
<1>2. ASSUME NEW c \in Copy, Dedup!Claims(c) PROVE DedupInv'
  <2>1. /\ Dedup!Move(c, "arrived", IF claim THEN "duplicate" ELSE "passed") /\ claim'
        /\ claim' \in BOOLEAN
        /\ UNCHANGED <<cached, storing, executed, station, expired, dedupFailures, drops>>
    BY <1>2 DEF Dedup!Claims
  <2>2. PICK to \in Dedup!Phase : to = IF claim THEN "duplicate" ELSE "passed"
    BY DEF Dedup!Phase
  <2>3. /\ copy' \in [Copy -> Dedup!Phase] /\ copy[c] = "arrived" /\ copy'[c] = to
        /\ \A d \in Copy : d # c => copy'[d] = copy[d]
    BY <1>0, <2>1, <2>2, DedupMoves DEF Dedup!Phase
  <2>4. OnePasses => OnePasses'
    BY <1>0, <2>1, <2>2, <2>3 DEF OnePasses
  <2> QED
    BY <1>0, <2>1, <2>3, <2>4 DEF DedupInv, Dedup!TypeOK
<1>3. ASSUME NEW c \in Copy, Dedup!ClaimFails(c) PROVE DedupInv'
  <2>1. /\ Dedup!Move(c, "arrived", "passed") /\ claim' \in BOOLEAN
        /\ dedupFailures' = dedupFailures + 1
        /\ UNCHANGED <<cached, storing, executed, station, expired, drops>>
    BY <1>0, <1>3 DEF Dedup!ClaimFails, Dedup!Fault
  <2>2. copy' \in [Copy -> Dedup!Phase]
    BY <1>0, <2>1, DedupMoves DEF Dedup!Phase
  <2> QED
    BY <1>0, <2>1, <2>2 DEF DedupInv, Dedup!TypeOK
<1>4. ASSUME NEW c \in Copy, Dedup!Replays(c) PROVE DedupInv'
  <2>1. /\ Dedup!Move(c, "duplicate", "idle") /\ station' \in {"idle", "waiting", "answered"}
        /\ UNCHANGED <<claim, cached, storing, executed, expired, dedupFailures>>
    BY <1>0, <1>4 DEF Dedup!Replays
  <2>2. /\ copy' \in [Copy -> Dedup!Phase] /\ copy[c] = "duplicate" /\ copy'[c] = "idle"
        /\ \A d \in Copy : d # c => copy'[d] = copy[d]
    BY <1>0, <2>1, DedupMoves DEF Dedup!Phase
  <2>3. OnePasses => OnePasses'
    BY <2>1, <2>2 DEF OnePasses
  <2> QED
    BY <1>0, <2>1, <2>2, <2>3 DEF DedupInv, Dedup!TypeOK
<1>5. ASSUME NEW c \in Copy, Dedup!ReplayFails(c) PROVE DedupInv'
  <2>1. /\ Dedup!Move(c, "duplicate", "passed") /\ dedupFailures' = dedupFailures + 1
        /\ UNCHANGED <<claim, cached, storing, executed, station, expired, drops>>
    BY <1>5 DEF Dedup!ReplayFails, Dedup!Fault
  <2>2. copy' \in [Copy -> Dedup!Phase]
    BY <1>0, <2>1, DedupMoves DEF Dedup!Phase
  <2> QED
    BY <1>0, <2>1, <2>2 DEF DedupInv, Dedup!TypeOK
<1>6. ASSUME NEW c \in Copy, Dedup!Executes(c) PROVE DedupInv'
  <2>1. /\ Dedup!Move(c, "passed", "running")
        /\ executed' = IF executed < 2 THEN executed + 1 ELSE 2
        /\ UNCHANGED <<claim, cached, storing, station, expired, dedupFailures, drops>>
    BY <1>6 DEF Dedup!Executes
  <2>2. /\ copy' \in [Copy -> Dedup!Phase] /\ copy[c] = "passed" /\ copy'[c] = "running"
        /\ \A d \in Copy : d # c => copy'[d] = copy[d]
    BY <1>0, <2>1, DedupMoves DEF Dedup!Phase
  <2>3. executed' \in 0 .. 2
    BY <1>0, <2>1
  <2>4. OnePasses => OnePasses'
    BY <1>0, <2>1, <2>2 DEF OnePasses
  <2> QED
    BY <1>0, <2>1, <2>2, <2>3, <2>4 DEF DedupInv, Dedup!TypeOK
<1>7. ASSUME NEW c \in Copy, Dedup!IsDropped(c) PROVE DedupInv'
  <2>1. /\ copy' = [copy EXCEPT ![c] = "idle"]
        /\ UNCHANGED <<claim, cached, storing, executed, station, expired, dedupFailures>>
    BY <1>7 DEF Dedup!IsDropped
  <2>2. copy' \in [Copy -> Dedup!Phase]
    BY <1>0, <2>1 DEF Dedup!Phase
  <2>3. OnePasses => OnePasses'
    BY <1>0, <2>1 DEF OnePasses
  <2> QED
    BY <1>0, <2>1, <2>2, <2>3 DEF DedupInv, Dedup!TypeOK
<1>8. ASSUME NEW c \in Copy, Dedup!Answers(c) PROVE DedupInv'
  <2>1. /\ Dedup!Move(c, "running", "idle") /\ station' \in {"idle", "waiting", "answered"}
        /\ storing < Cardinality(Copy) /\ storing' = storing + 1
        /\ UNCHANGED <<claim, cached, executed, expired, dedupFailures>>
    BY <1>0, <1>8 DEF Dedup!Answers
  <2>2. /\ copy' \in [Copy -> Dedup!Phase] /\ copy[c] = "running" /\ copy'[c] = "idle"
        /\ \A d \in Copy : d # c => copy'[d] = copy[d]
    BY <1>0, <2>1, DedupMoves DEF Dedup!Phase
  <2>3. OnePasses => OnePasses'
    BY <2>1, <2>2 DEF OnePasses
  <2>4. storing' \in 0 .. Cardinality(Copy)
    BY <1>0, <2>1
  <2> QED
    BY <1>0, <2>1, <2>2, <2>3, <2>4 DEF DedupInv, Dedup!TypeOK
<1>9. ASSUME Dedup!Stored PROVE DedupInv'
  <2>1. /\ storing > 0 /\ storing' = storing - 1 /\ cached' \in BOOLEAN
        /\ dedupFailures' \in {dedupFailures, dedupFailures + 1}
        /\ UNCHANGED <<copy, claim, executed, station, expired, drops>>
    BY <1>0, <1>9 DEF Dedup!Stored, Dedup!Fault
  <2>2. storing' \in 0 .. Cardinality(Copy) /\ dedupFailures' \in Nat
    BY <1>0, <2>1
  <2>3. OnePasses => OnePasses'
    BY <2>1 DEF OnePasses
  <2> QED
    BY <1>0, <2>1, <2>2, <2>3 DEF DedupInv, Dedup!TypeOK
<1>10. ASSUME Dedup!ClaimExpires PROVE DedupInv'
  BY <1>0, <1>10 DEF Dedup!ClaimExpires, DedupInv, Dedup!TypeOK
<1>11. ASSUME Dedup!AnswerExpires PROVE DedupInv'
  BY <1>0, <1>11 DEF Dedup!AnswerExpires, DedupInv, Dedup!TypeOK, OnePasses
<1>12. ASSUME UNCHANGED dedupVars PROVE DedupInv'
  BY <1>0, <1>12 DEF dedupVars, DedupInv, Dedup!TypeOK, OnePasses
<1> QED
  BY <1>1, <1>2, <1>3, <1>4, <1>5, <1>6, <1>7, <1>8, <1>9, <1>10, <1>11, <1>12
     DEF Dedup!Next, Dedup!Handled

LEMMA DedupExact == DedupInv => Dedup!ExecutedOnce
  BY DEF DedupInv, Dedup!ExecutedOnce, OnePasses, Dedup!TypeOK
-----------------------------------------------------------------------------
(* Export of events *)

Export == Worker!Task
Fates  == {"none", "queued", "running", "ended", "dropped", "refused", "cleared"}
Places == 1 .. Len(waiting)
In(s)  == Worker!Of(s)

WorkTyped ==
    /\ dropOldest \in BOOLEAN /\ fate \in [Export -> Fates] /\ waiting \in Seq(Export)
    /\ active \in Nat /\ dropped \in Nat
    /\ accepting \in BOOLEAN /\ draining \in BOOLEAN /\ drainTimer \in BOOLEAN
    /\ shutdown \in {"no", "waiting", "drained", "closed"}

(* The slots that are used, and the tasks that found no room.              *)
Slots ==
    /\ active = Cardinality(In("running")) /\ active <= MaxRunning
    /\ waiting # <<>> => active = MaxRunning
    /\ dropped = Cardinality(In("dropped"))

(* What waits, waits in the queue, in the order in which it came.          *)
Line ==
    /\ Len(waiting) <= MaxWaiting
    /\ \A t \in Export : fate[t] = "queued" <=> \E i \in Places : waiting[i] = t
    /\ \A i, j \in Places : i < j => waiting[i] < waiting[j]

(* Tasks come in the order of their numbers, and start in that order.      *)
Turns ==
    /\ \A t, u \in Export : t < u /\ fate[t] = "none" => fate[u] = "none"
    /\ \A t, u \in Export : fate[t] = "queued" /\ fate[u] \in {"running", "ended"} => u < t

(* The stages of the shutdown: nothing is taken after its first, nothing   *)
(* is cleared before its second, and nothing is left if it ended in time.  *)
Stages ==
    /\ accepting <=> shutdown = "no"
    /\ draining <=> shutdown = "waiting"
    /\ shutdown = "no" => ~drainTimer
    /\ shutdown = "waiting" => drainTimer
    /\ \A t \in Export :
          /\ fate[t] = "refused" => shutdown # "no"
          /\ fate[t] = "cleared" => shutdown \in {"drained", "closed"}
          /\ shutdown \in {"drained", "closed"} /\ drainTimer =>
                fate[t] \notin {"running", "queued", "cleared"}

WorkInv == WorkTyped /\ Slots /\ Line /\ Turns /\ Stages

LEMMA Exports ==
    /\ Worker!Task = Export /\ IsFiniteSet(Export)
    /\ \A t \in Export : t \in Nat /\ t >= 1 /\ t <= MaxTasks
  BY WorkerAssumption, FS_Interval DEF Export, Worker!Task

LEMMA Counting ==
    ASSUME NEW S \in SUBSET Export
    PROVE  /\ IsFiniteSet(S) /\ Cardinality(S) \in Nat /\ (Cardinality(S) = 0 <=> S = {})
           /\ \A t \in Export : t \notin S => Cardinality(S \cup {t}) = Cardinality(S) + 1
           /\ \A t \in S : Cardinality(S \ {t}) = Cardinality(S) - 1
<1>1. IsFiniteSet(S)
  BY Exports, FS_Subset
<1> QED
  BY <1>1, FS_CardinalityType, FS_EmptySet, FS_AddElement, FS_RemoveElement

LEMMA SameCount == ASSUME NEW S PROVE Worker!Cardinality(S) = Cardinality(S)
  BY DEF Worker!Cardinality, Cardinality

LEMMA LeastOfTwo ==
    ASSUME NEW a \in Int, NEW b \in Int
    PROVE  (a <= b => Worker!Least(a, b) = a) /\ (b <= a => Worker!Least(a, b) = b)
  BY DEF Worker!Least

(* What tryFlush starts: nothing, or the head of the queue.                *)
LEMMA NoneStarts ==
    ASSUME NEW q \in Seq(Export), NEW running \in Nat, NEW fates \in [Export -> Fates],
           Worker!Flush(q, running, fates),
           (q = <<>> /\ running <= MaxRunning) \/ running = MaxRunning
    PROVE  waiting' = q /\ active' = running /\ fate' = fates
<1>1. PICK n : n = Worker!Least(Len(q), MaxRunning - running)
  OBVIOUS
<1>2. n = 0
  BY <1>1, WorkerAssumption, LenProperties, EmptySeq DEF Worker!Least
<1>3. /\ waiting' = SubSeq(q, n + 1, Len(q)) /\ active' = running + n
      /\ fate' = [t \in Export |-> IF \E i \in 1 .. n : q[i] = t THEN "running" ELSE fates[t]]
  BY <1>1, Exports DEF Worker!Flush
<1>4. waiting' = q
  BY <1>2, <1>3, SubSeqFull
<1>5. fate' = fates
  BY <1>2, <1>3
<1> QED
  BY <1>2, <1>3, <1>4, <1>5

LEMMA OneStarts ==
    ASSUME NEW q \in Seq(Export), NEW running \in Nat, NEW fates \in [Export -> Fates],
           Worker!Flush(q, running, fates),
           q # <<>>, running < MaxRunning, Len(q) = 1 \/ running + 1 = MaxRunning
    PROVE  /\ waiting' = Tail(q) /\ active' = running + 1
           /\ q[1] \in Export /\ fate' = [fates EXCEPT ![q[1]] = "running"]
<1>1. PICK n : n = Worker!Least(Len(q), MaxRunning - running)
  OBVIOUS
<1>2. n = 1
  <2>1. Len(q) \in Nat /\ Len(q) >= 1
    BY LenProperties, EmptySeq
  <2>2. MaxRunning - running \in Int /\ MaxRunning - running >= 1
    BY WorkerAssumption
  <2>3. CASE Len(q) = 1
    BY <1>1, <2>1, <2>2, <2>3, LeastOfTwo
  <2>4. CASE running + 1 = MaxRunning
    BY <1>1, <2>1, <2>2, <2>4, LeastOfTwo
  <2> QED
    BY <2>3, <2>4
<1>3. /\ waiting' = SubSeq(q, n + 1, Len(q)) /\ active' = running + n
      /\ fate' = [t \in Export |-> IF \E i \in 1 .. n : q[i] = t THEN "running" ELSE fates[t]]
  BY <1>1, Exports DEF Worker!Flush
<1>4. waiting' = Tail(q)
  BY <1>2, <1>3, TailIsSubSeq
<1>5. q[1] \in Export
  BY LenProperties, EmptySeq, ElementOfSeq
<1>6. fate' = [fates EXCEPT ![q[1]] = "running"]
  <2>1. \A t \in Export : (\E i \in 1 .. n : q[i] = t) <=> t = q[1]
    BY <1>2
  <2> QED
    BY <1>3, <1>5, <2>1
<1> QED
  BY <1>2, <1>3, <1>4, <1>5, <1>6

LEMMA NextTasks ==
    ASSUME WorkInv, NEW t \in Export, Worker!IsNext(t)
    PROVE  \A u \in Export : fate[u] = "none" <=> t <= u
<1>1. fate[t] = "none" /\ \A u \in 1 .. t - 1 : fate[u] # "none"
  BY DEF Worker!IsNext
<1>2. \A u \in Export : u < t => u \in 1 .. t - 1
  BY Exports
<1> QED
  BY <1>1, <1>2, Exports DEF WorkInv, Turns

LEMMA WorkInit == Worker!Init => WorkInv
<1> SUFFICES ASSUME Worker!Init PROVE WorkInv
  OBVIOUS
<1>1. /\ dropOldest \in BOOLEAN /\ fate = [t \in Export |-> "none"] /\ waiting = <<>>
      /\ active = 0 /\ dropped = 0 /\ accepting /\ ~draining /\ ~drainTimer /\ shutdown = "no"
      /\ accepting \in BOOLEAN /\ draining \in BOOLEAN /\ drainTimer \in BOOLEAN
  BY Exports DEF Worker!Init
<1>2. waiting \in Seq(Export) /\ Len(waiting) = 0
  BY <1>1, EmptySeq
<1>3. In("running") = {} /\ In("dropped") = {}
  BY <1>1, Exports DEF In, Worker!Of
<1>4. WorkTyped
  BY <1>1, <1>2 DEF WorkTyped, Fates
<1>5. Slots
  <2>1. Cardinality({}) = 0 /\ 0 <= MaxRunning
    BY FS_EmptySet, WorkerAssumption
  <2>2. active = 0 /\ dropped = 0 /\ waiting = <<>>
    BY <1>1
  <2> QED
    BY <1>3, <2>1, <2>2 DEF Slots
<1>6. Line
  BY <1>1, <1>2, WorkerAssumption DEF Line, Places
<1>7. Turns /\ Stages
  BY <1>1 DEF Turns, Stages
<1> QED
  BY <1>4, <1>5, <1>6, <1>7 DEF WorkInv

(* enqueue                                                                 *)
LEMMA TaskTurnedAway ==
    ASSUME WorkInv, NEW t \in Export, Worker!IsNext(t),
           Worker!Refused(t) \/ Worker!DropsNewest(t),
           UNCHANGED <<dropOldest, accepting, draining, drainTimer, shutdown>>
    PROVE  WorkInv'
<1>1. /\ WorkTyped /\ Slots /\ Line /\ Turns /\ Stages
      /\ UNCHANGED <<dropOldest, accepting, draining, drainTimer, shutdown, waiting, active>>
  BY DEF WorkInv, Worker!Refused, Worker!DropsNewest
<1>2. PICK s \in Fates :
          /\ fate' = [fate EXCEPT ![t] = s]
          /\ \/ s = "refused" /\ ~accepting /\ dropped' = dropped
             \/ s = "dropped" /\ dropped' = dropped + 1
  BY DEF Worker!Refused, Worker!DropsNewest, Fates
<1>3. \A u \in Export : fate[u] = "none" <=> t <= u
  BY NextTasks
<1>4. /\ fate' \in [Export -> Fates] /\ fate'[t] = s /\ fate[t] = "none"
      /\ \A u \in Export : u # t => fate'[u] = fate[u]
  BY <1>1, <1>2, <1>3, Exports DEF WorkTyped
<1>5. WorkTyped'
  BY <1>1, <1>2, <1>4 DEF WorkTyped
<1>6. Slots'
  <2>1. In("running")' = In("running")
    BY <1>2, <1>4, Exports DEF In, Worker!Of
  <2>2. CASE s = "refused"
    <3>1. In("dropped")' = In("dropped") /\ dropped' = dropped
      BY <1>2, <1>4, <2>2, Exports DEF In, Worker!Of
    <3> QED
      BY <1>1, <2>1, <3>1 DEF Slots
  <2>3. CASE s = "dropped"
    <3>1. In("dropped")' = In("dropped") \cup {t} /\ dropped' = dropped + 1
      BY <1>2, <1>4, <2>3, Exports DEF In, Worker!Of
    <3>2. In("dropped") \subseteq Export /\ t \notin In("dropped")
      BY <1>4, Exports DEF In, Worker!Of
    <3> QED
      BY <1>1, <2>1, <3>1, <3>2, Counting DEF Slots
  <2> QED
    BY <1>2, <2>2, <2>3
<1>7. Line'
  BY <1>1, <1>2, <1>4 DEF Line, Places
<1>8. Turns'
  BY <1>1, <1>2, <1>3, <1>4, Exports DEF Turns
<1>9. Stages'
  BY <1>1, <1>2, <1>4 DEF Stages
<1> QED
  BY <1>5, <1>6, <1>7, <1>8, <1>9 DEF WorkInv

LEMMA TaskTakenIn ==
    ASSUME WorkInv, NEW t \in Export, Worker!IsNext(t), Worker!HasRoom(t),
           UNCHANGED <<dropOldest, accepting, draining, drainTimer, shutdown>>
    PROVE  WorkInv'
<1>1. /\ WorkTyped /\ Slots /\ Line /\ Turns /\ Stages
      /\ UNCHANGED <<dropOldest, accepting, draining, drainTimer, shutdown, dropped>>
      /\ waiting \in Seq(Export) /\ Len(waiting) \in Nat /\ Len(waiting) < MaxWaiting
      /\ accepting /\ shutdown = "no" /\ fate \in [Export -> Fates] /\ active \in Nat
      /\ active <= MaxRunning
  BY LenProperties DEF WorkInv, WorkTyped, Slots, Stages, Worker!HasRoom
<1>2. \A u \in Export : fate[u] = "none" <=> t <= u
  BY NextTasks
<1>3. fate[t] = "none" /\ \A u \in Export : fate[u] # "none" => u < t
  BY <1>2, Exports
<1>4. PICK q \in Seq(Export) : q = Append(waiting, t)
  BY <1>1, AppendProperties
<1>5. PICK fates \in [Export -> Fates] : fates = [fate EXCEPT ![t] = "queued"]
  BY <1>1 DEF Fates
<1>6. Worker!Flush(q, active, fates)
  BY <1>4, <1>5 DEF Worker!HasRoom
<1>7. /\ q # <<>> /\ Len(q) = Len(waiting) + 1 /\ q[Len(waiting) + 1] = t
      /\ \A i \in 1 .. Len(waiting) : q[i] = waiting[i]
  BY <1>1, <1>4, AppendProperties
<1>8. CASE active = MaxRunning
  <2>1. waiting' = q /\ active' = active /\ fate' = fates
    BY <1>1, <1>6, <1>8, NoneStarts
  <2>2. /\ fate' \in [Export -> Fates] /\ fate'[t] = "queued"
        /\ \A u \in Export : u # t => fate'[u] = fate[u]
    BY <1>1, <1>5, <2>1
  <2>3. WorkTyped'
    BY <1>1, <2>1, <2>2 DEF WorkTyped
  <2>4. Slots'
    <3>1. In("running")' = In("running") /\ In("dropped")' = In("dropped")
      BY <1>3, <2>2, Exports DEF In, Worker!Of
    <3> QED
      BY <1>1, <1>8, <2>1, <3>1 DEF Slots
  <2>5. Line'
    <3>1. \A i \in 1 .. Len(waiting) : waiting[i] \in Export /\ waiting[i] < t
      <4>1. \A i \in 1 .. Len(waiting) : waiting[i] \in Export
        BY <1>1, ElementOfSeq
      <4>2. \A i \in 1 .. Len(waiting) : fate[waiting[i]] = "queued"
        BY <1>1, <4>1 DEF Line, Places
      <4> QED
        BY <1>3, <4>1, <4>2
    <3>2. ASSUME NEW u \in Export
          PROVE  fate'[u] = "queued" <=> \E i \in 1 .. Len(q) : q[i] = u
      <4>1. CASE u = t
        BY <1>1, <1>7, <2>2, <4>1
      <4>2. CASE u # t
        <5>1. fate[u] = "queued" <=> \E i \in 1 .. Len(waiting) : waiting[i] = u
          BY <1>1 DEF Line, Places
        <5>2. \A i \in 1 .. Len(q) : i \in 1 .. Len(waiting) \/ i = Len(waiting) + 1
          BY <1>1, <1>7
        <5>3. \A i \in 1 .. Len(waiting) : i \in 1 .. Len(q)
          BY <1>1, <1>7
        <5>4. (\E i \in 1 .. Len(waiting) : waiting[i] = u) <=> \E i \in 1 .. Len(q) : q[i] = u
          BY ONLY <1>7, <4>2, <5>2, <5>3
        <5> QED
          BY <2>2, <4>2, <5>1, <5>4
      <4> QED
        BY <4>1, <4>2
    <3>3. ASSUME NEW i \in 1 .. Len(q), NEW j \in 1 .. Len(q), i < j PROVE q[i] < q[j]
      <4>1. i \in 1 .. Len(waiting) /\ (j \in 1 .. Len(waiting) \/ j = Len(waiting) + 1)
        BY <1>1, <1>7, <3>3
      <4>2. CASE j \in 1 .. Len(waiting)
        BY <1>1, <1>7, <3>3, <4>1, <4>2 DEF Line, Places
      <4>3. CASE j = Len(waiting) + 1
        BY <1>7, <3>1, <4>1, <4>3
      <4> QED
        BY <4>1, <4>2, <4>3
    <3> QED
      BY <1>1, <1>7, <2>1, <3>2, <3>3, WorkerAssumption DEF Line, Places
  <2>6. Turns'
    BY <1>1, <1>2, <1>3, <2>2, Exports DEF Turns
  <2>7. Stages'
    BY <1>1, <2>2 DEF Stages
  <2> QED
    BY <2>3, <2>4, <2>5, <2>6, <2>7 DEF WorkInv
<1>9. CASE active # MaxRunning
  <2>1. waiting = <<>> /\ Len(waiting) = 0 /\ active < MaxRunning
    BY <1>1, <1>9, EmptySeq, WorkerAssumption DEF Slots
  <2>2. /\ waiting' = Tail(q) /\ active' = active + 1 /\ q[1] = t
        /\ fate' = [fates EXCEPT ![q[1]] = "running"]
    BY <1>1, <1>6, <1>7, <2>1, OneStarts
  <2>3. /\ fate' \in [Export -> Fates] /\ fate'[t] = "running"
        /\ \A u \in Export : u # t => fate'[u] = fate[u]
    BY <1>1, <1>5, <2>2 DEF Fates
  <2>4. waiting' \in Seq(Export) /\ Len(waiting') = 0 /\ waiting' = <<>>
    BY <1>7, <2>1, <2>2, HeadTailProperties, EmptySeq
  <2>5. WorkTyped'
    BY <1>1, <2>2, <2>3, <2>4 DEF WorkTyped
  <2>6. Slots'
    <3>1. In("running")' = In("running") \cup {t} /\ In("dropped")' = In("dropped")
      BY <1>3, <2>3, Exports DEF In, Worker!Of
    <3>2. In("running") \subseteq Export /\ t \notin In("running")
      BY <1>3, Exports DEF In, Worker!Of
    <3>3. Cardinality(In("running") \cup {t}) = Cardinality(In("running")) + 1
      BY <3>2, Counting
    <3>4. active' = Cardinality(In("running")')
      BY <1>1, <2>2, <3>1, <3>3 DEF Slots
    <3> QED
      BY <1>1, <2>1, <2>2, <2>4, <3>1, <3>4, WorkerAssumption DEF Slots
  <2>7. \A u \in Export : fate[u] # "queued" /\ fate'[u] # "queued"
    BY <1>1, <2>1, <2>3 DEF Line, Places
  <2>8. Line'
    BY <2>4, <2>7, WorkerAssumption DEF Line, Places
  <2>9. Turns'
    BY <1>1, <1>2, <2>3, <2>7, Exports DEF Turns
  <2>10. Stages'
    BY <1>1, <2>3 DEF Stages
  <2> QED
    BY <2>5, <2>6, <2>8, <2>9, <2>10 DEF WorkInv
<1> QED
  BY <1>8, <1>9

LEMMA OldestDropped ==
    ASSUME WorkInv, NEW t \in Export, Worker!IsNext(t), Worker!DropsOldest(t),
           UNCHANGED <<dropOldest, accepting, draining, drainTimer, shutdown>>
    PROVE  WorkInv'
<1>1. /\ WorkTyped /\ Slots /\ Line /\ Turns /\ Stages
      /\ UNCHANGED <<dropOldest, accepting, draining, drainTimer, shutdown>>
      /\ dropped' = dropped + 1 /\ accepting /\ shutdown = "no"
      /\ waiting \in Seq(Export) /\ fate \in [Export -> Fates]
  BY DEF WorkInv, WorkTyped, Stages, Worker!DropsOldest
<1>2. PICK n \in Nat : n = Len(waiting)
  BY <1>1, LenProperties
<1>3. /\ waiting # <<>> /\ 1 <= n /\ n <= MaxWaiting
      /\ active = MaxRunning /\ active \in Nat
  <2>1. n >= MaxWaiting /\ n <= MaxWaiting
    BY <1>1, <1>2 DEF Worker!DropsOldest, Line
  <2>2. 1 <= n /\ waiting # <<>>
    BY <1>2, <2>1, WorkerAssumption, EmptySeq
  <2> QED
    BY <1>1, <2>1, <2>2 DEF Slots, WorkTyped
<1>4. fate[t] = "none" /\ \A u \in Export : (fate[u] = "none" <=> t <= u)
                                         /\ (fate[u] # "none" => u < t)
  BY NextTasks, Exports
<1>5. PICK h \in Export : h = waiting[1]
  BY <1>1, <1>2, <1>3, ElementOfSeq
<1>6. fate[h] = "queued" /\ h # t /\ h = Head(waiting)
  BY <1>1, <1>2, <1>3, <1>4, <1>5 DEF Line, Places
<1>7. PICK q \in Seq(Export) : q = Append(Tail(waiting), t)
  BY <1>1, <1>3, HeadTailProperties, AppendProperties
<1>8. /\ Len(q) = n /\ q[n] = t
      /\ \A i \in 1 .. n - 1 : q[i] = waiting[i + 1]
  <2>1. /\ Tail(waiting) \in Seq(Export) /\ Len(Tail(waiting)) = n - 1
        /\ \A i \in 1 .. n - 1 : Tail(waiting)[i] = waiting[i + 1]
    BY <1>1, <1>2, <1>3, HeadTailProperties
  <2> QED
    BY <1>7, <2>1, AppendProperties
<1>9. PICK fates \in [Export -> Fates] :
          fates = [fate EXCEPT ![t] = "queued", ![Head(waiting)] = "dropped"]
  BY <1>1, <1>5, <1>6 DEF Fates
<1>10. Worker!Flush(q, active, fates)
  BY <1>7, <1>9 DEF Worker!DropsOldest
<1>11. waiting' = q /\ active' = active /\ fate' = fates
  BY <1>3, <1>10, NoneStarts
<1>12. /\ fate' \in [Export -> Fates] /\ fate'[t] = "queued" /\ fate'[h] = "dropped"
       /\ \A u \in Export : u # t /\ u # h => fate'[u] = fate[u]
  BY <1>1, <1>5, <1>6, <1>9, <1>11
<1>13. WorkTyped'
  BY <1>1, <1>11, <1>12 DEF WorkTyped
<1>14. Slots'
  <2>1. In("running")' = In("running") /\ In("dropped")' = In("dropped") \cup {h}
    BY <1>4, <1>5, <1>6, <1>12, Exports DEF In, Worker!Of
  <2>2. In("dropped") \subseteq Export /\ h \notin In("dropped")
    BY <1>6, Exports DEF In, Worker!Of
  <2>3. Cardinality(In("dropped") \cup {h}) = Cardinality(In("dropped")) + 1
    BY <1>5, <2>2, Counting
  <2>4. dropped' = Cardinality(In("dropped")')
    BY <1>1, <2>1, <2>3 DEF Slots
  <2> QED
    BY <1>1, <1>3, <1>11, <2>1, <2>4 DEF Slots
<1>15. /\ \A i \in 1 .. n : waiting[i] \in Export /\ fate[waiting[i]] = "queued" /\ waiting[i] < t
       /\ \A i, j \in 1 .. n : i < j => waiting[i] < waiting[j]
  <2>1. \A i \in 1 .. n : waiting[i] \in Export
    BY <1>1, <1>2, ElementOfSeq
  <2>2. \A i \in 1 .. n : fate[waiting[i]] = "queued"
    BY <1>1, <1>2, <2>1 DEF Line, Places
  <2> QED
    BY <1>1, <1>2, <1>4, <2>1, <2>2 DEF Line, Places
<1>16. Line'
  <2>1. ASSUME NEW u \in Export PROVE fate'[u] = "queued" <=> \E i \in 1 .. n : q[i] = u
    <3>1. CASE u = t
      BY <1>3, <1>8, <1>12, <3>1
    <3>2. CASE u = h
      <4>1. \A i \in 1 .. n - 1 : h < waiting[i + 1]
        BY <1>5, <1>15
      <4>2. \A i \in 1 .. n : i \in 1 .. n - 1 \/ i = n
        OBVIOUS
      <4>3. \A i \in 1 .. n : q[i] # u
        <5> SUFFICES ASSUME NEW i \in 1 .. n, q[i] = h PROVE FALSE
          BY <3>2
        <5>1. h \in Nat
          BY <1>5, Exports
        <5>2. CASE i \in 1 .. n - 1
          BY <1>8, <4>1, <5>1, <5>2
        <5>3. CASE i = n
          BY <1>6, <1>8, <5>3
        <5> QED
          BY <4>2, <5>2, <5>3
      <4> QED
        BY <1>12, <3>2, <4>3
    <3>3. CASE u # t /\ u # h
      <4>1. fate'[u] = fate[u]
        BY <1>12, <3>3
      <4>2. ASSUME fate[u] = "queued" PROVE \E i \in 1 .. n : q[i] = u
        <5>1. PICK k \in 1 .. n : waiting[k] = u
          BY <1>1, <1>2, <4>2 DEF Line, Places
        <5>2. k - 1 \in 1 .. n - 1 /\ k - 1 \in 1 .. n /\ (k - 1) + 1 = k
          BY <1>5, <3>3, <5>1
        <5> QED
          BY <1>8, <5>1, <5>2
      <4>3. ASSUME NEW i \in 1 .. n, q[i] = u PROVE fate[u] = "queued"
        <5>1. i \in 1 .. n - 1 /\ i + 1 \in 1 .. n
          BY <1>8, <3>3, <4>3
        <5> QED
          BY <1>8, <1>15, <4>3, <5>1
      <4> QED
        BY <4>1, <4>2, <4>3
    <3> QED
      BY <3>1, <3>2, <3>3
  <2>2. ASSUME NEW i \in 1 .. n, NEW j \in 1 .. n, i < j PROVE q[i] < q[j]
    <3>1. i \in 1 .. n - 1 /\ i + 1 \in 1 .. n
      BY <2>2
    <3>2. CASE j = n
      BY <1>8, <1>15, <3>1, <3>2
    <3>3. CASE j # n
      <4>1. j \in 1 .. n - 1 /\ j + 1 \in 1 .. n /\ i + 1 < j + 1
        BY <2>2, <3>3
      <4> QED
        BY <1>8, <1>15, <3>1, <4>1
    <3> QED
      BY <3>2, <3>3
  <2> QED
    BY <1>3, <1>8, <1>11, <2>1, <2>2 DEF Line, Places
<1>17. Turns'
  <2>1. \A u \in Export : fate'[u] = "none" <=> t < u
    BY <1>4, <1>6, <1>12, Exports
  <2>2. \A u, v \in Export : u < v /\ fate'[u] = "none" => fate'[v] = "none"
    BY <2>1, Exports
  <2>3. ASSUME NEW u \in Export, NEW v \in Export,
               fate'[u] = "queued", fate'[v] \in {"running", "ended"}
        PROVE  v < u
    <3>1. v # t /\ v # h /\ fate[v] \in {"running", "ended"}
      BY <1>12, <2>3
    <3>2. u = t \/ fate[u] = "queued"
      BY <1>12, <2>3
    <3> QED
      BY <1>1, <1>4, <3>1, <3>2 DEF Turns
  <2> QED
    BY <2>2, <2>3 DEF Turns
<1>18. Stages'
  BY <1>1, <1>12 DEF Stages
<1> QED
  BY <1>13, <1>14, <1>16, <1>17, <1>18 DEF WorkInv

(* A task ends; nothing waits, or the next one starts.                     *)
LEMMA TaskEnds ==
    ASSUME WorkInv, NEW t \in Export, Worker!Ends(t)
    PROVE  WorkInv'
<1>1. /\ WorkTyped /\ Slots /\ Line /\ Turns /\ Stages
      /\ UNCHANGED <<dropOldest, dropped, accepting, drainTimer>>
      /\ fate[t] = "running" /\ waiting \in Seq(Export) /\ fate \in [Export -> Fates]
      /\ draining \in BOOLEAN /\ draining' \in BOOLEAN
  BY DEF WorkInv, WorkTyped, Worker!Ends
<1>2. /\ \/ draining /\ active = 1 /\ waiting = <<>> /\ ~draining' /\ shutdown' = "drained"
         \/ /\ ~(draining /\ active = 1 /\ waiting = <<>>)
            /\ draining' = draining /\ shutdown' = shutdown
  BY DEF Worker!Ends
<1>3. PICK rest \in Int : rest = active - 1
  BY <1>1 DEF WorkTyped
<1>4. /\ In("running") \subseteq Export /\ t \in In("running")
      /\ Cardinality(In("running") \ {t}) = rest /\ rest \in Nat /\ rest < MaxRunning
  <2>1. In("running") \subseteq Export /\ t \in In("running")
    BY <1>1, Exports DEF In, Worker!Of
  <2>2. /\ Cardinality(In("running") \ {t}) = Cardinality(In("running")) - 1
        /\ Cardinality(In("running") \ {t}) \in Nat
    BY <2>1, Counting
  <2>3. active = Cardinality(In("running")) /\ active <= MaxRunning /\ active \in Nat
    BY <1>1 DEF Slots, WorkTyped
  <2> QED
    BY <1>3, <2>1, <2>2, <2>3, WorkerAssumption
<1>5. PICK fates \in [Export -> Fates] : fates = [fate EXCEPT ![t] = "ended"]
  BY <1>1 DEF Fates
<1>6. Worker!Flush(waiting, rest, fates)
  BY <1>3, <1>5 DEF Worker!Ends
<1>7. CASE waiting = <<>>
  <2>1. waiting' = <<>> /\ active' = rest /\ fate' = fates
    <3>1. rest <= MaxRunning
      BY <1>4, WorkerAssumption
    <3> QED
      BY <1>1, <1>4, <1>6, <1>7, <3>1, NoneStarts
  <2>2. /\ fate' \in [Export -> Fates] /\ fate'[t] = "ended"
        /\ \A u \in Export : u # t => fate'[u] = fate[u]
    BY <1>1, <1>5, <2>1
  <2>3. waiting' \in Seq(Export) /\ Len(waiting') = 0 /\ Len(waiting) = 0
    BY <1>7, <2>1, EmptySeq
  <2>4. \A u \in Export : fate[u] # "queued" /\ fate'[u] # "queued"
    BY <1>1, <2>2, <2>3 DEF Line, Places
  <2>5. /\ In("running")' = In("running") \ {t} /\ In("dropped")' = In("dropped")
    BY <1>1, <2>2, Exports DEF In, Worker!Of
  <2>6. WorkTyped'
    BY <1>1, <1>2, <1>4, <2>1, <2>2, <2>3 DEF WorkTyped
  <2>7. Slots'
    <3>1. active' = Cardinality(In("running")')
      BY <1>4, <2>1, <2>5
    <3>2. rest <= MaxRunning
      BY <1>4, WorkerAssumption
    <3>3. dropped' = Cardinality(In("dropped")')
      BY <1>1, <2>5 DEF Slots
    <3> QED
      BY <2>1, <3>1, <3>2, <3>3 DEF Slots
  <2>8. Line'
    BY <2>3, <2>4, WorkerAssumption DEF Line, Places
  <2>9. Turns'
    BY <1>1, <2>2, <2>4, Exports DEF Turns
  <2>10. Stages'
    <3>1. CASE draining /\ active = 1 /\ waiting = <<>>
      <4>1. \A u \in Export : fate'[u] # "running"
        <5>1. In("running")' = {}
          BY <1>3, <1>4, <2>5, <3>1, Counting
        <5> QED
          BY <5>1, Exports DEF In, Worker!Of
      <4> QED
        BY <1>1, <1>2, <2>2, <2>4, <3>1, <4>1 DEF Stages
    <3>2. CASE ~(draining /\ active = 1 /\ waiting = <<>>)
      BY <1>1, <1>2, <2>2, <3>2 DEF Stages
    <3> QED
      BY <3>1, <3>2
  <2> QED
    BY <2>6, <2>7, <2>8, <2>9, <2>10 DEF WorkInv
<1>8. CASE waiting # <<>>
  <2>1. active = MaxRunning /\ rest + 1 = MaxRunning
    BY <1>1, <1>3, <1>8, WorkerAssumption DEF Slots
  <2>2. PICK n \in Nat : n = Len(waiting) /\ n >= 1
    BY <1>1, <1>8, LenProperties, EmptySeq
  <2>3. PICK h \in Export : h = waiting[1]
    BY <1>1, <2>2, ElementOfSeq
  <2>4. /\ \A i \in 1 .. n : waiting[i] \in Export /\ fate[waiting[i]] = "queued"
        /\ \A i, j \in 1 .. n : i < j => waiting[i] < waiting[j]
    <3>1. \A i \in 1 .. n : waiting[i] \in Export
      BY <1>1, <2>2, ElementOfSeq
    <3> QED
      BY <1>1, <2>2, <3>1 DEF Line, Places
  <2>5. fate[h] = "queued" /\ h # t
    BY <1>1, <2>2, <2>3, <2>4
  <2>6. /\ waiting' = Tail(waiting) /\ active' = rest + 1
        /\ fate' = [fates EXCEPT ![h] = "running"]
    BY <1>1, <1>4, <1>6, <1>8, <2>1, <2>3, OneStarts
  <2>7. /\ fate' \in [Export -> Fates] /\ fate'[t] = "ended" /\ fate'[h] = "running"
        /\ \A u \in Export : u # t /\ u # h => fate'[u] = fate[u]
    BY <1>1, <1>5, <2>5, <2>6 DEF Fates
  <2>8. /\ waiting' \in Seq(Export) /\ Len(waiting') = n - 1
        /\ \A i \in 1 .. n - 1 : waiting'[i] = waiting[i + 1]
    BY <1>1, <1>8, <2>2, <2>6, HeadTailProperties
  <2>9. WorkTyped'
    BY <1>1, <1>2, <1>4, <2>6, <2>7, <2>8 DEF WorkTyped
  <2>10. Slots'
    <3>1. /\ In("running")' = (In("running") \ {t}) \cup {h}
          /\ In("dropped")' = In("dropped")
      BY <1>1, <2>5, <2>7, Exports DEF In, Worker!Of
    <3>2. In("running") \ {t} \in SUBSET Export /\ h \notin In("running") \ {t}
      BY <1>4, <2>5, Exports DEF In, Worker!Of
    <3>3. Cardinality(In("running")') = rest + 1
      BY <1>4, <2>3, <3>1, <3>2, Counting
    <3> QED
      BY <1>1, <2>1, <2>6, <3>1, <3>3, WorkerAssumption DEF Slots
  <2>11. \A u \in Export : fate'[u] = "queued" => fate[u] = "queued" /\ u # h /\ h < u
    <3> SUFFICES ASSUME NEW u \in Export, fate'[u] = "queued"
                 PROVE  fate[u] = "queued" /\ u # h /\ h < u
      OBVIOUS
    <3>1. fate[u] = "queued" /\ u # h
      BY <2>7
    <3>2. PICK k \in 1 .. n : waiting[k] = u
      BY <1>1, <2>2, <3>1 DEF Line, Places
    <3>3. 1 \in 1 .. n /\ 1 < k
      BY <2>2, <2>3, <3>1, <3>2
    <3> QED
      BY <2>3, <2>4, <3>1, <3>2, <3>3
  <2>12. Line'
    <3>1. ASSUME NEW u \in Export
          PROVE  fate'[u] = "queued" <=> \E i \in 1 .. n - 1 : waiting'[i] = u
      <4>1. ASSUME fate'[u] = "queued" PROVE \E i \in 1 .. n - 1 : waiting'[i] = u
        <5>1. PICK k \in 1 .. n : waiting[k] = u
          BY <1>1, <2>2, <2>11, <4>1 DEF Line, Places
        <5>2. k # 1
          BY <2>3, <2>11, <4>1, <5>1
        <5>3. k - 1 \in 1 .. n - 1 /\ (k - 1) + 1 = k
          BY <5>2
        <5> QED
          BY <2>8, <5>1, <5>3
      <4>2. ASSUME NEW i \in 1 .. n - 1, waiting'[i] = u PROVE fate'[u] = "queued"
        <5>1. i + 1 \in 1 .. n /\ 1 \in 1 .. n /\ 1 < i + 1
          OBVIOUS
        <5>2. waiting[i + 1] = u /\ fate[u] = "queued" /\ h < u
          BY <2>3, <2>4, <2>8, <4>2, <5>1
        <5>3. u # h /\ u # t
          BY <1>1, <2>3, <5>2, Exports
        <5> QED
          BY <2>7, <5>2, <5>3
      <4> QED
        BY <4>1, <4>2
    <3>2. ASSUME NEW i \in 1 .. n - 1, NEW j \in 1 .. n - 1, i < j
          PROVE  waiting'[i] < waiting'[j]
      <4>1. i + 1 \in 1 .. n /\ j + 1 \in 1 .. n /\ i + 1 < j + 1
        BY <3>2
      <4> QED
        BY <2>4, <2>8, <4>1
    <3>3. n - 1 <= MaxWaiting
      BY <1>1, <2>2, WorkerAssumption DEF Line
    <3> QED
      BY <2>8, <3>1, <3>2, <3>3 DEF Line, Places
  <2>13. Turns'
    <3>1. \A u \in Export : fate'[u] = "none" <=> fate[u] = "none"
      BY <1>1, <2>5, <2>7
    <3>2. ASSUME NEW u \in Export, NEW v \in Export,
                 fate'[u] = "queued", fate'[v] \in {"running", "ended"}
          PROVE  v < u
      <4>1. fate[u] = "queued" /\ h < u
        BY <2>11, <3>2
      <4>2. v = h \/ fate[v] \in {"running", "ended"}
        BY <1>1, <2>7, <3>2
      <4> QED
        BY <1>1, <4>1, <4>2 DEF Turns
    <3> QED
      BY <1>1, <3>1, <3>2 DEF Turns
  <2>14. Stages'
    BY <1>1, <1>2, <1>8, <2>5, <2>7 DEF Stages
  <2> QED
    BY <2>9, <2>10, <2>12, <2>13, <2>14 DEF WorkInv
<1> QED
  BY <1>7, <1>8

LEMMA WorkCloses == ASSUME WorkInv, Worker!OnClosing PROVE WorkInv'
<1>1. /\ WorkTyped /\ Slots /\ Line /\ Turns /\ Stages
      /\ UNCHANGED <<dropOldest, fate, waiting, active, dropped>>
      /\ shutdown = "no" /\ ~accepting' /\ accepting' \in BOOLEAN
      /\ draining' \in BOOLEAN /\ drainTimer' \in BOOLEAN
      /\ ~draining /\ ~drainTimer
      /\ \/ active = 0 /\ waiting = <<>> /\ shutdown' = "drained" /\ ~draining' /\ ~drainTimer'
         \/ shutdown' = "waiting" /\ draining' /\ drainTimer'
  BY DEF WorkInv, WorkTyped, Stages, Worker!OnClosing
<1>2. WorkTyped'
  BY <1>1 DEF WorkTyped
<1>3. In("running")' = In("running") /\ In("dropped")' = In("dropped")
  BY <1>1, Exports DEF In, Worker!Of
<1>4. Slots' /\ Line' /\ Turns'
  BY <1>1, <1>3 DEF Slots, Line, Turns, Places
<1>5. Stages'
  BY <1>1 DEF Stages
<1> QED
  BY <1>2, <1>4, <1>5 DEF WorkInv

(* What waits is left, by the timer or by the close.                       *)
LEMMA WorkCleared ==
    ASSUME WorkInv, Worker!DrainTimesOut \/ Worker!OnClose
    PROVE  WorkInv'
<1>1. /\ WorkTyped /\ Slots /\ Line /\ Turns /\ Stages /\ Worker!Clear
      /\ UNCHANGED <<dropOldest, active, dropped, accepting>>
      /\ fate \in [Export -> Fates]
  BY DEF WorkInv, WorkTyped, Worker!DrainTimesOut, Worker!OnClose
<1>2. /\ waiting' = <<>> /\ ~draining' /\ draining' \in BOOLEAN
      /\ fate' = [t \in Export |-> IF fate[t] = "queued" THEN "cleared" ELSE fate[t]]
  BY <1>1, Exports DEF Worker!Clear
<1>3. /\ fate' \in [Export -> Fates]
      /\ \A t \in Export : \/ fate[t] = "queued" /\ fate'[t] = "cleared"
                           \/ fate[t] # "queued" /\ fate'[t] = fate[t]
  BY <1>1, <1>2 DEF Fates
<1>4. /\ drainTimer' \in BOOLEAN
      /\ \/ drainTimer /\ ~drainTimer' /\ shutdown = "waiting" /\ shutdown' = "drained"
         \/ drainTimer /\ ~drainTimer' /\ shutdown # "waiting" /\ shutdown' = shutdown
         \/ drainTimer' = drainTimer /\ shutdown = "drained" /\ shutdown' = "closed"
  BY <1>1 DEF Worker!DrainTimesOut, Worker!OnClose, WorkTyped
<1>5. waiting' \in Seq(Export) /\ Len(waiting') = 0
  BY <1>2, EmptySeq
<1>6. WorkTyped'
  BY <1>1, <1>2, <1>3, <1>4, <1>5 DEF WorkTyped
<1>7. In("running")' = In("running") /\ In("dropped")' = In("dropped")
  BY <1>1, <1>3, Exports DEF In, Worker!Of
<1>8. Slots'
  BY <1>1, <1>2, <1>7 DEF Slots
<1>9. Line'
  BY <1>3, <1>5, WorkerAssumption DEF Line, Places
<1>10. Turns'
  BY <1>1, <1>3 DEF Turns
<1>11. shutdown # "no" /\ shutdown' \in {"drained", "closed"} /\ (accepting <=> shutdown = "no")
  BY <1>1, <1>4 DEF Stages, WorkTyped
<1>12. Stages'
  BY <1>1, <1>2, <1>3, <1>4, <1>11 DEF Stages
<1> QED
  BY <1>6, <1>8, <1>9, <1>10, <1>12 DEF WorkInv

LEMMA WorkStep == WorkInv /\ [Worker!Next]_workerVars => WorkInv'
<1> SUFFICES ASSUME WorkInv, [Worker!Next]_workerVars PROVE WorkInv'
  OBVIOUS
<1>1. ASSUME Worker!Enqueue PROVE WorkInv'
  BY <1>1, Exports, TaskTurnedAway, TaskTakenIn, OldestDropped DEF Worker!Enqueue
<1>2. ASSUME NEW t \in Worker!Task, Worker!Ends(t) PROVE WorkInv'
  BY <1>2, Exports, TaskEnds
<1>3. ASSUME UNCHANGED workerVars PROVE WorkInv'
  <2>1. In("running")' = In("running") /\ In("dropped")' = In("dropped")
    BY <1>3, Exports DEF In, Worker!Of, workerVars
  <2> QED
    BY <1>3, <2>1 DEF workerVars, WorkInv, WorkTyped, Slots, Line, Turns, Stages, Places
<1> QED
  BY <1>1, <1>2, <1>3, WorkCloses, WorkCleared DEF Worker!Next

LEMMA WorkIsKept == WorkInv => Worker!WorkKept
<1> SUFFICES ASSUME WorkInv PROVE Worker!WorkKept
  OBVIOUS
<1>1. WorkTyped /\ Slots /\ Line /\ Turns /\ Stages
  BY DEF WorkInv
<1>2. \A i \in Places : waiting[i] \in Export
  BY <1>1, ElementOfSeq DEF WorkTyped, Places
<1>3. \A s : \A t : t \in Worker!Of(s) <=> t \in Export /\ fate[t] = s
  BY Exports DEF Worker!Of
<1>4. Worker!TypeOK
  BY <1>1, <1>2, Exports DEF WorkTyped, Worker!TypeOK, Fates, Places
<1>5. Worker!Of("queued") = {waiting[i] : i \in 1 .. Len(waiting)}
  <2>1. \A t : t \in Worker!Of("queued") <=> \E i \in Places : waiting[i] = t
    BY <1>1, <1>2, <1>3 DEF Line
  <2> QED
    BY <2>1 DEF Places
<1>6. /\ active = Worker!Cardinality(Worker!Of("running")) /\ active <= MaxRunning
      /\ waiting # <<>> => active = MaxRunning
      /\ dropped = Worker!Cardinality(Worker!Of("dropped"))
  BY <1>1, SameCount DEF Slots, In
<1>7. /\ Len(waiting) <= MaxWaiting
      /\ \A i, j \in 1 .. Len(waiting) : i < j => waiting[i] < waiting[j]
  BY <1>1 DEF Line, Places
<1>8. \A t \in Worker!Of("queued"), u \in Worker!Of("running") \cup Worker!Of("ended") : u < t
  BY <1>1, <1>3 DEF Turns
<1>9. Worker!Of("refused") # {} => shutdown # "no"
  BY <1>1, <1>3 DEF Stages
<1>10. shutdown \in {"drained", "closed"} /\ drainTimer =>
          Worker!Of("running") \cup Worker!Of("queued") \cup Worker!Of("cleared") = {}
  BY <1>1, <1>3 DEF Stages
<1> QED
  BY <1>4, <1>5, <1>6, <1>7, <1>8, <1>9, <1>10 DEF Worker!WorkKept

-----------------------------------------------------------------------------
(* Replay of commands *)

Connections == Replay!Connection
Records     == Replay!Calls

InList(c) == \E i \in 1 .. Len(list) : list[i] = c
InHand(c) == \E k \in Connections : c \in hand[k]
InCall(c) == \E r \in calls : r.cmd = c
Owed(c)   == \E r \in calls : r.cmd = c /\ r.phase # "failed"
InBacklog(c) == \E k \in Connections : c \in backlog[k]

ReplayTyped ==
    /\ conn \in [Connections -> {"new", "open", "closing", "closed"}]
    /\ flush \in [Connections -> {"none", "on", "done"}]
    /\ hand \in [Connections -> SUBSET Command]
    /\ list \in Seq(Command) /\ calls \subseteq Records
    /\ backlog \in [Connections -> SUBSET Command]
    /\ told \in [Command -> {"new", "waiting", "queued", "settled"}]
    /\ lost \subseteq Command
    /\ frames \in [Command -> Nat] /\ misread \in [Command -> Nat]

(* A command is in one place, and in none before its call.                 *)
OnePlace ==
    /\ \A i, j \in 1 .. Len(list) : list[i] = list[j] => i = j
    /\ \A j, k \in Connections : \A c \in Command : c \in hand[j] /\ c \in hand[k] => j = k
    /\ \A r, s \in calls : r.cmd = s.cmd => r = s
    /\ \A c \in Command :
          /\ ~(InList(c) /\ InHand(c)) /\ ~(InList(c) /\ InCall(c)) /\ ~(InHand(c) /\ InCall(c))
          /\ told[c] = "new" => ~InList(c) /\ ~InHand(c) /\ ~InCall(c)

(* A command waits in one backlog, and nowhere else: no call of it is left *)
(* but the one that sent it there, or the one that failed since.           *)
Backlogged ==
    /\ \A j, k \in Connections : \A c \in Command : c \in backlog[j] /\ c \in backlog[k] => j = k
    /\ \A k \in Connections : \A c \in Command : c \in backlog[k] =>
          /\ told[c] # "new" /\ ~InList(c) /\ ~InHand(c) /\ frames[c] <= misread[c]
          /\ \A r \in calls : r.cmd = c => r.phase = "failed" \/ (r.phase = "stalled" /\ r.on = k)
    /\ \A r \in calls : r.phase = "stalled" => r.cmd \in backlog[r.on]

(* A command is written again only after its error was misread: one that   *)
(* is yet to be written has been written no more often than that.          *)
Written ==
    /\ \A c \in Command :
          /\ frames[c] <= 1 + misread[c]
          /\ told[c] = "new" \/ InList(c) \/ InHand(c) => frames[c] <= misread[c]
    /\ \A r \in calls :
          /\ r.phase = "sent" => frames[r.cmd] >= 1
          /\ r.phase \in {"queued", "stalled", "offline"} => frames[r.cmd] <= misread[r.cmd]

(* What the caller was told is queued is somewhere from where it can still *)
(* be written, or it was dropped.                                          *)
Promised ==
    \A c \in Command : told[c] = "queued" /\ frames[c] = 0 =>
        InList(c) \/ InHand(c) \/ Owed(c) \/ InBacklog(c) \/ c \in lost

ReplayInv == ReplayTyped /\ OnePlace /\ Backlogged /\ Written /\ Promised

LEMMA OneRecord ==
    ASSUME NEW r \in Records, NEW p \in {"queued", "stalled", "sent", "offline", "failed"}
    PROVE  /\ Replay!Is(r, p) \in Records /\ Replay!Is(r, p).phase = p
           /\ Replay!Is(r, p).cmd = r.cmd /\ Replay!Is(r, p).on = r.on
           /\ r.cmd \in Command /\ r.on \in Connections
           /\ r.phase \in {"queued", "stalled", "sent", "offline", "failed"}
  BY DEF Records, Connections, Replay!Calls, Replay!Phases, Replay!Connection, Replay!Is

LEMMA ReplayInit == Replay!Init => ReplayInv
<1> SUFFICES ASSUME Replay!Init PROVE ReplayInv
  OBVIOUS
<1>1. /\ conn = [k \in Connections |-> "new"] /\ flush = [k \in Connections |-> "none"]
      /\ hand = [k \in Connections |-> {}] /\ list = <<>> /\ calls = {} /\ lost = {}
      /\ told = [c \in Command |-> "new"] /\ frames = [c \in Command |-> 0]
      /\ misread = [c \in Command |-> 0] /\ backlog = [k \in Connections |-> {}]
  BY DEF Replay!Init, Connections
<1>2. list \in Seq(Command) /\ Len(list) = 0
  BY <1>1, EmptySeq
<1>3. ReplayTyped
  BY <1>1, <1>2 DEF ReplayTyped
<1>4. \A c : ~InList(c) /\ ~InCall(c) /\ ~InHand(c)
  BY <1>1, <1>2 DEF InList, InCall, InHand
<1>5. OnePlace
  BY <1>1, <1>2, <1>4 DEF OnePlace
<1>6. Backlogged /\ Written /\ Promised
  BY <1>1, <1>4 DEF Backlogged, Written, Promised
<1> QED
  BY <1>3, <1>5, <1>6 DEF ReplayInv

(* Steps of the connections and of their loops that move no command.       *)
LEMMA NothingMoves ==
    ASSUME ReplayInv, UNCHANGED <<hand, list, calls, backlog, told, frames, misread, lost>>,
           conn' \in [Connections -> {"new", "open", "closing", "closed"}],
           flush' \in [Connections -> {"none", "on", "done"}]
    PROVE  ReplayInv'
<1>1. ReplayTyped'
  BY DEF ReplayInv, ReplayTyped
<1>2. /\ \A c : (InList(c)' <=> InList(c)) /\ (InHand(c)' <=> InHand(c)) /\ (InCall(c)' <=> InCall(c))
      /\ \A c : (Owed(c)' <=> Owed(c)) /\ (InBacklog(c)' <=> InBacklog(c))
  BY DEF InList, InHand, InCall, Owed, InBacklog
<1> QED
  BY <1>1, <1>2 DEF ReplayInv, OnePlace, Backlogged, Written, Promised

(* The calls of W go to the phase p; no command comes or goes.             *)
Goes(W, p) == calls' = (calls \ W) \cup {Replay!Is(r, p) : r \in W}

Gone(W, p) ==
    /\ \A c : (InList(c)' <=> InList(c)) /\ (InHand(c)' <=> InHand(c))
    /\ \A s \in calls' : \/ s \in calls /\ s \notin W
                         \/ \E r \in W : s.cmd = r.cmd /\ s.on = r.on /\ s.phase = p
    /\ \A r \in calls : r \notin W => r \in calls'
    /\ \A r \in W : \E s \in calls' : s.cmd = r.cmd /\ s.on = r.on /\ s.phase = p

LEMMA CallsGo ==
    ASSUME ReplayInv, NEW W \in SUBSET calls,
           NEW p \in {"stalled", "sent", "offline", "failed"}, Goes(W, p),
           UNCHANGED <<flush, hand, list, told>>,
           conn' \in [Connections -> {"new", "open", "closing", "closed"}],
           backlog' \in [Connections -> SUBSET Command],
           frames' \in [Command -> Nat], misread' \in [Command -> Nat],
           lost' \in SUBSET Command
    PROVE  ReplayTyped' /\ OnePlace' /\ Gone(W, p)
<1>1. ReplayTyped /\ OnePlace /\ calls \subseteq Records
  BY DEF ReplayInv, ReplayTyped
<1>2. \A s \in calls' :
        \/ s \in calls /\ s \notin W
        \/ \E r \in W : /\ s = Replay!Is(r, p) /\ s \in Records
                       /\ s.cmd = r.cmd /\ s.on = r.on /\ s.phase = p
  BY <1>1, OneRecord DEF Goes
<1>3. \A r \in calls : r \notin W => r \in calls'
  BY DEF Goes
<1>4. \A r \in W : /\ Replay!Is(r, p) \in calls' /\ Replay!Is(r, p).cmd = r.cmd
                   /\ Replay!Is(r, p).on = r.on /\ Replay!Is(r, p).phase = p
  BY <1>1, OneRecord DEF Goes
<1>5. \A c : (InList(c)' <=> InList(c)) /\ (InHand(c)' <=> InHand(c))
  BY DEF InList, InHand
<1>6. Gone(W, p)
  BY <1>2, <1>3, <1>4, <1>5 DEF Gone
<1>7. ReplayTyped'
  <2>1. calls' \subseteq Records
    BY <1>1, <1>2
  <2> QED
    BY <1>1, <2>1 DEF ReplayTyped
<1>8. \A c : InCall(c)' => InCall(c)
  BY <1>2 DEF InCall
<1>9. OnePlace'
  <2>1. ASSUME NEW r \in calls', NEW s \in calls', r.cmd = s.cmd PROVE r = s
    BY <1>1, <1>2, <2>1 DEF OnePlace
  <2> QED
    BY <1>1, <1>5, <1>8, <2>1 DEF OnePlace
<1> QED
  BY <1>6, <1>7, <1>9

(* A message is written, put in the backlog, or none of both: the call     *)
(* whose turn it is.                                                       *)
LEMMA CallRuns ==
    ASSUME ReplayInv, NEW r \in calls, Replay!Runs(r)
    PROVE  ReplayInv'
<1>1. /\ ReplayTyped /\ OnePlace /\ Backlogged /\ Written /\ Promised
      /\ r.phase = "queued" /\ UNCHANGED <<conn, flush, hand, list, told, misread, lost>>
  BY DEF ReplayInv, Replay!Runs
<1>2. PICK c \in Command : c = r.cmd
  BY OneRecord DEF ReplayInv, ReplayTyped
<1>3. PICK k \in Connections : k = r.on
  BY OneRecord DEF ReplayInv, ReplayTyped
<1>4. /\ ~InList(c) /\ ~InHand(c) /\ told[c] # "new" /\ frames[c] <= misread[c]
      /\ \A s \in calls : s.cmd = c => s = r
      /\ \A j \in Connections : c \notin backlog[j]
      /\ frames[c] \in Nat /\ misread[c] \in Nat
  <2>1. InCall(c)
    BY <1>2 DEF InCall
  <2> QED
    BY <1>1, <1>2, <2>1 DEF OnePlace, Backlogged, Written, ReplayTyped
<1>5. PICK p \in {"sent", "stalled", "offline"} :
        /\ Replay!Change(r, p)
        /\ p = "sent" => frames' = [frames EXCEPT ![c] = @ + 1] /\ backlog' = backlog
        /\ p = "stalled" => backlog' = [backlog EXCEPT ![k] = @ \cup {c}] /\ frames' = frames
        /\ p = "offline" => frames' = frames /\ backlog' = backlog
  BY <1>2, <1>3 DEF Replay!Runs
<1>6. /\ frames' \in [Command -> Nat]
      /\ \A d \in Command : d # c => frames'[d] = frames[d]
      /\ frames'[c] \in Nat
      /\ IF p = "sent" THEN frames'[c] = frames[c] + 1 ELSE frames'[c] = frames[c]
  <2>1. frames \in [Command -> Nat]
    BY <1>1 DEF ReplayTyped
  <2>2. CASE p = "sent"
    BY <1>4, <1>5, <2>1, <2>2
  <2>3. CASE p # "sent"
    BY <1>4, <1>5, <2>1, <2>3
  <2> QED
    BY <2>2, <2>3
<1>7. /\ backlog' \in [Connections -> SUBSET Command]
      /\ \A j \in Connections : \A d \in Command :
            d \in backlog'[j] <=> d \in backlog[j] \/ (p = "stalled" /\ j = k /\ d = c)
  <2>1. backlog \in [Connections -> SUBSET Command]
    BY <1>1 DEF ReplayTyped
  <2>2. CASE p = "stalled"
    BY <1>5, <2>1, <2>2
  <2>3. CASE p # "stalled"
    BY <1>5, <2>1, <2>3
  <2> QED
    BY <2>2, <2>3
<1>8. Goes({r}, p)
  BY <1>5 DEF Goes, Replay!Change
<1>9. ReplayTyped' /\ OnePlace' /\ Gone({r}, p)
  BY <1>1, <1>6, <1>7, <1>8, CallsGo DEF ReplayTyped
<1>10. /\ \A d : (InList(d)' <=> InList(d)) /\ (InHand(d)' <=> InHand(d))
       /\ \A s \in calls' : (s \in calls /\ s # r) \/ (s.cmd = c /\ s.on = k /\ s.phase = p)
       /\ \A s \in calls : s # r => s \in calls'
       /\ \E s \in calls' : s.cmd = c /\ s.on = k /\ s.phase = p
  BY <1>2, <1>3, <1>9 DEF Gone
<1>11. \A s \in calls : s # r => s.cmd \in Command /\ s.cmd # c /\ s.on \in Connections
  BY <1>1, <1>2, OneRecord DEF OnePlace, ReplayTyped
<1>12. Backlogged'
  <2>1. ASSUME NEW i \in Connections, NEW j \in Connections, NEW d \in Command,
               d \in backlog'[i], d \in backlog'[j]
        PROVE  i = j
    BY <1>1, <1>4, <1>7, <2>1 DEF Backlogged
  <2>2. ASSUME NEW j \in Connections, NEW d \in Command, d \in backlog'[j]
        PROVE  /\ told'[d] # "new" /\ ~InList(d)' /\ ~InHand(d)' /\ frames'[d] <= misread'[d]
               /\ \A s \in calls' : s.cmd = d => s.phase = "failed" \/ (s.phase = "stalled" /\ s.on = j)
    <3>1. CASE d = c
      BY <1>1, <1>4, <1>6, <1>7, <1>10, <1>11, <2>2, <3>1
    <3>2. CASE d # c
      BY <1>1, <1>6, <1>7, <1>10, <2>2, <3>2 DEF Backlogged
    <3> QED
      BY <3>1, <3>2
  <2>3. ASSUME NEW s \in calls', s.phase = "stalled" PROVE s.cmd \in backlog'[s.on]
    BY <1>1, <1>7, <1>10, <1>11, <2>3 DEF Backlogged
  <2> QED
    BY <2>1, <2>2, <2>3 DEF Backlogged
<1>13. Written'
  <2>1. ASSUME NEW d \in Command
        PROVE  /\ frames'[d] <= 1 + misread'[d]
               /\ told'[d] = "new" \/ InList(d)' \/ InHand(d)' => frames'[d] <= misread'[d]
    <3>1. CASE d = c
      BY <1>1, <1>4, <1>6, <1>10, <3>1
    <3>2. CASE d # c
      BY <1>1, <1>6, <1>10, <3>2 DEF Written
    <3> QED
      BY <3>1, <3>2
  <2>2. ASSUME NEW s \in calls'
        PROVE  /\ s.phase = "sent" => frames'[s.cmd] >= 1
               /\ s.phase \in {"queued", "stalled", "offline"} => frames'[s.cmd] <= misread'[s.cmd]
    BY <1>1, <1>4, <1>6, <1>10, <1>11 DEF Written
  <2> QED
    BY <2>1, <2>2 DEF Written
<1>14. Promised'
  <2> SUFFICES ASSUME NEW d \in Command, told'[d] = "queued", frames'[d] = 0
               PROVE  InList(d)' \/ InHand(d)' \/ Owed(d)' \/ InBacklog(d)' \/ d \in lost'
    BY DEF Promised
  <2>1. CASE d = c
    BY <1>10, <2>1 DEF Owed
  <2>2. CASE d # c
    BY <1>1, <1>2, <1>6, <1>7, <1>10, <2>2 DEF Promised, Owed, InBacklog
  <2> QED
    BY <2>1, <2>2
<1> QED
  BY <1>9, <1>12, <1>13, <1>14 DEF ReplayInv

(* A message that waited is written: its call, if it still waits, is sent. *)
LEMMA BacklogDrains ==
    ASSUME ReplayInv, NEW k \in Connections, Replay!Drains(k)
    PROVE  ReplayInv'
<1>1. /\ ReplayTyped /\ OnePlace /\ Backlogged /\ Written /\ Promised
      /\ UNCHANGED <<conn, flush, hand, list, told, misread, lost>>
  BY DEF ReplayInv, Replay!Drains
<1>2. PICK c \in backlog[k] :
        /\ backlog' = [backlog EXCEPT ![k] = @ \ {c}]
        /\ frames' = [frames EXCEPT ![c] = @ + 1]
        /\ Goes(Replay!Stalled(k, {c}), "sent")
  BY DEF Replay!Drains, Goes
<1>3. PICK W \in SUBSET calls : W = Replay!Stalled(k, {c})
  BY DEF Replay!Stalled
<1>4. /\ c \in Command /\ told[c] # "new" /\ ~InList(c) /\ ~InHand(c)
      /\ frames[c] \in Nat /\ misread[c] \in Nat /\ frames[c] <= misread[c]
      /\ \A r \in calls : r.cmd = c => r.phase = "failed" \/ r \in W
      /\ \A r \in W : r.cmd = c /\ r.on = k /\ r.phase = "stalled"
      /\ \A j \in Connections : c \in backlog[j] => j = k
  BY <1>1, <1>2, <1>3 DEF Backlogged, ReplayTyped, Replay!Stalled
<1>5. /\ frames' \in [Command -> Nat] /\ frames'[c] = frames[c] + 1
      /\ \A d \in Command : d # c => frames'[d] = frames[d]
  BY <1>1, <1>2, <1>4 DEF ReplayTyped
<1>6. /\ backlog' \in [Connections -> SUBSET Command]
      /\ \A j \in Connections : \A d \in Command : d \in backlog'[j] <=> d \in backlog[j] /\ d # c
  BY <1>1, <1>2, <1>4 DEF ReplayTyped
<1>7. ReplayTyped' /\ OnePlace' /\ Gone(W, "sent")
  BY <1>1, <1>2, <1>3, <1>5, <1>6, CallsGo DEF ReplayTyped
<1>8. /\ \A d : (InList(d)' <=> InList(d)) /\ (InHand(d)' <=> InHand(d))
      /\ \A s \in calls' : (s \in calls /\ s \notin W) \/ (s.cmd = c /\ s.phase = "sent")
      /\ \A s \in calls : s.cmd # c => s \in calls'
  BY <1>4, <1>7 DEF Gone
<1>9. \A s \in calls : s.cmd \in Command /\ s.on \in Connections
  BY <1>1, OneRecord DEF ReplayTyped
<1>10. Backlogged'
  <2>1. ASSUME NEW i \in Connections, NEW j \in Connections, NEW d \in Command,
               d \in backlog'[i], d \in backlog'[j]
        PROVE  i = j
    BY <1>1, <1>6, <2>1 DEF Backlogged
  <2>2. ASSUME NEW j \in Connections, NEW d \in Command, d \in backlog'[j]
        PROVE  /\ told'[d] # "new" /\ ~InList(d)' /\ ~InHand(d)' /\ frames'[d] <= misread'[d]
               /\ \A s \in calls' : s.cmd = d => s.phase = "failed" \/ (s.phase = "stalled" /\ s.on = j)
    BY <1>1, <1>5, <1>6, <1>8, <2>2 DEF Backlogged
  <2>3. ASSUME NEW s \in calls', s.phase = "stalled" PROVE s.cmd \in backlog'[s.on]
    <3>1. s \in calls /\ s \notin W
      BY <1>8, <2>3
    <3>2. s.cmd # c
      BY <1>4, <2>3, <3>1
    <3> QED
      BY <1>1, <1>6, <1>9, <2>3, <3>1, <3>2 DEF Backlogged
  <2> QED
    BY <2>1, <2>2, <2>3 DEF Backlogged
<1>11. Written'
  <2>1. ASSUME NEW d \in Command
        PROVE  /\ frames'[d] <= 1 + misread'[d]
               /\ told'[d] = "new" \/ InList(d)' \/ InHand(d)' => frames'[d] <= misread'[d]
    <3>1. CASE d = c
      BY <1>1, <1>4, <1>5, <1>8, <3>1
    <3>2. CASE d # c
      BY <1>1, <1>5, <1>8, <3>2 DEF Written
    <3> QED
      BY <3>1, <3>2
  <2>2. ASSUME NEW s \in calls'
        PROVE  /\ s.phase = "sent" => frames'[s.cmd] >= 1
               /\ s.phase \in {"queued", "stalled", "offline"} => frames'[s.cmd] <= misread'[s.cmd]
    <3>1. CASE s.cmd = c
      BY <1>4, <1>5, <1>8, <3>1
    <3>2. CASE s.cmd # c
      BY <1>1, <1>5, <1>8, <1>9, <3>2 DEF Written
    <3> QED
      BY <3>1, <3>2
  <2> QED
    BY <2>1, <2>2 DEF Written
<1>12. Promised'
  <2> SUFFICES ASSUME NEW d \in Command, told'[d] = "queued", frames'[d] = 0
               PROVE  InList(d)' \/ InHand(d)' \/ Owed(d)' \/ InBacklog(d)' \/ d \in lost'
    BY DEF Promised
  <2>1. d # c
    BY <1>4, <1>5
  <2> QED
    BY <1>1, <1>5, <1>6, <1>8, <2>1 DEF Promised, Owed, InBacklog
<1> QED
  BY <1>7, <1>10, <1>11, <1>12 DEF ReplayInv

(* Calls of a closing connection fail, or their errors are taken for that  *)
(* of a closed one; of what its backlog held, what a caller was told is    *)
(* queued is held by such a call or dropped.                               *)
Ends(k, W, p) ==
    /\ Goes(W, p)
    /\ backlog' \in [Connections -> SUBSET Command]
    /\ backlog'[k] = {} /\ \A j \in Connections : j # k => backlog'[j] = backlog[j]
    /\ lost' \in SUBSET Command /\ lost \subseteq lost'
    /\ \A c \in backlog[k] :
          told[c] = "queued" => c \in lost' \/ (p = "offline" /\ \E r \in W : r.cmd = c)
    /\ \A r \in calls : r.on = k /\ r.phase = "stalled" => r \in W
    /\ \A r \in W : r.on = k /\ r.phase \in {"stalled", "sent"}
    /\ misread' \in [Command -> Nat]
    /\ \A c \in Command : misread'[c] >= misread[c]
    /\ p = "offline" => \A r \in W : r.phase = "sent" => misread'[r.cmd] >= misread[r.cmd] + 1

LEMMA ConnectionEnds ==
    ASSUME ReplayInv, NEW k \in Connections, NEW W \in SUBSET calls,
           NEW p \in {"offline", "failed"}, Ends(k, W, p),
           conn' \in [Connections -> {"new", "open", "closing", "closed"}],
           UNCHANGED <<flush, hand, list, told, frames>>
    PROVE  ReplayInv'
<1>1. ReplayTyped /\ OnePlace /\ Backlogged /\ Written /\ Promised
  BY DEF ReplayInv
<1>2. ReplayTyped' /\ OnePlace' /\ Gone(W, p)
  <2>1. /\ Goes(W, p) /\ backlog' \in [Connections -> SUBSET Command]
        /\ misread' \in [Command -> Nat] /\ lost' \in SUBSET Command
        /\ frames' \in [Command -> Nat]
    BY <1>1 DEF Ends, ReplayTyped
  <2>2. p \in {"stalled", "sent", "offline", "failed"}
    OBVIOUS
  <2> QED
    BY <2>1, <2>2, CallsGo
<1>3. /\ \A d : (InList(d)' <=> InList(d)) /\ (InHand(d)' <=> InHand(d))
      /\ \A s \in calls' : \/ s \in calls /\ s \notin W
                           \/ \E r \in W : s.cmd = r.cmd /\ s.on = r.on /\ s.phase = p
      /\ \A r \in calls : r \notin W => r \in calls'
      /\ \A r \in W : \E s \in calls' : s.cmd = r.cmd /\ s.on = r.on /\ s.phase = p
  BY <1>2 DEF Gone
<1>4. \A r \in calls : r.cmd \in Command /\ r.on \in Connections
  BY <1>1, OneRecord DEF ReplayTyped
<1>5. \A c \in Command : /\ frames[c] \in Nat /\ misread[c] \in Nat /\ misread'[c] \in Nat
                         /\ misread'[c] >= misread[c]
  BY <1>1 DEF Ends, ReplayTyped
<1>6. \A j \in Connections : \A d \in Command : d \in backlog'[j] => j # k /\ d \in backlog[j]
  BY DEF Ends
<1>7. Backlogged'
  <2>1. ASSUME NEW i \in Connections, NEW j \in Connections, NEW d \in Command,
               d \in backlog'[i], d \in backlog'[j]
        PROVE  i = j
    BY <1>1, <1>6, <2>1 DEF Backlogged
  <2>2. ASSUME NEW j \in Connections, NEW d \in Command, d \in backlog'[j]
        PROVE  /\ told'[d] # "new" /\ ~InList(d)' /\ ~InHand(d)' /\ frames'[d] <= misread'[d]
               /\ \A s \in calls' : s.cmd = d => s.phase = "failed" \/ (s.phase = "stalled" /\ s.on = j)
    <3>1. /\ j # k /\ told[d] # "new" /\ ~InList(d) /\ ~InHand(d) /\ frames[d] <= misread[d]
          /\ \A r \in calls : r.cmd = d => r.phase = "failed" \/ (r.phase = "stalled" /\ r.on = j)
      BY <1>1, <1>6, <2>2 DEF Backlogged
    <3>2. \A r \in W : r.cmd # d
      BY <3>1 DEF Ends
    <3>3. \A s \in calls' : s.cmd = d => s \in calls
      BY <1>3, <3>2
    <3> QED
      BY <1>3, <1>5, <3>1, <3>3
  <2>3. ASSUME NEW s \in calls', s.phase = "stalled" PROVE s.cmd \in backlog'[s.on]
    BY <1>1, <1>3, <1>4, <2>3 DEF Backlogged, Ends
  <2> QED
    BY <2>1, <2>2, <2>3 DEF Backlogged
<1>8. Written'
  <2>1. ASSUME NEW d \in Command
        PROVE  /\ frames'[d] <= 1 + misread'[d]
               /\ told'[d] = "new" \/ InList(d)' \/ InHand(d)' => frames'[d] <= misread'[d]
    BY <1>1, <1>3, <1>5 DEF Written
  <2>2. ASSUME NEW s \in calls'
        PROVE  /\ s.phase = "sent" => frames'[s.cmd] >= 1
               /\ s.phase \in {"queued", "stalled", "offline"} => frames'[s.cmd] <= misread'[s.cmd]
    <3>1. CASE s \in calls
      BY <1>1, <1>4, <1>5, <3>1 DEF Written
    <3>2. ASSUME NEW r \in W, s.cmd = r.cmd, s.phase = p, p = "offline"
          PROVE  frames[r.cmd] <= misread'[r.cmd]
      <4>1. r \in calls /\ r.cmd \in Command
        BY <1>4
      <4>2. CASE r.phase = "stalled"
        BY <1>1, <1>5, <4>1, <4>2 DEF Written
      <4>3. CASE r.phase = "sent"
        BY <1>1, <1>5, <3>2, <4>1, <4>3 DEF Written, Ends
      <4> QED
        BY <4>2, <4>3 DEF Ends
    <3> QED
      BY <1>3, <3>1, <3>2
  <2> QED
    BY <2>1, <2>2 DEF Written
<1>9. Promised'
  <2> SUFFICES ASSUME NEW d \in Command, told'[d] = "queued", frames'[d] = 0
               PROVE  InList(d)' \/ InHand(d)' \/ Owed(d)' \/ InBacklog(d)' \/ d \in lost'
    BY DEF Promised
  <2>1. ASSUME d \in backlog[k] PROVE Owed(d)' \/ d \in lost'
    BY <1>3, <2>1 DEF Ends, Owed
  <2>2. ASSUME NEW r \in calls, r.cmd = d, r.phase # "failed" PROVE Owed(d)' \/ d \in backlog[k]
    <3>1. CASE r \notin W
      BY <1>3, <2>2, <3>1 DEF Owed
    <3>2. CASE r \in W /\ r.phase = "stalled"
      BY <1>1, <2>2, <3>2 DEF Backlogged, Ends
    <3>3. CASE r \in W /\ r.phase = "sent"
      BY <1>1, <1>5, <2>2, <3>3 DEF Written
    <3> QED
      BY <3>1, <3>2, <3>3 DEF Ends
  <2>3. InBacklog(d) => d \in backlog[k] \/ InBacklog(d)'
    BY DEF InBacklog, Ends
  <2>4. d \in lost => d \in lost'
    BY DEF Ends
  <2> QED
    BY <1>1, <1>3, <2>1, <2>2, <2>3, <2>4 DEF Promised, Owed
<1> QED
  BY <1>2, <1>7, <1>8, <1>9 DEF ReplayInv

LEMMA ConnectionCloses ==
    ASSUME ReplayInv, NEW k \in Connections, Replay!Closes(k)
    PROVE  ReplayInv'
<1>1. ReplayTyped /\ calls \subseteq Records
  BY DEF ReplayInv, ReplayTyped
<1> DEFINE W == {r \in calls : r.on = k /\ r.phase \in {"stalled", "sent"}}
           V == {r \in W : r.phase = "sent"}
<1>2. /\ conn' = [conn EXCEPT ![k] = "closed"] /\ backlog' = [backlog EXCEPT ![k] = {}]
      /\ UNCHANGED <<flush, hand, list, told, frames>>
  BY DEF Replay!Closes
<1>3. PICK p \in {"failed", "offline"} :
        /\ Goes(W, p)
        /\ p = "failed" => Replay!Drops(backlog[k]) /\ misread' = misread
        /\ p = "offline" => /\ Replay!Drops(backlog[k] \ {r.cmd : r \in W})
                           /\ Replay!Misread({r.cmd : r \in V})
  BY DEF Replay!Closes, Goes
<1>4. /\ misread' \in [Command -> Nat]
      /\ \A c \in Command : misread'[c] >= misread[c]
      /\ p = "offline" => \A r \in V : misread'[r.cmd] >= misread[r.cmd] + 1
  <2>1. CASE p = "failed"
    BY <1>1, <1>3, <2>1 DEF ReplayTyped
  <2>2. CASE p = "offline"
    <3>1. misread' = [c \in Command |-> IF c \in {r.cmd : r \in V} THEN misread[c] + 1 ELSE misread[c]]
      BY <1>3, <2>2 DEF Replay!Misread
    <3>2. \A r \in V : r.cmd \in Command
      BY <1>1, OneRecord
    <3> QED
      BY <1>1, <3>1, <3>2 DEF ReplayTyped
  <2> QED
    BY <2>1, <2>2
<1>5. /\ lost' \in SUBSET Command /\ lost \subseteq lost'
      /\ \A c \in backlog[k] :
            told[c] = "queued" => c \in lost' \/ (p = "offline" /\ \E r \in W : r.cmd = c)
  BY <1>1, <1>3 DEF ReplayTyped, Replay!Drops
<1>6. /\ W \in SUBSET calls
      /\ \A r \in calls : r.on = k /\ r.phase = "stalled" => r \in W
      /\ \A r \in W : r.on = k /\ r.phase \in {"stalled", "sent"}
      /\ \A r \in W : r.phase = "sent" => r \in V
  OBVIOUS
<1> HIDE DEF W, V
<1>7. Ends(k, W, p)
  BY <1>1, <1>2, <1>3, <1>4, <1>5, <1>6 DEF Ends, ReplayTyped
<1> QED
  BY <1>1, <1>2, <1>6, <1>7, ConnectionEnds DEF ReplayTyped

LEMMA BacklogFails ==
    ASSUME ReplayInv, NEW k \in Connections, Replay!DrainFails(k)
    PROVE  ReplayInv'
<1>1. ReplayTyped /\ Backlogged
  BY DEF ReplayInv
<1>2. PICK W \in SUBSET calls : W = Replay!Stalled(k, backlog[k])
  BY DEF Replay!Stalled
<1>3. /\ UNCHANGED <<conn, flush, hand, list, told, frames, misread>>
      /\ backlog' = [backlog EXCEPT ![k] = {}]
      /\ Goes(W, "failed") /\ Replay!Drops(backlog[k])
  BY <1>2 DEF Replay!DrainFails, Goes
<1>4. /\ \A r \in calls : r.on = k /\ r.phase = "stalled" => r \in W
      /\ \A r \in W : r.on = k /\ r.phase \in {"stalled", "sent"}
  BY <1>1, <1>2 DEF Replay!Stalled, Backlogged
<1>5. /\ lost' \in SUBSET Command /\ lost \subseteq lost'
      /\ \A c \in backlog[k] : told[c] = "queued" => c \in lost'
  BY <1>1, <1>3 DEF ReplayTyped, Replay!Drops
<1>6. Ends(k, W, "failed")
  BY <1>1, <1>3, <1>4, <1>5 DEF Ends, ReplayTyped
<1> QED
  BY <1>1, <1>3, <1>6, ConnectionEnds DEF ReplayTyped

(* The station answers with an error, or the call times out.               *)
LEMMA CallFails ==
    ASSUME ReplayInv, NEW r \in calls, Replay!Fails(r)
    PROVE  ReplayInv'
<1>1. /\ ReplayTyped /\ OnePlace /\ Backlogged /\ Written /\ Promised
      /\ r.phase \in {"stalled", "sent"}
      /\ UNCHANGED <<conn, flush, hand, list, backlog, told, frames, lost>>
  BY DEF ReplayInv, Replay!Fails
<1>2. PICK c \in Command : c = r.cmd
  BY OneRecord DEF ReplayInv, ReplayTyped
<1>3. PICK p \in {"failed", "offline"} :
        /\ Replay!Change(r, p)
        /\ p = "failed" => misread' = misread
        /\ p = "offline" => r.phase = "sent" /\ Replay!Misread({c})
  BY <1>2 DEF Replay!Fails
<1>4. /\ misread' \in [Command -> Nat]
      /\ \A d \in Command : misread'[d] >= misread[d] /\ misread'[d] \in Nat
      /\ p = "offline" => misread'[c] = misread[c] + 1
  <2>1. CASE p = "failed"
    BY <1>1, <1>3, <2>1 DEF ReplayTyped
  <2>2. CASE p = "offline"
    <3>1. misread' = [d \in Command |-> IF d \in {c} THEN misread[d] + 1 ELSE misread[d]]
      BY <1>3, <2>2 DEF Replay!Misread
    <3> QED
      BY <1>1, <3>1 DEF ReplayTyped
  <2> QED
    BY <2>1, <2>2
<1>5. Goes({r}, p)
  BY <1>3 DEF Goes, Replay!Change
<1>6. ReplayTyped' /\ OnePlace' /\ Gone({r}, p)
  BY <1>1, <1>4, <1>5, CallsGo DEF ReplayTyped
<1>7. /\ \A d : (InList(d)' <=> InList(d)) /\ (InHand(d)' <=> InHand(d))
      /\ \A s \in calls' : (s \in calls /\ s # r) \/ (s.cmd = c /\ s.on = r.on /\ s.phase = p)
      /\ \A s \in calls : s # r => s \in calls'
  BY <1>2, <1>6 DEF Gone
<1>8. /\ \A s \in calls : s.cmd \in Command /\ s.on \in Connections
      /\ \A s \in calls : s.cmd = c => s = r
      /\ \A d \in Command : frames[d] \in Nat /\ misread[d] \in Nat
  BY <1>1, <1>2, OneRecord DEF OnePlace, ReplayTyped
<1>9. r.phase = "sent" => \A k \in Connections : c \notin backlog[k]
  BY <1>1, <1>2 DEF Backlogged
<1>10. Backlogged'
  <2>1. ASSUME NEW j \in Connections, NEW d \in Command, d \in backlog'[j]
        PROVE  /\ told'[d] # "new" /\ ~InList(d)' /\ ~InHand(d)' /\ frames'[d] <= misread'[d]
               /\ \A s \in calls' : s.cmd = d => s.phase = "failed" \/ (s.phase = "stalled" /\ s.on = j)
    <3>1. /\ told[d] # "new" /\ ~InList(d) /\ ~InHand(d) /\ frames[d] <= misread[d]
          /\ \A s \in calls : s.cmd = d => s.phase = "failed" \/ (s.phase = "stalled" /\ s.on = j)
      BY <1>1, <2>1 DEF Backlogged
    <3>2. d = c => p = "failed"
      BY <1>1, <1>3, <1>9, <2>1
    <3>3. frames'[d] <= misread'[d]
      BY <1>1, <1>4, <1>8, <3>1
    <3> QED
      BY <1>1, <1>7, <3>1, <3>2, <3>3
  <2>2. ASSUME NEW s \in calls', s.phase = "stalled" PROVE s.cmd \in backlog'[s.on]
    BY <1>1, <1>3, <1>7, <2>2 DEF Backlogged
  <2> QED
    BY <1>1, <2>1, <2>2 DEF Backlogged
<1>11. Written'
  <2>1. ASSUME NEW d \in Command
        PROVE  /\ frames'[d] <= 1 + misread'[d]
               /\ told'[d] = "new" \/ InList(d)' \/ InHand(d)' => frames'[d] <= misread'[d]
    BY <1>1, <1>4, <1>7, <1>8 DEF Written
  <2>2. ASSUME NEW s \in calls'
        PROVE  /\ s.phase = "sent" => frames'[s.cmd] >= 1
               /\ s.phase \in {"queued", "stalled", "offline"} => frames'[s.cmd] <= misread'[s.cmd]
    <3>1. CASE s \in calls
      BY <1>1, <1>4, <1>8, <3>1 DEF Written
    <3>2. CASE s.cmd = c /\ s.phase = p
      <4>1. frames[c] <= 1 + misread[c]
        BY <1>1 DEF Written
      <4>2. p = "offline" => frames'[c] <= misread'[c]
        BY <1>1, <1>4, <1>8, <4>1
      <4> QED
        BY <3>2, <4>2
    <3> QED
      BY <1>7, <3>1, <3>2
  <2> QED
    BY <2>1, <2>2 DEF Written
<1>12. Promised'
  <2> SUFFICES ASSUME NEW d \in Command, told'[d] = "queued", frames'[d] = 0
               PROVE  InList(d)' \/ InHand(d)' \/ Owed(d)' \/ InBacklog(d)' \/ d \in lost'
    BY DEF Promised
  <2>1. InBacklog(d) => InBacklog(d)'
    BY <1>1 DEF InBacklog
  <2>2. Owed(d) => Owed(d)' \/ d = c
    BY <1>2, <1>7 DEF Owed
  <2>3. d = c => InBacklog(d)'
    <3>1. r.phase = "sent" => frames[c] >= 1
      BY <1>1, <1>2 DEF Written
    <3>2. r.phase = "stalled" => c \in backlog[r.on] /\ r.on \in Connections
      BY <1>1, <1>2, <1>8 DEF Backlogged
    <3> QED
      BY <1>1, <1>8, <3>1, <3>2 DEF InBacklog
  <2> QED
    BY <1>1, <1>7, <2>1, <2>2, <2>3 DEF Promised
<1> QED
  BY <1>6, <1>10, <1>11, <1>12 DEF ReplayInv

(* A call ends that was written, or whose command no caller was told is    *)
(* queued, or that is dropped.                                             *)
LEMMA CallEnds ==
    ASSUME ReplayInv, NEW r \in calls, calls' = calls \ {r},
           UNCHANGED <<conn, flush, hand, list, backlog, frames, misread>>,
           Replay!Settled(r.cmd),
           lost' \in SUBSET Command, lost \subseteq lost',
           \/ r.phase \in {"sent", "failed"}
           \/ told[r.cmd] = "queued" => r.cmd \in lost'
    PROVE  ReplayInv'
<1>1. /\ ReplayTyped /\ OnePlace /\ Backlogged /\ Written /\ Promised
      /\ r \in Records /\ calls \subseteq Records
  BY DEF ReplayInv, ReplayTyped
<1>2. r.cmd \in Command /\ told[r.cmd] # "new"
  BY <1>1, OneRecord DEF OnePlace, InCall
<1>3. /\ told' \in [Command -> {"new", "waiting", "queued", "settled"}]
      /\ \A c \in Command : /\ told'[c] = "new" <=> told[c] = "new"
                            /\ told'[c] = "queued" => told[c] = "queued"
  BY <1>1, <1>2 DEF Replay!Settled, ReplayTyped
<1>4. ReplayTyped'
  BY <1>1, <1>3 DEF ReplayTyped
<1>5. /\ \A c : (InList(c)' <=> InList(c)) /\ (InHand(c)' <=> InHand(c)) /\ (InCall(c)' => InCall(c))
      /\ \A c : InBacklog(c)' <=> InBacklog(c)
      /\ \A c : Owed(c) => Owed(c)' \/ (c = r.cmd /\ r.phase # "failed")
  <2>1. \A c : (InList(c)' <=> InList(c)) /\ (InHand(c)' <=> InHand(c)) /\ (InCall(c)' => InCall(c))
    BY DEF InList, InHand, InCall
  <2>2. \A c : InBacklog(c)' <=> InBacklog(c)
    BY DEF InBacklog
  <2>3. ASSUME NEW c, Owed(c) PROVE Owed(c)' \/ (c = r.cmd /\ r.phase # "failed")
    <3>1. \A s, u \in calls : s.cmd = u.cmd => s = u
      BY <1>1 DEF OnePlace
    <3> QED
      BY <2>3, <3>1 DEF Owed
  <2> QED
    BY <2>1, <2>2, <2>3
<1>6. OnePlace'
  BY <1>1, <1>3, <1>5 DEF OnePlace
<1>7. Backlogged'
  BY <1>1, <1>3, <1>5 DEF Backlogged
<1>8. Written'
  BY <1>1, <1>3, <1>5 DEF Written
<1>9. Promised'
  <2> SUFFICES ASSUME NEW d \in Command, told'[d] = "queued", frames'[d] = 0
               PROVE  InList(d)' \/ InHand(d)' \/ Owed(d)' \/ InBacklog(d)' \/ d \in lost'
    BY DEF Promised
  <2>1. InList(d) \/ InHand(d) \/ Owed(d) \/ InBacklog(d) \/ d \in lost
    BY <1>1, <1>3 DEF Promised
  <2>2. d = r.cmd /\ r.phase # "failed" => d \in lost'
    BY <1>1, <1>2, <1>3 DEF Written, ReplayTyped
  <2> QED
    BY <1>5, <2>1, <2>2
<1> QED
  BY <1>4, <1>6, <1>7, <1>8, <1>9 DEF ReplayInv

LEMMA CommandIsCalled ==
    ASSUME ReplayInv, NEW c \in Command, NEW k \in Connections, Replay!Call(c, k)
    PROVE  ReplayInv'
<1>1. ReplayTyped /\ OnePlace /\ Backlogged /\ Written /\ Promised /\ calls \subseteq Records
  BY DEF ReplayInv, ReplayTyped
<1>2. PICK n \in Records : n = [cmd |-> c, on |-> k, phase |-> "queued"]
  BY DEF Records, Connections, Replay!Calls, Replay!Phases, Replay!Connection
<1>3. /\ told[c] = "new" /\ told' = [told EXCEPT ![c] = "waiting"] /\ calls' = calls \cup {n}
      /\ UNCHANGED <<conn, flush, hand, list, backlog, frames, misread, lost>>
  BY <1>2 DEF Replay!Call
<1>4. /\ told' \in [Command -> {"new", "waiting", "queued", "settled"}] /\ told'[c] = "waiting"
      /\ \A d \in Command : d # c => told'[d] = told[d]
  BY <1>1, <1>3 DEF ReplayTyped
<1>5. /\ \A d : (InList(d)' <=> InList(d)) /\ (InHand(d)' <=> InHand(d))
      /\ \A d : InCall(d)' <=> InCall(d) \/ d = c
      /\ \A d : (Owed(d) => Owed(d)') /\ (InBacklog(d)' <=> InBacklog(d))
  BY <1>2, <1>3 DEF InList, InHand, InCall, Owed, InBacklog
<1>6. /\ ~InList(c) /\ ~InHand(c) /\ ~InCall(c) /\ frames[c] <= misread[c]
      /\ \A j \in Connections : c \notin backlog[j]
  BY <1>1, <1>3 DEF OnePlace, Backlogged, Written
<1>7. n.cmd = c /\ n.phase = "queued" /\ \A r \in calls : r.cmd # c
  BY <1>2, <1>6 DEF InCall
<1>8. ReplayTyped'
  BY <1>1, <1>3, <1>4 DEF ReplayTyped
<1>9. OnePlace'
  BY <1>1, <1>3, <1>4, <1>5, <1>6, <1>7 DEF OnePlace
<1>10. Written'
  BY <1>1, <1>3, <1>4, <1>5, <1>6, <1>7 DEF Written
<1>11. Promised'
  BY <1>1, <1>3, <1>4, <1>5 DEF Promised
<1>12. Backlogged'
  BY <1>1, <1>3, <1>4, <1>5, <1>6, <1>7 DEF Backlogged
<1> QED
  BY <1>8, <1>9, <1>10, <1>11, <1>12 DEF ReplayInv

LEMMA CommandIsStored ==
    ASSUME ReplayInv, NEW r \in calls, Replay!Stores(r)
    PROVE  ReplayInv'
<1>1. /\ ReplayTyped /\ OnePlace /\ Backlogged /\ Written /\ Promised /\ calls \subseteq Records
      /\ r \in Records /\ list \in Seq(Command) /\ told \in [Command -> {"new", "waiting", "queued", "settled"}]
  BY DEF ReplayInv, ReplayTyped
<1>2. PICK c \in Command : c = r.cmd
  BY <1>1, OneRecord
<1>3. /\ r.phase = "offline" /\ calls' = calls \ {r} /\ list' = Append(list, c)
      /\ told' = IF told[c] = "waiting" THEN [told EXCEPT ![c] = "queued"] ELSE told
      /\ UNCHANGED <<conn, flush, hand, backlog, frames, misread, lost>>
  BY <1>2 DEF Replay!Stores, Replay!IsOffline
<1>4. /\ InCall(c) /\ ~InList(c) /\ ~InHand(c) /\ told[c] # "new" /\ frames[c] <= misread[c]
      /\ \A j \in Connections : c \notin backlog[j]
  BY <1>1, <1>2, <1>3 DEF OnePlace, InCall, Backlogged, Written
<1>5. /\ told' \in [Command -> {"new", "waiting", "queued", "settled"}] /\ told'[c] # "new"
      /\ \A d \in Command : d # c => told'[d] = told[d]
  BY <1>1, <1>3, <1>4
<1>6. PICK n \in Nat : n = Len(list)
  BY <1>1, LenProperties
<1>7. /\ list' \in Seq(Command) /\ Len(list') = n + 1 /\ list'[n + 1] = c
      /\ \A i \in 1 .. n : list'[i] = list[i] /\ list[i] # c
  BY <1>1, <1>3, <1>4, <1>6, AppendProperties DEF InList
<1>8. \A i \in 1 .. n + 1 : i \in 1 .. n \/ i = n + 1
  OBVIOUS
<1>9. /\ \A d : InList(d)' <=> InList(d) \/ d = c
      /\ \A d : InHand(d)' <=> InHand(d)
      /\ \A d : InCall(d)' <=> InCall(d) /\ d # c
      /\ \A d : (Owed(d) /\ d # c => Owed(d)') /\ (InBacklog(d)' <=> InBacklog(d))
  <2>1. ASSUME NEW d PROVE InList(d)' <=> InList(d) \/ d = c
    <3>1. ASSUME InList(d)' PROVE InList(d) \/ d = c
      BY <1>6, <1>7, <1>8, <3>1 DEF InList
    <3>2. ASSUME InList(d) PROVE InList(d)'
      <4>1. PICK i \in 1 .. n : list[i] = d
        BY <1>6, <3>2 DEF InList
      <4>2. i \in 1 .. n + 1 /\ list'[i] = d
        BY <1>7, <4>1
      <4> QED
        BY <1>7, <4>2 DEF InList
    <3>3. n + 1 \in 1 .. n + 1
      OBVIOUS
    <3>4. InList(c)'
      BY <1>7, <3>3 DEF InList
    <3> QED
      BY <3>1, <3>2, <3>4
  <2>2. ASSUME NEW d PROVE InCall(d)' <=> InCall(d) /\ d # c
    BY <1>1, <1>2, <1>3 DEF InCall, OnePlace
  <2>3. \A d : InHand(d)' <=> InHand(d)
    BY <1>3 DEF InHand
  <2>4. \A d : (Owed(d) /\ d # c => Owed(d)') /\ (InBacklog(d)' <=> InBacklog(d))
    BY <1>2, <1>3 DEF Owed, InBacklog
  <2> QED
    BY <2>1, <2>2, <2>3, <2>4
<1>10. ReplayTyped'
  BY <1>1, <1>3, <1>5, <1>7 DEF ReplayTyped
<1>11. OnePlace'
  <2>1. ASSUME NEW i \in 1 .. Len(list'), NEW j \in 1 .. Len(list'), list'[i] = list'[j]
        PROVE  i = j
    BY <1>1, <1>6, <1>7, <1>8, <2>1 DEF OnePlace
  <2>2. \A d \in Command :
          /\ ~(InList(d)' /\ InHand(d)') /\ ~(InList(d)' /\ InCall(d)')
          /\ ~(InHand(d)' /\ InCall(d)')
          /\ told'[d] = "new" => ~InList(d)' /\ ~InHand(d)' /\ ~InCall(d)'
    BY <1>1, <1>4, <1>5, <1>9 DEF OnePlace
  <2>3. /\ \A j, k \in Connections : \A d \in Command : d \in hand'[j] /\ d \in hand'[k] => j = k
        /\ \A s, u \in calls' : s.cmd = u.cmd => s = u
    BY <1>1, <1>3 DEF OnePlace
  <2> QED
    BY <2>1, <2>2, <2>3 DEF OnePlace
<1>12. Written'
  BY <1>1, <1>3, <1>4, <1>5, <1>9 DEF Written
<1>13. Promised'
  BY <1>1, <1>3, <1>5, <1>9 DEF Promised
<1>14. Backlogged'
  BY <1>1, <1>3, <1>4, <1>5, <1>9 DEF Backlogged
<1> QED
  BY <1>10, <1>11, <1>12, <1>13, <1>14 DEF ReplayInv

LEMMA CommandIsTaken ==
    ASSUME ReplayInv, NEW k \in Connections, Replay!Pops(k)
    PROVE  ReplayInv'
<1>1. /\ ReplayTyped /\ OnePlace /\ Backlogged /\ Written /\ Promised
      /\ list \in Seq(Command) /\ list # <<>> /\ hand[k] = {}
      /\ hand \in [Connections -> SUBSET Command]
      /\ hand' = [hand EXCEPT ![k] = {Head(list)}] /\ list' = Tail(list)
      /\ UNCHANGED <<conn, flush, calls, backlog, told, frames, misread, lost>>
  BY DEF ReplayInv, ReplayTyped, Replay!Pops
<1>2. PICK n \in Nat : n = Len(list) /\ n >= 1
  BY <1>1, LenProperties, EmptySeq
<1>3. PICK c \in Command : c = list[1] /\ c = Head(list)
  BY <1>1, <1>2, ElementOfSeq
<1>4. /\ list' \in Seq(Command) /\ Len(list') = n - 1
      /\ \A i \in 1 .. n - 1 : list'[i] = list[i + 1]
  BY <1>1, <1>2, HeadTailProperties
<1>5. \A i \in 2 .. n : list[i] # c /\ i - 1 \in 1 .. n - 1 /\ (i - 1) + 1 = i
  BY <1>1, <1>2, <1>3 DEF OnePlace
<1>6. \A i \in 1 .. n - 1 : i + 1 \in 2 .. n /\ i + 1 \in 1 .. n
  OBVIOUS
<1>7. hand' \in [Connections -> SUBSET Command] /\ hand'[k] = {c}
      /\ \A j \in Connections : j # k => hand'[j] = hand[j]
  BY <1>1, <1>3
<1>8. /\ InList(c) /\ ~InHand(c) /\ ~InCall(c) /\ told[c] # "new" /\ frames[c] <= misread[c]
      /\ \A j \in Connections : c \notin backlog[j]
  <2>1. InList(c)
    BY <1>2, <1>3 DEF InList
  <2> QED
    BY <1>1, <2>1 DEF OnePlace, Backlogged, Written
<1>9. /\ \A d : InList(d)' <=> InList(d) /\ d # c
      /\ \A d : InHand(d)' <=> InHand(d) \/ d = c
      /\ \A d : InCall(d)' <=> InCall(d)
      /\ \A d : (Owed(d)' <=> Owed(d)) /\ (InBacklog(d)' <=> InBacklog(d))
  <2>1. ASSUME NEW d, InList(d)' PROVE InList(d) /\ d # c
    <3>1. PICK i \in 1 .. n - 1 : list'[i] = d
      BY <1>4, <2>1 DEF InList
    <3> QED
      BY <1>2, <1>4, <1>5, <1>6, <3>1 DEF InList
  <2>2. ASSUME NEW d, InList(d), d # c PROVE InList(d)'
    <3>1. PICK i \in 1 .. n : list[i] = d
      BY <1>2, <2>2 DEF InList
    <3>2. i \in 2 .. n
      BY <1>3, <2>2, <3>1
    <3> QED
      BY <1>4, <1>5, <3>1, <3>2 DEF InList
  <2>3. \A d : InHand(d)' <=> InHand(d) \/ d = c
    BY <1>1, <1>7 DEF InHand
  <2>4. /\ \A d : InCall(d)' <=> InCall(d)
        /\ \A d : (Owed(d)' <=> Owed(d)) /\ (InBacklog(d)' <=> InBacklog(d))
    BY <1>1 DEF InCall, Owed, InBacklog
  <2> QED
    BY <2>1, <2>2, <2>3, <2>4
<1>10. ReplayTyped'
  BY <1>1, <1>4, <1>7 DEF ReplayTyped
<1>11. OnePlace'
  <2>1. ASSUME NEW i \in 1 .. Len(list'), NEW j \in 1 .. Len(list'), list'[i] = list'[j]
        PROVE  i = j
    <3>1. list[i + 1] = list[j + 1] /\ i + 1 \in 1 .. n /\ j + 1 \in 1 .. n
      BY <1>4, <1>6, <2>1
    <3>2. i + 1 = j + 1
      BY <1>1, <1>2, <3>1 DEF OnePlace
    <3> QED
      BY <1>4, <3>2
  <2>2. ASSUME NEW i \in Connections, NEW j \in Connections, NEW d \in Command,
               d \in hand'[i], d \in hand'[j]
        PROVE  i = j
    BY <1>1, <1>7, <1>8, <2>2 DEF OnePlace, InHand
  <2>3. \A d \in Command :
          /\ ~(InList(d)' /\ InHand(d)') /\ ~(InList(d)' /\ InCall(d)')
          /\ ~(InHand(d)' /\ InCall(d)')
          /\ told'[d] = "new" => ~InList(d)' /\ ~InHand(d)' /\ ~InCall(d)'
    BY <1>1, <1>8, <1>9 DEF OnePlace
  <2>4. \A s, u \in calls' : s.cmd = u.cmd => s = u
    BY <1>1 DEF OnePlace
  <2> QED
    BY <2>1, <2>2, <2>3, <2>4 DEF OnePlace
<1>12. Written'
  BY <1>1, <1>8, <1>9 DEF Written
<1>13. Promised'
  BY <1>1, <1>9 DEF Promised
<1>14. Backlogged'
  BY <1>1, <1>8, <1>9 DEF Backlogged
<1> QED
  BY <1>10, <1>11, <1>12, <1>13, <1>14 DEF ReplayInv

(* What a loop has taken becomes a call again, or is lost.                 *)
LEMMA CommandIsReplayed ==
    ASSUME ReplayInv, NEW k \in Connections, Replay!Replays(k)
    PROVE  ReplayInv'
<1>1. /\ ReplayTyped /\ OnePlace /\ Backlogged /\ Written /\ Promised
      /\ hand \in [Connections -> SUBSET Command]
      /\ hand' = [hand EXCEPT ![k] = {}]
      /\ UNCHANGED <<conn, flush, list, backlog, told, frames, misread>>
  BY DEF ReplayInv, ReplayTyped, Replay!Replays
<1>2. PICK H \in SUBSET Command : H = hand[k]
  BY <1>1
<1>3. /\ hand' \in [Connections -> SUBSET Command] /\ hand'[k] = {}
      /\ \A j \in Connections : j # k => hand'[j] = hand[j]
  BY <1>1
<1>4. \A c \in H : /\ InHand(c) /\ ~InList(c) /\ ~InCall(c) /\ told[c] # "new"
                   /\ frames[c] <= misread[c] /\ \A j \in Connections : c \notin backlog[j]
  <2>1. \A c \in H : InHand(c)
    BY <1>2 DEF InHand
  <2> QED
    BY <1>1, <1>2, <2>1 DEF OnePlace, Backlogged, Written
<1>5. /\ \A c : InList(c)' <=> InList(c)
      /\ \A c \in Command : InHand(c)' <=> InHand(c) /\ c \notin H
      /\ \A c : InBacklog(c)' <=> InBacklog(c)
  <2>1. \A c : InList(c)' <=> InList(c)
    BY <1>1 DEF InList
  <2>2. ASSUME NEW c \in Command PROVE InHand(c)' <=> InHand(c) /\ c \notin H
    BY <1>1, <1>2, <1>3 DEF InHand, OnePlace
  <2>3. \A c : InBacklog(c)' <=> InBacklog(c)
    BY <1>1 DEF InBacklog
  <2> QED
    BY <2>1, <2>2, <2>3
<1>6. CASE Replay!OPEN(k)
  <2> DEFINE new(c) == [cmd |-> c, on |-> k, phase |-> "queued"]
  <2>1. calls' = calls \cup {new(c) : c \in H} /\ lost' = lost
    BY <1>2, <1>6 DEF Replay!Replays
  <2>2. \A c \in H : new(c) \in Records /\ new(c).cmd = c /\ new(c).phase = "queued"
    BY <1>2 DEF Records, Connections, Replay!Calls, Replay!Phases, Replay!Connection
  <2>3. \A c \in H : new(c) \in calls'
    BY <2>1
  <2>4. \A r \in calls' :
          r \in calls \/ \E c \in H : r = new(c) /\ r \in Records /\ r.cmd = c /\ r.phase = "queued"
    BY <2>1, <2>2
  <2>5. calls \subseteq calls'
    BY <2>1
  <2>6. \A c : InCall(c)' <=> InCall(c) \/ c \in H
    <3>1. ASSUME NEW c, InCall(c)' PROVE InCall(c) \/ c \in H
      BY <2>4, <3>1 DEF InCall
    <3>2. ASSUME NEW c, InCall(c) \/ c \in H PROVE InCall(c)'
      BY <2>2, <2>3, <2>5, <3>2 DEF InCall
    <3> QED
      BY <3>1, <3>2
  <2>7. ReplayTyped'
    BY <1>1, <1>3, <2>1, <2>4 DEF ReplayTyped
  <2>8. OnePlace'
    <3>1. ASSUME NEW r \in calls', NEW s \in calls', r.cmd = s.cmd PROVE r = s
      <4>1. \A u \in calls : u.cmd \notin H
        BY <1>4 DEF InCall
      <4>2. CASE r \in calls /\ s \in calls
        BY <1>1, <3>1, <4>2 DEF OnePlace
      <4>3. ASSUME NEW c \in H, NEW d \in H, r = new(c), r.cmd = c, s = new(d), s.cmd = d
            PROVE  r = s
        BY <3>1, <4>3
      <4> QED
        BY <2>4, <3>1, <4>1, <4>2, <4>3
    <3>2. \A d \in Command :
            /\ ~(InList(d)' /\ InHand(d)') /\ ~(InList(d)' /\ InCall(d)')
            /\ ~(InHand(d)' /\ InCall(d)')
            /\ told'[d] = "new" => ~InList(d)' /\ ~InHand(d)' /\ ~InCall(d)'
      BY <1>1, <1>4, <1>5, <2>6 DEF OnePlace
    <3>3. /\ \A i, j \in Connections : \A d \in Command : d \in hand'[i] /\ d \in hand'[j] => i = j
          /\ \A i, j \in 1 .. Len(list') : list'[i] = list'[j] => i = j
      BY <1>1, <1>3 DEF OnePlace
    <3> QED
      BY <3>1, <3>2, <3>3 DEF OnePlace
  <2>9. Written'
    <3>1. \A c \in Command :
            /\ frames'[c] <= 1 + misread'[c]
            /\ told'[c] = "new" \/ InList(c)' \/ InHand(c)' => frames'[c] <= misread'[c]
      BY <1>1, <1>5 DEF Written
    <3>2. \A r \in calls' :
            /\ r.phase = "sent" => frames'[r.cmd] >= 1
            /\ r.phase \in {"queued", "stalled", "offline"} => frames'[r.cmd] <= misread'[r.cmd]
      BY <1>1, <1>4, <2>4 DEF Written
    <3> QED
      BY <3>1, <3>2 DEF Written
  <2>10. Promised'
    <3>1. \A c : Owed(c) \/ c \in H => Owed(c)'
      BY <2>2, <2>3, <2>5 DEF Owed
    <3> QED
      BY <1>1, <1>5, <2>1, <3>1 DEF Promised
  <2>11. Backlogged'
    BY <1>1, <1>4, <1>5, <2>4 DEF Backlogged
  <2> QED
    BY <2>7, <2>8, <2>9, <2>10, <2>11 DEF ReplayInv
<1>7. CASE ~Replay!OPEN(k)
  <2>1. calls' = calls /\ lost' = lost \cup {c \in H : told[c] = "queued"}
    BY <1>2, <1>7 DEF Replay!Replays, Replay!Drops
  <2>2. \A c : (InCall(c)' <=> InCall(c)) /\ (Owed(c)' <=> Owed(c))
    BY <2>1 DEF InCall, Owed
  <2>3. ReplayTyped'
    BY <1>1, <1>3, <2>1 DEF ReplayTyped
  <2>4. OnePlace'
    BY <1>1, <1>3, <1>5, <2>1, <2>2 DEF OnePlace
  <2>5. Written'
    BY <1>1, <1>5, <2>1 DEF Written
  <2>6. Promised'
    BY <1>1, <1>5, <2>1, <2>2 DEF Promised
  <2>7. Backlogged'
    BY <1>1, <1>5, <2>1 DEF Backlogged
  <2> QED
    BY <2>3, <2>4, <2>5, <2>6, <2>7 DEF ReplayInv
<1> QED
  BY <1>6, <1>7

LEMMA ReplayStep == ReplayInv /\ [Replay!Next]_replayVars => ReplayInv'
<1> SUFFICES ASSUME ReplayInv, [Replay!Next]_replayVars PROVE ReplayInv'
  OBVIOUS
<1>0. /\ ReplayTyped /\ Replay!Connection = Connections
      /\ \A r \in calls : r \in Records /\ r.cmd \in Command
  BY OneRecord DEF ReplayInv, ReplayTyped, Connections
<1>1. ASSUME NEW k \in Connections,
             Replay!Connect(k) \/ Replay!StartsClosing(k) \/ Replay!FlushEnds(k)
      PROVE  ReplayInv'
  <2>1. /\ UNCHANGED <<hand, list, calls, backlog, told, frames, misread, lost>>
        /\ conn' \in [Connections -> {"new", "open", "closing", "closed"}]
        /\ flush' \in [Connections -> {"none", "on", "done"}]
    BY <1>0, <1>1 DEF ReplayTyped, Replay!Connect, Replay!StartsClosing, Replay!FlushEnds
  <2> QED
    BY <2>1, NothingMoves
<1>2. ASSUME NEW r \in calls, Replay!Answered(r) \/ Replay!Rethrows(r) \/ Replay!StoreFails(r)
      PROVE  ReplayInv'
  <2>1. /\ calls' = calls \ {r} /\ UNCHANGED <<conn, flush, hand, list, backlog, frames, misread>>
        /\ Replay!Settled(r.cmd) /\ lost' \in SUBSET Command /\ lost \subseteq lost'
        /\ \/ r.phase \in {"sent", "failed"}
           \/ told[r.cmd] = "queued" => r.cmd \in lost'
    BY <1>0, <1>2 DEF ReplayTyped, Replay!Answered, Replay!Rethrows, Replay!StoreFails, Replay!Drops
  <2> QED
    BY <2>1, CallEnds
<1>3. ASSUME UNCHANGED replayVars PROVE ReplayInv'
  BY <1>0, <1>3, NothingMoves DEF replayVars, ReplayTyped
<1> QED
  BY <1>0, <1>1, <1>2, <1>3, ConnectionCloses, BacklogDrains, BacklogFails, CommandIsCalled,
     CallRuns, CallFails, CommandIsStored, CommandIsTaken, CommandIsReplayed DEF Replay!Next

LEMMA OneOrNone ==
    ASSUME NEW S, S = {} \/ \E x : S = {x}
    PROVE  Cardinality(S) = IF S = {} THEN 0 ELSE 1
<1>1. CASE S = {}
  BY <1>1, FS_EmptySet
<1>2. ASSUME NEW x, S = {x} PROVE Cardinality(S) = 1
  BY <1>2, FS_Singleton
<1> QED
  BY <1>1, <1>2

LEMMA CommandIsKept == ReplayInv => Replay!CommandsKept
<1> SUFFICES ASSUME ReplayInv PROVE Replay!CommandsKept
  OBVIOUS
<1>1. ReplayTyped /\ OnePlace /\ Backlogged /\ Written /\ Promised
  BY DEF ReplayInv
<1>2. Replay!TypeOK
  BY <1>1 DEF ReplayTyped, Replay!TypeOK, Connections, Records
<1>3. ASSUME NEW c \in Command
      PROVE  /\ Replay!Holders(c) \in Nat /\ Replay!Holders(c) <= 1
             /\ InList(c) \/ InHand(c) \/ InCall(c) => Replay!Holders(c) = 1
  <2> DEFINE L == {i \in DOMAIN list : list[i] = c}
             K == {k \in Connections : c \in hand[k]}
             R == {r \in calls : r.cmd = c}
  <2>1. Replay!Holders(c) = Cardinality(L) + Cardinality(K) + Cardinality(R)
    BY DEF Replay!Holders, Replay!Cardinality, Cardinality, Connections
  <2>2. DOMAIN list = 1 .. Len(list)
    BY <1>1, LenProperties DEF ReplayTyped
  <2>3. /\ InList(c) => Cardinality(L) = 1
        /\ ~InList(c) => Cardinality(L) = 0
    <3>1. (InList(c) => L # {} /\ \E i : L = {i}) /\ (~InList(c) => L = {})
      <4>1. ASSUME InList(c) PROVE L # {} /\ \E i : L = {i}
        <5>1. PICK i \in 1 .. Len(list) : list[i] = c
          BY <4>1 DEF InList
        <5>2. L = {i}
          BY <1>1, <2>2, <5>1 DEF OnePlace
        <5> QED
          BY <5>2
      <4>2. ~InList(c) => L = {}
        BY <2>2 DEF InList
      <4> QED
        BY <4>1, <4>2
    <3> QED
      BY <3>1, OneOrNone
  <2>4. /\ InHand(c) => Cardinality(K) = 1
        /\ ~InHand(c) => Cardinality(K) = 0
    <3>1. (InHand(c) => K # {} /\ \E i : K = {i}) /\ (~InHand(c) => K = {})
      BY <1>1 DEF OnePlace, InHand
    <3> QED
      BY <3>1, OneOrNone
  <2>5. /\ InCall(c) => Cardinality(R) = 1
        /\ ~InCall(c) => Cardinality(R) = 0
    <3>1. (InCall(c) => R # {} /\ \E i : R = {i}) /\ (~InCall(c) => R = {})
      <4>1. ASSUME InCall(c) PROVE R # {} /\ \E i : R = {i}
        <5>1. PICK r \in calls : r.cmd = c
          BY <4>1 DEF InCall
        <5>2. R = {r}
          BY <1>1, <5>1 DEF OnePlace
        <5> QED
          BY <5>2
      <4>2. ~InCall(c) => R = {}
        BY DEF InCall
      <4> QED
        BY <4>1, <4>2
    <3> QED
      BY <3>1, OneOrNone
  <2>6. ~(InList(c) /\ InHand(c)) /\ ~(InList(c) /\ InCall(c)) /\ ~(InHand(c) /\ InCall(c))
    BY <1>1 DEF OnePlace
  <2> HIDE DEF L, K, R
  <2> QED
    BY <2>1, <2>3, <2>4, <2>5, <2>6
<1>4. \A c \in Command : told[c] = "queued" /\ frames[c] = 0 => Replay!Kept(c) \/ c \in lost
  <2>1. \A c : Owed(c) => InCall(c)
    BY DEF Owed, InCall
  <2>2. \A c : InBacklog(c) => Replay!Kept(c)
    BY DEF InBacklog, Replay!Kept, Connections
  <2>3. \A c \in Command : InList(c) \/ InHand(c) \/ InCall(c) => Replay!Kept(c)
    BY <1>3 DEF Replay!Kept
  <2> QED
    BY <1>1, <2>1, <2>2, <2>3 DEF Promised
<1>5. \A c \in Command : frames[c] <= 1 + misread[c]
  BY <1>1 DEF Written
<1> QED
  BY <1>2, <1>3, <1>4, <1>5 DEF Replay!CommandsKept

-----------------------------------------------------------------------------
(* The stream of a node *)

Pools       == 1 .. MaxPool
Entries     == Stream!Entry
Sorted(es)  == \A i, j \in 1 .. Len(es) : i < j => es[i].id < es[j].id
Elems(es)   == {es[i] : i \in 1 .. Len(es)}
Kept        == Elems(stream) \cup Elems(read) \cup Elems(heard)
Ahead       == {e \in Elems(stream) : e.id > streamOffset}
OnWire(m)   == \E d \in Pools : \E i \in 1 .. Len(wires[d]) : wires[d][i] = m

StreamTyped ==
    /\ poolSize \in Pools /\ wires \in [Pools -> Seq(Stream!Msg)] /\ published \in 0 .. MaxMessages
    /\ stream \in Seq(Entries) /\ read \in Seq(Entries) /\ heard \in Seq(Entries)
    /\ lastId \in Nat /\ streamOffset \in 0 .. lastId
    /\ subscribed \in BOOLEAN /\ shut \in BOOLEAN
    /\ loop \in {"off", "idle", "reading", "read"}
    /\ subscribes \in Nat /\ errors \in Nat
    /\ missed \subseteq Stream!Msg /\ resent \subseteq Stream!Msg

(* The offset lies behind what was heard and before what was read; what    *)
(* lies ahead of it in the stream was read, or follows all that was.       *)
Offsets ==
    /\ Sorted(stream) /\ Sorted(read) /\ Sorted(heard)
    /\ \A e \in Elems(stream) : e.id <= lastId
    /\ \A e \in Elems(read) : streamOffset < e.id /\ e.id <= lastId
    /\ \A e \in Elems(heard) : e.id <= streamOffset
    /\ loop # "read" => read = <<>>
    /\ \A e \in Ahead : e \in Elems(read) \/ \A f \in Elems(read) : f.id < e.id

(* No message that was published is forgotten.                             *)
Remembered ==
    /\ \A e \in Kept : e.msg <= published
    /\ \A m \in Stream!Msg : OnWire(m) \/ m \in missed => m <= published
    /\ \A m \in 1 .. published :
          OnWire(m) \/ m \in missed \/ \E e \in Ahead \cup Elems(read) \cup Elems(heard) : e.msg = m

(* One that was not sent again has one entry at most, none while it is on  *)
(* its way, and none that will be heard once it is counted as lost.        *)
Single ==
    /\ \A d, g \in Pools : \A i \in 1 .. Len(wires[d]), j \in 1 .. Len(wires[g]) :
          wires[d][i] = wires[g][j] => d = g /\ i = j
    /\ \A e, f \in Kept : e.msg = f.msg /\ e.msg \notin resent => e = f
    /\ \A e \in Kept : OnWire(e.msg) => e.msg \in resent
    /\ \A m \in missed : OnWire(m) => m \in resent
    /\ \A e \in Ahead \cup Elems(read) \cup Elems(heard) : e.msg \in missed => e.msg \in resent

(* Over one connection without resending, ids follow the publisher.        *)
Follows ==
    poolSize = 1 /\ resent = {} =>
       /\ \A d \in Pools : d # 1 => wires[d] = <<>>
       /\ \A i, j \in 1 .. Len(wires[1]) : i < j => wires[1][i] < wires[1][j]
       /\ \A e, f \in Kept : e.id < f.id => e.msg < f.msg
       /\ \A e \in Kept, i \in 1 .. Len(wires[1]) : e.msg < wires[1][i]

StreamInv == StreamTyped /\ Offsets /\ Remembered /\ Single /\ Follows

LEMMA Elements ==
    ASSUME NEW es \in Seq(Entries)
    PROVE  /\ Len(es) \in Nat /\ DOMAIN es = 1 .. Len(es)
           /\ \A i \in 1 .. Len(es) : es[i] \in Entries /\ es[i] \in Elems(es)
           /\ Elems(es) \subseteq Entries
           /\ \A e \in Entries : e.id \in Nat /\ e.msg \in Stream!Msg
           /\ \A m \in Stream!Msg : m \in Nat /\ m >= 1
           /\ Stream!ToSet(es) = Elems(es)
           /\ Stream!Msgs(es) = {e.msg : e \in Elems(es)}
<1>1. Len(es) \in Nat /\ DOMAIN es = 1 .. Len(es)
  BY LenProperties
<1>2. \A i \in 1 .. Len(es) : es[i] \in Entries /\ es[i] \in Elems(es)
  BY ElementOfSeq DEF Elems
<1>3. Elems(es) \subseteq Entries
  BY <1>2 DEF Elems
<1>4. /\ \A e \in Entries : e.id \in Nat /\ e.msg \in Stream!Msg
      /\ \A m \in Stream!Msg : m \in Nat /\ m >= 1
  BY StreamAssumption DEF Entries, Stream!Entry, Stream!Msg
<1>5. Stream!ToSet(es) = Elems(es)
  BY <1>1 DEF Stream!ToSet, Elems
<1>6. Stream!Msgs(es) = {e.msg : e \in Elems(es)}
  BY <1>1 DEF Stream!Msgs, Elems
<1> QED
  BY <1>1, <1>2, <1>3, <1>4, <1>5, <1>6

LEMMA NoElements == <<>> \in Seq(Entries) /\ Elems(<<>>) = {} /\ Sorted(<<>>)
  BY EmptySeq DEF Elems, Sorted

(* Two sequences of entries in a row.                                      *)
LEMMA Joined ==
    ASSUME NEW a \in Seq(Entries), NEW b \in Seq(Entries)
    PROVE  /\ a \o b \in Seq(Entries) /\ Elems(a \o b) = Elems(a) \cup Elems(b)
           /\ Sorted(a) /\ Sorted(b) /\ (\A e \in Elems(a), f \in Elems(b) : e.id < f.id)
                => Sorted(a \o b)
<1>1. PICK n \in Nat : n = Len(a)
  BY LenProperties
<1>2. PICK m \in Nat : m = Len(b)
  BY LenProperties
<1>3. /\ a \o b \in Seq(Entries) /\ Len(a \o b) = n + m
      /\ \A i \in 1 .. n + m : (a \o b)[i] = IF i <= n THEN a[i] ELSE b[i - n]
  BY <1>1, <1>2, ConcatProperties
<1>4. \A i \in 1 .. n + m : \/ i \in 1 .. n /\ (a \o b)[i] = a[i]
                            \/ i \in n + 1 .. n + m /\ i - n \in 1 .. m /\ (a \o b)[i] = b[i - n]
  BY <1>3
<1>5. /\ \A i \in 1 .. n : i \in 1 .. n + m /\ (a \o b)[i] = a[i]
      /\ \A j \in 1 .. m : n + j \in 1 .. n + m /\ (a \o b)[n + j] = b[j]
  BY <1>3
<1>6. Elems(a \o b) = Elems(a) \cup Elems(b)
  <2>1. ASSUME NEW e PROVE e \in Elems(a \o b) <=> e \in Elems(a) \cup Elems(b)
    BY <1>1, <1>2, <1>3, <1>4, <1>5 DEF Elems
  <2> QED
    BY <2>1
<1>7. ASSUME Sorted(a), Sorted(b), \A e \in Elems(a), f \in Elems(b) : e.id < f.id
      PROVE  Sorted(a \o b)
  <2> SUFFICES ASSUME NEW i \in 1 .. n + m, NEW j \in 1 .. n + m, i < j
               PROVE  (a \o b)[i].id < (a \o b)[j].id
    BY <1>3 DEF Sorted
  <2>1. CASE j \in 1 .. n
    BY <1>1, <1>4, <1>7, <2>1 DEF Sorted
  <2>2. CASE i \in 1 .. n /\ j \in n + 1 .. n + m
    BY <1>1, <1>2, <1>4, <1>7, <2>2 DEF Elems
  <2>3. CASE i \in n + 1 .. n + m
    <3>1. i - n < j - n /\ i - n \in 1 .. m /\ j - n \in 1 .. m
      BY <2>3
    <3>2. i \notin 1 .. n /\ j \notin 1 .. n
      BY <2>3
    <3>3. (a \o b)[i] = b[i - n] /\ (a \o b)[j] = b[j - n]
      BY <1>4, <3>2
    <3> QED
      BY <1>2, <1>7, <3>1, <3>3 DEF Sorted
  <2> QED
    BY <1>4, <2>1, <2>2, <2>3
<1> QED
  BY <1>3, <1>6, <1>7

(* A sequence that is cut in two.                                          *)
LEMMA Cut ==
    ASSUME NEW es \in Seq(Entries), Sorted(es), NEW k \in 0 .. Len(es)
    PROVE  LET a == SubSeq(es, 1, k)
               b == SubSeq(es, k + 1, Len(es))
           IN  /\ a \in Seq(Entries) /\ b \in Seq(Entries) /\ Sorted(a) /\ Sorted(b)
               /\ Elems(es) = Elems(a) \cup Elems(b)
               /\ \A e \in Elems(a), f \in Elems(b) : e.id < f.id
<1>1. PICK n \in Nat : n = Len(es)
  BY LenProperties
<1>2. k \in Nat /\ k <= n /\ \A i \in 1 .. n : es[i] \in Entries
  BY <1>1, ElementOfSeq
<1>3. PICK a : a = SubSeq(es, 1, k)
  OBVIOUS
<1>4. PICK b : b = SubSeq(es, k + 1, Len(es))
  OBVIOUS
<1>5. a \in Seq(Entries) /\ Len(a) = k /\ \A i \in 1 .. k : a[i] = es[i]
  <2>1. \A i \in 1 .. k : es[i] \in Entries
    BY <1>2
  <2>2. /\ a \in Seq(Entries) /\ Len(a) = IF 1 <= k THEN k - 1 + 1 ELSE 0
        /\ \A i \in 1 .. k - 1 + 1 : a[i] = es[1 + i - 1]
    BY <1>2, <1>3, <2>1, SubSeqProperties
  <2> QED
    BY <1>2, <2>2
<1>6. b \in Seq(Entries) /\ Len(b) = n - k /\ \A i \in 1 .. n - k : b[i] = es[k + i]
  <2>1. \A i \in k + 1 .. n : es[i] \in Entries
    BY <1>2
  <2>2. /\ b \in Seq(Entries) /\ Len(b) = IF k + 1 <= n THEN n - (k + 1) + 1 ELSE 0
        /\ \A i \in 1 .. n - (k + 1) + 1 : b[i] = es[(k + 1) + i - 1]
    BY <1>1, <1>2, <1>4, <2>1, SubSeqProperties
  <2> QED
    BY <1>2, <2>2
<1>7. \A i \in 1 .. n : i \in 1 .. k \/ (i - k \in 1 .. n - k /\ k + (i - k) = i)
  BY <1>2
<1>8. /\ \A i \in 1 .. k : i \in 1 .. n
      /\ \A i \in 1 .. n - k : k + i \in 1 .. n /\ k < k + i
  BY <1>2
<1>9. Elems(es) = Elems(a) \cup Elems(b)
  <2>1. ASSUME NEW i \in 1 .. n PROVE es[i] \in Elems(a) \cup Elems(b)
    <3>1. CASE i \in 1 .. k
      BY <1>5, <3>1 DEF Elems
    <3>2. CASE i - k \in 1 .. n - k /\ k + (i - k) = i
      <4>1. b[i - k] = es[i]
        BY <1>6, <3>2
      <4> QED
        BY <1>6, <3>2, <4>1 DEF Elems
    <3> QED
      BY <1>7, <3>1, <3>2
  <2>2. ASSUME NEW i \in 1 .. k PROVE a[i] \in Elems(es)
    BY <1>1, <1>5, <1>8 DEF Elems
  <2>3. ASSUME NEW i \in 1 .. n - k PROVE b[i] \in Elems(es)
    BY <1>1, <1>6, <1>8 DEF Elems
  <2> QED
    <3>1. Elems(es) \subseteq Elems(a) \cup Elems(b)
      BY <1>1, <2>1 DEF Elems
    <3>2. Elems(a) \subseteq Elems(es)
      <4>1. \A i \in 1 .. Len(a) : a[i] \in Elems(es)
        BY <1>5, <2>2
      <4> QED
        BY <4>1 DEF Elems
    <3>3. Elems(b) \subseteq Elems(es)
      <4>1. \A i \in 1 .. Len(b) : b[i] \in Elems(es)
        BY <1>6, <2>3
      <4> QED
        BY <4>1 DEF Elems
    <3> QED
      BY <3>1, <3>2, <3>3
<1>10. Sorted(a)
  BY <1>1, <1>5, <1>8 DEF Sorted
<1>11. Sorted(b)
  <2>1. \A i, j \in 1 .. n - k : i < j => k + i < k + j
    BY <1>2
  <2> QED
    BY <1>1, <1>6, <1>8, <2>1 DEF Sorted
<1>12. \A e \in Elems(a), f \in Elems(b) : e.id < f.id
  <2>1. \A i \in 1 .. k, j \in 1 .. n - k : i < k + j
    BY <1>2
  <2> QED
    BY <1>1, <1>5, <1>6, <1>8, <2>1 DEF Elems, Sorted
<1> QED
  BY <1>3, <1>4, <1>5, <1>6, <1>9, <1>10, <1>11, <1>12

LEMMA HasMin ==
    ASSUME NEW T \in SUBSET Nat, T # {}
    PROVE  Stream!Min(T) \in T /\ \A y \in T : Stream!Min(T) <= y
<1>1. \E x \in T : \A y \in T : ~ (<<y, x>> \in OpToRel(<, Nat))
  BY NatLessThanWellFounded, WFMin
<1>2. PICK x \in T : \A y \in T : ~ (<<y, x>> \in OpToRel(<, Nat))
  BY <1>1
<1>3. \A y \in T : ~(y < x)
  BY <1>2 DEF OpToRel
<1>4. \A y \in T : x <= y
  BY <1>3
<1> QED
  BY <1>4 DEF Stream!Min

(* What follows an id in a sequence of entries.                            *)
LEMMA AfterId ==
    ASSUME NEW es \in Seq(Entries), Sorted(es), NEW id \in Nat
    PROVE  /\ Stream!After(es, id) \in Seq(Entries) /\ Sorted(Stream!After(es, id))
           /\ Elems(Stream!After(es, id)) = {e \in Elems(es) : e.id > id}
<1> DEFINE later == {i \in DOMAIN es : es[i].id > id}
<1>1. Stream!After(es, id) = IF later = {} THEN <<>> ELSE SubSeq(es, Stream!Min(later), Len(es))
  BY DEF Stream!After
<1>2. later \subseteq Nat /\ DOMAIN es = 1 .. Len(es) /\ Len(es) \in Nat
  BY Elements
<1>3. CASE later = {}
  <2>1. {e \in Elems(es) : e.id > id} = {}
    BY <1>2, <1>3 DEF Elems
  <2> QED
    BY <1>1, <1>3, <2>1, NoElements
<1>4. CASE later # {}
  <2>1. PICK m \in later : m = Stream!Min(later) /\ \A y \in later : m <= y
    BY <1>2, <1>4, HasMin
  <2>2. PICK k : k = m - 1
    OBVIOUS
  <2>3. k \in 0 .. Len(es) /\ k + 1 = m /\ m \in 1 .. Len(es) /\ es[m].id > id
    BY <1>2, <2>1, <2>2
  <2>4. Stream!After(es, id) = SubSeq(es, k + 1, Len(es))
    BY <1>1, <1>4, <2>1, <2>3
  <2>5. PICK a : a = SubSeq(es, 1, k)
    OBVIOUS
  <2>6. PICK b : b = SubSeq(es, k + 1, Len(es))
    OBVIOUS
  <2>7. /\ a \in Seq(Entries) /\ b \in Seq(Entries) /\ Sorted(b)
        /\ Elems(es) = Elems(a) \cup Elems(b)
    BY <2>3, <2>5, <2>6, Cut
  <2>8. \A i \in 1 .. k : i \in 1 .. Len(es) /\ ~(es[i].id > id)
    <3>1. \A i \in 1 .. k : i \in 1 .. Len(es) /\ i < m
      BY <1>2, <2>3
    <3>2. \A i \in 1 .. Len(es) : es[i].id > id => m <= i
      BY <1>2, <2>1
    <3> QED
      BY <1>2, <2>3, <3>1, <3>2
  <2>9. \A e \in Elems(a) : ~(e.id > id)
    <3>1. Len(a) = k /\ \A i \in 1 .. k : a[i] = es[i]
      <4>1. \A i \in 1 .. k : es[i] \in Entries
        BY <2>8, Elements
      <4>2. /\ Len(a) = IF 1 <= k THEN k - 1 + 1 ELSE 0
            /\ \A i \in 1 .. k - 1 + 1 : a[i] = es[1 + i - 1]
        BY <2>3, <2>5, <4>1, SubSeqProperties
      <4> QED
        BY <2>3, <4>2
    <3> QED
      BY <2>8, <3>1 DEF Elems
  <2>10. \A e \in Elems(b) : e.id > id
    <3>1. Len(b) = Len(es) - k /\ \A i \in 1 .. Len(es) - k : b[i] = es[k + i]
      <4>1. \A i \in k + 1 .. Len(es) : es[i] \in Entries
        BY <1>2, <2>3, Elements
      <4>2. /\ Len(b) = IF k + 1 <= Len(es) THEN Len(es) - (k + 1) + 1 ELSE 0
            /\ \A i \in 1 .. Len(es) - (k + 1) + 1 : b[i] = es[(k + 1) + i - 1]
        BY <1>2, <2>3, <2>6, <4>1, SubSeqProperties
      <4>3. PICK n \in Nat : n = Len(es)
        BY <1>2
      <4>4. Len(b) = n - k
        BY <2>3, <4>2, <4>3
      <4>5. n - (k + 1) + 1 = n - k /\ \A i \in 1 .. n - k : (k + 1) + i - 1 = k + i
        BY <2>3, <4>3
      <4> QED
        BY <4>2, <4>3, <4>4, <4>5
    <3>2. \A i \in 1 .. Len(es) - k : k + i \in 1 .. Len(es) /\ (k + i = m \/ m < k + i)
      BY <1>2, <2>3
    <3>3. \A i \in 1 .. Len(es) : m < i => es[m].id < es[i].id
      BY <2>3 DEF Sorted
    <3>4. \A i \in 1 .. Len(es) : es[i].id \in Nat
      BY Elements
    <3>5. ASSUME NEW i \in 1 .. Len(es) - k PROVE b[i].id > id
      <4>1. b[i] = es[k + i] /\ k + i \in 1 .. Len(es)
        BY <3>1, <3>2
      <4>2. es[m].id \in Nat /\ es[k + i].id \in Nat
        BY <2>3, <3>4, <4>1
      <4>3. k + i = m \/ es[m].id < es[k + i].id
        BY <3>2, <3>3, <4>1
      <4> QED
        BY <2>3, <4>1, <4>2, <4>3
    <3> QED
      BY <3>1, <3>5 DEF Elems
  <2>11. Elems(b) = {e \in Elems(es) : e.id > id}
    BY <2>7, <2>9, <2>10
  <2> QED
    BY <2>4, <2>6, <2>7, <2>11
<1> QED
  BY <1>3, <1>4

LEMMA LastEntry ==
    ASSUME NEW es \in Seq(Entries), Sorted(es), es # <<>>
    PROVE  /\ Stream!Last(es) \in Elems(es)
           /\ \A e \in Elems(es) : e.id <= Stream!Last(es).id
<1>1. Len(es) \in Nat /\ Len(es) >= 1 /\ \A i \in 1 .. Len(es) : es[i].id \in Nat
  BY Elements, EmptySeq
<1>2. Stream!Last(es) = es[Len(es)] /\ Len(es) \in 1 .. Len(es)
  BY <1>1 DEF Stream!Last
<1>3. \A i \in 1 .. Len(es) : i = Len(es) \/ i < Len(es)
  BY <1>1
<1>4. \A i \in 1 .. Len(es) : es[i].id <= es[Len(es)].id
  BY <1>1, <1>2, <1>3 DEF Sorted
<1> QED
  BY <1>2, <1>4 DEF Elems

LEMMA KeptEntries ==
    ASSUME StreamInv
    PROVE  /\ Elems(stream) \subseteq Kept /\ Elems(read) \subseteq Kept /\ Elems(heard) \subseteq Kept
           /\ Ahead \subseteq Elems(stream) /\ Kept \subseteq Entries
           /\ \A e \in Kept : /\ e.id \in Nat /\ e.id <= lastId
                              /\ e.msg \in Stream!Msg /\ e.msg \in Nat
           /\ lastId \in Nat /\ streamOffset \in Nat /\ streamOffset <= lastId /\ published \in Nat
<1>1. StreamTyped /\ Offsets
  BY DEF StreamInv
<1>2. /\ Elems(stream) \subseteq Entries /\ Elems(read) \subseteq Entries
      /\ Elems(heard) \subseteq Entries
  BY <1>1, Elements DEF StreamTyped
<1>3. \A e \in Entries : e.id \in Nat /\ e.msg \in Stream!Msg /\ e.msg \in Nat
  BY NoElements, Elements
<1>4. lastId \in Nat /\ streamOffset \in Nat /\ streamOffset <= lastId /\ published \in Nat
  BY <1>1 DEF StreamTyped
<1>5. \A e \in Elems(heard) : e.id <= lastId
  BY <1>1, <1>2, <1>3, <1>4 DEF Offsets
<1> QED
  BY <1>1, <1>2, <1>3, <1>4, <1>5 DEF Offsets, Kept, Ahead

LEMMA Appended ==
    ASSUME NEW es \in Seq(Entries), Sorted(es), NEW e \in Entries,
           \A f \in Elems(es) : f.id < e.id
    PROVE  /\ Append(es, e) \in Seq(Entries) /\ Sorted(Append(es, e))
           /\ Elems(Append(es, e)) = Elems(es) \cup {e}
<1>1. /\ <<e>> \in Seq(Entries) /\ Len(<<e>>) = 1 /\ <<e>>[1] = e
  OBVIOUS
<1>2. Elems(<<e>>) = {e} /\ Sorted(<<e>>)
  BY <1>1 DEF Elems, Sorted
<1>3. Append(es, e) = es \o <<e>>
  BY AppendIsConcat
<1> QED
  BY <1>1, <1>2, <1>3, Joined

(* What is lost when these entries go.                                     *)
LEMMA UnreadOf ==
    ASSUME StreamTyped, NEW es \in Seq(Entries), Sorted(es)
    PROVE  \A m : m \in Stream!Unread(es) <=>
                /\ \E f \in Elems(es) : f.id > streamOffset /\ f.msg = m
                /\ ~ \E f \in Elems(read) : f.msg = m
<1>1. streamOffset \in Nat /\ read \in Seq(Entries)
  BY DEF StreamTyped
<1>2. PICK a \in Seq(Entries) : /\ a = Stream!After(es, streamOffset)
                                /\ Elems(a) = {e \in Elems(es) : e.id > streamOffset}
  BY <1>1, AfterId
<1>3. Stream!Unread(es) = {e.msg : e \in Elems(a)} \ {e.msg : e \in Elems(read)}
  BY <1>1, <1>2, Elements DEF Stream!Unread
<1> QED
  BY <1>2, <1>3

(* A command leaves its connection.                                        *)
LEMMA OneLess ==
    ASSUME StreamInv, NEW d \in Pools, wires[d] # <<>>,
           wires' = [wires EXCEPT ![d] = Tail(@)]
    PROVE  /\ Head(wires[d]) \in Stream!Msg /\ Head(wires[d]) = wires[d][1] /\ OnWire(Head(wires[d]))
           /\ 1 \in 1 .. Len(wires[d])
           /\ wires' \in [Pools -> Seq(Stream!Msg)]
           /\ \A x : OnWire(x)' <=> OnWire(x) /\ x # Head(wires[d])
           /\ \A a, b \in Pools : \A i \in 1 .. Len(wires'[a]), j \in 1 .. Len(wires'[b]) :
                 wires'[a][i] = wires'[b][j] => a = b /\ i = j
           /\ \A g \in Pools : g # d => wires'[g] = wires[g]
           /\ \A i \in 1 .. Len(wires'[d]) :
                 wires'[d][i] = wires[d][i + 1] /\ i + 1 \in 1 .. Len(wires[d]) /\ 1 < i + 1
<1>1. /\ wires \in [Pools -> Seq(Stream!Msg)]
      /\ \A a, b \in Pools : \A i \in 1 .. Len(wires[a]), j \in 1 .. Len(wires[b]) :
             wires[a][i] = wires[b][j] => a = b /\ i = j
  BY DEF StreamInv, StreamTyped, Single
<1>2. PICK n \in Nat : n = Len(wires[d]) /\ n >= 1
  BY <1>1, LenProperties, EmptySeq
<1>3. PICK m \in Stream!Msg : m = wires[d][1] /\ m = Head(wires[d])
  BY <1>1, <1>2, ElementOfSeq
<1>4. /\ Tail(wires[d]) \in Seq(Stream!Msg) /\ Len(Tail(wires[d])) = n - 1
      /\ \A i \in 1 .. n - 1 : Tail(wires[d])[i] = wires[d][i + 1]
  BY <1>1, <1>2, HeadTailProperties
<1>5. /\ wires' \in [Pools -> Seq(Stream!Msg)] /\ Len(wires'[d]) = n - 1
      /\ \A g \in Pools : g # d => wires'[g] = wires[g]
      /\ \A i \in 1 .. n - 1 : wires'[d][i] = wires[d][i + 1] /\ i + 1 \in 1 .. n /\ 1 < i + 1
  BY <1>1, <1>2, <1>4
<1>6. 1 \in 1 .. n /\ OnWire(m)
  BY <1>2, <1>3 DEF OnWire
<1>7. ASSUME NEW a \in Pools, NEW i \in 1 .. Len(wires'[a])
      PROVE  \E k \in 1 .. Len(wires[a]) :
                wires'[a][i] = wires[a][k] /\ k = (IF a = d THEN i + 1 ELSE i)
  BY <1>2, <1>5
<1>8. ASSUME NEW a \in Pools, NEW b \in Pools, NEW i \in 1 .. Len(wires'[a]),
             NEW j \in 1 .. Len(wires'[b]), wires'[a][i] = wires'[b][j]
      PROVE  a = b /\ i = j
  <2>1. PICK k \in 1 .. Len(wires[a]) :
            wires'[a][i] = wires[a][k] /\ k = (IF a = d THEN i + 1 ELSE i)
    BY <1>7
  <2>2. PICK l \in 1 .. Len(wires[b]) :
            wires'[b][j] = wires[b][l] /\ l = (IF b = d THEN j + 1 ELSE j)
    BY <1>7
  <2>3. a = b /\ k = l
    BY <1>1, <1>8, <2>1, <2>2
  <2> QED
    BY <2>1, <2>2, <2>3
<1>9. ASSUME NEW x, OnWire(x)' PROVE OnWire(x) /\ x # m
  <2>0. PICK a \in Pools : \E i \in 1 .. Len(wires'[a]) : wires'[a][i] = x
    BY <1>9 DEF OnWire
  <2>1. PICK i \in 1 .. Len(wires'[a]) : wires'[a][i] = x
    BY <2>0
  <2>2. PICK k \in 1 .. Len(wires[a]) :
            wires'[a][i] = wires[a][k] /\ k = (IF a = d THEN i + 1 ELSE i)
    BY <1>7
  <2>3. OnWire(x)
    BY <2>1, <2>2 DEF OnWire
  <2>4. ASSUME x = m PROVE a = d /\ k = 1
    <3>1. wires[a][k] = wires[d][1] /\ 1 \in 1 .. Len(wires[d])
      BY <1>2, <1>3, <1>6, <2>1, <2>2, <2>4
    <3> QED
      BY <1>1, <3>1
  <2> QED
    BY <2>2, <2>3, <2>4
<1>10. ASSUME NEW x, OnWire(x), x # m PROVE OnWire(x)'
  <2>0. PICK a \in Pools : \E k \in 1 .. Len(wires[a]) : wires[a][k] = x
    BY <1>10 DEF OnWire
  <2>1. PICK k \in 1 .. Len(wires[a]) : wires[a][k] = x
    BY <2>0
  <2>2. CASE a # d
    BY <1>5, <2>1, <2>2 DEF OnWire
  <2>3. CASE a = d
    <3>1. k - 1 \in 1 .. n - 1 /\ (k - 1) + 1 = k
      BY <1>2, <1>3, <1>10, <2>1, <2>3
    <3>2. wires'[d][k - 1] = x
      BY <1>5, <2>1, <2>3, <3>1
    <3> QED
      BY <1>5, <3>1, <3>2 DEF OnWire
  <2> QED
    BY <2>2, <2>3
<1>11. \A i \in 1 .. Len(wires'[d]) :
           wires'[d][i] = wires[d][i + 1] /\ i + 1 \in 1 .. Len(wires[d]) /\ 1 < i + 1
  BY <1>2, <1>5
<1>12. /\ Head(wires[d]) = m /\ wires[d][1] = m /\ 1 \in 1 .. Len(wires[d])
       /\ \A g \in Pools : g # d => wires'[g] = wires[g]
  BY <1>2, <1>3, <1>5, <1>6
<1>13. \A x : OnWire(x)' <=> OnWire(x) /\ x # m
  BY <1>9, <1>10
<1> QED
  BY <1>3, <1>5, <1>6, <1>8, <1>11, <1>12, <1>13
(* The order of one connection is kept when its first command leaves it.   *)
LEMMA FollowsOn ==
    ASSUME StreamTyped, Follows, NEW d \in Pools, wires[d] # <<>>,
           \A g \in Pools : g # d => wires'[g] = wires[g],
           \A i \in 1 .. Len(wires'[d]) :
              wires'[d][i] = wires[d][i + 1] /\ i + 1 \in 1 .. Len(wires[d]) /\ 1 < i + 1,
           wires' \in [Pools -> Seq(Stream!Msg)],
           poolSize' = poolSize, resent' = resent, Kept' = Kept
    PROVE  Follows'
<1> SUFFICES ASSUME poolSize = 1, resent = {} PROVE Follows'
  BY DEF Follows
<1>1. d = 1
  BY DEF Follows
<1>2. \A i, j \in 1 .. Len(wires'[1]) : i < j => i + 1 < j + 1
  BY <1>1
<1>3. \A i, j \in 1 .. Len(wires'[1]) : i < j => wires'[1][i] < wires'[1][j]
  BY <1>1, <1>2 DEF Follows
<1>4. \A e \in Kept, i \in 1 .. Len(wires'[1]) : e.msg < wires'[1][i]
  BY <1>1 DEF Follows
<1>5. \A g \in Pools : g # 1 => wires'[g] = <<>>
  BY <1>1 DEF Follows
<1> QED
  BY <1>3, <1>4, <1>5 DEF Follows

LEMMA StreamInit == Stream!Init => StreamInv
<1> SUFFICES ASSUME Stream!Init PROVE StreamInv
  OBVIOUS
<1>1. StreamTyped
  <2>1. <<>> \in Seq(Stream!Msg) /\ <<>> \in Seq(Entries)
    BY EmptySeq
  <2>2. wires \in [Pools -> Seq(Stream!Msg)] /\ poolSize \in Pools
    BY <2>1 DEF Stream!Init, Pools
  <2>3. published \in 0 .. MaxMessages /\ lastId \in Nat /\ streamOffset \in 0 .. lastId
    BY StreamAssumption DEF Stream!Init
  <2> QED
    BY <2>1, <2>2, <2>3 DEF StreamTyped, Stream!Init
<1>2. /\ Kept = {} /\ Ahead = {} /\ Elems(stream) = {} /\ Elems(read) = {} /\ Elems(heard) = {}
      /\ Sorted(stream) /\ Sorted(read) /\ Sorted(heard)
  BY NoElements DEF Stream!Init, Kept, Ahead
<1>3. \A d \in Pools : wires[d] = <<>> /\ Len(wires[d]) = 0
  BY DEF Stream!Init, Pools
<1>4. \A m : ~ OnWire(m)
  BY <1>3 DEF OnWire
<1>5. Offsets
  BY <1>2 DEF Offsets, Stream!Init
<1>6. Remembered
  BY <1>2, <1>4 DEF Remembered, Stream!Init
<1>7. Single
  <2>1. \A d \in Pools : 1 .. Len(wires[d]) = {}
    BY <1>3
  <2>2. missed = {}
    BY DEF Stream!Init
  <2> QED
    BY <1>2, <2>1, <2>2 DEF Single
<1>8. Follows
  BY <1>1, <1>2, <1>3 DEF Follows, StreamTyped, Pools
<1> QED
  BY <1>1, <1>5, <1>6, <1>7, <1>8 DEF StreamInv

(* Steps of the reader that move no entry.                                 *)
LEMMA NoEntryMoves ==
    ASSUME StreamInv,
           UNCHANGED <<poolSize, wires, published, stream, read, heard, lastId, streamOffset,
                       missed, resent>>,
           subscribed' \in BOOLEAN, shut' \in BOOLEAN, subscribes' \in Nat, errors' \in Nat,
           loop' \in {"off", "idle", "reading", "read"}, loop' # loop => loop' # "read" /\ loop # "read"
    PROVE  StreamInv'
<1>1. StreamTyped /\ Offsets /\ Remembered /\ Single /\ Follows
  BY DEF StreamInv
<1>2. \A m : OnWire(m)' <=> OnWire(m)
  BY DEF OnWire
<1>3. Kept' = Kept /\ Ahead' = Ahead
  BY DEF Kept, Ahead
<1>4. StreamTyped'
  BY <1>1 DEF StreamTyped
<1>5. Offsets'
  BY <1>1, <1>3 DEF Offsets
<1>6. Remembered'
  BY <1>1, <1>2, <1>3 DEF Remembered
<1>7. Single'
  BY <1>1, <1>2, <1>3 DEF Single
<1>8. Follows'
  BY <1>1, <1>3 DEF Follows
<1> QED
  BY <1>4, <1>5, <1>6, <1>7, <1>8 DEF StreamInv

(* XREAD: what was read lay ahead in the stream.                           *)
LEMMA StreamIsRead == ASSUME StreamInv, Stream!Read PROVE StreamInv'
<1>1. StreamTyped /\ Offsets /\ Remembered /\ Single /\ Follows
  BY DEF StreamInv
<1>2. /\ loop = "reading" /\ loop' = "read" /\ read' = Stream!After(stream, streamOffset)
      /\ UNCHANGED <<poolSize, wires, published, stream, heard, lastId, streamOffset, missed, resent,
                     subscribed, shut, subscribes, errors>>
  BY DEF Stream!Read, Stream!publisherVars, Stream!redisVars
<1>3. read = <<>> /\ Elems(read) = {}
  BY <1>1, <1>2, NoElements DEF Offsets
<1>4. read' \in Seq(Entries) /\ Sorted(read') /\ Elems(read') = Ahead
  <2>1. stream \in Seq(Entries) /\ Sorted(stream) /\ streamOffset \in Nat
    BY <1>1, KeptEntries DEF StreamTyped, Offsets
  <2>2. PICK r : r = read'
    OBVIOUS
  <2>3. r \in Seq(Entries) /\ Sorted(r) /\ Elems(r) = {e \in Elems(stream) : e.id > streamOffset}
    BY <1>2, <2>1, <2>2, AfterId
  <2> QED
    BY <2>2, <2>3 DEF Ahead
<1>5. Kept' = Kept /\ Ahead' = Ahead
  BY <1>2, <1>3, <1>4 DEF Kept, Ahead
<1>6. \A m : OnWire(m)' <=> OnWire(m)
  BY <1>2 DEF OnWire
<1>7. StreamTyped'
  BY <1>1, <1>2, <1>4 DEF StreamTyped
<1>8. Offsets'
  <2>1. \A e \in Ahead : streamOffset < e.id /\ e.id <= lastId
    <3>1. \A e \in Ahead : e \in Elems(stream) /\ e.id > streamOffset /\ e.id \in Nat
      BY KeptEntries DEF Ahead
    <3> QED
      BY <1>1, <3>1, KeptEntries DEF Offsets
  <2> QED
    BY <1>1, <1>2, <1>4, <1>5, <2>1 DEF Offsets
<1>9. Remembered'
  BY <1>1, <1>2, <1>3, <1>4, <1>5, <1>6 DEF Remembered
<1>10. Single'
  BY <1>1, <1>2, <1>3, <1>4, <1>5, <1>6 DEF Single
<1>11. Follows'
  BY <1>1, <1>2, <1>5 DEF Follows
<1> QED
  BY <1>7, <1>8, <1>9, <1>10, <1>11 DEF StreamInv

(* The commands of a message do not reach Redis.                           *)
LEMMA MessageFails == ASSUME StreamInv, NEW d \in Pools, Stream!Failed(d) PROVE StreamInv'
<1>1. StreamTyped /\ Offsets /\ Remembered /\ Single /\ Follows
  BY DEF StreamInv
<1>2. /\ wires[d] # <<>> /\ wires' = [wires EXCEPT ![d] = Tail(@)]
      /\ missed' = missed \cup {Head(wires[d])} /\ errors' = errors + 1
      /\ UNCHANGED <<poolSize, published, stream, read, heard, lastId, streamOffset, resent, loop,
                     subscribed, shut, subscribes>>
  BY DEF Stream!Failed, Stream!publisherVars, Stream!redisVars, Stream!readerVars
<1>3. PICK m \in Stream!Msg : m = Head(wires[d])
  BY <1>2, OneLess
<1>4. /\ m = wires[d][1] /\ OnWire(m) /\ 1 \in 1 .. Len(wires[d])
      /\ wires' \in [Pools -> Seq(Stream!Msg)]
      /\ \A x : OnWire(x)' <=> OnWire(x) /\ x # m
      /\ \A a, b \in Pools : \A i \in 1 .. Len(wires'[a]), j \in 1 .. Len(wires'[b]) :
            wires'[a][i] = wires'[b][j] => a = b /\ i = j
      /\ \A g \in Pools : g # d => wires'[g] = wires[g]
      /\ \A i \in 1 .. Len(wires'[d]) :
            wires'[d][i] = wires[d][i + 1] /\ i + 1 \in 1 .. Len(wires[d]) /\ 1 < i + 1
  BY <1>2, <1>3, OneLess
<1>5. Kept' = Kept /\ Ahead' = Ahead
  BY <1>2 DEF Kept, Ahead
<1>6. StreamTyped'
  BY <1>1, <1>2, <1>3, <1>4 DEF StreamTyped
<1>7. Offsets'
  BY <1>1, <1>2, <1>5 DEF Offsets
<1>8. Remembered'
  BY <1>1, <1>2, <1>3, <1>4, <1>5 DEF Remembered
<1>9. Single'
  <2>1. Ahead \cup Elems(read) \cup Elems(heard) \subseteq Kept
    BY KeptEntries
  <2> QED
    BY <1>1, <1>2, <1>3, <1>4, <1>5, <2>1 DEF Single
<1>10. Follows'
  BY <1>1, <1>2, <1>4, <1>5, FollowsOn
<1> QED
  BY <1>6, <1>7, <1>8, <1>9, <1>10 DEF StreamInv
(* The key expires: what was not read is lost.                             *)
LEMMA StreamExpires == ASSUME StreamInv, Stream!Expires PROVE StreamInv'
<1>1. StreamTyped /\ Offsets /\ Remembered /\ Single /\ Follows
  BY DEF StreamInv
<1>2. /\ stream' = <<>> /\ missed' = missed \cup Stream!Unread(stream) /\ errors' = errors + 1
      /\ UNCHANGED <<poolSize, wires, published, read, heard, lastId, streamOffset, resent, loop,
                     subscribed, shut, subscribes>>
  BY DEF Stream!Expires, Stream!publisherVars, Stream!readerVars
<1>3. PICK gone : gone = Stream!Unread(stream)
  OBVIOUS
<1>4. \A m : m \in gone <=> (/\ \E f \in Ahead : f.msg = m
                             /\ ~ \E f \in Elems(read) : f.msg = m)
  <2>1. stream \in Seq(Entries) /\ Sorted(stream)
    BY <1>1 DEF StreamTyped, Offsets
  <2> QED
    BY <1>1, <1>3, <2>1, UnreadOf DEF Ahead
<1>5. /\ stream' \in Seq(Entries) /\ Sorted(stream') /\ Elems(stream') = {} /\ Ahead' = {}
      /\ Kept' = Elems(read) \cup Elems(heard) /\ Kept' \subseteq Kept
  BY <1>2, NoElements DEF Kept, Ahead
<1>6. \A m : OnWire(m)' <=> OnWire(m)
  BY <1>2 DEF OnWire
<1>7. /\ Ahead \subseteq Kept /\ Elems(read) \subseteq Kept /\ Elems(heard) \subseteq Kept
      /\ \A e \in Kept : e.id \in Nat /\ e.msg \in Stream!Msg /\ e.msg <= published
      /\ streamOffset \in Nat
      /\ \A e \in Ahead : e.id > streamOffset
  <2>1. \A e \in Ahead : e.id > streamOffset
    BY DEF Ahead
  <2> QED
    BY <1>1, <2>1, KeptEntries DEF Remembered
<1>8. gone \subseteq Stream!Msg
  BY <1>4, <1>7
<1>9. StreamTyped'
  BY <1>1, <1>2, <1>3, <1>5, <1>8 DEF StreamTyped
<1>10. Offsets'
  BY <1>1, <1>2, <1>5 DEF Offsets
<1>11. Remembered'
  <2>1. \A m \in Stream!Msg : m \in gone => m <= published
    BY <1>4, <1>7
  <2>2. ASSUME NEW m \in 1 .. published
        PROVE  \/ OnWire(m) \/ m \in missed' \/ \E e \in Elems(read) \cup Elems(heard) : e.msg = m
    BY <1>1, <1>2, <1>3, <1>4 DEF Remembered
  <2> QED
    BY <1>1, <1>2, <1>3, <1>5, <1>6, <1>7, <2>1, <2>2 DEF Remembered
<1>12. Single'
  <2>1. \A m \in gone : OnWire(m) => m \in resent
    BY <1>1, <1>4, <1>7 DEF Single
  <2>2. ASSUME NEW e \in Elems(read) \cup Elems(heard), e.msg \in gone PROVE e.msg \in resent
    <3>1. PICK f \in Ahead : f.msg = e.msg
      BY <1>4, <2>2
    <3>2. e \in Elems(heard)
      BY <1>4, <2>2
    <3>3. e.id <= streamOffset /\ f.id > streamOffset
      BY <1>1, <1>7, <3>1, <3>2 DEF Offsets
    <3>4. e # f
      BY <1>7, <3>1, <3>2, <3>3
    <3> QED
      BY <1>1, <1>7, <3>1, <3>2, <3>4 DEF Single
  <2>3. \A e \in Elems(read) \cup Elems(heard) : e.msg \in missed => e.msg \in resent
    BY <1>1 DEF Single
  <2> QED
    BY <1>1, <1>2, <1>3, <1>5, <1>6, <2>1, <2>2, <2>3 DEF Single
<1>13. Follows'
  BY <1>1, <1>2, <1>5 DEF Follows
<1> QED
  BY <1>9, <1>10, <1>11, <1>12, <1>13 DEF StreamInv

(* The loop hands over what it read, or there is no handler any more.      *)
LEMMA EntriesHandled == ASSUME StreamInv, Stream!Handle PROVE StreamInv'
<1>1. StreamTyped /\ Offsets /\ Remembered /\ Single /\ Follows
  BY DEF StreamInv
<1>2. /\ loop = "read" /\ loop' = "idle" /\ read' = <<>>
      /\ streamOffset' = IF read = <<>> THEN streamOffset ELSE Stream!Last(read).id
      /\ IF subscribed
         THEN heard' = heard \o read /\ UNCHANGED missed
         ELSE missed' = missed \cup Stream!Msgs(read) /\ UNCHANGED heard
      /\ UNCHANGED <<poolSize, wires, published, stream, lastId, resent, subscribed, shut, subscribes,
                     errors>>
  BY DEF Stream!Handle, Stream!publisherVars, Stream!redisVars
<1>3. /\ read \in Seq(Entries) /\ heard \in Seq(Entries) /\ Sorted(read) /\ Sorted(heard)
      /\ \A e \in Elems(read) : streamOffset < e.id /\ e.id <= lastId
      /\ \A e \in Elems(heard) : e.id <= streamOffset
      /\ \A e \in Ahead : e \in Elems(read) \/ \A f \in Elems(read) : f.id < e.id
  BY <1>1 DEF StreamTyped, Offsets
<1>4. /\ Ahead \subseteq Kept /\ Elems(read) \subseteq Kept /\ Elems(heard) \subseteq Kept
      /\ Elems(stream) \subseteq Kept
      /\ \A e \in Kept : e.id \in Nat /\ e.msg \in Stream!Msg /\ e.msg <= published
      /\ streamOffset \in Nat /\ lastId \in Nat /\ streamOffset <= lastId
  BY <1>1, KeptEntries DEF Remembered
<1>5. /\ streamOffset' \in Nat /\ streamOffset <= streamOffset' /\ streamOffset' <= lastId
      /\ \A e \in Elems(read) : e.id <= streamOffset'
      /\ read = <<>> \/ \E e \in Elems(read) : streamOffset' = e.id
  <2>1. CASE read = <<>>
    BY <1>2, <1>4, <2>1, NoElements
  <2>2. CASE read # <<>>
    <3>1. PICK e \in Elems(read) : e = Stream!Last(read) /\ \A f \in Elems(read) : f.id <= e.id
      BY <1>3, <2>2, LastEntry
    <3> QED
      BY <1>2, <1>3, <1>4, <2>2, <3>1
  <2> QED
    BY <2>1, <2>2
<1>6. /\ read' \in Seq(Entries) /\ Sorted(read') /\ Elems(read') = {}
  BY <1>2, NoElements
<1>7. Ahead' \subseteq Ahead /\ \A e \in Ahead : e \in Elems(read) \/ e \in Ahead'
  <2>1. Ahead' = {e \in Elems(stream) : e.id > streamOffset'}
    BY <1>2 DEF Ahead
  <2>2. \A e \in Elems(stream) : e.id > streamOffset' => e.id > streamOffset
    BY <1>4, <1>5
  <2>3. ASSUME NEW e \in Ahead, e \notin Elems(read) PROVE e.id > streamOffset'
    <3>1. e.id > streamOffset /\ \A f \in Elems(read) : f.id < e.id
      BY <1>3, <2>3 DEF Ahead
    <3>2. CASE read = <<>>
      BY <1>2, <3>1, <3>2
    <3>3. CASE read # <<>>
      BY <1>4, <1>5, <3>1, <3>3
    <3> QED
      BY <3>2, <3>3
  <2> QED
    BY <2>1, <2>2, <2>3 DEF Ahead
<1>8. \A e \in Ahead' : \A f \in Elems(read) : e # f
  <2>1. \A e \in Ahead' : e.id > streamOffset'
    BY <1>2 DEF Ahead
  <2> QED
    BY <1>4, <1>5, <1>7, <2>1
<1>9. \A m : OnWire(m)' <=> OnWire(m)
  BY <1>2 DEF OnWire
<1>10. CASE subscribed
  <2>1. heard' = heard \o read /\ missed' = missed
    BY <1>2, <1>10
  <2>2. /\ heard' \in Seq(Entries) /\ Elems(heard') = Elems(heard) \cup Elems(read)
        /\ Sorted(heard')
    <3>1. \A e \in Elems(heard), f \in Elems(read) : e.id < f.id
      BY <1>3, <1>4
    <3>2. PICK h : h = heard \o read
      OBVIOUS
    <3>3. h \in Seq(Entries) /\ Elems(h) = Elems(heard) \cup Elems(read) /\ Sorted(h)
      BY <1>3, <3>1, <3>2, Joined
    <3> QED
      BY <2>1, <3>2, <3>3
  <2>3. Kept' = Kept
    BY <1>2, <1>6, <2>2 DEF Kept
  <2>4. StreamTyped'
    BY <1>1, <1>2, <1>5, <1>6, <2>1, <2>2 DEF StreamTyped
  <2>5. Offsets'
    <3>1. \A e \in Elems(heard) : e.id <= streamOffset'
      BY <1>3, <1>4, <1>5
    <3> QED
      BY <1>1, <1>2, <1>5, <1>6, <2>2, <3>1 DEF Offsets
  <2>6. Remembered'
    <3>1. \A e \in Ahead \cup Elems(read) \cup Elems(heard) : e \in Ahead' \cup Elems(heard')
      BY <1>7, <2>2
    <3> QED
      BY <1>1, <1>2, <1>6, <1>9, <2>1, <2>3, <3>1 DEF Remembered
  <2>7. Single'
    <3>1. \A e \in Ahead' \cup Elems(heard') : e \in Ahead \cup Elems(read) \cup Elems(heard)
      BY <1>7, <2>2
    <3> QED
      BY <1>1, <1>2, <1>6, <1>9, <2>1, <2>3, <3>1 DEF Single
  <2>8. Follows'
    BY <1>1, <1>2, <2>3 DEF Follows
  <2> QED
    BY <2>4, <2>5, <2>6, <2>7, <2>8 DEF StreamInv
<1>11. CASE ~subscribed
  <2>1. PICK gone : gone = Stream!Msgs(read) /\ gone = {e.msg : e \in Elems(read)}
    BY <1>3, Elements
  <2>2. heard' = heard /\ missed' = missed \cup gone
    BY <1>2, <1>11, <2>1
  <2>3. Kept' = Elems(stream) \cup Elems(heard) /\ Kept' \subseteq Kept
    BY <1>2, <1>6, <2>2 DEF Kept
  <2>4. StreamTyped'
    <3>1. gone \subseteq Stream!Msg
      BY <1>4, <2>1
    <3> QED
      BY <1>1, <1>2, <1>5, <1>6, <2>2, <3>1 DEF StreamTyped
  <2>5. Offsets'
    <3>1. \A e \in Elems(heard) : e.id <= streamOffset'
      BY <1>3, <1>4, <1>5
    <3> QED
      BY <1>1, <1>2, <1>5, <1>6, <2>2, <3>1 DEF Offsets
  <2>6. Remembered'
    <3>1. \A e \in Ahead \cup Elems(read) \cup Elems(heard) :
             e \in Ahead' \cup Elems(heard') \/ e.msg \in missed'
      BY <1>7, <2>1, <2>2
    <3>2. \A m \in gone : m <= published
      BY <1>4, <2>1
    <3> QED
      BY <1>1, <1>2, <1>6, <1>9, <2>2, <2>3, <3>1, <3>2 DEF Remembered
  <2>7. Single'
    <3>1. \A m \in gone : OnWire(m) => m \in resent
      BY <1>1, <1>4, <2>1 DEF Single
    <3>2. ASSUME NEW e \in Ahead' \cup Elems(heard), e.msg \in gone PROVE e.msg \in resent
      <4>1. PICK f \in Elems(read) : f.msg = e.msg
        BY <2>1, <3>2
      <4>2. e \in Kept /\ f \in Kept
        BY <1>4, <1>7, <4>1
      <4>3. e # f
        BY <1>3, <1>4, <1>8, <4>1, <4>2
      <4> QED
        BY <1>1, <4>1, <4>2, <4>3 DEF Single
    <3>3. \A e \in Ahead' \cup Elems(heard) : e.msg \in missed => e.msg \in resent
      BY <1>1, <1>7 DEF Single
    <3> QED
      BY <1>1, <1>2, <1>6, <1>9, <2>2, <2>3, <3>1, <3>2, <3>3 DEF Single
  <2>8. Follows'
    BY <1>1, <1>2, <2>3 DEF Follows
  <2> QED
    BY <2>4, <2>5, <2>6, <2>7, <2>8 DEF StreamInv
<1> QED
  BY <1>1, <1>10, <1>11 DEF StreamTyped
(* Commands that were executed are sent again: their messages may be heard *)
(* twice.                                                                  *)
LEMMA CommandsResent == ASSUME StreamInv, NEW d \in Pools, Stream!Resent(d) PROVE StreamInv'
<1>1. StreamTyped /\ Offsets /\ Remembered /\ Single /\ Follows
  BY DEF StreamInv
<1>2. /\ \E n \in DOMAIN wires[d] :
            /\ stream' = stream \o [i \in 1 .. n |-> [id |-> lastId + i, msg |-> wires[d][i]]]
            /\ lastId' = lastId + n
            /\ resent' = resent \cup {wires[d][i] : i \in 1 .. n}
      /\ errors' = errors + 1
      /\ UNCHANGED <<poolSize, wires, published, read, heard, streamOffset, missed, loop,
                     subscribed, shut, subscribes>>
  BY DEF Stream!Resent, Stream!readerVars
<1>3. PICK n \in DOMAIN wires[d] :
            /\ stream' = stream \o [i \in 1 .. n |-> [id |-> lastId + i, msg |-> wires[d][i]]]
            /\ lastId' = lastId + n
            /\ resent' = resent \cup {wires[d][i] : i \in 1 .. n}
  BY <1>2
<1>4. wires[d] \in Seq(Stream!Msg)
  BY <1>1 DEF StreamTyped
<1>5. /\ n \in Nat /\ n >= 1
      /\ \A i \in 1 .. n : i \in 1 .. Len(wires[d]) /\ wires[d][i] \in Stream!Msg
  <2>1. Len(wires[d]) \in Nat /\ DOMAIN wires[d] = 1 .. Len(wires[d])
    BY <1>4, LenProperties
  <2>2. n \in Nat /\ n >= 1 /\ \A i \in 1 .. n : i \in 1 .. Len(wires[d])
    BY <2>1
  <2> QED
    BY <1>4, <2>2, ElementOfSeq
<1>6. /\ streamOffset \in Nat /\ lastId \in Nat /\ streamOffset <= lastId
      /\ Ahead \subseteq Kept /\ Elems(read) \subseteq Kept /\ Elems(heard) \subseteq Kept
      /\ Elems(stream) \subseteq Kept
      /\ \A e \in Kept : e.id \in Nat /\ e.id <= lastId /\ e.msg \in Stream!Msg
  BY KeptEntries
<1>7. PICK more : more = [i \in 1 .. n |-> [id |-> lastId + i, msg |-> wires[d][i]]]
  OBVIOUS
<1>8. /\ more \in Seq(Entries) /\ Len(more) = n
      /\ \A i \in 1 .. n : more[i].id = lastId + i /\ more[i].msg = wires[d][i]
  <2>1. \A i \in 1 .. n : [id |-> lastId + i, msg |-> wires[d][i]] \in Entries
    BY <1>5, <1>6 DEF Entries, Stream!Entry
  <2>2. more \in [1 .. n -> Entries]
    BY <1>7, <2>1
  <2>3. more \in Seq(Entries) /\ Len(more) = n
    BY <1>5, <2>2, SeqDef, LenProperties
  <2> QED
    BY <1>7, <2>3
<1>9. /\ Sorted(more)
      /\ \A e \in Elems(more) : /\ e.id \in Nat /\ lastId < e.id /\ e.id <= lastId'
                                /\ e.msg \in resent' /\ OnWire(e.msg)
  <2>1. \A i, j \in 1 .. n : i < j => lastId + i < lastId + j
    BY <1>6
  <2>2. Sorted(more)
    BY <1>8, <2>1 DEF Sorted
  <2>3. \A i \in 1 .. n : lastId + i \in Nat /\ lastId < lastId + i /\ lastId + i <= lastId'
    BY <1>3, <1>5, <1>6
  <2>4. \A i \in 1 .. n : wires[d][i] \in resent' /\ OnWire(wires[d][i])
    BY <1>3, <1>5 DEF OnWire
  <2> QED
    BY <1>8, <2>2, <2>3, <2>4 DEF Elems
<1>10. /\ stream' \in Seq(Entries) /\ Sorted(stream') /\ Elems(stream') = Elems(stream) \cup Elems(more)
  <2>1. stream \in Seq(Entries) /\ Sorted(stream)
    BY <1>1 DEF StreamTyped, Offsets
  <2>2. \A e \in Elems(stream), f \in Elems(more) : e.id < f.id
    BY <1>6, <1>9
  <2>3. PICK s : s = stream \o more
    OBVIOUS
  <2>4. s \in Seq(Entries) /\ Elems(s) = Elems(stream) \cup Elems(more) /\ Sorted(s)
    BY <1>8, <1>9, <2>1, <2>2, <2>3, Joined
  <2> QED
    BY <1>3, <1>7, <2>3, <2>4
<1>11. Kept' = Kept \cup Elems(more) /\ Ahead' = Ahead \cup Elems(more)
  <2>1. \A e \in Elems(more) : e.id > streamOffset
    BY <1>6, <1>9
  <2> QED
    BY <1>2, <1>10, <2>1 DEF Kept, Ahead
<1>12. \A m : OnWire(m)' <=> OnWire(m)
  BY <1>2 DEF OnWire
<1>13. lastId' \in Nat /\ lastId <= lastId' /\ resent \subseteq resent' /\ resent' \subseteq Stream!Msg
       /\ resent' # {}
  <2>1. wires[d][1] \in resent'
    BY <1>3, <1>5
  <2>2. lastId' \in Nat /\ lastId <= lastId'
    BY <1>3, <1>5, <1>6
  <2>3. resent \subseteq Stream!Msg
    BY <1>1 DEF StreamTyped
  <2> QED
    BY <1>3, <1>5, <2>1, <2>2, <2>3
<1>14. StreamTyped'
  <2>1. streamOffset' \in 0 .. lastId'
    BY <1>2, <1>6, <1>13
  <2>2. errors' \in Nat
    BY <1>1, <1>2 DEF StreamTyped
  <2>3. lastId' \in Nat /\ resent' \subseteq Stream!Msg
    BY <1>13
  <2> QED
    BY <1>1, <1>2, <1>10, <2>1, <2>2, <2>3 DEF StreamTyped
<1>15. Offsets'
  <2>1. \A e \in Kept \cup Elems(more) : e.id <= lastId'
    BY <1>6, <1>9, <1>13
  <2>2. \A e \in Elems(more), f \in Elems(read) : f.id < e.id
    BY <1>6, <1>9
  <2> QED
    BY <1>1, <1>2, <1>6, <1>10, <1>11, <2>1, <2>2 DEF Offsets
<1>16. Remembered'
  <2>1. \A e \in Elems(more) : e.msg \in Stream!Msg /\ e.msg <= published
    BY <1>1, <1>9, <1>13 DEF Remembered
  <2> QED
    BY <1>1, <1>2, <1>11, <1>12, <2>1 DEF Remembered
<1>17. Single'
  BY <1>1, <1>2, <1>9, <1>11, <1>12, <1>13 DEF Single
<1>18. Follows'
  BY <1>13 DEF Follows
<1> QED
  BY <1>14, <1>15, <1>16, <1>17, <1>18 DEF StreamInv

(* A command is executed: its message is in the stream, from which older   *)
(* ones may go.                                                            *)
LEMMA CommandExecuted == ASSUME StreamInv, NEW d \in Pools, Stream!Executed(d) PROVE StreamInv'
<1>1. StreamTyped /\ Offsets /\ Remembered /\ Single /\ Follows
  BY DEF StreamInv
<1>2. /\ wires[d] # <<>> /\ wires' = [wires EXCEPT ![d] = Tail(@)] /\ lastId' = lastId + 1
      /\ \E k \in {0} \cup 1 .. Len(Append(stream, [id |-> lastId + 1, msg |-> Head(wires[d])])) - MaxLength :
            LET all == Append(stream, [id |-> lastId + 1, msg |-> Head(wires[d])])
            IN  /\ stream' = SubSeq(all, k + 1, Len(all))
                /\ missed' = missed \cup Stream!Unread(SubSeq(all, 1, k))
      /\ UNCHANGED <<poolSize, published, resent, read, heard, streamOffset, loop,
                     subscribed, shut, subscribes, errors>>
  BY DEF Stream!Executed, Stream!publisherVars, Stream!readerVars
<1>3. PICK m \in Stream!Msg : m = Head(wires[d])
  BY <1>2, OneLess
<1>4. /\ m = wires[d][1] /\ OnWire(m) /\ 1 \in 1 .. Len(wires[d])
      /\ wires' \in [Pools -> Seq(Stream!Msg)]
      /\ \A x : OnWire(x)' <=> OnWire(x) /\ x # m
      /\ \A a, b \in Pools : \A i \in 1 .. Len(wires'[a]), j \in 1 .. Len(wires'[b]) :
            wires'[a][i] = wires'[b][j] => a = b /\ i = j
      /\ \A g \in Pools : g # d => wires'[g] = wires[g]
      /\ \A i \in 1 .. Len(wires'[d]) :
            wires'[d][i] = wires[d][i + 1] /\ i + 1 \in 1 .. Len(wires[d]) /\ 1 < i + 1
  BY <1>2, <1>3, OneLess
<1>5. /\ Ahead \subseteq Kept /\ Elems(read) \subseteq Kept /\ Elems(heard) \subseteq Kept
      /\ Elems(stream) \subseteq Kept
      /\ \A e \in Kept : /\ e.id \in Nat /\ e.id <= lastId
                         /\ e.msg \in Stream!Msg /\ e.msg \in Nat /\ e.msg <= published
      /\ streamOffset \in Nat /\ lastId \in Nat /\ streamOffset <= lastId /\ published \in Nat
      /\ m \in Nat /\ m <= published
  <2>1. m \in Nat
    BY StreamAssumption DEF Stream!Msg
  <2> QED
    BY <1>1, <1>4, <2>1, KeptEntries DEF Remembered
<1>6. PICK e : e = [id |-> lastId + 1, msg |-> m]
  OBVIOUS
<1>7. e \in Entries /\ e.id = lastId + 1 /\ e.id \in Nat /\ e.msg = m
  BY <1>5, <1>6 DEF Entries, Stream!Entry
<1>8. PICK all : all = Append(stream, e)
  OBVIOUS
<1>9. all \in Seq(Entries) /\ Sorted(all) /\ Elems(all) = Elems(stream) \cup {e}
  <2>1. stream \in Seq(Entries) /\ Sorted(stream)
    BY <1>1 DEF StreamTyped, Offsets
  <2>2. \A f \in Elems(stream) : f.id < e.id
    BY <1>5, <1>7
  <2> QED
    BY <1>7, <1>8, <2>1, <2>2, Appended
<1>10. PICK k \in 0 .. Len(all) : /\ stream' = SubSeq(all, k + 1, Len(all))
                                  /\ missed' = missed \cup Stream!Unread(SubSeq(all, 1, k))
  <2>1. Len(all) \in Nat
    BY <1>9, LenProperties
  <2>2. {0} \cup 1 .. Len(all) - MaxLength \subseteq 0 .. Len(all)
    BY <2>1, StreamAssumption
  <2> QED
    BY <1>2, <1>3, <1>6, <1>8, <2>2
<1>11. PICK old : old = SubSeq(all, 1, k)
  OBVIOUS
<1>12. PICK new : new = SubSeq(all, k + 1, Len(all))
  OBVIOUS
<1>13. /\ old \in Seq(Entries) /\ new \in Seq(Entries) /\ Sorted(old) /\ Sorted(new)
       /\ Elems(all) = Elems(old) \cup Elems(new)
       /\ \A a \in Elems(old), b \in Elems(new) : a.id < b.id
  BY <1>9, <1>10, <1>11, <1>12, Cut
<1>14. PICK gone : gone = Stream!Unread(old)
  OBVIOUS
<1>15. \A x : x \in gone <=> (/\ \E f \in Elems(old) : f.id > streamOffset /\ f.msg = x
                              /\ ~ \E f \in Elems(read) : f.msg = x)
  BY <1>1, <1>13, <1>14, UnreadOf
<1>16. stream' = new /\ missed' = missed \cup gone
  BY <1>10, <1>11, <1>12, <1>14
<1>17. /\ Elems(old) \subseteq Elems(stream) \cup {e} /\ Elems(new) \subseteq Elems(stream) \cup {e}
       /\ \A f \in Elems(stream) \cup {e} : f \in Elems(old) \/ f \in Elems(new)
  BY <1>9, <1>13
<1>18. /\ Kept' = Elems(new) \cup Elems(read) \cup Elems(heard) /\ Kept' \subseteq Kept \cup {e}
       /\ Ahead' = {f \in Elems(new) : f.id > streamOffset} /\ Ahead' \subseteq Ahead \cup {e}
  BY <1>2, <1>16, <1>17 DEF Kept, Ahead
<1>19. \A f \in Kept \cup {e} : f.id \in Nat /\ f.id <= lastId + 1 /\ f.msg \in Stream!Msg /\ f.msg <= published
  BY <1>5, <1>7
<1>20. gone \subseteq Stream!Msg /\ \A x \in gone : x <= published
  BY <1>5, <1>15, <1>17, <1>19
<1>21. StreamTyped'
  <2>1. lastId' \in Nat /\ streamOffset' \in 0 .. lastId'
    BY <1>2, <1>5
  <2> QED
    BY <1>1, <1>2, <1>4, <1>13, <1>16, <1>20, <2>1 DEF StreamTyped
<1>22. Offsets'
  <2>1. \A f \in Elems(new) : f.id <= lastId'
    BY <1>2, <1>5, <1>17, <1>19
  <2>2. \A f \in Elems(read) : streamOffset < f.id /\ f.id <= lastId'
    BY <1>1, <1>2, <1>5 DEF Offsets
  <2>3. \A f \in Elems(read) : f.id < e.id
    BY <1>5, <1>7
  <2>4. \A f \in Ahead' : f \in Elems(read) \/ \A g \in Elems(read) : g.id < f.id
    BY <1>1, <1>18, <2>3 DEF Offsets
  <2> QED
    BY <1>1, <1>2, <1>13, <1>16, <2>1, <2>2, <2>4 DEF Offsets
<1>23. Remembered'
  <2>1. ASSUME NEW f \in Ahead \cup {e}
        PROVE  f.msg \in missed' \/ \E g \in Ahead' \cup Elems(read) : g.msg = f.msg
    <3>1. f \in Elems(stream) \cup {e} /\ f.id > streamOffset
      BY <1>5, <1>7 DEF Ahead
    <3>2. CASE f \in Elems(new)
      BY <1>18, <3>1, <3>2
    <3>3. CASE f \in Elems(old)
      BY <1>15, <1>16, <3>1, <3>3
    <3> QED
      BY <1>17, <3>1, <3>2, <3>3
  <2>2. ASSUME NEW x \in 1 .. published
        PROVE  \/ OnWire(x)' \/ x \in missed'
               \/ \E f \in Ahead' \cup Elems(read) \cup Elems(heard) : f.msg = x
    <3>1. CASE x = m
      BY <1>7, <2>1, <3>1
    <3>2. CASE x # m /\ OnWire(x)
      BY <1>4, <3>2
    <3>3. CASE ~ OnWire(x)
      BY <1>1, <1>16, <2>1, <3>3 DEF Remembered
    <3> QED
      BY <3>1, <3>2, <3>3
  <2>3. \A x \in Stream!Msg : OnWire(x)' \/ x \in missed' => x <= published
    BY <1>1, <1>4, <1>16, <1>20 DEF Remembered
  <2>4. \A f \in Kept' : f.msg <= published
    BY <1>18, <1>19
  <2> QED
    BY <1>2, <2>2, <2>3, <2>4 DEF Remembered
<1>24. Single'
  <2>1. ASSUME NEW f \in Kept \cup {e}, NEW g \in Kept \cup {e}, f.msg = g.msg, f.msg \notin resent
        PROVE  f = g
    BY <1>1, <1>4, <1>7, <2>1 DEF Single
  <2>2. ASSUME NEW f \in Kept \cup {e}, OnWire(f.msg)' PROVE f.msg \in resent
    BY <1>1, <1>4, <1>7, <2>2 DEF Single
  <2>3. ASSUME NEW x \in missed', OnWire(x)' PROVE x \in resent
    <3>1. CASE x \in missed
      BY <1>1, <1>4, <2>3, <3>1 DEF Single
    <3>2. CASE x \in gone
      <4>1. PICK f \in Elems(old) : f.msg = x
        BY <1>15, <3>2
      <4> QED
        BY <1>5, <1>17, <2>2, <2>3, <4>1
    <3> QED
      BY <1>16, <3>1, <3>2
  <2>4. ASSUME NEW f \in Ahead' \cup Elems(read) \cup Elems(heard), f.msg \in missed'
        PROVE  f.msg \in resent
    <3>1. f \in Ahead \cup Elems(read) \cup Elems(heard) \cup {e} /\ f \in Kept \cup {e}
      BY <1>5, <1>18
    <3>2. CASE f.msg \in missed
      BY <1>1, <1>4, <1>7, <3>1, <3>2 DEF Single
    <3>3. CASE f.msg \in gone
      <4>1. PICK g \in Elems(old) : g.id > streamOffset /\ g.msg = f.msg
        BY <1>15, <3>3
      <4>2. g \in Kept \cup {e} /\ f \notin Elems(read)
        BY <1>5, <1>15, <1>17, <3>3
      <4>3. f # g
        <5>1. CASE f \in Elems(heard)
          <6>1. f.id <= streamOffset /\ f.id \in Nat /\ g.id \in Nat
            BY <1>1, <1>19, <3>1, <4>2, <5>1 DEF Offsets
          <6> QED
            BY <1>5, <4>1, <6>1
        <5>2. CASE f \in Elems(new)
          BY <1>13, <1>19, <3>1, <4>1, <4>2, <5>2
        <5> QED
          BY <1>18, <4>2, <5>1, <5>2
      <4> QED
        BY <2>1, <3>1, <4>1, <4>2, <4>3
    <3> QED
      BY <1>16, <2>4, <3>2, <3>3
  <2>5. /\ \A f, g \in Kept' : f.msg = g.msg /\ f.msg \notin resent' => f = g
        /\ \A f \in Kept' : OnWire(f.msg)' => f.msg \in resent'
    BY <1>2, <1>18, <2>1, <2>2
  <2> QED
    BY <1>2, <1>4, <2>3, <2>4, <2>5 DEF Single
<1>25. Follows'
  <2> SUFFICES ASSUME poolSize = 1, resent = {} PROVE Follows'
    BY <1>2 DEF Follows
  <2>1. d = 1
    BY <1>1, <1>2 DEF Follows
  <2>2. \A i, j \in 1 .. Len(wires'[1]) : i < j => i + 1 < j + 1
    BY <1>4, <2>1
  <2>3. \A i, j \in 1 .. Len(wires'[1]) : i < j => wires'[1][i] < wires'[1][j]
    BY <1>1, <1>4, <2>1, <2>2 DEF Follows
  <2>4. \A f \in Kept, i \in 1 .. Len(wires'[1]) : f.msg < wires'[1][i]
    BY <1>1, <1>4, <2>1 DEF Follows
  <2>5. \A i \in 1 .. Len(wires'[1]) : m < wires'[1][i]
    BY <1>1, <1>4, <2>1 DEF Follows
  <2>6. \A f \in Kept : f.msg < m
    BY <1>1, <1>4, <2>1 DEF Follows
  <2>7. ASSUME NEW f \in Kept \cup {e}, NEW g \in Kept \cup {e}, f.id < g.id PROVE f.msg < g.msg
    <3>1. f # e
      BY <1>7, <1>5, <1>19, <2>7
    <3>2. CASE g = e
      BY <1>7, <2>6, <3>1, <3>2
    <3>3. CASE g # e
      BY <1>1, <2>7, <3>1, <3>3 DEF Follows
    <3> QED
      BY <3>2, <3>3
  <2>8. \A g \in Pools : g # 1 => wires'[g] = <<>>
    BY <1>1, <1>4, <2>1 DEF Follows
  <2>9. /\ \A f, g \in Kept' : f.id < g.id => f.msg < g.msg
        /\ \A f \in Kept', i \in 1 .. Len(wires'[1]) : f.msg < wires'[1][i]
    BY <1>7, <1>18, <2>4, <2>5, <2>7
  <2> QED
    BY <2>3, <2>8, <2>9 DEF Follows
<1> QED
  BY <1>21, <1>22, <1>23, <1>24, <1>25 DEF StreamInv
(* New messages are on their way.                                          *)
LEMMA MessagesPublished ==
    ASSUME StreamInv, NEW n \in Nat, NEW d \in 1 .. poolSize, Stream!Publish(n, d)
    PROVE  StreamInv'
<1>1. StreamTyped /\ Offsets /\ Remembered /\ Single /\ Follows
  BY DEF StreamInv
<1>2. /\ published + n <= MaxMessages /\ published' = published + n
      /\ wires' = [wires EXCEPT ![d] = @ \o [i \in 1 .. n |-> published + i]]
      /\ UNCHANGED <<poolSize, stream, read, heard, lastId, streamOffset, missed, resent, loop,
                     subscribed, shut, subscribes, errors>>
  BY DEF Stream!Publish, Stream!redisVars, Stream!readerVars
<1>3. d \in Pools
  BY <1>1, StreamAssumption DEF StreamTyped, Pools
<1>4. /\ wires \in [Pools -> Seq(Stream!Msg)] /\ published \in Nat /\ published' \in 0 .. MaxMessages
      /\ \A i \in 1 .. n : published + i \in Stream!Msg /\ published < published + i
      /\ published <= published'
  BY <1>1, <1>2, StreamAssumption DEF StreamTyped, Stream!Msg
<1>5. PICK w : w = [i \in 1 .. n |-> published + i]
  OBVIOUS
<1>6. w \in Seq(Stream!Msg) /\ Len(w) = n /\ \A i \in 1 .. n : w[i] = published + i
  <2>1. w \in [1 .. n -> Stream!Msg]
    BY <1>4, <1>5
  <2>2. w \in Seq(Stream!Msg) /\ Len(w) = n
    BY <2>1, SeqDef, LenProperties
  <2> QED
    BY <1>5, <2>2
<1>7. PICK l \in Nat : l = Len(wires[d])
  BY <1>3, <1>4, LenProperties
<1>8. /\ wires[d] \o w \in Seq(Stream!Msg) /\ Len(wires[d] \o w) = l + n
      /\ \A i \in 1 .. l + n : (wires[d] \o w)[i] = IF i <= l THEN wires[d][i] ELSE w[i - l]
  <2>1. PICK v \in Seq(Stream!Msg) : v = wires[d]
    BY <1>3, <1>4
  <2>2. /\ v \o w \in Seq(Stream!Msg) /\ Len(v \o w) = Len(v) + Len(w)
        /\ \A i \in 1 .. Len(v) + Len(w) : (v \o w)[i] = IF i <= Len(v) THEN v[i] ELSE w[i - Len(v)]
    BY <1>6, ConcatProperties
  <2>3. Len(v) = l
    BY <1>7, <2>1
  <2> QED
    BY <1>6, <2>1, <2>2, <2>3
<1>9. /\ wires' \in [Pools -> Seq(Stream!Msg)] /\ Len(wires'[d]) = l + n
      /\ \A g \in Pools : g # d => wires'[g] = wires[g]
      /\ \A i \in 1 .. l + n : wires'[d][i] = IF i <= l THEN wires[d][i] ELSE w[i - l]
  <2>1. wires' = [wires EXCEPT ![d] = wires[d] \o w]
    BY <1>2, <1>5
  <2> QED
    BY <1>3, <1>4, <1>8, <2>1
<1>10. ASSUME NEW i \in 1 .. l + n
       PROVE  \/ i \in 1 .. l /\ wires'[d][i] = wires[d][i]
              \/ i \in l + 1 .. l + n /\ wires'[d][i] = published + (i - l) /\ published < wires'[d][i]
                 /\ wires'[d][i] <= published'
  <2>1. CASE i <= l
    BY <1>9, <2>1
  <2>2. CASE ~(i <= l)
    <3>1. i - l \in 1 .. n /\ i \in l + 1 .. l + n
      BY <1>7, <2>2
    <3>2. wires'[d][i] = published + (i - l)
      BY <1>6, <1>9, <2>2, <3>1
    <3>3. published < published + (i - l) /\ published + (i - l) <= published + n
      BY <1>4, <3>1
    <3> QED
      BY <1>2, <3>1, <3>2, <3>3
  <2> QED
    BY <2>1, <2>2
<1>11. \A i \in 1 .. l : i \in 1 .. l + n /\ wires'[d][i] = wires[d][i]
  BY <1>9
<1>12. \A m : OnWire(m) => m \in Stream!Msg /\ m <= published
  <2>1. \A a \in Pools : \A i \in 1 .. Len(wires[a]) : wires[a][i] \in Stream!Msg
    BY <1>4, ElementOfSeq
  <2>2. \A m : OnWire(m) => m \in Stream!Msg
    BY <2>1 DEF OnWire
  <2> QED
    BY <1>1, <2>2 DEF Remembered
<1>13. ASSUME NEW a \in Pools, NEW i \in 1 .. Len(wires'[a])
       PROVE  \/ i \in 1 .. Len(wires[a]) /\ wires'[a][i] = wires[a][i] /\ wires'[a][i] <= published
              \/ /\ a = d /\ i \in l + 1 .. l + n /\ wires'[a][i] = published + (i - l)
                 /\ published < wires'[a][i] /\ wires'[a][i] <= published'
  <2>1. \A j \in 1 .. Len(wires[a]) : wires[a][j] <= published
    BY <1>12 DEF OnWire
  <2>2. CASE a = d
    <3>1. i \in 1 .. l + n
      BY <1>9, <2>2
    <3>2. CASE i \in 1 .. l /\ wires'[d][i] = wires[d][i]
      BY <1>7, <2>1, <2>2, <3>2
    <3>3. CASE i \in l + 1 .. l + n /\ wires'[d][i] = published + (i - l) /\ published < wires'[d][i]
               /\ wires'[d][i] <= published'
      BY <2>2, <3>3
    <3> QED
      BY <1>10, <3>1, <3>2, <3>3
  <2>3. CASE a # d
    BY <1>9, <2>1, <2>3
  <2> QED
    BY <2>2, <2>3
<1>14. \A m : OnWire(m) => OnWire(m)'
  <2> SUFFICES ASSUME NEW m, NEW a \in Pools, NEW i \in 1 .. Len(wires[a]), wires[a][i] = m
               PROVE  OnWire(m)'
    BY DEF OnWire
  <2>1. i \in 1 .. Len(wires'[a]) /\ wires'[a][i] = m
    <3>1. CASE a = d
      BY <1>7, <1>9, <1>11, <3>1
    <3>2. CASE a # d
      BY <1>9, <3>2
    <3> QED
      BY <3>1, <3>2
  <2> QED
    BY <2>1 DEF OnWire
<1>15. ASSUME NEW m, OnWire(m)' PROVE OnWire(m) \/ (published < m /\ m <= published')
  <2>1. PICK a \in Pools : \E i \in 1 .. Len(wires'[a]) : wires'[a][i] = m
    BY <1>15 DEF OnWire
  <2>2. PICK i \in 1 .. Len(wires'[a]) : wires'[a][i] = m
    BY <2>1
  <2> QED
    BY <1>13, <2>2 DEF OnWire
<1>16. ASSUME NEW m \in published + 1 .. published' PROVE OnWire(m)'
  <2>1. PICK j : j = m - published
    OBVIOUS
  <2>2. j \in 1 .. n /\ published + j = m
    BY <1>2, <1>4, <2>1
  <2>3. PICK i : i = l + j
    OBVIOUS
  <2>4. i \in 1 .. l + n /\ ~(i <= l) /\ i - l = j
    BY <1>7, <2>2, <2>3
  <2>5. wires'[d][i] = m
    BY <1>6, <1>9, <2>2, <2>4
  <2> QED
    BY <1>3, <1>9, <2>4, <2>5 DEF OnWire
<1>17. Kept' = Kept /\ Ahead' = Ahead
  BY <1>2 DEF Kept, Ahead
<1>18. \A e \in Kept : e.msg \in Nat /\ e.msg <= published
  BY <1>1, KeptEntries DEF Remembered
<1>19. Stream!Msg \subseteq Nat
  BY StreamAssumption DEF Stream!Msg
<1>20. StreamTyped'
  BY <1>1, <1>2, <1>4, <1>9 DEF StreamTyped
<1>21. Offsets'
  BY <1>1, <1>2, <1>17 DEF Offsets
<1>22. Remembered'
  <2>1. \A e \in Kept : e.msg <= published'
    BY <1>4, <1>18
  <2>2. ASSUME NEW m \in Stream!Msg, OnWire(m)' \/ m \in missed PROVE m <= published'
    BY <1>1, <1>4, <1>15, <1>19, <2>2 DEF Remembered
  <2>3. ASSUME NEW m \in 1 .. published'
        PROVE  \/ OnWire(m)' \/ m \in missed
               \/ \E e \in Ahead \cup Elems(read) \cup Elems(heard) : e.msg = m
    <3>1. m \in 1 .. published \/ m \in published + 1 .. published'
      BY <1>4
    <3> QED
      BY <1>1, <1>14, <1>16, <3>1 DEF Remembered
  <2> QED
    BY <1>2, <1>17, <2>1, <2>2, <2>3 DEF Remembered
<1>23. Single'
  <2>1. ASSUME NEW a \in Pools, NEW b \in Pools, NEW i \in 1 .. Len(wires'[a]),
               NEW j \in 1 .. Len(wires'[b]), wires'[a][i] = wires'[b][j]
        PROVE  a = b /\ i = j
    <3>1. CASE wires'[a][i] <= published
      <4>1. ~(published < wires'[a][i]) /\ ~(published < wires'[b][j])
        <5>1. wires'[a][i] \in Nat
          BY <1>9, <1>19, ElementOfSeq
        <5> QED
          BY <1>4, <2>1, <3>1, <5>1
      <4> QED
        BY <1>1, <1>13, <2>1, <4>1 DEF Single
    <3>2. CASE published < wires'[a][i]
      <4>1. ~(wires'[a][i] <= published) /\ ~(wires'[b][j] <= published)
        <5>1. wires'[a][i] \in Nat
          BY <1>9, <1>19, ElementOfSeq
        <5> QED
          BY <1>4, <2>1, <3>2, <5>1
      <4>2. /\ a = d /\ b = d /\ i \in l + 1 .. l + n /\ j \in l + 1 .. l + n
            /\ published + (i - l) = published + (j - l)
        BY <1>13, <2>1, <4>1
      <4> QED
        BY <1>4, <1>7, <4>2
    <3> QED
      BY <1>13, <3>1, <3>2
  <2>2. \A e \in Kept : OnWire(e.msg)' => e.msg \in resent
    <3>1. \A e \in Kept : ~(published < e.msg)
      BY <1>4, <1>18
    <3> QED
      BY <1>1, <1>15, <3>1 DEF Single
  <2>3. \A m \in missed : OnWire(m)' => m \in resent
    <3>1. \A m \in missed : m \in Nat /\ m <= published
      BY <1>1, <1>19 DEF Remembered, StreamTyped
    <3>2. \A m \in missed : ~(published < m)
      BY <1>4, <3>1
    <3> QED
      BY <1>1, <1>15, <3>2 DEF Single
  <2> QED
    BY <1>1, <1>2, <1>17, <2>1, <2>2, <2>3 DEF Single
<1>24. Follows'
  <2> SUFFICES ASSUME poolSize = 1, resent = {} PROVE Follows'
    BY <1>2 DEF Follows
  <2>1. d = 1
    OBVIOUS
  <2>2. \A g \in Pools : g # 1 => wires'[g] = <<>>
    BY <1>1, <1>9, <2>1 DEF Follows
  <2>3. ASSUME NEW i \in 1 .. Len(wires'[1]), NEW j \in 1 .. Len(wires'[1]), i < j
        PROVE  wires'[1][i] < wires'[1][j]
    <3>1. wires'[1][i] \in Nat /\ wires'[1][j] \in Nat
      BY <1>3, <1>9, <1>19, <2>1, ElementOfSeq
    <3>2. CASE j \in 1 .. l
      <4>1. i \in 1 .. l
        BY <1>7, <2>3, <3>2
      <4> QED
        BY <1>1, <1>7, <1>11, <2>1, <2>3, <3>2, <4>1 DEF Follows
    <3>3. CASE j \in l + 1 .. l + n /\ wires'[1][j] = published + (j - l) /\ published < wires'[1][j]
      <4>1. CASE wires'[1][i] <= published
        BY <1>4, <3>1, <3>3, <4>1
      <4>2. CASE i \in l + 1 .. l + n /\ wires'[1][i] = published + (i - l)
        <5>1. \E p, q \in Nat : p = i - l /\ q = j - l /\ p < q
          <6>1. l \in Nat /\ i \in Nat /\ j \in Nat /\ i > l /\ j > l
            BY <1>7, <3>3, <4>2
          <6> QED
            BY <2>3, <6>1
        <5>2. PICK p, q \in Nat : p = i - l /\ q = j - l /\ p < q
          BY <5>1
        <5>3. wires'[1][i] = published + p /\ wires'[1][j] = published + q
          BY <3>3, <4>2, <5>2
        <5> QED
          BY <1>4, <5>2, <5>3
      <4> QED
        BY <1>3, <1>13, <2>1, <4>1, <4>2
    <3> QED
      BY <1>3, <1>7, <1>13, <2>1, <3>2, <3>3
  <2>4. ASSUME NEW e \in Kept, NEW i \in 1 .. Len(wires'[1]) PROVE e.msg < wires'[1][i]
    <3>1. wires'[1][i] \in Nat
      BY <1>3, <1>9, <1>19, <2>1, ElementOfSeq
    <3>2. CASE published < wires'[1][i]
      BY <1>4, <1>18, <3>1, <3>2
    <3>3. CASE i \in 1 .. Len(wires[1]) /\ wires'[1][i] = wires[1][i]
      BY <1>1, <3>3 DEF Follows
    <3> QED
      BY <1>3, <1>13, <2>1, <3>2, <3>3
  <2> QED
    BY <1>1, <1>17, <2>2, <2>3, <2>4 DEF Follows
<1> QED
  BY <1>20, <1>21, <1>22, <1>23, <1>24 DEF StreamInv

LEMMA StreamStep == StreamInv /\ [Stream!Next]_streamVars => StreamInv'
<1> SUFFICES ASSUME StreamInv, [Stream!Next]_streamVars PROVE StreamInv'
  OBVIOUS
<1>1. StreamTyped
  BY DEF StreamInv
<1>2. CASE \E n \in 1 .. 2, d \in 1 .. poolSize : Stream!Publish(n, d)
  <2>1. PICK n \in 1 .. 2, d \in 1 .. poolSize : Stream!Publish(n, d)
    BY <1>2
  <2>2. n \in Nat
    OBVIOUS
  <2> QED
    BY <2>1, <2>2, MessagesPublished
<1>3. CASE \E d \in Pools : Stream!Executed(d) \/ Stream!Resent(d) \/ Stream!Failed(d)
  BY <1>3, CommandExecuted, CommandsResent, MessageFails
<1>4. CASE Stream!Expires
  BY <1>4, StreamExpires
<1>5. CASE Stream!Subscribe
  <2>1. streamOffset' = streamOffset
    BY <1>5 DEF Stream!Subscribe, Stream!OffsetOf
  <2> QED
    BY <1>1, <1>5, <2>1, NoEntryMoves
       DEF StreamTyped, Stream!Subscribe, Stream!publisherVars, Stream!redisVars
<1>6. CASE Stream!Unsubscribe
  BY <1>1, <1>6, NoEntryMoves
     DEF StreamTyped, Stream!Unsubscribe, Stream!publisherVars, Stream!redisVars
<1>7. CASE Stream!Disconnect
  BY <1>1, <1>7, NoEntryMoves
     DEF StreamTyped, Stream!Disconnect, Stream!publisherVars, Stream!redisVars
<1>8. CASE Stream!Turn
  BY <1>1, <1>8, NoEntryMoves
     DEF StreamTyped, Stream!Turn, Stream!publisherVars, Stream!redisVars
<1>9. CASE Stream!Read
  BY <1>9, StreamIsRead
<1>10. CASE Stream!ReadFails
  BY <1>1, <1>10, NoEntryMoves
     DEF StreamTyped, Stream!ReadFails, Stream!publisherVars, Stream!redisVars
<1>11. CASE Stream!Handle
  BY <1>11, EntriesHandled
<1>12. CASE UNCHANGED streamVars
  BY <1>1, <1>12, NoEntryMoves DEF StreamTyped, streamVars
<1> QED
  BY <1>2, <1>3, <1>4, <1>5, <1>6, <1>7, <1>8, <1>9, <1>10, <1>11, <1>12 DEF Stream!Next, Pools

LEMMA StreamIsExact == StreamInv => Stream!StreamExact
<1> SUFFICES ASSUME StreamInv PROVE Stream!StreamExact
  OBVIOUS
<1>1. StreamTyped /\ Offsets /\ Remembered /\ Single /\ Follows
  BY DEF StreamInv
<1>2. /\ stream \in Seq(Entries) /\ read \in Seq(Entries) /\ heard \in Seq(Entries) /\ Sorted(stream)
      /\ wires \in [Pools -> Seq(Stream!Msg)]
  BY <1>1 DEF StreamTyped, Offsets
<1>3. /\ Stream!ToSet(stream) = Elems(stream) /\ Stream!ToSet(read) = Elems(read)
      /\ Stream!ToSet(heard) = Elems(heard) /\ DOMAIN heard = 1 .. Len(heard)
      /\ Stream!Msgs(read) = {e.msg : e \in Elems(read)}
      /\ Stream!Msgs(heard) = {e.msg : e \in Elems(heard)}
      /\ Stream!Msgs(Stream!After(stream, streamOffset)) = {e.msg : e \in Ahead}
  <2>1. PICK a \in Seq(Entries) : /\ a = Stream!After(stream, streamOffset)
                                  /\ Elems(a) = Ahead
    BY <1>2, KeptEntries, AfterId DEF Ahead
  <2> QED
    BY <1>2, <2>1, Elements
<1>4. \A m : m \in Stream!InFlight <=> OnWire(m)
  <2>1. \A d \in Pools : Stream!ToSet(wires[d]) = {wires[d][i] : i \in 1 .. Len(wires[d])}
    BY <1>2, LenProperties DEF Stream!ToSet
  <2> QED
    <3>1. Stream!InFlight = UNION {Stream!ToSet(wires[d]) : d \in Pools}
      BY DEF Stream!InFlight, Pools
    <3>2. \A m : m \in Stream!InFlight <=> \E d \in Pools : m \in Stream!ToSet(wires[d])
      BY <3>1
    <3>3. \A m : \A d \in Pools :
             m \in Stream!ToSet(wires[d]) <=> \E i \in 1 .. Len(wires[d]) : wires[d][i] = m
      BY <2>1
    <3> QED
      BY ONLY <3>2, <3>3 DEF OnWire
<1>5. /\ Kept \subseteq Entries /\ Ahead \subseteq Kept /\ Elems(stream) \subseteq Kept
      /\ Elems(read) \subseteq Kept /\ Elems(heard) \subseteq Kept
      /\ \A e \in Kept : e.id \in Nat /\ e.msg \in Stream!Msg /\ e.msg <= published
  BY <1>1, KeptEntries DEF Remembered
<1>6. Stream!TypeOK
  <2>1. \A d \in 1 .. MaxPool : \A i \in DOMAIN wires[d] : wires[d][i] \in Stream!Msg
    <3>1. \A d \in Pools : DOMAIN wires[d] = 1 .. Len(wires[d])
      BY <1>2, LenProperties
    <3> QED
      BY <1>2, <3>1, ElementOfSeq DEF Pools
  <2>2. Stream!ToSet(stream) \cup Stream!ToSet(read) \cup Stream!ToSet(heard) \subseteq Stream!Entry
    BY <1>3, <1>5 DEF Entries
  <2> QED
    BY <1>1, <2>1, <2>2 DEF Stream!TypeOK, StreamTyped, Pools
<1>7. Stream!HeardInOrder
  <2>1. \A i \in DOMAIN heard : heard[i] \in Kept
    BY <1>3, <1>5 DEF Elems
  <2>2. \A i, j \in DOMAIN heard : i < j => heard[i].id < heard[j].id
    BY <1>1, <1>3 DEF Offsets, Sorted
  <2>3. poolSize = 1 /\ resent = {} =>
           \A i, j \in DOMAIN heard : i < j => heard[i].msg < heard[j].msg
    BY <1>1, <2>1, <2>2 DEF Follows
  <2> QED
    BY <2>2, <2>3 DEF Stream!HeardInOrder
<1>8. Stream!Accounted
  <2> DEFINE unread == {e.msg : e \in Ahead} \cup {e.msg : e \in Elems(read)}
      all == Stream!InFlight \cup unread \cup {e.msg : e \in Elems(heard)} \cup missed
  <2>1. \A m \in 1 .. published : m \in all
    BY <1>1, <1>4 DEF Remembered
  <2>2. \A m \in all : m \in Stream!Msg
    <3>1. \A d \in Pools : \A i \in 1 .. Len(wires[d]) : wires[d][i] \in Stream!Msg
      BY <1>2, ElementOfSeq
    <3>2. \A m \in Stream!InFlight : m \in Stream!Msg
      BY <1>4, <3>1 DEF OnWire
    <3> QED
      BY <1>1, <1>5, <3>2 DEF StreamTyped
  <2>3. \A m \in all : m <= published
    BY <1>1, <1>4, <1>5, <2>2 DEF Remembered
  <2>4. \A m \in all : m \in 1 .. published
    <3>1. published \in Nat /\ \A m \in Stream!Msg : m \in Nat /\ m >= 1
      BY <1>1, StreamAssumption DEF StreamTyped, Stream!Msg
    <3> QED
      BY <2>2, <2>3, <3>1
  <2>5. 1 .. published = all
    BY <2>1, <2>4
  <2>6. {e.msg : e \in Elems(heard)} \cap missed \subseteq resent
    BY <1>1 DEF Single
  <2> QED
    BY <1>3, <2>5, <2>6 DEF Stream!Accounted
<1> QED
  BY <1>6, <1>7, <1>8 DEF Stream!StreamExact
-----------------------------------------------------------------------------
(* The client for browsers *)

AtRest(k)   == sock[k] \in {"new", "closed"}

BrowserPlaces ==
    /\ state \in {"closed", "connecting", "open", "closing"}
    /\ ws \in Browser!Socket \cup {Browser!None} /\ closeOn \in Browser!Socket \cup {Browser!None}
    /\ sock \in [Browser!Socket -> {"new", "connecting", "open", "closing", "aborting", "closed"}]
    /\ byTimer \subseteq Browser!Socket
    /\ closing \in {"none", "calls", "socket"}
    /\ awaited \subseteq BrowserCall /\ entries \subseteq BrowserCall
    /\ sentOn \in [BrowserCall -> Browser!Socket \cup {Browser!None}]

BrowserNumbers ==
    /\ attempt \in 0 .. MaxReconnects /\ closes \in 0 .. MaxCloses
    /\ timers \in Nat /\ (held => timers > 0)

BrowserFlags == held \in BOOLEAN /\ crossed \in BOOLEAN

BrowserTyped == BrowserPlaces /\ BrowserNumbers /\ BrowserFlags

(* The queue holds each call that waits once, and no slot is idle then.    *)
QueueOf(cs, q) ==
    /\ cs \in [BrowserCall -> {"new", "queued", "running", "sent", "done"}]
    /\ q \in Seq(BrowserCall)
    /\ \A i, j \in 1 .. Len(q) : q[i] = q[j] => i = j
    /\ \A c \in BrowserCall : cs[c] = "queued" <=> \E i \in 1 .. Len(q) : q[i] = c
    /\ Browser!InSlots(cs) \in Nat /\ Browser!InSlots(cs) <= Concurrency

BrowserQueue ==
    QueueOf(call, queue) /\ (queue # <<>> => Browser!InSlots(call) = Concurrency)

(* A call that waits for an answer has its entry; one that went out did so *)
(* on a connection that opened, and has no entry when that has ended.      *)
BrowserEntries ==
    \A c \in BrowserCall :
       /\ call[c] = "sent" => c \in entries
       /\ c \in entries => call[c] \in {"sent", "done"}
       /\ c \in awaited /\ c \notin entries => call[c] = "done"
       /\ sentOn[c] # Browser!None =>
             /\ call[c] \in {"sent", "done"}
             /\ sock[sentOn[c]] \in {"open", "closing", "closed"}
             /\ c \in entries => sock[sentOn[c]] # "closed"

(* One socket is at work at most, the current one, and the state is what   *)
(* it says; the one timer runs when there is none, and a close() under way *)
(* waits for it, or for calls of which one was given up.                   *)
GivenUp == \E c \in awaited : c \notin entries /\ call[c] = "done"

BrowserState ==
    /\ \A k \in Browser!Socket : k # ws => AtRest(k)
    /\ ws # Browser!None => sock[ws] # "new"
    /\ timers > 0 => state = "connecting" /\ Browser!SocketGone /\ held /\ timers = 1
    /\ state = "open" => ws # Browser!None /\ sock[ws] = "open"
    /\ state = "connecting" => timers = 1 \/ Browser!InHandshake
    /\ state = "closed" => Browser!SocketGone /\ closing # "socket"
    /\ state = "closing" => closing # "none"
    /\ closing = "socket" => state = "closing" /\ closeOn = ws /\ ~ Browser!SocketGone
    /\ closing = "calls" => state = "closing" \/ GivenUp \/ (state = "closed" /\ awaited = {})

BrowserLink ==
    ws # Browser!None =>
       /\ sock[ws] = "connecting" => state = "connecting"
       /\ sock[ws] = "open" => state = "open" \/ (state = "closing" /\ closing = "calls")
       /\ sock[ws] \in {"closing", "aborting"} => closing = "socket"
       /\ sock[ws] = "aborting" => ws \notin byTimer

BrowserInv ==
    /\ BrowserTyped /\ BrowserQueue /\ BrowserEntries
    /\ ~ crossed => BrowserState /\ BrowserLink

(* As many different elements as places.                                   *)
LEMMA PrefixCounted ==
    ASSUME NEW S, NEW q \in Seq(S), \A i, j \in 1 .. Len(q) : q[i] = q[j] => i = j,
           NEW n \in 0 .. Len(q)
    PROVE  /\ IsFiniteSet({q[i] : i \in 1 .. n}) /\ Cardinality({q[i] : i \in 1 .. n}) = n
<1> DEFINE T == {q[i] : i \in 1 .. n}
           f == [i \in 1 .. n |-> q[i]]
<1>1. \A i \in 1 .. n : i \in 1 .. Len(q)
  BY LenProperties
<1>2. f \in Bijection(1 .. n, T)
  BY <1>1 DEF Bijection, Injection, Surjection, IsInjective
<1>3. ExistsBijection(1 .. n, T)
  BY <1>2 DEF ExistsBijection
<1>4. n \in Nat /\ IsFiniteSet(1 .. n) /\ Cardinality(1 .. n) = n
  BY LenProperties, FS_Interval
<1> QED
  BY <1>3, <1>4, FS_Bijection

LEMMA SlotsCounted ==
    ASSUME NEW cs
    PROVE  LET B == {c \in BrowserCall : cs[c] \in {"running", "sent"}}
           IN  IsFiniteSet(B) /\ Browser!InSlots(cs) = Cardinality(B) /\ Cardinality(B) \in Nat
<1> DEFINE B == {c \in BrowserCall : cs[c] \in {"running", "sent"}}
<1>1. IsFiniteSet(B)
  BY BrowserAssumption, FS_Subset
<1>2. Browser!InSlots(cs) = Cardinality(B)
  BY DEF Browser!InSlots, Browser!Cardinality, Cardinality
<1> QED
  BY <1>1, <1>2, FS_CardinalityType

(* Calls begin as long as there are slots for them.                        *)
LEMMA QueueDrained ==
    ASSUME NEW cs, NEW q, QueueOf(cs, q), Browser!Drained(cs, q)
    PROVE  /\ BrowserQueue'
           /\ \A c \in BrowserCall : call'[c] = cs[c] \/ (cs[c] = "queued" /\ call'[c] = "running")
<1>1. /\ cs \in [BrowserCall -> {"new", "queued", "running", "sent", "done"}]
      /\ q \in Seq(BrowserCall)
      /\ \A i, j \in 1 .. Len(q) : q[i] = q[j] => i = j
      /\ \A c \in BrowserCall : cs[c] = "queued" <=> \E i \in 1 .. Len(q) : q[i] = c
      /\ Browser!InSlots(cs) \in Nat /\ Browser!InSlots(cs) <= Concurrency
  BY DEF QueueOf
<1>2. PICK l \in Nat : l = Len(q)
  BY <1>1, LenProperties
<1>3. PICK u \in Nat : u = Browser!InSlots(cs) /\ u <= Concurrency
  BY <1>1
<1>4. PICK n : n = (IF Concurrency - u < l THEN Concurrency - u ELSE l)
  OBVIOUS
<1>5. n \in Nat /\ n <= l /\ u + n <= Concurrency /\ (n < l => u + n = Concurrency)
  BY <1>2, <1>3, <1>4, BrowserAssumption
<1>6. PICK go : go = {q[i] : i \in 1 .. n}
  OBVIOUS
<1>7. /\ call' = [c \in BrowserCall |-> IF c \in go THEN "running" ELSE cs[c]]
      /\ queue' = SubSeq(q, n + 1, l)
  BY <1>2, <1>3, <1>4, <1>6 DEF Browser!Drained
<1>8. /\ n \in 0 .. Len(q)
      /\ \A i \in 1 .. n : i \in 1 .. l
      /\ \A i \in 1 .. l - n : n + i \in 1 .. l /\ n + i \notin 1 .. n
      /\ \A i \in 1 .. l : i \in 1 .. n \/ (i - n \in 1 .. l - n /\ n + (i - n) = i)
  BY <1>2, <1>5
<1>9. IsFiniteSet(go) /\ Cardinality(go) = n
  <2>1. IsFiniteSet({q[i] : i \in 1 .. n}) /\ Cardinality({q[i] : i \in 1 .. n}) = n
    <3>1. q \in Seq(BrowserCall) /\ \A i, j \in 1 .. Len(q) : q[i] = q[j] => i = j
      BY <1>1
    <3>2. n \in 0 .. Len(q)
      BY <1>8
    <3> QED
      BY ONLY <3>1, <3>2, PrefixCounted
  <2> QED
    BY <1>6, <2>1
<1>10. \A c \in go : c \in BrowserCall /\ cs[c] = "queued"
  <2>1. \A i \in 1 .. l : q[i] \in BrowserCall /\ cs[q[i]] = "queued"
    BY <1>1, <1>2, ElementOfSeq
  <2> QED
    BY <1>6, <1>8, <2>1
<1>11. /\ queue' \in Seq(BrowserCall) /\ Len(queue') = l - n
       /\ \A i \in 1 .. l - n : queue'[i] = q[n + i]
  <2>1. PICK r : r = SubSeq(q, n + 1, l)
    OBVIOUS
  <2>2. \A i \in n + 1 .. l : q[i] \in BrowserCall
    <3>1. \A i \in n + 1 .. l : i \in 1 .. l
      BY <1>5
    <3> QED
      BY <1>1, <1>2, <3>1, ElementOfSeq
  <2>3. /\ r \in Seq(BrowserCall) /\ Len(r) = IF n + 1 <= l THEN l - (n + 1) + 1 ELSE 0
        /\ \A i \in 1 .. l - (n + 1) + 1 : r[i] = q[(n + 1) + i - 1]
    BY <1>1, <1>2, <1>5, <2>1, <2>2, SubSeqProperties
  <2>4. l - (n + 1) + 1 = l - n /\ \A i \in 1 .. l - n : (n + 1) + i - 1 = n + i
    BY <1>5
  <2>5. Len(r) = l - n
    BY <1>5, <2>3, <2>4
  <2> QED
    BY <1>7, <2>1, <2>3, <2>4, <2>5
<1>12. call' \in [BrowserCall -> {"new", "queued", "running", "sent", "done"}]
  BY <1>1, <1>7
<1>13. \A i, j \in 1 .. Len(queue') : queue'[i] = queue'[j] => i = j
  <2> SUFFICES ASSUME NEW i \in 1 .. l - n, NEW j \in 1 .. l - n, queue'[i] = queue'[j]
               PROVE  i = j
    BY <1>11
  <2>1. q[n + i] = q[n + j] /\ n + i \in 1 .. l /\ n + j \in 1 .. l
    BY <1>8, <1>11
  <2>2. n + i = n + j
    BY <1>1, <1>2, <2>1
  <2> QED
    BY <1>5, <2>2
<1>14. ASSUME NEW c \in BrowserCall
       PROVE  call'[c] = "queued" <=> \E i \in 1 .. Len(queue') : queue'[i] = c
  <2>1. call'[c] = "queued" <=> c \notin go /\ cs[c] = "queued"
    BY <1>7
  <2>2. ASSUME c \notin go, cs[c] = "queued" PROVE \E i \in 1 .. l - n : queue'[i] = c
    <3>1. PICK j \in 1 .. l : q[j] = c
      BY <1>1, <1>2, <2>2
    <3>2. j \notin 1 .. n
      BY <1>6, <2>2, <3>1
    <3>3. j - n \in 1 .. l - n /\ n + (j - n) = j
      BY <1>8, <3>2
    <3> QED
      BY <1>11, <3>1, <3>3
  <2>3. ASSUME NEW i \in 1 .. l - n, queue'[i] = c PROVE c \notin go /\ cs[c] = "queued"
    <3>1. q[n + i] = c /\ n + i \in 1 .. l /\ n + i \notin 1 .. n
      BY <1>8, <1>11, <2>3
    <3>2. \A j \in 1 .. n : q[j] # c
      BY <1>1, <1>2, <1>8, <3>1
    <3> QED
      BY <1>1, <1>2, <1>6, <3>1, <3>2
  <2> QED
    BY <1>11, <2>1, <2>2, <2>3
<1>15. Browser!InSlots(call') = u + n
  <2> DEFINE B == {c \in BrowserCall : cs[c] \in {"running", "sent"}}
  <2>1. IsFiniteSet(B) /\ Cardinality(B) = u
    BY <1>3, SlotsCounted
  <2>2. {c \in BrowserCall : call'[c] \in {"running", "sent"}} = B \cup go
    BY <1>7, <1>10
  <2>3. B \cap go = {}
    BY <1>10
  <2>4. Cardinality(B \cup go) = u + n - 0
    BY <1>9, <2>1, <2>3, FS_Union, FS_EmptySet
  <2>5. Browser!InSlots(call') = Cardinality(B \cup go)
    BY <2>2, SlotsCounted
  <2> QED
    BY <1>5, <2>4, <2>5
<1>16. queue' # <<>> => n < l
  BY <1>5, <1>11, EmptySeq
<1>17. QueueOf(call', queue')
  BY <1>5, <1>11, <1>12, <1>13, <1>14, <1>15 DEF QueueOf
<1>18. BrowserQueue'
  BY <1>5, <1>15, <1>16, <1>17 DEF BrowserQueue, QueueOf
<1>19. \A c \in BrowserCall : call'[c] = cs[c] \/ (cs[c] = "queued" /\ call'[c] = "running")
  BY <1>7, <1>10
<1> QED
  BY <1>18, <1>19

(* Calls that settle give back their slots.                                *)
LEMMA CallsSettled ==
    ASSUME BrowserQueue, NEW S, \A c \in S : c \in BrowserCall /\ call[c] \in {"running", "sent", "done"},
           Browser!Settled(S)
    PROVE  /\ BrowserQueue'
           /\ \A c \in BrowserCall : c \in S => call'[c] = "done"
           /\ \A c \in BrowserCall : c \notin S =>
                 call'[c] = call[c] \/ (call[c] = "queued" /\ call'[c] = "running")
<1>1. QueueOf(call, queue)
  BY DEF BrowserQueue
<1>2. PICK cs : cs = [c \in BrowserCall |-> IF c \in S THEN "done" ELSE call[c]]
  OBVIOUS
<1>3. Browser!Drained(cs, queue)
  BY <1>2 DEF Browser!Settled
<1>4. Browser!InSlots(cs) \in Nat /\ Browser!InSlots(cs) <= Concurrency
  <2> DEFINE A == {c \in BrowserCall : call[c] \in {"running", "sent"}}
             B == {c \in BrowserCall : cs[c] \in {"running", "sent"}}
  <2>1. B \subseteq A
    BY <1>2
  <2>2. IsFiniteSet(A) /\ Browser!InSlots(call) = Cardinality(A) /\ Cardinality(A) \in Nat
    BY SlotsCounted
  <2>3. Browser!InSlots(cs) = Cardinality(B) /\ Cardinality(B) \in Nat
    BY SlotsCounted
  <2>4. Cardinality(B) <= Cardinality(A)
    BY <2>1, <2>2, FS_Subset
  <2>5. Cardinality(A) <= Concurrency
    BY <1>1, <2>2 DEF QueueOf
  <2> QED
    BY <2>2, <2>3, <2>4, <2>5, BrowserAssumption
<1>5. QueueOf(cs, queue)
  BY <1>1, <1>2, <1>4 DEF QueueOf
<1>6. /\ BrowserQueue'
      /\ \A c \in BrowserCall : call'[c] = cs[c] \/ (cs[c] = "queued" /\ call'[c] = "running")
  BY <1>3, <1>5, QueueDrained
<1> QED
  BY <1>2, <1>6

LEMMA BrowserInit == Browser!Init => BrowserInv
<1> SUFFICES ASSUME Browser!Init PROVE BrowserInv
  OBVIOUS
<1>1. BrowserPlaces
  BY DEF Browser!Init, BrowserPlaces
<1>2. BrowserNumbers
  BY BrowserAssumption DEF Browser!Init, BrowserNumbers
<1>3. BrowserFlags
  BY DEF Browser!Init, BrowserFlags
<1>4. Browser!InSlots(call) = 0
  <2>1. {c \in BrowserCall : call[c] \in {"running", "sent"}} = {}
    BY DEF Browser!Init
  <2> QED
    BY <2>1, SlotsCounted, FS_EmptySet
<1>5. BrowserQueue
  <2>1. queue = <<>> /\ queue \in Seq(BrowserCall) /\ Len(queue) = 0
    BY EmptySeq DEF Browser!Init
  <2>2. call \in [BrowserCall -> {"new", "queued", "running", "sent", "done"}]
    BY DEF Browser!Init
  <2>3. \A c \in BrowserCall : call[c] # "queued"
    BY DEF Browser!Init
  <2> QED
    BY <1>4, <2>1, <2>2, <2>3, BrowserAssumption DEF BrowserQueue, QueueOf
<1>6. BrowserEntries
  BY DEF Browser!Init, BrowserEntries
<1>7. BrowserState
  BY DEF Browser!Init, BrowserState, Browser!SocketGone, AtRest, Browser!None
<1>8. BrowserLink
  BY DEF Browser!Init, BrowserLink
<1> QED
  BY <1>1, <1>2, <1>3, <1>5, <1>6, <1>7, <1>8 DEF BrowserInv, BrowserTyped

(* What the calls do is nothing to the connection; one that was given up   *)
(* stays so.                                                               *)
LEMMA ConnectionKept ==
    ASSUME BrowserInv,
           UNCHANGED <<state, ws, sock, byTimer, timers, held, closing, closeOn, crossed>>,
           awaited' \subseteq awaited,
           \A c \in awaited : c \notin entries /\ call[c] = "done" =>
              c \in awaited' /\ c \notin entries' /\ call'[c] = "done"
    PROVE  ~ crossed' => BrowserState' /\ BrowserLink'
<1> SUFFICES ASSUME ~ crossed' PROVE BrowserState' /\ BrowserLink'
  OBVIOUS
<1>1. BrowserState /\ BrowserLink
  BY DEF BrowserInv
<1>2. GivenUp => GivenUp'
  BY DEF GivenUp
<1>3. awaited = {} => awaited' = {}
  OBVIOUS
<1>4. BrowserState'
  BY <1>1, <1>2, <1>3 DEF BrowserState, Browser!SocketGone, Browser!InHandshake, AtRest
<1>5. BrowserLink'
  BY <1>1 DEF BrowserLink
<1> QED
  BY <1>4, <1>5

(* What the connection does to its sockets leaves the calls what they are. *)
LEMMA CallsKept ==
    ASSUME BrowserInv, UNCHANGED <<call, queue, entries, sentOn>>,
           awaited' \subseteq entries \/ awaited' = awaited,
           \A k \in Browser!Socket :
              /\ sock[k] \in {"open", "closing"} => sock'[k] \in {"open", "closing"}
              /\ sock[k] = "closed" => sock'[k] = "closed"
    PROVE  BrowserQueue' /\ BrowserEntries'
<1>1. BrowserQueue /\ BrowserEntries /\ BrowserPlaces
  BY DEF BrowserInv, BrowserTyped
<1>2. BrowserQueue'
  BY <1>1 DEF BrowserQueue, QueueOf
<1>3. ASSUME NEW c \in BrowserCall, sentOn[c] # Browser!None
      PROVE  /\ sock'[sentOn[c]] \in {"open", "closing", "closed"}
             /\ c \in entries => sock'[sentOn[c]] # "closed"
  <2>1. sentOn[c] \in Browser!Socket
    BY <1>1, <1>3 DEF BrowserPlaces
  <2>2. /\ sock[sentOn[c]] \in {"open", "closing", "closed"}
        /\ c \in entries => sock[sentOn[c]] # "closed"
    BY <1>1, <1>3 DEF BrowserEntries
  <2> QED
    BY <2>1, <2>2
<1>4. BrowserEntries'
  BY <1>1, <1>3 DEF BrowserEntries
<1> QED
  BY <1>2, <1>4

LEMMA BrowserCallMade ==
    ASSUME BrowserInv, NEW c \in BrowserCall, Browser!MakesCall(c) PROVE BrowserInv'
<1>1. BrowserPlaces /\ BrowserNumbers /\ BrowserFlags /\ BrowserQueue /\ BrowserEntries
  BY DEF BrowserInv, BrowserTyped
<1>2. /\ call[c] = "new"
      /\ Browser!Drained([call EXCEPT ![c] = "queued"], Append(queue, c))
      /\ UNCHANGED <<entries, sentOn, state, ws, sock, byTimer, attempt, timers, held, closing, closeOn,
                     awaited, crossed, closes>>
  BY DEF Browser!MakesCall, Browser!connVars, Browser!closeVars
<1>3. PICK cs : cs = [call EXCEPT ![c] = "queued"]
  OBVIOUS
<1>4. PICK q : q = Append(queue, c)
  OBVIOUS
<1>5. /\ call \in [BrowserCall -> {"new", "queued", "running", "sent", "done"}]
      /\ queue \in Seq(BrowserCall)
      /\ \A i, j \in 1 .. Len(queue) : queue[i] = queue[j] => i = j
      /\ \A d \in BrowserCall : call[d] = "queued" <=> \E i \in 1 .. Len(queue) : queue[i] = d
      /\ Browser!InSlots(call) \in Nat /\ Browser!InSlots(call) <= Concurrency
  BY <1>1 DEF BrowserQueue, QueueOf
<1>6. PICK l \in Nat : l = Len(queue)
  BY <1>5, LenProperties
<1>7. /\ q \in Seq(BrowserCall) /\ Len(q) = l + 1 /\ q[l + 1] = c
      /\ \A i \in 1 .. l : q[i] = queue[i]
  BY <1>4, <1>5, <1>6, AppendProperties
<1>8. \A i \in 1 .. l + 1 : i = l + 1 \/ i \in 1 .. l
  BY <1>6
<1>9. \A i \in 1 .. l : queue[i] # c
  BY <1>2, <1>5, <1>6
<1>10. QueueOf(cs, q)
  <2>1. cs \in [BrowserCall -> {"new", "queued", "running", "sent", "done"}]
    BY <1>3, <1>5
  <2>2. \A i, j \in 1 .. Len(q) : q[i] = q[j] => i = j
    BY <1>5, <1>6, <1>7, <1>8, <1>9
  <2>3. ASSUME NEW d \in BrowserCall
        PROVE  cs[d] = "queued" <=> \E i \in 1 .. Len(q) : q[i] = d
    <3>1. l + 1 \in 1 .. Len(q) /\ \A i \in 1 .. l : i \in 1 .. Len(q)
      BY <1>6, <1>7
    <3>2. CASE d = c
      BY <1>3, <1>5, <1>7, <3>1, <3>2
    <3>3. CASE d # c
      <4>1. cs[d] = call[d]
        BY <1>3, <1>5, <3>3
      <4> QED
        BY <1>5, <1>6, <1>7, <1>8, <3>1, <3>3, <4>1
    <3> QED
      BY <3>2, <3>3
  <2>4. Browser!InSlots(cs) = Browser!InSlots(call)
    <3>1. {d \in BrowserCall : cs[d] \in {"running", "sent"}}
            = {d \in BrowserCall : call[d] \in {"running", "sent"}}
      BY <1>2, <1>3, <1>5
    <3> QED
      BY <3>1, SlotsCounted
  <2> QED
    BY <1>5, <1>7, <2>1, <2>2, <2>3, <2>4 DEF QueueOf
<1>11. /\ BrowserQueue'
       /\ \A d \in BrowserCall : call'[d] = cs[d] \/ (cs[d] = "queued" /\ call'[d] = "running")
  <2>1. Browser!Drained(cs, q)
    BY <1>2, <1>3, <1>4
  <2> QED
    BY <1>10, <2>1, QueueDrained
<1>12. \A d \in BrowserCall : call'[d] = call[d] \/ (call[d] \in {"new", "queued"} /\ call'[d] \in {"queued", "running"})
  BY <1>2, <1>3, <1>5, <1>11
<1>13. BrowserTyped'
  BY <1>1, <1>2 DEF BrowserTyped, BrowserPlaces, BrowserNumbers, BrowserFlags
<1>14. BrowserEntries'
  <2> SUFFICES ASSUME NEW d \in BrowserCall
               PROVE  /\ call'[d] = "sent" => d \in entries
                      /\ d \in entries => call'[d] \in {"sent", "done"}
                      /\ d \in awaited /\ d \notin entries => call'[d] = "done"
                      /\ sentOn[d] # Browser!None =>
                            /\ call'[d] \in {"sent", "done"}
                            /\ sock[sentOn[d]] \in {"open", "closing", "closed"}
                            /\ d \in entries => sock[sentOn[d]] # "closed"
    BY <1>2 DEF BrowserEntries
  <2> QED
    BY <1>1, <1>12 DEF BrowserEntries
<1>15. ~ crossed' => BrowserState' /\ BrowserLink'
  <2>1. \A d \in awaited : call[d] = "done" => call'[d] = "done"
    BY <1>1, <1>12 DEF BrowserPlaces
  <2> QED
    BY <1>2, <2>1, ConnectionKept
<1> QED
  BY <1>11, <1>13, <1>14, <1>15 DEF BrowserInv

LEMMA BrowserCallSent ==
    ASSUME BrowserInv, NEW c \in BrowserCall, Browser!Sends(c) PROVE BrowserInv'
<1>1. BrowserPlaces /\ BrowserNumbers /\ BrowserFlags /\ BrowserQueue /\ BrowserEntries
  BY DEF BrowserInv, BrowserTyped
<1>2. /\ call[c] = "running" /\ entries' = entries \cup {c}
      /\ \/ Browser!Settled({c}) /\ UNCHANGED sentOn
         \/ /\ call' = [call EXCEPT ![c] = "sent"]
            /\ sentOn' = [sentOn EXCEPT ![c] = IF ws # Browser!None /\ sock[ws] = "open" THEN ws ELSE Browser!None]
            /\ UNCHANGED queue
      /\ UNCHANGED <<state, ws, sock, byTimer, attempt, timers, held, closing, closeOn,
                     awaited, crossed, closes>>
  BY DEF Browser!Sends, Browser!connVars, Browser!closeVars
<1>3. call \in [BrowserCall -> {"new", "queued", "running", "sent", "done"}]
  BY <1>1 DEF BrowserQueue, QueueOf
<1>4. /\ BrowserQueue'
      /\ \A d \in BrowserCall : d # c =>
            call'[d] = call[d] \/ (call[d] = "queued" /\ call'[d] = "running")
      /\ call'[c] \in {"sent", "done"}
  <2>1. CASE Browser!Settled({c})
    BY <1>1, <1>2, <2>1, CallsSettled
  <2>2. CASE call' = [call EXCEPT ![c] = "sent"] /\ UNCHANGED queue
    <3>1. {d \in BrowserCall : call'[d] \in {"running", "sent"}}
            = {d \in BrowserCall : call[d] \in {"running", "sent"}}
      BY <1>2, <1>3, <2>2
    <3>2. Browser!InSlots(call') = Browser!InSlots(call)
      BY <3>1, SlotsCounted
    <3>3. /\ call' \in [BrowserCall -> {"new", "queued", "running", "sent", "done"}]
          /\ \A d \in BrowserCall : call'[d] = "queued" <=> call[d] = "queued"
      BY <1>2, <1>3, <2>2
    <3>4. QueueOf(call', queue')
      BY <1>1, <2>2, <3>2, <3>3 DEF BrowserQueue, QueueOf
    <3>5. BrowserQueue'
      BY <1>1, <2>2, <3>2, <3>4 DEF BrowserQueue
    <3> QED
      BY <1>3, <2>2, <3>5
  <2> QED
    BY <1>2, <2>1, <2>2
<1>5. /\ \A d \in BrowserCall : d # c => sentOn'[d] = sentOn[d]
      /\ sentOn'[c] = Browser!None \/ (sentOn'[c] = ws /\ ws \in Browser!Socket /\ sock[ws] = "open")
      /\ sentOn' \in [BrowserCall -> Browser!Socket \cup {Browser!None}]
  <2>1. sentOn[c] = Browser!None
    BY <1>1, <1>2 DEF BrowserEntries
  <2> QED
    BY <1>1, <1>2, <2>1 DEF BrowserPlaces
<1>6. BrowserTyped'
  <2>1. BrowserPlaces'
    BY <1>1, <1>2, <1>5 DEF BrowserPlaces
  <2> QED
    BY <1>1, <1>2, <2>1 DEF BrowserTyped, BrowserNumbers, BrowserFlags
<1>7. BrowserEntries'
  <2> SUFFICES ASSUME NEW d \in BrowserCall
               PROVE  /\ call'[d] = "sent" => d \in entries'
                      /\ d \in entries' => call'[d] \in {"sent", "done"}
                      /\ d \in awaited /\ d \notin entries' => call'[d] = "done"
                      /\ sentOn'[d] # Browser!None =>
                            /\ call'[d] \in {"sent", "done"}
                            /\ sock[sentOn'[d]] \in {"open", "closing", "closed"}
                            /\ d \in entries' => sock[sentOn'[d]] # "closed"
    BY <1>2 DEF BrowserEntries
  <2>1. CASE d = c
    BY <1>2, <1>4, <1>5, <2>1
  <2>2. CASE d # c
    BY <1>1, <1>2, <1>4, <1>5, <2>2 DEF BrowserEntries
  <2> QED
    BY <2>1, <2>2
<1>8. ~ crossed' => BrowserState' /\ BrowserLink'
  <2>1. \A d \in awaited : d \notin entries /\ call[d] = "done" => d \notin entries' /\ call'[d] = "done"
    BY <1>1, <1>2, <1>4 DEF BrowserPlaces
  <2> QED
    BY <1>2, <2>1, ConnectionKept
<1> QED
  BY <1>4, <1>6, <1>7, <1>8 DEF BrowserInv

(* An answer, a timeout or an abort.                                       *)
LEMMA BrowserCallEnds ==
    ASSUME BrowserInv, NEW c \in BrowserCall, Browser!Answered(c) \/ Browser!GivesUp(c) PROVE BrowserInv'
<1>1. BrowserPlaces /\ BrowserNumbers /\ BrowserFlags /\ BrowserQueue /\ BrowserEntries
  BY DEF BrowserInv, BrowserTyped
<1>2. /\ c \in entries /\ entries' = entries \ {c} /\ Browser!Settled({c})
      /\ awaited' = awaited \ {c} \/ awaited' = awaited
      /\ UNCHANGED <<sentOn, state, ws, sock, byTimer, attempt, timers, held, closing, closeOn,
                     crossed, closes>>
  BY DEF Browser!Answered, Browser!GivesUp, Browser!connVars, Browser!closeVars
<1>3. call[c] \in {"sent", "done"}
  BY <1>1, <1>2 DEF BrowserEntries
<1>4. /\ BrowserQueue' /\ call'[c] = "done"
      /\ \A d \in BrowserCall : d # c =>
            call'[d] = call[d] \/ (call[d] = "queued" /\ call'[d] = "running")
  BY <1>1, <1>2, <1>3, CallsSettled
<1>5. BrowserTyped'
  <2>1. BrowserPlaces'
    BY <1>1, <1>2 DEF BrowserPlaces
  <2> QED
    BY <1>1, <1>2, <2>1 DEF BrowserTyped, BrowserNumbers, BrowserFlags
<1>6. BrowserEntries'
  <2> SUFFICES ASSUME NEW d \in BrowserCall
               PROVE  /\ call'[d] = "sent" => d \in entries'
                      /\ d \in entries' => call'[d] \in {"sent", "done"}
                      /\ d \in awaited' /\ d \notin entries' => call'[d] = "done"
                      /\ sentOn[d] # Browser!None =>
                            /\ call'[d] \in {"sent", "done"}
                            /\ sock[sentOn[d]] \in {"open", "closing", "closed"}
                            /\ d \in entries' => sock[sentOn[d]] # "closed"
    BY <1>2 DEF BrowserEntries
  <2>1. CASE d = c
    BY <1>1, <1>2, <1>4, <2>1 DEF BrowserEntries
  <2>2. CASE d # c
    BY <1>1, <1>2, <1>4, <2>2 DEF BrowserEntries
  <2> QED
    BY <2>1, <2>2
<1>7. ~ crossed' => BrowserState' /\ BrowserLink'
  <2>1. \A d \in awaited : d \notin entries /\ call[d] = "done" =>
           d \in awaited' /\ d \notin entries' /\ call'[d] = "done"
    BY <1>1, <1>2, <1>4 DEF BrowserPlaces
  <2>2. awaited' \subseteq awaited
    BY <1>2
  <2> QED
    BY <1>2, <2>1, <2>2, ConnectionKept
<1> QED
  BY <1>4, <1>5, <1>6, <1>7 DEF BrowserInv

(* A new socket: by connect(), or by the timer.                            *)
LEMMA BrowserConnects ==
    ASSUME BrowserInv, ~ Browser!CloseDue, NEW k \in Browser!Socket,
           Browser!Connect(k) \/ Browser!TimerFires(k)
    PROVE  BrowserInv'
<1>1. BrowserPlaces /\ BrowserNumbers /\ BrowserFlags
  BY DEF BrowserInv, BrowserTyped
<1>2. /\ sock[k] = "new" /\ sock' = [sock EXCEPT ![k] = "connecting"] /\ ws' = k
      /\ \/ state = "closed" /\ attempt' = 0 /\ UNCHANGED <<byTimer, timers, held>>
         \/ /\ timers > 0 /\ timers' = timers - 1 /\ ~ held' /\ byTimer' = byTimer \cup {k}
            /\ UNCHANGED <<state, attempt>>
      /\ state' = "connecting" \/ (timers > 0 /\ UNCHANGED state)
      /\ UNCHANGED <<closing, closeOn, awaited, crossed, closes, call, queue, entries, sentOn>>
  BY DEF Browser!Connect, Browser!TimerFires, Browser!MakesSocket, Browser!closeVars, Browser!callVars
<1>3. k # Browser!None
  BY BrowserAssumption DEF Browser!Socket, Browser!None
<1>4. /\ sock' \in [Browser!Socket -> {"new", "connecting", "open", "closing", "aborting", "closed"}]
      /\ sock'[k] = "connecting" /\ \A j \in Browser!Socket : j # k => sock'[j] = sock[j]
  BY <1>1, <1>2 DEF BrowserPlaces
<1>5. BrowserPlaces'
  BY <1>1, <1>2, <1>4 DEF BrowserPlaces
<1>6. BrowserNumbers'
  <2>1. CASE state = "closed" /\ attempt' = 0 /\ UNCHANGED <<byTimer, timers, held>>
    BY <1>1, <1>2, <2>1, BrowserAssumption DEF BrowserNumbers
  <2>2. CASE timers > 0 /\ timers' = timers - 1 /\ ~ held' /\ UNCHANGED attempt
    BY <1>1, <1>2, <2>2 DEF BrowserNumbers
  <2> QED
    BY <1>2, <2>1, <2>2
<1>7. BrowserFlags'
  BY <1>1, <1>2, Zenon DEF BrowserFlags, Browser!Connect, Browser!TimerFires
<1>8. BrowserQueue' /\ BrowserEntries'
  <2>1. awaited' \subseteq entries \/ awaited' = awaited
    BY <1>2
  <2> QED
    BY <1>2, <1>4, <2>1, CallsKept
<1>9. ASSUME ~ crossed' PROVE BrowserState' /\ BrowserLink'
  <2>1. BrowserState /\ BrowserLink
    BY <1>2, <1>9 DEF BrowserInv
  <2>2. /\ state' = "connecting" /\ state \in {"closed", "connecting"}
        /\ Browser!SocketGone /\ timers \in Nat /\ timers' \in Nat /\ ~(timers' > 0)
    BY <1>1, <1>2, <2>1 DEF BrowserState, BrowserNumbers
  <2>3. \A j \in Browser!Socket : AtRest(j)
    BY <2>1, <2>2, BrowserAssumption
       DEF BrowserState, Browser!SocketGone, AtRest, Browser!Socket, Browser!None
  <2>4. closing # "socket" /\ (closing = "calls" => GivenUp)
    BY <1>1, <2>1, <2>2 DEF BrowserState, Browser!CloseDue
  <2>5. closing' = "calls" => GivenUp'
    BY <1>2, <2>4 DEF GivenUp
  <2>6. \A j \in Browser!Socket : j # ws' => AtRest(j)'
    BY <1>2, <1>4, <2>3 DEF AtRest
  <2>7. Browser!InHandshake'
    BY <1>2, <1>3, <1>4 DEF Browser!InHandshake
  <2>8. BrowserState'
    BY <1>2, <1>4, <2>2, <2>4, <2>5, <2>6, <2>7 DEF BrowserState
  <2>9. BrowserLink'
    BY <1>2, <1>4, <2>2 DEF BrowserLink
  <2> QED
    BY <2>8, <2>9
<1> QED
  BY <1>5, <1>6, <1>7, <1>8, <1>9 DEF BrowserInv, BrowserTyped

(* The handshake succeeds.                                                 *)
LEMMA BrowserOpens ==
    ASSUME BrowserInv, ~ Browser!CloseDue, NEW k \in Browser!Socket, Browser!Opens(k)
    PROVE  BrowserInv'
<1>1. BrowserPlaces /\ BrowserNumbers /\ BrowserFlags
  BY DEF BrowserInv, BrowserTyped
<1>2. /\ sock[k] = "connecting" /\ sock' = [sock EXCEPT ![k] = "open"]
      /\ state' = "open" /\ attempt' = 0
      /\ UNCHANGED <<ws, byTimer, timers, held, closing, closeOn, awaited, crossed, closes,
                     call, queue, entries, sentOn>>
  BY DEF Browser!Opens, Browser!closeVars, Browser!callVars
<1>3. /\ sock' \in [Browser!Socket -> {"new", "connecting", "open", "closing", "aborting", "closed"}]
      /\ sock'[k] = "open" /\ \A j \in Browser!Socket : j # k => sock'[j] = sock[j]
  BY <1>1, <1>2 DEF BrowserPlaces
<1>4. BrowserPlaces'
  BY <1>1, <1>2, <1>3 DEF BrowserPlaces
<1>5. BrowserNumbers'
  BY <1>1, <1>2, BrowserAssumption DEF BrowserNumbers
<1>6. BrowserFlags'
  BY <1>1, <1>2 DEF BrowserFlags
<1>7. BrowserQueue' /\ BrowserEntries'
  <2>1. awaited' \subseteq entries \/ awaited' = awaited
    BY <1>2
  <2> QED
    BY <1>2, <1>3, <2>1, CallsKept
<1>8. ASSUME ~ crossed' PROVE BrowserState' /\ BrowserLink'
  <2>1. BrowserState /\ BrowserLink
    BY <1>2, <1>8 DEF BrowserInv
  <2>2. k = ws /\ ws # Browser!None /\ state = "connecting" /\ ~ Browser!SocketGone
    <3>1. k = ws /\ k # Browser!None
      BY <1>2, <2>1, BrowserAssumption DEF BrowserState, AtRest, Browser!Socket, Browser!None
    <3> QED
      BY <1>2, <2>1, <3>1 DEF BrowserLink, Browser!SocketGone
  <2>3. ~(timers > 0)
    BY <2>1, <2>2 DEF BrowserState
  <2>4. closing # "socket" /\ (closing = "calls" => GivenUp)
    BY <2>1, <2>2 DEF BrowserState
  <2>5. closing' = "calls" => GivenUp'
    BY <1>2, <2>4 DEF GivenUp
  <2>6. \A j \in Browser!Socket : j # ws' => AtRest(j)'
    BY <1>2, <1>3, <2>1, <2>2 DEF BrowserState, AtRest
  <2>7. BrowserState'
    BY <1>2, <1>3, <2>2, <2>3, <2>4, <2>5, <2>6 DEF BrowserState
  <2>8. BrowserLink'
    BY <1>2, <1>3, <2>2 DEF BrowserLink
  <2> QED
    BY <2>7, <2>8
<1> QED
  BY <1>4, <1>5, <1>6, <1>7, <1>8 DEF BrowserInv, BrowserTyped

(* What a lost connection or handshake leads to.                           *)
LEMMA LossIsTrue ==
    ASSUME BrowserInv, NEW k \in Browser!Socket, sock[k] \notin {"new", "closed"}, ~ crossed,
           sock' = [sock EXCEPT ![k] = "closed"], NEW again \in BOOLEAN, Browser!AfterLoss(k, again),
           again => state \in {"open", "connecting"}, UNCHANGED byTimer,
           GivenUp => GivenUp',
           closing = "calls" /\ state = "closing" => awaited' = {} \/ GivenUp'
    PROVE  BrowserState' /\ BrowserLink'
<1>1. BrowserPlaces /\ BrowserNumbers /\ BrowserFlags /\ BrowserState /\ BrowserLink
  BY DEF BrowserInv, BrowserTyped
<1>2. /\ sock'[k] = "closed" /\ \A j \in Browser!Socket : j # k => sock'[j] = sock[j]
  BY <1>1 DEF BrowserPlaces
<1>3. k = ws /\ ws # Browser!None /\ ~ Browser!SocketGone
  <2>1. k = ws /\ k # Browser!None
    BY <1>1, BrowserAssumption DEF BrowserState, AtRest, Browser!Socket, Browser!None
  <2> QED
    BY <1>1, <2>1 DEF Browser!SocketGone
<1>4. ~(timers > 0) /\ timers = 0 /\ state # "closed"
  <2>1. ~(timers > 0) /\ state # "closed"
    BY <1>1, <1>3 DEF BrowserState
  <2> QED
    BY <1>1, <2>1 DEF BrowserNumbers
<1>5. \A j \in Browser!Socket : AtRest(j)'
  BY <1>1, <1>2, <1>3 DEF BrowserState, AtRest
<1>6. CASE closing = "socket"
  <2>1. closeOn = k /\ state = "closing" /\ ~ again
    BY <1>1, <1>3, <1>6 DEF BrowserState
  <2>2. /\ state' = "closed" /\ UNCHANGED timers /\ closing' = "none" /\ ws' = Browser!None
    BY <1>6, <2>1 DEF Browser!AfterLoss, Browser!FinishesClose
  <2>3. Browser!SocketGone'
    BY <2>2 DEF Browser!SocketGone
  <2>4. BrowserState'
    BY <1>4, <1>5, <2>2, <2>3 DEF BrowserState
  <2>5. BrowserLink'
    BY <2>2 DEF BrowserLink
  <2> QED
    BY <2>4, <2>5
<1>7. CASE closing # "socket"
  <2>1. /\ UNCHANGED <<ws, closing, closeOn>>
        /\ state' = IF again THEN "connecting" ELSE "closed"
    BY <1>7 DEF Browser!AfterLoss
  <2>2. Browser!SocketGone' /\ (ws' # Browser!None => sock'[ws'] = "closed")
    BY <1>2, <1>3, <2>1 DEF Browser!SocketGone
  <2>3. CASE again
    <3>1. timers' = 1 /\ held'
      BY <1>4, <2>3 DEF Browser!AfterLoss
    <3>2. closing' = "calls" => GivenUp'
      BY <1>1, <2>1, <2>3, <1>4 DEF BrowserState
    <3>3. state' = "connecting"
      BY <2>1, <2>3
    <3>4. BrowserState'
      BY <1>5, <1>7, <2>1, <2>2, <3>1, <3>2, <3>3 DEF BrowserState
    <3> QED
      BY <2>2, <3>4 DEF BrowserLink
  <2>4. CASE ~ again
    <3>1. timers' = 0
      BY <1>4, <2>4 DEF Browser!AfterLoss
    <3>2. closing' = "calls" => GivenUp' \/ awaited' = {}
      BY <1>1, <1>4, <2>1 DEF BrowserState
    <3>3. state' = "closed"
      BY <2>1, <2>4
    <3>4. BrowserState'
      BY <1>5, <1>7, <2>1, <2>2, <3>1, <3>2, <3>3 DEF BrowserState
    <3> QED
      BY <2>2, <3>4 DEF BrowserLink
  <2> QED
    BY <2>3, <2>4
<1> QED
  BY <1>6, <1>7

LEMMA LossIsTyped ==
    ASSUME BrowserInv, NEW k \in Browser!Socket, NEW again \in BOOLEAN, Browser!AfterLoss(k, again),
           again => attempt < MaxReconnects, UNCHANGED <<crossed, closes>>
    PROVE  /\ BrowserNumbers' /\ BrowserFlags' /\ state' \in {"closed", "connecting"}
           /\ ws' \in {ws, Browser!None} /\ closeOn' \in {closeOn, Browser!None}
           /\ closing' \in {closing, "none"}
<1>1. BrowserNumbers /\ BrowserFlags
  BY DEF BrowserInv, BrowserTyped
<1>2. CASE again
  <2>1. attempt' = attempt + 1 /\ timers' = timers + 1 /\ held' = TRUE
    BY <1>2 DEF Browser!AfterLoss
  <2>2. BrowserNumbers'
    BY <1>1, <1>2, <2>1, BrowserAssumption DEF BrowserNumbers
  <2>3. BrowserFlags'
    BY <1>1, <2>1 DEF BrowserFlags
  <2> QED
    BY <2>2, <2>3 DEF Browser!AfterLoss, Browser!FinishesClose
<1>3. CASE ~ again
  <2>1. UNCHANGED <<attempt, timers, held>>
    BY <1>3 DEF Browser!AfterLoss
  <2>2. BrowserNumbers' /\ BrowserFlags'
    BY <1>1, <2>1 DEF BrowserNumbers, BrowserFlags
  <2> QED
    BY <2>2 DEF Browser!AfterLoss, Browser!FinishesClose
<1> QED
  BY <1>2, <1>3

(* The handshake fails, or is cut off.                                     *)
LEMMA BrowserFails ==
    ASSUME BrowserInv, NEW k \in Browser!Socket, Browser!Fails(k)
    PROVE  BrowserInv'
<1>1. BrowserPlaces /\ BrowserNumbers /\ BrowserFlags
  BY DEF BrowserInv, BrowserTyped
<1>2. PICK again \in BOOLEAN : again <=> k \in byTimer /\ attempt < MaxReconnects
  OBVIOUS
<1>3. /\ sock[k] \in {"connecting", "aborting"} /\ sock' = [sock EXCEPT ![k] = "closed"]
      /\ UNCHANGED <<byTimer, awaited, crossed, closes, call, queue, entries, sentOn>>
  BY DEF Browser!Fails, Browser!callVars
<1>4. Browser!AfterLoss(k, again)
  <2>1. Browser!AfterLoss(k, k \in byTimer /\ attempt < MaxReconnects)
    BY DEF Browser!Fails
  <2> QED
    BY <1>2, <2>1 DEF Browser!AfterLoss
<1>5. /\ sock' \in [Browser!Socket -> {"new", "connecting", "open", "closing", "aborting", "closed"}]
      /\ sock'[k] = "closed" /\ \A j \in Browser!Socket : j # k => sock'[j] = sock[j]
  BY <1>1, <1>3 DEF BrowserPlaces
<1>6. /\ BrowserNumbers' /\ BrowserFlags' /\ state' \in {"closed", "connecting"}
      /\ ws' \in {ws, Browser!None} /\ closeOn' \in {closeOn, Browser!None}
      /\ closing' \in {closing, "none"}
  BY <1>2, <1>3, <1>4, LossIsTyped
<1>7. BrowserPlaces'
  BY <1>1, <1>3, <1>5, <1>6 DEF BrowserPlaces
<1>8. BrowserQueue' /\ BrowserEntries'
  <2>1. awaited' \subseteq entries \/ awaited' = awaited
    BY <1>3
  <2> QED
    BY <1>3, <1>5, <2>1, CallsKept
<1>9. ASSUME ~ crossed' PROVE BrowserState' /\ BrowserLink'
  <2>1. BrowserState /\ BrowserLink /\ ~ crossed
    BY <1>3, <1>9 DEF BrowserInv
  <2>2. k = ws /\ ws # Browser!None
    BY <1>3, <2>1, BrowserAssumption DEF BrowserState, AtRest, Browser!Socket, Browser!None
  <2>3. again => state = "connecting"
    BY <1>2, <1>3, <2>1, <2>2 DEF BrowserLink
  <2>4. ~(closing = "calls" /\ state = "closing")
    BY <1>3, <2>1, <2>2 DEF BrowserLink
  <2>5. GivenUp => GivenUp'
    BY <1>3 DEF GivenUp
  <2>6. sock[k] \notin {"new", "closed"}
    BY <1>3
  <2> QED
    BY <1>3, <1>4, <2>1, <2>3, <2>4, <2>5, <2>6, LossIsTrue
<1> QED
  BY <1>6, <1>7, <1>8, <1>9 DEF BrowserInv, BrowserTyped

(* A connection ends: every call that waits for an answer is told.         *)
LEMMA BrowserEnds ==
    ASSUME BrowserInv, NEW k \in Browser!Socket, Browser!Ends(k)
    PROVE  BrowserInv'
<1>1. BrowserPlaces /\ BrowserNumbers /\ BrowserFlags /\ BrowserQueue /\ BrowserEntries
  BY DEF BrowserInv, BrowserTyped
<1>2. PICK again \in BOOLEAN : again <=> state # "closing" /\ attempt < MaxReconnects
  OBVIOUS
<1>3. /\ sock[k] \in {"open", "closing"} /\ sock' = [sock EXCEPT ![k] = "closed"]
      /\ entries' = {} /\ awaited' = awaited \ entries /\ Browser!Settled(entries)
      /\ UNCHANGED <<byTimer, crossed, closes, sentOn>>
  BY DEF Browser!Ends, Browser!RejectsPending
<1>4. Browser!AfterLoss(k, again)
  <2>1. Browser!AfterLoss(k, state # "closing" /\ attempt < MaxReconnects)
    BY DEF Browser!Ends
  <2> QED
    BY <1>2, <2>1 DEF Browser!AfterLoss
<1>5. /\ sock' \in [Browser!Socket -> {"new", "connecting", "open", "closing", "aborting", "closed"}]
      /\ sock'[k] = "closed" /\ \A j \in Browser!Socket : j # k => sock'[j] = sock[j]
  BY <1>1, <1>3 DEF BrowserPlaces
<1>6. /\ BrowserNumbers' /\ BrowserFlags' /\ state' \in {"closed", "connecting"}
      /\ ws' \in {ws, Browser!None} /\ closeOn' \in {closeOn, Browser!None}
      /\ closing' \in {closing, "none"}
  BY <1>2, <1>3, <1>4, LossIsTyped
<1>7. BrowserPlaces'
  BY <1>1, <1>3, <1>5, <1>6 DEF BrowserPlaces
<1>8. /\ BrowserQueue'
      /\ \A c \in BrowserCall : c \in entries => call'[c] = "done"
      /\ \A c \in BrowserCall : c \notin entries =>
            call'[c] = call[c] \/ (call[c] = "queued" /\ call'[c] = "running")
  <2>1. \A c \in entries : c \in BrowserCall /\ call[c] \in {"running", "sent", "done"}
    BY <1>1 DEF BrowserEntries, BrowserPlaces
  <2> QED
    BY <1>1, <1>3, <2>1, CallsSettled
<1>9. BrowserEntries'
  <2> SUFFICES ASSUME NEW c \in BrowserCall
               PROVE  /\ call'[c] # "sent"
                      /\ c \in awaited' => call'[c] = "done"
                      /\ sentOn[c] # Browser!None =>
                            /\ call'[c] \in {"sent", "done"}
                            /\ sock'[sentOn[c]] \in {"open", "closing", "closed"}
    BY <1>3 DEF BrowserEntries
  <2>1. call'[c] # "sent" /\ (c \in awaited' => call'[c] = "done")
    BY <1>1, <1>3, <1>8 DEF BrowserEntries
  <2>2. ASSUME sentOn[c] # Browser!None
        PROVE  /\ call'[c] \in {"sent", "done"}
               /\ sock'[sentOn[c]] \in {"open", "closing", "closed"}
    <3>1. sentOn[c] \in Browser!Socket
      BY <1>1, <2>2 DEF BrowserPlaces
    <3>2. call[c] \in {"sent", "done"} /\ sock[sentOn[c]] \in {"open", "closing", "closed"}
      BY <1>1, <2>2 DEF BrowserEntries
    <3> QED
      BY <1>5, <1>8, <3>1, <3>2
  <2> QED
    BY <2>1, <2>2
<1>10. ASSUME ~ crossed' PROVE BrowserState' /\ BrowserLink'
  <2>1. BrowserState /\ BrowserLink /\ ~ crossed
    BY <1>3, <1>10 DEF BrowserInv
  <2>2. k = ws /\ ws # Browser!None
    BY <1>3, <2>1, BrowserAssumption DEF BrowserState, AtRest, Browser!Socket, Browser!None
  <2>3. again => state \in {"open", "connecting"}
    BY <1>1, <1>2, <1>3, <2>1, <2>2 DEF BrowserLink, BrowserState
  <2>4. \A c \in awaited' : c \in awaited /\ c \notin entries' /\ call'[c] = "done"
    BY <1>1, <1>3, <1>8 DEF BrowserEntries, BrowserPlaces
  <2>5. GivenUp => GivenUp'
    BY <1>3, <2>4 DEF GivenUp
  <2>6. awaited' = {} \/ GivenUp'
    BY <2>4 DEF GivenUp
  <2>7. sock[k] \notin {"new", "closed"} /\ UNCHANGED byTimer
    BY <1>3
  <2> QED
    BY <1>3, <1>4, <2>1, <2>3, <2>5, <2>6, <2>7, LossIsTrue
<1> QED
  BY <1>6, <1>7, <1>8, <1>9, <1>10 DEF BrowserInv, BrowserTyped

(* The second half of close(): what it does to the sockets.                *)
LEMMA SocketsClosed ==
    ASSUME BrowserPlaces, Browser!ClosesSocket
    PROVE  /\ sock' \in [Browser!Socket -> {"new", "connecting", "open", "closing", "aborting", "closed"}]
           /\ \A k \in Browser!Socket :
                 /\ sock[k] \in {"open", "closing"} => sock'[k] \in {"open", "closing"}
                 /\ sock[k] = "closed" => sock'[k] = "closed"
           /\ state' \in {"closed", "closing"} /\ closing' \in {"none", "socket"}
           /\ ws' \in {ws, Browser!None} /\ closeOn' \in {ws, Browser!None}
<1>1. CASE Browser!SocketGone
  BY <1>1 DEF Browser!ClosesSocket, Browser!FinishesClose, BrowserPlaces
<1>2. CASE ~ Browser!SocketGone
  <2>1. ws \in Browser!Socket
    BY <1>2 DEF Browser!SocketGone, BrowserPlaces
  <2>2. /\ state' = "closing" /\ closing' = "socket" /\ closeOn' = ws /\ UNCHANGED ws
        /\ sock' = [sock EXCEPT ![ws] = CASE @ = "open"       -> "closing"
                                          [] @ = "connecting" -> "aborting"
                                          [] OTHER            -> @]
    BY <1>2 DEF Browser!ClosesSocket
  <2>3. /\ \A k \in Browser!Socket : k # ws => sock'[k] = sock[k]
        /\ sock[ws] = "open" => sock'[ws] = "closing"
        /\ sock[ws] = "connecting" => sock'[ws] = "aborting"
        /\ sock[ws] \notin {"open", "connecting"} => sock'[ws] = sock[ws]
    BY <2>1, <2>2 DEF BrowserPlaces
  <2>4. \A k \in Browser!Socket :
           sock'[k] \in {"new", "connecting", "open", "closing", "aborting", "closed"}
    BY <2>1, <2>3 DEF BrowserPlaces
  <2>5. sock' \in [Browser!Socket -> {"new", "connecting", "open", "closing", "aborting", "closed"}]
    BY <2>2, <2>4 DEF BrowserPlaces
  <2>6. \A k \in Browser!Socket :
           /\ sock[k] \in {"open", "closing"} => sock'[k] \in {"open", "closing"}
           /\ sock[k] = "closed" => sock'[k] = "closed"
    BY <2>3
  <2> QED
    BY <2>2, <2>5, <2>6
<1> QED
  BY <1>1, <1>2

(* It leaves a client that is closed, or a socket that reports its end.    *)
LEMMA CloseIsTrue ==
    ASSUME BrowserPlaces, BrowserState, BrowserLink, Browser!ClosesSocket, closing # "socket",
           UNCHANGED byTimer, timers' = 0, ws # Browser!None /\ sock[ws] = "connecting" => ws \notin byTimer
    PROVE  BrowserState' /\ BrowserLink'
<1>1. CASE Browser!SocketGone
  <2>1. \A k \in Browser!Socket : AtRest(k)
    BY <1>1, BrowserAssumption
       DEF BrowserState, Browser!SocketGone, AtRest, Browser!Socket, Browser!None
  <2>2. state' = "closed" /\ closing' = "none" /\ ws' = Browser!None /\ sock' = sock
    BY <1>1 DEF Browser!ClosesSocket, Browser!FinishesClose
  <2>3. Browser!SocketGone' /\ \A k \in Browser!Socket : AtRest(k)'
    BY <2>1, <2>2 DEF Browser!SocketGone, AtRest
  <2>4. BrowserState'
    BY <2>2, <2>3 DEF BrowserState
  <2>5. BrowserLink'
    BY <2>2 DEF BrowserLink
  <2> QED
    BY <2>4, <2>5
<1>2. CASE ~ Browser!SocketGone
  <2>1. ws \in Browser!Socket /\ ws # Browser!None /\ sock[ws] \in {"connecting", "open"}
    <3>1. ws \in Browser!Socket /\ ws # Browser!None /\ sock[ws] # "closed"
      BY <1>2 DEF Browser!SocketGone, BrowserPlaces
    <3>2. sock[ws] \in {"new", "connecting", "open", "closing", "aborting", "closed"}
      BY <3>1 DEF BrowserPlaces
    <3> QED
      BY <3>1, <3>2 DEF BrowserState, BrowserLink
  <2>2. /\ state' = "closing" /\ closing' = "socket" /\ closeOn' = ws /\ UNCHANGED ws
        /\ sock' = [sock EXCEPT ![ws] = CASE @ = "open"       -> "closing"
                                          [] @ = "connecting" -> "aborting"
                                          [] OTHER            -> @]
    BY <1>2 DEF Browser!ClosesSocket
  <2>3. /\ \A k \in Browser!Socket : k # ws => sock'[k] = sock[k]
        /\ sock[ws] = "open" => sock'[ws] = "closing"
        /\ sock[ws] = "connecting" => sock'[ws] = "aborting"
    BY <2>1, <2>2 DEF BrowserPlaces
  <2>4. sock'[ws'] \in {"closing", "aborting"} /\ (sock'[ws'] = "aborting" => ws' \notin byTimer')
    BY <2>1, <2>2, <2>3
  <2>5. ~ Browser!SocketGone' /\ \A k \in Browser!Socket : k # ws' => AtRest(k)'
    BY <2>1, <2>2, <2>3, <2>4 DEF Browser!SocketGone, BrowserState, AtRest
  <2>6. BrowserState'
    BY <2>2, <2>4, <2>5 DEF BrowserState
  <2>7. BrowserLink'
    BY <2>2, <2>4 DEF BrowserLink
  <2> QED
    BY <2>6, <2>7
<1> QED
  BY <1>1, <1>2

(* close(), which may wait for the calls first.                            *)
LEMMA BrowserCloses ==
    ASSUME BrowserInv, NEW waits \in BOOLEAN, Browser!Close(waits)
    PROVE  BrowserInv'
<1>1. BrowserPlaces /\ BrowserNumbers /\ BrowserFlags
  BY DEF BrowserInv, BrowserTyped
<1>2. /\ closes < MaxCloses /\ closes' = closes + 1 /\ closing = "none" /\ state # "closed"
      /\ timers' = (IF held THEN timers - 1 ELSE timers) /\ held' = FALSE
      /\ awaited' \subseteq entries
      /\ UNCHANGED <<byTimer, attempt, call, queue, entries, sentOn>>
  BY DEF Browser!Close, Browser!callVars
<1>3. crossed' = (crossed \/ (Browser!InHandshake /\ (ws \in byTimer \/ awaited' # {})))
  BY DEF Browser!Close
<1>4. \/ Browser!ClosesSocket /\ awaited' = {}
      \/ /\ state' = "closing" /\ closing' = "calls" /\ awaited' # {}
         /\ UNCHANGED <<closeOn, ws, sock>>
  BY DEF Browser!Close
<1>5. /\ sock' \in [Browser!Socket -> {"new", "connecting", "open", "closing", "aborting", "closed"}]
      /\ \A k \in Browser!Socket :
            /\ sock[k] \in {"open", "closing"} => sock'[k] \in {"open", "closing"}
            /\ sock[k] = "closed" => sock'[k] = "closed"
      /\ state' \in {"closed", "closing"} /\ closing' \in {"none", "calls", "socket"}
      /\ ws' \in {ws, Browser!None} /\ closeOn' \in {closeOn, ws, Browser!None}
  <2>1. CASE Browser!ClosesSocket
    BY <1>1, <2>1, SocketsClosed
  <2>2. CASE state' = "closing" /\ closing' = "calls" /\ UNCHANGED <<closeOn, ws, sock>>
    BY <1>1, <2>2 DEF BrowserPlaces
  <2> QED
    BY <1>4, <2>1, <2>2
<1>6. BrowserPlaces'
  BY <1>1, <1>2, <1>5 DEF BrowserPlaces
<1>7. BrowserNumbers'
  BY <1>1, <1>2, BrowserAssumption DEF BrowserNumbers
<1>8. BrowserFlags'
  <2>1. crossed' \in BOOLEAN
    BY ONLY <1>3, Zenon
  <2> QED
    BY <1>2, <2>1 DEF BrowserFlags
<1>9. BrowserQueue' /\ BrowserEntries'
  BY <1>2, <1>5, CallsKept
<1>10. ASSUME ~ crossed' PROVE BrowserState' /\ BrowserLink'
  <2>1. ~ crossed /\ ~(Browser!InHandshake /\ (ws \in byTimer \/ awaited' # {}))
    BY <1>3, <1>10
  <2>2. BrowserState /\ BrowserLink
    BY <2>1 DEF BrowserInv
  <2>3. timers' = 0
    <3>1. timers \in Nat /\ (held => timers > 0) /\ (timers > 0 => held /\ timers = 1)
      BY <1>1, <2>2 DEF BrowserNumbers, BrowserState
    <3>2. CASE held
      BY <1>2, <3>1, <3>2
    <3>3. CASE ~ held
      BY <1>2, <3>1, <3>3
    <3> QED
      BY <3>2, <3>3
  <2>4. CASE Browser!ClosesSocket
    <3>1. ws # Browser!None /\ sock[ws] = "connecting" => ws \notin byTimer
      BY <2>1 DEF Browser!InHandshake
    <3> QED
      BY <1>1, <1>2, <2>2, <2>3, <2>4, <3>1, CloseIsTrue
  <2>5. CASE state' = "closing" /\ closing' = "calls" /\ awaited' # {} /\ UNCHANGED <<closeOn, ws, sock>>
    <3>1. ~ Browser!InHandshake
      BY <2>1, <2>5
    <3>2. \A k \in Browser!Socket : k # ws' => AtRest(k)'
      BY <2>2, <2>5 DEF BrowserState, AtRest
    <3>3. ws' # Browser!None => sock'[ws'] # "new" /\ sock'[ws'] # "connecting"
      BY <2>2, <2>5, <3>1 DEF BrowserState, Browser!InHandshake
    <3>4. BrowserState'
      BY <2>3, <2>5, <3>2, <3>3 DEF BrowserState
    <3>5. BrowserLink'
      BY <1>2, <2>2, <2>5, <3>3 DEF BrowserLink
    <3> QED
      BY <3>4, <3>5
  <2> QED
    BY <1>4, <2>4, <2>5
<1> QED
  BY <1>6, <1>7, <1>8, <1>9, <1>10 DEF BrowserInv, BrowserTyped

(* The calls have been heard of, and none of them was given up.            *)
LEMMA BrowserCloseGoesOn == BrowserInv /\ Browser!CloseGoesOn => BrowserInv'
<1> SUFFICES ASSUME BrowserInv, Browser!CloseGoesOn PROVE BrowserInv'
  OBVIOUS
<1>1. BrowserPlaces /\ BrowserNumbers /\ BrowserFlags
  BY DEF BrowserInv, BrowserTyped
<1>2. /\ closing = "calls" /\ awaited = {} /\ Browser!ClosesSocket
      /\ UNCHANGED <<byTimer, attempt, timers, held, awaited, crossed, closes,
                     call, queue, entries, sentOn>>
  BY DEF Browser!CloseGoesOn, Browser!CloseDue, Browser!callVars
<1>3. /\ sock' \in [Browser!Socket -> {"new", "connecting", "open", "closing", "aborting", "closed"}]
      /\ \A k \in Browser!Socket :
            /\ sock[k] \in {"open", "closing"} => sock'[k] \in {"open", "closing"}
            /\ sock[k] = "closed" => sock'[k] = "closed"
      /\ state' \in {"closed", "closing"} /\ closing' \in {"none", "socket"}
      /\ ws' \in {ws, Browser!None} /\ closeOn' \in {ws, Browser!None}
  BY <1>1, <1>2, SocketsClosed
<1>4. BrowserPlaces'
  BY <1>1, <1>2, <1>3 DEF BrowserPlaces
<1>5. BrowserNumbers' /\ BrowserFlags'
  BY <1>1, <1>2 DEF BrowserNumbers, BrowserFlags
<1>6. BrowserQueue' /\ BrowserEntries'
  <2>1. awaited' \subseteq entries \/ awaited' = awaited
    BY <1>2
  <2> QED
    BY <1>2, <1>3, <2>1, CallsKept
<1>7. ASSUME ~ crossed' PROVE BrowserState' /\ BrowserLink'
  <2>1. BrowserState /\ BrowserLink
    BY <1>2, <1>7 DEF BrowserInv
  <2>2. ~ GivenUp
    BY <1>2 DEF GivenUp
  <2>3. state \in {"closing", "closed"}
    BY <1>2, <2>1, <2>2 DEF BrowserState
  <2>4. timers' = 0
    BY <1>1, <1>2, <2>1, <2>3 DEF BrowserState, BrowserNumbers
  <2>5. ~(ws # Browser!None /\ sock[ws] = "connecting")
    BY <2>1, <2>3 DEF BrowserLink
  <2> QED
    BY <1>1, <1>2, <2>1, <2>4, <2>5, CloseIsTrue
<1> QED
  BY <1>4, <1>5, <1>6, <1>7 DEF BrowserInv, BrowserTyped

LEMMA BrowserStep == BrowserInv /\ [Browser!Next]_browserVars => BrowserInv'
<1> SUFFICES ASSUME BrowserInv, [Browser!Next]_browserVars PROVE BrowserInv'
  OBVIOUS
<1>1. CASE Browser!CloseGoesOn
  BY <1>1, BrowserCloseGoesOn
<1>2. CASE ~ Browser!CloseDue /\ Browser!Task
  <2>1. CASE \E c \in BrowserCall : Browser!MakesCall(c) \/ Browser!Sends(c)
                                      \/ Browser!Answered(c) \/ Browser!GivesUp(c)
    BY <2>1, BrowserCallMade, BrowserCallSent, BrowserCallEnds
  <2>2. CASE \E k \in Browser!Socket :
                Browser!Connect(k) \/ Browser!Opens(k) \/ Browser!Fails(k) \/ Browser!Ends(k)
                  \/ Browser!TimerFires(k)
    BY <1>2, <2>2, BrowserConnects, BrowserOpens, BrowserFails, BrowserEnds
  <2>3. CASE \E waits \in BOOLEAN : Browser!Close(waits)
    BY <2>3, BrowserCloses
  <2> QED
    BY <1>2, <2>1, <2>2, <2>3 DEF Browser!Task
<1>3. CASE UNCHANGED browserVars
  <2>1. /\ UNCHANGED <<state, ws, sock, byTimer, attempt, timers, held, closing, closeOn, awaited,
                       crossed, closes>>
        /\ UNCHANGED <<call, queue, entries, sentOn>>
    BY <1>3 DEF browserVars
  <2>2. BrowserTyped'
    BY <2>1 DEF BrowserInv, BrowserTyped, BrowserPlaces, BrowserNumbers, BrowserFlags
  <2>3. BrowserQueue' /\ BrowserEntries'
    BY <2>1, CallsKept
  <2>4. ~ crossed' => BrowserState' /\ BrowserLink'
    BY <2>1, ConnectionKept
  <2> QED
    BY <2>2, <2>3, <2>4 DEF BrowserInv
<1> QED
  BY <1>1, <1>2, <1>3 DEF Browser!Next

LEMMA BrowserIsSound == BrowserInv => Browser!ClientSound
<1> SUFFICES ASSUME BrowserInv PROVE Browser!ClientSound
  OBVIOUS
<1>1. BrowserPlaces /\ BrowserNumbers /\ BrowserFlags /\ BrowserQueue /\ BrowserEntries
  BY DEF BrowserInv, BrowserTyped
<1>2. Browser!TypeOK
  BY <1>1 DEF Browser!TypeOK, BrowserPlaces, BrowserNumbers, BrowserFlags, BrowserQueue, QueueOf
<1>3. Browser!CallsExact
  <2>1. \A c \in BrowserCall : call[c] = "sent" => c \in entries
    BY <1>1 DEF BrowserEntries
  <2>2. \A c \in entries : /\ call[c] \in {"sent", "done"}
                           /\ sentOn[c] # Browser!None => sock[sentOn[c]] # "closed"
    BY <1>1 DEF BrowserEntries, BrowserPlaces
  <2>3. Browser!InSlots(call) <= Concurrency /\ (queue # <<>> => Browser!InSlots(call) = Concurrency)
    BY <1>1 DEF BrowserQueue, QueueOf
  <2> QED
    BY <2>1, <2>2, <2>3 DEF Browser!CallsExact
<1>4. Browser!StateIsTrue
  <2>1. CASE crossed
    BY <2>1 DEF Browser!StateIsTrue
  <2>2. CASE ~ crossed
    <3>1. BrowserState
      BY <2>2 DEF BrowserInv
    <3>2. CASE state = "open"
      BY <3>1, <3>2 DEF Browser!StateIsTrue, BrowserState
    <3>3. CASE state = "connecting"
      BY <3>1, <3>3 DEF Browser!StateIsTrue, BrowserState
    <3>4. CASE state = "closing"
      BY <3>1, <3>4 DEF Browser!StateIsTrue, BrowserState
    <3>5. CASE state = "closed"
      <4>1. timers = 0
        BY <1>1, <3>1, <3>5 DEF BrowserNumbers, BrowserState
      <4>2. \A k \in Browser!Socket : AtRest(k)
        BY <3>1, <3>5, BrowserAssumption
           DEF BrowserState, Browser!SocketGone, AtRest, Browser!Socket, Browser!None
      <4> QED
        BY <3>5, <4>1, <4>2 DEF Browser!StateIsTrue, AtRest
    <3> QED
      BY <1>1, <3>2, <3>3, <3>4, <3>5 DEF BrowserPlaces
  <2> QED
    BY <2>1, <2>2
<1> QED
  BY <1>2, <1>3, <1>4 DEF Browser!ClientSound
-----------------------------------------------------------------------------
(* The parts in their run *)

liveVars == <<part, poolVars, dedupVars, replayVars, browserVars, shakeVars, workerVars, streamVars>>

LEMMA PartSteps ==
    ASSUME [NextParts]_liveVars
    PROVE  /\ part' = part
           /\ part = "handshake" => [Shake!Next]_shakeVars
           /\ part = "dedup" => [Dedup!Next]_dedupVars
           /\ part = "replay" => [Replay!Next]_replayVars
           /\ part = "browser" => [Browser!Next]_browserVars
           /\ part = "worker" => [Worker!Next]_workerVars
           /\ part = "stream" => [Stream!Next]_streamVars
  BY DEF NextParts, liveVars

(* An upgrade is completed on an open socket, after its auth callback has  *)
(* accepted it and before its timeout, for any number of middlewares       *)
(* (server.ts:1095-1300).                                                  *)
THEOREM UpgradesAreJustified == SpecParts => []UpgradeJustified
<1> DEFINE Inv == part = "handshake" => ShakeInv
<1>1. InitParts => Inv
  BY ShakeInit DEF InitParts
<1>2. Inv /\ [NextParts]_liveVars => Inv'
  BY PartSteps, ShakeStep
<1>3. Inv => UpgradeJustified
  BY DEF UpgradeJustified, ShakeInv
<1> QED
  BY <1>1, <1>2, <1>3, PTL DEF SpecParts, liveVars

(* A queued command is in one place, and written once but for misread      *)
(* errors, for any number of commands, connections and failures            *)
(* (plugins/replay-buffer.ts:99-186).                                      *)
THEOREM CommandsAreKept == SpecParts => []CommandsKept
<1> DEFINE Inv == part = "replay" => ReplayInv
<1>1. InitParts => Inv
  BY ReplayInit DEF InitParts
<1>2. Inv /\ [NextParts]_liveVars => Inv'
  BY PartSteps, ReplayStep
<1>3. Inv => CommandsKept
  BY CommandIsKept DEF CommandsKept
<1> QED
  BY <1>1, <1>2, <1>3, PTL DEF SpecParts, liveVars

(* While Redis works and the claim lives, the handler of a CALL runs once, *)
(* for any number of copies (plugins/message-dedup.ts:160-183).            *)
THEOREM CallsExecutedOnce == SpecParts => []ExecutedOnce
<1> DEFINE Inv == part = "dedup" => DedupInv
<1>1. InitParts => Inv
  BY DedupInit DEF InitParts
<1>2. Inv /\ [NextParts]_liveVars => Inv'
  BY PartSteps, DedupStep
<1>3. Inv => ExecutedOnce
  BY DedupExact DEF ExecutedOnce
<1> QED
  BY <1>1, <1>2, <1>3, PTL DEF SpecParts, liveVars

(* Every exported event runs or is accounted for, and no slot is lost, for *)
(* any size of the queue and any number of slots and events                *)
(* (plugins/async-worker.ts:105-221).                                      *)
THEOREM ExportsAreKept == SpecParts => []WorkKept
<1> DEFINE Inv == part = "worker" => WorkInv
<1>1. InitParts => Inv
  BY WorkInit DEF InitParts
<1>2. Inv /\ [NextParts]_liveVars => Inv'
  BY PartSteps, WorkStep
<1>3. Inv => WorkKept
  BY WorkIsKept DEF WorkKept
<1> QED
  BY <1>1, <1>2, <1>3, PTL DEF SpecParts, liveVars

(* What one node publishes to another is heard once and in order, and no   *)
(* message is skipped, for any number of messages, connections, trims,     *)
(* unsubscriptions and errors (adapters/redis/index.ts:137-154,195-250,    *)
(* 282-327).                                                               *)
THEOREM StreamsAreExact == SpecParts => []StreamExact
<1> DEFINE Inv == part = "stream" => StreamInv
<1>1. InitParts => Inv
  BY StreamInit DEF InitParts
<1>2. Inv /\ [NextParts]_liveVars => Inv'
  BY PartSteps, StreamStep
<1>3. Inv => StreamExact
  BY StreamIsExact DEF StreamExact
<1> QED
  BY <1>1, <1>2, <1>3, PTL DEF SpecParts, liveVars

(* Each caller of the client for browsers is told, by an entry or by the   *)
(* end of its connection, its slots are exact, and its state is true of    *)
(* the WebSockets, for any number of calls, slots and sockets, unless      *)
(* close() crosses a handshake it cannot call off                          *)
(* (browser/client.ts:497-981).                                            *)
THEOREM ClientsAreSound == SpecParts => []ClientSound
<1> DEFINE Inv == part = "browser" => BrowserInv
<1>1. InitParts => Inv
  BY BrowserInit DEF InitParts
<1>2. Inv /\ [NextParts]_liveVars => Inv'
  BY PartSteps, BrowserStep
<1>3. Inv => ClientSound
  BY BrowserIsSound DEF ClientSound
<1> QED
  BY <1>1, <1>2, <1>3, PTL DEF SpecParts, liveVars

=============================================================================
