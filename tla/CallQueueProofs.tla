--------------------------- MODULE CallQueueProofs ---------------------------
(***************************************************************************)
(* Proofs about the call queue, for any set of calls and any sequence of   *)
(* limits.  Every step but Settle is a Drain from a state in which one     *)
(* task was added, one slot was given back or the limit was changed, so    *)
(* the work is in lemma DrainStep, which speaks of an arbitrary such state.*)
(***************************************************************************)
EXTENDS CallQueue, FiniteSetTheorems, SequenceTheorems, TLAPS

Busy(stages)    == {t \in Task : stages[t] \in {"running", "settled"}}
Waiting(stages) == {t \in Task : stages[t] = "queued"}

Distinct(seq) == \A i, j \in 1..Len(seq) : seq[i] = seq[j] => i = j

(* What is true of the arguments of every Drain.                           *)
Drainable(used, slots, waiting, stages) ==
    /\ used \in Nat
    /\ slots \in Nat \ {0}
    /\ waiting \in Seq(Task)
    /\ stages \in [Task -> Stage]
    /\ Distinct(waiting)
    /\ {waiting[i] : i \in 1..Len(waiting)} = Waiting(stages)
    /\ used = Cardinality(Busy(stages))

(* The inductive invariant: SlotAccounting with the length of the queue    *)
(* replaced by the absence of duplicates, from which the length follows.   *)
IInv ==
    /\ Drainable(running, concurrency, queue, stage)
    /\ NoIdleSlot

-----------------------------------------------------------------------------
(* A prefix of a sequence without duplicates has as many members as its    *)
(* length.                                                                 *)
LEMMA PrefixCardinality ==
    ASSUME NEW S, NEW seq \in Seq(S), Distinct(seq), NEW k \in 0..Len(seq)
    PROVE  /\ IsFiniteSet({seq[i] : i \in 1..k})
           /\ Cardinality({seq[i] : i \in 1..k}) = k
<1> DEFINE T == {seq[i] : i \in 1..k}
           f == [i \in 1..k |-> seq[i]]
<1>1. f \in Bijection(1..k, T)
  BY DEF Bijection, Injection, Surjection, IsInjective, Distinct
<1>2. ExistsBijection(1..k, T)
  BY <1>1 DEF ExistsBijection
<1>3. IsFiniteSet(1..k) /\ Cardinality(1..k) = k
  BY FS_Interval
<1> QED
  BY <1>2, <1>3, FS_Bijection

LEMMA StartsBounds ==
    ASSUME NEW used \in Nat, NEW slots \in Nat \ {0}, NEW waiting \in Seq(Task)
    PROVE  /\ Starts(used, slots, waiting) \in 0..Len(waiting)
           /\ Starts(used, slots, waiting) > 0 => used + Starts(used, slots, waiting) <= slots
           /\ Starts(used, slots, waiting) < Len(waiting)
                => used + Starts(used, slots, waiting) >= slots
  BY DEF Starts

(* What one Drain does, from any state it may be called in.                *)
LEMMA DrainStep ==
    ASSUME NEW used, NEW slots, NEW waiting, NEW stages,
           Drainable(used, slots, waiting, stages),
           Drain(used, slots, waiting, stages)
    PROVE  /\ Drainable(running', slots, queue', stage')
           /\ queue' # <<>> => running' >= slots
           /\ running' > used => running' <= slots
           /\ \A i, j \in 1..Len(waiting) :
                 i < j /\ stage'[waiting[j]] # "queued" => stage'[waiting[i]] # "queued"
<1> DEFINE k == Starts(used, slots, waiting)
           n == Len(waiting)
           started == {waiting[i] : i \in 1..k}
<1>1. /\ used \in Nat
      /\ slots \in Nat \ {0}
      /\ waiting \in Seq(Task)
      /\ stages \in [Task -> Stage]
  BY DEF Drainable
<1>2. n \in Nat /\ \A i \in 1..n : waiting[i] \in Task
  BY <1>1
<1>3. \A i, j \in 1..n : waiting[i] = waiting[j] => i = j
  BY DEF Drainable, Distinct
<1>4. /\ \A i \in 1..n : stages[waiting[i]] = "queued"
      /\ \A t \in Task : stages[t] = "queued" => \E i \in 1..n : t = waiting[i]
  BY <1>2 DEF Drainable, Waiting
<1>5. k \in 0..n
  BY <1>1, StartsBounds
<1>6. /\ running' = used + k
      /\ queue' = SubSeq(waiting, k + 1, n)
      /\ stage' = [t \in Task |-> IF t \in started THEN "running" ELSE stages[t]]
  BY DEF Drain
<1>7. k > 0 => used + k <= slots
  BY <1>1, StartsBounds
<1>8. k < n => used + k >= slots
  BY <1>1, StartsBounds
<1> HIDE DEF k, n
<1>9. /\ queue' \in Seq(Task)
      /\ Len(queue') = n - k
      /\ \A i \in 1 .. n - k : queue'[i] = waiting[k + i]
  <2>1. \A i \in k + 1 .. n : waiting[i] \in Task
    BY <1>2, <1>5
  <2>2. /\ SubSeq(waiting, k + 1, n) \in Seq(Task)
        /\ Len(SubSeq(waiting, k + 1, n)) = IF k + 1 <= n THEN n - (k + 1) + 1 ELSE 0
        /\ \A i \in 1 .. n - (k + 1) + 1 :
              SubSeq(waiting, k + 1, n)[i] = waiting[(k + 1) + i - 1]
    BY <1>2, <1>5, <2>1, SubSeqProperties
  <2>3. \A i \in 1 .. n - k : (k + 1) + i - 1 = k + i
    BY <1>2, <1>5
  <2> QED
    BY <1>2, <1>5, <1>6, <2>2, <2>3
<1>10. /\ \A i \in 1..k : waiting[i] \in started
       /\ \A i \in k + 1 .. n : waiting[i] \notin started
  BY <1>2, <1>3, <1>5
<1>11. \A t \in started : t \in Task /\ stages[t] = "queued"
  BY <1>2, <1>4, <1>5
<1>12. /\ stage' \in [Task -> Stage]
       /\ \A t \in Task : stage'[t] = IF t \in started THEN "running" ELSE stages[t]
  BY <1>1, <1>6 DEF Stage
<1> HIDE DEF started
<1>13. Distinct(queue')
  <2> SUFFICES ASSUME NEW i \in 1 .. n - k, NEW j \in 1 .. n - k, queue'[i] = queue'[j]
               PROVE  i = j
    BY <1>9 DEF Distinct
  <2>1. waiting[k + i] = waiting[k + j] /\ k + i \in 1..n /\ k + j \in 1..n
    BY <1>2, <1>5, <1>9
  <2>2. k + i = k + j
    BY <1>3, <2>1
  <2> QED
    BY <1>5, <2>2
<1>14. {queue'[i] : i \in 1..Len(queue')} = Waiting(stage')
  <2>1. ASSUME NEW i \in 1 .. n - k
        PROVE  queue'[i] \in Waiting(stage')
    <3>1. k + i \in k + 1 .. n /\ k + i \in 1..n
      BY <1>2, <1>5
    <3> QED
      BY <1>2, <1>4, <1>9, <1>10, <1>12, <3>1 DEF Waiting
  <2>2. ASSUME NEW t \in Waiting(stage')
        PROVE  \E i \in 1 .. n - k : t = queue'[i]
    <3>1. t \in Task /\ stages[t] = "queued" /\ t \notin started
      BY <1>12 DEF Waiting
    <3>2. PICK j \in 1..n : t = waiting[j]
      BY <1>4, <3>1
    <3>3. j > k
      BY <1>2, <1>5, <1>10, <3>1, <3>2
    <3>4. j - k \in 1 .. n - k /\ k + (j - k) = j
      BY <1>2, <1>5, <3>3
    <3> QED
      BY <1>9, <3>2, <3>4
  <2> QED
    BY <1>9, <2>1, <2>2
<1>15. running' = Cardinality(Busy(stage'))
  <2>1. Busy(stage') = Busy(stages) \cup started
    BY <1>11, <1>12 DEF Busy
  <2>2. IsFiniteSet(Busy(stages))
    BY TaskAssumption, FS_Subset DEF Busy
  <2>3. IsFiniteSet(started) /\ Cardinality(started) = k
    <3>1. waiting \in Seq(Task) /\ Distinct(waiting) /\ k \in 0..Len(waiting)
      BY <1>1, <1>5 DEF Drainable, n
    <3> QED
      BY <3>1, PrefixCardinality DEF started
  <2>4. Busy(stages) \cap started = {}
    BY <1>11 DEF Busy
  <2>5. Cardinality(Busy(stages) \cup started) = used + k - 0
    BY <2>2, <2>3, <2>4, FS_Union, FS_EmptySet DEF Drainable
  <2>6. used + k - 0 = used + k
    BY <1>1, <1>2, <1>5
  <2> QED
    BY <1>6, <2>1, <2>5, <2>6, Zenon
<1>16. queue' # <<>> => running' >= slots
  <2>1. CASE k < n
    BY <1>6, <1>8, <2>1
  <2>2. CASE k = n
    <3>1. SubSeq(waiting, k + 1, n) = <<>>
      BY <1>2, <2>2, SubSeqEmpty
    <3> QED
      BY <1>6, <3>1
  <2> QED
    BY <1>2, <1>5, <2>1, <2>2
<1>17. running' > used => running' <= slots
  BY <1>1, <1>2, <1>5, <1>6, <1>7
<1>18. ASSUME NEW i \in 1..n, NEW j \in 1..n, i < j, stage'[waiting[j]] # "queued"
       PROVE  stage'[waiting[i]] # "queued"
  <2>1. waiting[j] \in started
    BY <1>2, <1>4, <1>12, <1>18
  <2>2. j <= k
    BY <1>2, <1>5, <1>10, <2>1
  <2>3. waiting[i] \in started
    BY <1>5, <1>10, <1>18, <2>2
  <2> QED
    BY <1>2, <1>12, <2>3
<1>19. running' \in Nat
  BY <1>1, <1>2, <1>5, <1>6
<1>20. Drainable(running', slots, queue', stage')
  BY <1>1, <1>9, <1>12, <1>13, <1>14, <1>15, <1>19 DEF Drainable
<1> QED
  BY <1>16, <1>17, <1>18, <1>20 DEF n

-----------------------------------------------------------------------------
LEMMA ClampPositive == ASSUME NEW m \in Requested PROVE Clamp(m) \in Nat \ {0}
  BY RequestedAssumption DEF Clamp

LEMMA InitIInv == Init => IInv
<1> SUFFICES ASSUME Init PROVE IInv
  OBVIOUS
<1>1. concurrency \in Nat \ {0}
  BY ClampPositive DEF Init
<1>2. /\ queue = <<>> /\ queue \in Seq(Task) /\ Len(queue) = 0
      /\ stage = [t \in Task |-> "new"] /\ running = 0
  BY EmptySeq DEF Init
<1>3. Busy(stage) = {} /\ Waiting(stage) = {}
  BY <1>2 DEF Busy, Waiting
<1>4. running = Cardinality(Busy(stage))
  BY <1>2, <1>3, FS_EmptySet
<1> QED
  BY <1>1, <1>2, <1>3, <1>4 DEF IInv, Drainable, Distinct, NoIdleSlot, Stage

(* What each kind of step hands to _drain may be drained.                  *)
LEMMA PushDrainable ==
    ASSUME IInv, NEW t \in Task, stage[t] = "new"
    PROVE  Drainable(running, concurrency, Append(queue, t), [stage EXCEPT ![t] = "queued"])
<1> DEFINE longer == Append(queue, t)
           stages == [stage EXCEPT ![t] = "queued"]
           n == Len(queue)
<1>1. /\ queue \in Seq(Task) /\ n \in Nat
      /\ stage \in [Task -> Stage]
      /\ \A i, j \in 1..n : queue[i] = queue[j] => i = j
      /\ \A i \in 1..n : queue[i] \in Task /\ stage[queue[i]] = "queued"
      /\ \A u \in Task : stage[u] = "queued" => \E i \in 1..n : u = queue[i]
  BY DEF IInv, Drainable, Distinct, Waiting
<1>2. /\ longer \in Seq(Task) /\ Len(longer) = n + 1
      /\ \A i \in 1..n : longer[i] = queue[i]
      /\ longer[n + 1] = t
  BY <1>1, AppendProperties
<1>3. /\ stages \in [Task -> Stage]
      /\ stages[t] = "queued"
      /\ \A u \in Task \ {t} : stages[u] = stage[u]
  BY <1>1 DEF Stage
<1>4. \A i \in 1..n : queue[i] # t
  BY <1>1
<1> HIDE DEF longer, stages, n
<1>5. Distinct(longer)
  <2> SUFFICES ASSUME NEW i \in 1 .. n + 1, NEW j \in 1 .. n + 1, longer[i] = longer[j]
               PROVE  i = j
    BY <1>2 DEF Distinct
  <2>1. i \in 1..n \/ i = n + 1
    BY <1>1
  <2>2. j \in 1..n \/ j = n + 1
    BY <1>1
  <2> QED
    BY <1>1, <1>2, <1>4, <2>1, <2>2
<1>6. {longer[i] : i \in 1..Len(longer)} = Waiting(stages)
  <2>1. ASSUME NEW i \in 1 .. n + 1
        PROVE  longer[i] \in Waiting(stages)
    <3>1. i \in 1..n \/ i = n + 1
      BY <1>1
    <3> QED
      BY <1>1, <1>2, <1>3, <1>4, <3>1 DEF Waiting
  <2>2. ASSUME NEW u \in Waiting(stages)
        PROVE  \E i \in 1 .. n + 1 : u = longer[i]
    <3>1. CASE u = t
      BY <1>1, <1>2, <3>1
    <3>2. CASE u # t
      <4>1. PICK i \in 1..n : u = queue[i]
        BY <1>1, <1>3, <3>2 DEF Waiting
      <4>2. i \in 1 .. n + 1
        BY <1>1
      <4> QED
        BY <1>2, <4>1, <4>2
    <3> QED
      BY <3>1, <3>2
  <2> QED
    BY <1>2, <2>1, <2>2
<1>7. Busy(stages) = Busy(stage)
  BY <1>3 DEF Busy
<1> QED
  BY <1>2, <1>3, <1>5, <1>6, <1>7 DEF IInv, Drainable, longer, stages

LEMMA ReleaseDrainable ==
    ASSUME IInv, NEW t \in Task, stage[t] = "settled"
    PROVE  Drainable(running - 1, concurrency, queue, [stage EXCEPT ![t] = "done"])
<1> DEFINE stages == [stage EXCEPT ![t] = "done"]
<1>1. stages \in [Task -> Stage] /\ stages[t] = "done" /\ \A u \in Task \ {t} : stages[u] = stage[u]
  BY DEF IInv, Drainable, Stage
<1> HIDE DEF stages
<1>2. Waiting(stages) = Waiting(stage)
  BY <1>1 DEF Waiting
<1>3. Busy(stages) = Busy(stage) \ {t} /\ t \in Busy(stage)
  BY <1>1 DEF Busy
<1>4. IsFiniteSet(Busy(stage)) /\ IsFiniteSet(Busy(stages))
  BY TaskAssumption, FS_Subset DEF Busy
<1>5. Cardinality(Busy(stages)) = Cardinality(Busy(stage)) - 1
  BY <1>3, <1>4, FS_RemoveElement
<1>6. Cardinality(Busy(stages)) \in Nat
  BY <1>4, FS_CardinalityType
<1> QED
  BY <1>1, <1>2, <1>5, <1>6 DEF IInv, Drainable, stages

LEMMA SetConcurrencyDrainable ==
    ASSUME IInv, NEW m \in Requested
    PROVE  Drainable(running, Clamp(m), queue, stage)
  BY ClampPositive DEF IInv, Drainable

(* Settle is the one step that does not drain.                             *)
LEMMA SettleKeepsIInv ==
    ASSUME IInv, NEW t \in Task, Settle(t)
    PROVE  /\ IInv'
           /\ \A i \in 1..Len(queue) : stage'[queue[i]] = "queued"
<1>1. /\ stage' \in [Task -> Stage] /\ stage'[t] = "settled"
      /\ \A u \in Task \ {t} : stage'[u] = stage[u]
      /\ stage[t] = "running"
      /\ UNCHANGED <<concurrency, running, queue>>
  BY DEF IInv, Drainable, Settle, Stage
<1>2. Waiting(stage') = Waiting(stage) /\ Busy(stage') = Busy(stage)
  BY <1>1 DEF Waiting, Busy
<1>3. \A i \in 1..Len(queue) : queue[i] \in Waiting(stage')
  BY <1>2 DEF IInv, Drainable
<1> QED
  BY <1>1, <1>2, <1>3 DEF IInv, Drainable, NoIdleSlot, Waiting

LEMMA NextIInv == IInv /\ [Next]_vars => IInv'
<1> SUFFICES ASSUME IInv, [Next]_vars PROVE IInv'
  OBVIOUS
<1>1. ASSUME NEW t \in Task, Push(t) PROVE IInv'
  <2>1. Drainable(running', concurrency, queue', stage') /\ (queue' # <<>> => running' >= concurrency)
    BY <1>1, PushDrainable, DrainStep DEF Push
  <2> QED
    BY <1>1, <2>1 DEF Push, IInv, NoIdleSlot
<1>2. ASSUME NEW t \in Task, Settle(t) PROVE IInv'
  BY <1>2, SettleKeepsIInv
<1>3. ASSUME NEW t \in Task, Release(t) PROVE IInv'
  <2>1. Drainable(running', concurrency, queue', stage') /\ (queue' # <<>> => running' >= concurrency)
    BY <1>3, ReleaseDrainable, DrainStep DEF Release
  <2> QED
    BY <1>3, <2>1 DEF Release, IInv, NoIdleSlot
<1>4. ASSUME NEW m \in Requested, SetConcurrency(m) PROVE IInv'
  <2>1. Drainable(running', Clamp(m), queue', stage') /\ (queue' # <<>> => running' >= Clamp(m))
    BY <1>4, SetConcurrencyDrainable, DrainStep DEF SetConcurrency
  <2> QED
    BY <1>4, <2>1 DEF SetConcurrency, IInv, NoIdleSlot
<1>5. ASSUME UNCHANGED vars PROVE IInv'
  BY <1>5 DEF vars, IInv, Drainable, Distinct, Waiting, Busy, NoIdleSlot
<1> QED
  BY <1>1, <1>2, <1>3, <1>4, <1>5 DEF Next

LEMMA Invariance == Spec => []IInv
  BY InitIInv, NextIInv, PTL DEF Spec

-----------------------------------------------------------------------------
(* The queue is always in a state its methods can run in: at least one     *)
(* slot, a counter that never goes negative, only pushed tasks queued.     *)
THEOREM TypeCorrect == Spec => []TypeOK
<1>1. IInv => TypeOK
  BY DEF IInv, Drainable, TypeOK
<1> QED
  BY <1>1, Invariance, PTL

(* No slot leaks and none is given back twice, and no call is queued twice *)
(* or lost from the queue, for any number of calls (queue.ts:49-64).       *)
THEOREM SlotsAccounted == Spec => []SlotAccounting
<1>1. ASSUME IInv PROVE SlotAccounting
  <2>1. queue \in Seq(Task) /\ Distinct(queue) /\ Len(queue) \in 0..Len(queue)
    BY <1>1 DEF IInv, Drainable
  <2>2. Len(queue) = Cardinality({queue[i] : i \in 1..Len(queue)})
    BY <2>1, PrefixCardinality
  <2>3. Waiting(stage) = Queued /\ Busy(stage) = InFlight
    BY DEF Waiting, Queued, Busy, InFlight
  <2> QED
    BY <1>1, <2>2, <2>3 DEF IInv, Drainable, SlotAccounting
<1> QED
  BY <1>1, Invariance, PTL

(* A call waits only while every slot is taken: no completion and no       *)
(* change of the limit leaves a queued call asleep (queue.ts:34-37,58-61). *)
THEOREM NeverIdle == Spec => []NoIdleSlot
<1>1. IInv => NoIdleSlot
  BY DEF IInv
<1> QED
  BY <1>1, Invariance, PTL

(* No step takes the running calls above the limit in force after it.      *)
THEOREM LimitRespected == Spec => StartsWithinLimit
<1>1. ASSUME IInv, [Next]_vars
      PROVE  [running' > running => running' <= concurrency']_vars
  <2> SUFFICES ASSUME running' > running PROVE running' <= concurrency'
    OBVIOUS
  <2>0. running \in Nat /\ concurrency \in Nat
    BY <1>1 DEF IInv, Drainable
  <2>1. ASSUME NEW t \in Task, Push(t) PROVE running' <= concurrency'
    BY <1>1, <2>1, PushDrainable, DrainStep DEF Push
  <2>2. ASSUME NEW t \in Task, Settle(t) PROVE FALSE
    BY <2>0, <2>2 DEF Settle
  <2>3. ASSUME NEW t \in Task, Release(t) PROVE running' <= concurrency'
    <3>1. running' > running - 1 => running' <= concurrency
      BY <1>1, <2>3, ReleaseDrainable, DrainStep DEF Release
    <3>2. Drainable(running', concurrency, queue', stage')
      BY <1>1, <2>3, ReleaseDrainable, DrainStep DEF Release
    <3>3. running' \in Nat
      BY <3>2 DEF Drainable
    <3> QED
      BY <2>0, <2>3, <3>1, <3>3 DEF Release
  <2>4. ASSUME NEW m \in Requested, SetConcurrency(m) PROVE running' <= concurrency'
    <3>1. running' <= Clamp(m)
      BY <1>1, <2>4, SetConcurrencyDrainable, DrainStep DEF SetConcurrency
    <3> QED
      BY <2>4, <3>1 DEF SetConcurrency
  <2>5. ASSUME UNCHANGED vars PROVE FALSE
    BY <2>0, <2>5 DEF vars
  <2> QED
    BY <1>1, <2>1, <2>2, <2>3, <2>4, <2>5 DEF Next
<1> QED
  BY <1>1, Invariance, PTL DEF Spec, StartsWithinLimit

(* Calls start in the order they were made (queue.ts:51).                  *)
THEOREM FifoStart == Spec => StartsInOrder
<1> DEFINE InOrder == \A i, j \in 1..Len(queue) :
                         i < j /\ stage'[queue[j]] # "queued" => stage'[queue[i]] # "queued"
<1>1. ASSUME IInv, [Next]_vars PROVE [InOrder]_vars
  <2>1. ASSUME NEW t \in Task, Push(t) PROVE InOrder
    <3> DEFINE longer == Append(queue, t)
    <3>1. \A i, j \in 1..Len(longer) :
             i < j /\ stage'[longer[j]] # "queued" => stage'[longer[i]] # "queued"
      BY <1>1, <2>1, PushDrainable, DrainStep DEF Push
    <3>2. /\ Len(queue) \in Nat /\ Len(longer) = Len(queue) + 1
          /\ \A i \in 1..Len(queue) : longer[i] = queue[i]
      BY <1>1, AppendProperties DEF IInv, Drainable
    <3>3. \A i \in 1..Len(queue) : i \in 1..Len(longer)
      BY <3>2
    <3> HIDE DEF longer
    <3> QED
      BY <3>1, <3>2, <3>3
  <2>2. ASSUME NEW t \in Task, Settle(t) PROVE InOrder
    BY <1>1, <2>2, SettleKeepsIInv
  <2>3. ASSUME NEW t \in Task, Release(t) PROVE InOrder
    BY <1>1, <2>3, ReleaseDrainable, DrainStep DEF Release
  <2>4. ASSUME NEW m \in Requested, SetConcurrency(m) PROVE InOrder
    BY <1>1, <2>4, SetConcurrencyDrainable, DrainStep DEF SetConcurrency
  <2> HIDE DEF InOrder
  <2> QED
    BY <1>1, <2>1, <2>2, <2>3, <2>4 DEF Next
<1> QED
  BY <1>1, Invariance, PTL DEF Spec, StartsInOrder
=============================================================================
