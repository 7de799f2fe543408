---------------------------- MODULE SafePartsProofs ----------------------------
(***************************************************************************)
(* Theorems about parts of MCSafeParts, for every value of their           *)
(* constants.  A behaviour of SpecParts is of one part, and the others     *)
(* rest: each invariant below says what holds of its part when the         *)
(* behaviour is of it.                                                     *)
(***************************************************************************)
EXTENDS MCSafeParts, FiniteSetTheorems, SequenceTheorems, TLAPS

-----------------------------------------------------------------------------
(* Circuit breaker *)

(* Connections hold circuits that were made, and calls are in flight on    *)
(* connections that came; a circuit that was not made yet is fresh.        *)
Held ==
    /\ \A k \in Breaker!Connection : stations[k] # "new" => holds[k] \in 1 .. made
    /\ \A c \in StationCall : inFlight[c] # 0 => stations[inFlight[c]] # "new"
    /\ mapped # 0 => mapped \in 1 .. made
    /\ \A o \in Breaker!Circuit : o > made => circuit[o] = Breaker!Fresh

(* The counter of a circuit is exact until a connection closes: onDisconnect *)
(* forgets the calls of the others.                                          *)
Exact ==
    (\A k \in Breaker!Connection : stations[k] # "closed") =>
        \A o \in Breaker!Circuit : circuit[o].calls = Cardinality(Breaker!InFlight(o))

BreakerInv == Breaker!BreakerSound /\ Held /\ Exact
CircuitRec == [state : {"CLOSED", "OPEN", "HALF_OPEN"}, failures : 0 .. MaxFailures,
               cooled : BOOLEAN, calls : 0 .. MaxConcurrent]

BreakerTyped ==
    /\ stations \in [Breaker!Connection -> {"new", "open", "closed"}]
    /\ holds \in [Breaker!Connection -> Breaker!Circuit \cup {0}]
    /\ mapped \in Breaker!Circuit \cup {0} /\ made \in 0 .. MaxCircuits
    /\ circuit \in [Breaker!Circuit -> CircuitRec]
    /\ inFlight \in [StationCall -> Breaker!Connection \cup {0}]

(* The types of the breaker, with the records of circuits written out.     *)
LEMMA BreakerTypes == Breaker!TypeOK <=> BreakerTyped
  BY DEF Breaker!TypeOK, BreakerTyped, CircuitRec, Breaker!None

(* The calls in flight on a circuit are counted over a finite set.         *)
LEMMA InFlightIsFinite ==
    ASSUME NEW o
    PROVE  /\ IsFiniteSet(Breaker!InFlight(o)) /\ Breaker!InFlight(o) \subseteq StationCall
           /\ Cardinality(Breaker!InFlight(o)) \in Nat
           /\ Breaker!Cardinality(Breaker!InFlight(o)) = Cardinality(Breaker!InFlight(o))
<1>1. Breaker!InFlight(o) \subseteq StationCall
  BY DEF Breaker!InFlight
<1>2. IsFiniteSet(Breaker!InFlight(o))
  BY <1>1, BreakerAssumption, FS_Subset
<1> QED
  BY <1>1, <1>2, FS_CardinalityType DEF Breaker!Cardinality, Cardinality

(* What a step does to the circuits: o becomes `changed', or its state is  *)
(* changed on the one in the map.                                          *)
Changed(o, changed, states) ==
    /\ circuit' \in [Breaker!Circuit -> CircuitRec]
    /\ \A p \in Breaker!Circuit :
          circuit'[p].calls = IF p = o THEN changed.calls ELSE circuit[p].calls
    /\ made' \in 0 .. MaxCircuits /\ made <= made'
    /\ mapped' \in Breaker!Circuit \cup {0} /\ (mapped' # 0 => mapped' \in 1 .. made')
    /\ \A p \in Breaker!Circuit : p > made' => circuit'[p] = Breaker!Fresh
    /\ made' = 1 /\ mapped' = 1 =>
          /\ made = 1 /\ mapped = 1 /\ o = 1
          /\ circuit'[1].failures = changed.failures /\ circuit'[1].state \in states

(* A circuit that stays in its state changes in nothing else than what is  *)
(* given.                                                                  *)
LEMMA Remained ==
    ASSUME BreakerTyped, Held, NEW o \in 1 .. made, NEW changed \in CircuitRec,
           Breaker!Remains(o, changed)
    PROVE  Changed(o, changed, {changed.state})
<1>1. o \in Breaker!Circuit /\ made \in Nat
  BY BreakerAssumption DEF BreakerTyped, Breaker!Circuit
<1>2. /\ circuit' = [circuit EXCEPT ![o] = changed] /\ mapped' = mapped /\ made' = made
  BY DEF Breaker!Remains
<1>3. /\ circuit' \in [Breaker!Circuit -> CircuitRec] /\ circuit'[o] = changed
      /\ \A p \in Breaker!Circuit : p # o => circuit'[p] = circuit[p]
  BY <1>1, <1>2 DEF BreakerTyped
<1>4. mapped' # 0 => mapped' \in 1 .. made'
  BY <1>2 DEF Held
<1>5. \A p \in Breaker!Circuit : p > made' => circuit'[p] = Breaker!Fresh
  BY <1>1, <1>2, <1>3 DEF Held
<1>6. made' = 1 => o = 1
  BY <1>1, <1>2
<1> QED
  BY <1>1, <1>2, <1>3, <1>4, <1>5, <1>6 DEF Changed, BreakerTyped

(* A transition is written to the circuit that the map holds, or to a new  *)
(* one if it has lost it.                                                  *)
LEMMA Transitioned ==
    ASSUME BreakerTyped, Held, NEW o \in 1 .. made, NEW changed \in CircuitRec,
           NEW to \in {"CLOSED", "OPEN", "HALF_OPEN"}, Breaker!Transition(o, changed, to)
    PROVE  Changed(o, changed, {to})
<1>1. o \in Breaker!Circuit /\ made \in Nat
  BY BreakerAssumption DEF BreakerTyped, Breaker!Circuit
<1>2. PICK f : f = Breaker!Found
  OBVIOUS
<1>3. /\ f \in Breaker!Circuit /\ mapped' = f /\ f <= MaxCircuits
      /\ mapped = 0 => made' = made + 1 /\ f = made + 1
      /\ mapped # 0 => made' = made /\ f = mapped /\ f \in 1 .. made
  <2>1. f <= MaxCircuits /\ mapped' = f /\ made' = IF mapped = 0 THEN made + 1 ELSE made
    BY <1>2 DEF Breaker!Transition, Breaker!None
  <2>2. CASE mapped = 0
    BY <1>1, <1>2, <2>1, <2>2, BreakerAssumption DEF Breaker!Found, Breaker!None, Breaker!Circuit
  <2>3. CASE mapped # 0
    BY <1>1, <1>2, <2>1, <2>3, BreakerAssumption
       DEF Breaker!Found, Breaker!None, Breaker!Circuit, Held, BreakerTyped
  <2> QED
    BY <2>2, <2>3
<1>4. circuit' = [[circuit EXCEPT ![o] = changed] EXCEPT ![f].state = to]
  BY <1>2 DEF Breaker!Transition
<1>5. PICK between : between = [circuit EXCEPT ![o] = changed]
  OBVIOUS
<1>6. /\ between \in [Breaker!Circuit -> CircuitRec] /\ between[o] = changed
      /\ \A p \in Breaker!Circuit : p # o => between[p] = circuit[p]
  BY <1>1, <1>5 DEF BreakerTyped
<1>7. circuit' = [between EXCEPT ![f] = [between[f] EXCEPT !.state = to]]
  BY <1>4, <1>5
<1>8. PICK new : new = [between[f] EXCEPT !.state = to]
  OBVIOUS
<1>9. /\ new \in CircuitRec /\ new.state = to
      /\ new.calls = between[f].calls /\ new.failures = between[f].failures
  BY <1>3, <1>6, <1>8 DEF CircuitRec
<1>10. /\ circuit' \in [Breaker!Circuit -> CircuitRec] /\ circuit'[f] = new
       /\ \A p \in Breaker!Circuit : p # f => circuit'[p] = between[p]
  BY <1>3, <1>6, <1>7, <1>8, <1>9
<1>11. made' \in 0 .. MaxCircuits /\ made <= made' /\ f \in 1 .. made'
  BY <1>1, <1>3, BreakerAssumption DEF BreakerTyped
<1>12. \A p \in Breaker!Circuit : p > made' => circuit'[p] = Breaker!Fresh
  <2> SUFFICES ASSUME NEW p \in Breaker!Circuit, p > made' PROVE circuit'[p] = Breaker!Fresh
    OBVIOUS
  <2>1. p # f /\ p # o /\ p > made
    BY <1>1, <1>3, <1>11 DEF Breaker!Circuit
  <2> QED
    BY <1>6, <1>10, <2>1 DEF Held
<1>13. made' = 1 /\ mapped' = 1 => /\ made = 1 /\ mapped = 1 /\ o = 1
                                   /\ circuit'[1].failures = changed.failures
                                   /\ circuit'[1].state \in {to}
  BY <1>1, <1>3, <1>6, <1>9, <1>10, <1>11
<1> QED
  BY <1>3, <1>6, <1>9, <1>10, <1>11, <1>12, <1>13 DEF Changed

(* A call that starts on a circuit, or ends, and what it does to the       *)
(* counter.                                                                *)
Starts(c, o, changed) ==
    \E k \in Breaker!Connection :
        /\ inFlight[c] = 0 /\ stations[k] = "open" /\ holds[k] = o
        /\ inFlight' = [inFlight EXCEPT ![c] = k]
        /\ changed.calls = circuit[o].calls + 1

Finishes(c, o, changed) ==
    /\ inFlight[c] # 0 /\ holds[inFlight[c]] = o
    /\ inFlight' = [inFlight EXCEPT ![c] = 0]
    /\ changed.calls = IF circuit[o].calls = 0 THEN 0 ELSE circuit[o].calls - 1

(* The circuits o has the calls of, before and after.                      *)
LEMMA Counting ==
    ASSUME BreakerTyped, Held, stations' = stations, holds' = holds,
           NEW c \in StationCall, NEW o \in Breaker!Circuit, NEW changed,
           Starts(c, o, changed) \/ Finishes(c, o, changed)
    PROVE  /\ \A p \in Breaker!Circuit : p # o => Breaker!InFlight(p)' = Breaker!InFlight(p)
           /\ Starts(c, o, changed) =>
                 Cardinality(Breaker!InFlight(o)') = Cardinality(Breaker!InFlight(o)) + 1
           /\ Finishes(c, o, changed) =>
                 Cardinality(Breaker!InFlight(o)') = Cardinality(Breaker!InFlight(o)) - 1
           /\ inFlight' \in [StationCall -> Breaker!Connection \cup {0}]
           /\ \A d \in StationCall : inFlight'[d] # 0 => stations[inFlight'[d]] # "new"
<1>1. CASE Starts(c, o, changed)
  <2>1. PICK k \in Breaker!Connection :
           /\ inFlight[c] = 0 /\ stations[k] = "open" /\ holds[k] = o
           /\ inFlight' = [inFlight EXCEPT ![c] = k]
    BY <1>1 DEF Starts
  <2>2. k # 0 /\ k \in Breaker!Connection
    BY BreakerAssumption DEF Breaker!Connection
  <2>3. /\ inFlight' \in [StationCall -> Breaker!Connection \cup {0}] /\ inFlight'[c] = k
        /\ \A d \in StationCall : d # c => inFlight'[d] = inFlight[d]
    BY <2>1, <2>2 DEF BreakerTyped
  <2>4. \A p \in Breaker!Circuit : p # o => Breaker!InFlight(p)' = Breaker!InFlight(p)
    BY <2>1, <2>3 DEF Breaker!InFlight, Breaker!None
  <2>5. Breaker!InFlight(o)' = Breaker!InFlight(o) \cup {c} /\ c \notin Breaker!InFlight(o)
    BY <2>1, <2>2, <2>3 DEF Breaker!InFlight, Breaker!None
  <2>6. Cardinality(Breaker!InFlight(o)') = Cardinality(Breaker!InFlight(o)) + 1
    BY <2>5, InFlightIsFinite, FS_AddElement
  <2>7. ~ Finishes(c, o, changed)
    BY <2>1 DEF Finishes
  <2> QED
    BY <2>1, <2>3, <2>4, <2>6, <2>7 DEF Held
<1>2. CASE Finishes(c, o, changed)
  <2>1. /\ inFlight' \in [StationCall -> Breaker!Connection \cup {0}] /\ inFlight'[c] = 0
        /\ \A d \in StationCall : d # c => inFlight'[d] = inFlight[d]
    BY <1>2 DEF Finishes, BreakerTyped
  <2>2. \A p \in Breaker!Circuit : p # o => Breaker!InFlight(p)' = Breaker!InFlight(p)
    BY <1>2, <2>1 DEF Finishes, Breaker!InFlight, Breaker!None
  <2>3. Breaker!InFlight(o)' = Breaker!InFlight(o) \ {c} /\ c \in Breaker!InFlight(o)
    BY <1>2, <2>1 DEF Finishes, Breaker!InFlight, Breaker!None
  <2>4. Cardinality(Breaker!InFlight(o)') = Cardinality(Breaker!InFlight(o)) - 1
    BY <2>3, InFlightIsFinite, FS_RemoveElement
  <2>5. ~ Starts(c, o, changed)
    BY <1>2 DEF Starts, Finishes
  <2> QED
    BY <2>1, <2>2, <2>4, <2>5 DEF Held
<1> QED
  BY <1>1, <1>2

(* The invariant, by its conjuncts.                                        *)
BreakerCounts ==
    \A o \in Breaker!Circuit :
        /\ circuit[o].calls <= Cardinality(Breaker!InFlight(o))
        /\ (\A k \in Breaker!Connection : stations[k] # "closed") =>
              circuit[o].calls = Cardinality(Breaker!InFlight(o))

(* The invariant of the breaker in its parts, the counters last.           *)
LEMMA BreakerParts ==
    BreakerInv <=> BreakerTyped /\ Held /\ BreakerCounts /\ Breaker!TripsAtThreshold
<1>1. BreakerInv => BreakerTyped /\ Held /\ BreakerCounts /\ Breaker!TripsAtThreshold
  BY InFlightIsFinite, BreakerTypes
     DEF BreakerInv, Breaker!BreakerSound, Breaker!CallsCounted, BreakerCounts, Exact
<1>2. ASSUME BreakerTyped, Held, BreakerCounts, Breaker!TripsAtThreshold PROVE BreakerInv
  <2>1. Exact
    BY <1>2 DEF BreakerCounts, Exact
  <2>2. \A o \in Breaker!Circuit : circuit[o].calls \in Nat /\ circuit[o].calls <= MaxConcurrent
    BY <1>2, BreakerAssumption DEF BreakerTyped, CircuitRec
  <2>3. Breaker!CallsCounted
    BY <1>2, <2>2, InFlightIsFinite DEF BreakerCounts, Breaker!CallsCounted
  <2> QED
    BY <1>2, <2>1, <2>3, BreakerTypes DEF BreakerInv, Breaker!BreakerSound
<1> QED
  BY <1>1, <1>2

LEMMA CallKeeps ==
    ASSUME BreakerInv, stations' = stations, holds' = holds,
           NEW c \in StationCall, NEW o \in 1 .. made, NEW changed \in CircuitRec, NEW states,
           Changed(o, changed, states), Starts(c, o, changed) \/ Finishes(c, o, changed),
           made = 1 /\ mapped = 1 /\ o = 1 /\ "CLOSED" \in states
              => changed.failures < FailureThreshold
    PROVE  BreakerInv'
<1>1. BreakerTyped /\ Held /\ BreakerCounts /\ o \in Breaker!Circuit /\ made \in Nat
  BY BreakerParts, BreakerAssumption DEF BreakerTyped, Breaker!Circuit
<1>2. /\ \A p \in Breaker!Circuit : p # o => Breaker!InFlight(p)' = Breaker!InFlight(p)
      /\ Starts(c, o, changed) =>
            Cardinality(Breaker!InFlight(o)') = Cardinality(Breaker!InFlight(o)) + 1
      /\ Finishes(c, o, changed) =>
            Cardinality(Breaker!InFlight(o)') = Cardinality(Breaker!InFlight(o)) - 1
      /\ inFlight' \in [StationCall -> Breaker!Connection \cup {0}]
      /\ \A d \in StationCall : inFlight'[d] # 0 => stations[inFlight'[d]] # "new"
  BY <1>1, Counting
<1>3. BreakerTyped'
  BY <1>1, <1>2 DEF BreakerTyped, Changed
<1>4. Held'
  <2>1. \A k \in Breaker!Connection : stations[k] # "new" => holds[k] \in 1 .. made'
    BY <1>1, BreakerAssumption DEF Held, Changed
  <2> QED
    BY <1>2, <2>1 DEF Held, Changed
<1>5. BreakerCounts'
  <2> SUFFICES ASSUME NEW p \in Breaker!Circuit
               PROVE  /\ circuit'[p].calls <= Cardinality(Breaker!InFlight(p)')
                      /\ (\A k \in Breaker!Connection : stations[k] # "closed") =>
                            circuit'[p].calls = Cardinality(Breaker!InFlight(p)')
    BY DEF BreakerCounts
  <2>1. CASE p # o
    BY <1>1, <1>2, <2>1 DEF Changed, BreakerCounts
  <2>2. CASE p = o
    <3>1. circuit'[o].calls = changed.calls
      BY <1>1 DEF Changed
    <3>2. circuit[o].calls \in Nat /\ Cardinality(Breaker!InFlight(o)) \in Nat
      BY <1>1, InFlightIsFinite, BreakerAssumption DEF BreakerTyped, CircuitRec
    <3>3. /\ circuit[o].calls <= Cardinality(Breaker!InFlight(o))
          /\ (\A k \in Breaker!Connection : stations[k] # "closed") =>
                circuit[o].calls = Cardinality(Breaker!InFlight(o))
      BY <1>1 DEF BreakerCounts
    <3>4. CASE Starts(c, o, changed)
      <4>1. changed.calls = circuit[o].calls + 1
        BY <3>4 DEF Starts
      <4> QED
        BY <1>2, <2>2, <3>1, <3>2, <3>3, <3>4, <4>1
    <3>5. CASE Finishes(c, o, changed)
      <4>1. changed.calls = IF circuit[o].calls = 0 THEN 0 ELSE circuit[o].calls - 1
        BY <3>5 DEF Finishes
      <4>2. Cardinality(Breaker!InFlight(o)) > 0
        <5>1. c \in Breaker!InFlight(o)
          BY <3>5 DEF Finishes, Breaker!InFlight, Breaker!None
        <5> QED
          BY <3>2, <5>1, InFlightIsFinite, FS_EmptySet
      <4> QED
        BY <1>2, <2>2, <3>1, <3>2, <3>3, <3>5, <4>1, <4>2
    <3> QED
      BY <3>4, <3>5
  <2> QED
    BY <2>1, <2>2
<1>6. Breaker!TripsAtThreshold'
  BY DEF Changed, Breaker!TripsAtThreshold
<1> QED
  BY <1>3, <1>4, <1>5, <1>6, BreakerParts, PTL

(* The circuit a call uses, and the record it leaves.                      *)
LEMMA UsedCircuit ==
    ASSUME BreakerInv, NEW k \in Breaker!Connection, stations[k] # "new"
    PROVE  holds[k] \in 1 .. made /\ holds[k] \in Breaker!Circuit /\ circuit[holds[k]] \in CircuitRec
<1>1. BreakerTyped /\ Held
  BY BreakerParts
<1>2. holds[k] \in 1 .. made
  BY <1>1 DEF Held
<1>3. holds[k] \in Breaker!Circuit
  BY <1>1, <1>2, BreakerAssumption DEF BreakerTyped, Breaker!Circuit
<1> QED
  BY <1>1, <1>2, <1>3 DEF BreakerTyped

LEMMA EndedRecord ==
    ASSUME NEW o, circuit[o] \in CircuitRec
    PROVE  /\ Breaker!Ended(o) \in CircuitRec
           /\ Breaker!Ended(o).calls = IF circuit[o].calls = 0 THEN 0 ELSE circuit[o].calls - 1
           /\ Breaker!Ended(o).failures = circuit[o].failures
           /\ Breaker!Ended(o).state = circuit[o].state
<1>1. PICK n : n = IF circuit[o].calls = 0 THEN 0 ELSE circuit[o].calls - 1
  OBVIOUS
<1>2. n \in 0 .. MaxConcurrent
  BY <1>1, BreakerAssumption DEF CircuitRec
<1>3. Breaker!Ended(o) = [circuit[o] EXCEPT !.calls = n]
  BY <1>1 DEF Breaker!Ended
<1> QED
  BY <1>1, <1>2, <1>3 DEF CircuitRec

LEMMA CallStartsKeeps ==
    ASSUME BreakerInv, NEW c \in StationCall, NEW k \in Breaker!Connection, Breaker!CallStarts(c, k)
    PROVE  BreakerInv'
<1>1. BreakerTyped /\ Held /\ Breaker!TripsAtThreshold
  BY BreakerParts
<1>2. PICK o : o = holds[k]
  OBVIOUS
<1>3. stations[k] = "open" /\ inFlight[c] = 0
  BY DEF Breaker!CallStarts, Breaker!None
<1>4. o \in 1 .. made /\ o \in Breaker!Circuit /\ circuit[o] \in CircuitRec
  BY <1>2, <1>3, UsedCircuit
<1>5. PICK more : more = [circuit[o] EXCEPT !.calls = @ + 1]
  OBVIOUS
<1>6. /\ circuit[o].calls < MaxConcurrent
      /\ IF circuit[o].state = "OPEN" THEN Breaker!Transition(o, more, "HALF_OPEN")
                                      ELSE Breaker!Remains(o, more)
      /\ inFlight' = [inFlight EXCEPT ![c] = k] /\ stations' = stations /\ holds' = holds
  BY <1>2, <1>5 DEF Breaker!CallStarts
<1>7. more \in CircuitRec /\ more.calls = circuit[o].calls + 1 /\ more.state = circuit[o].state
      /\ more.failures = circuit[o].failures
  BY <1>4, <1>5, <1>6, BreakerAssumption DEF CircuitRec
<1>8. Starts(c, o, more)
  BY <1>2, <1>3, <1>6, <1>7 DEF Starts
<1>9. CASE circuit[o].state = "OPEN"
  <2>1. Changed(o, more, {"HALF_OPEN"})
    BY <1>1, <1>4, <1>6, <1>7, <1>9, Transitioned
  <2> QED
    BY <1>4, <1>6, <1>7, <1>8, <2>1, CallKeeps
<1>10. CASE circuit[o].state # "OPEN"
  <2>1. Changed(o, more, {more.state})
    BY <1>1, <1>4, <1>6, <1>7, <1>10, Remained
  <2>2. made = 1 /\ mapped = 1 /\ o = 1 /\ "CLOSED" \in {more.state}
           => more.failures < FailureThreshold
    BY <1>1, <1>7 DEF Breaker!TripsAtThreshold
  <2> QED
    BY <1>4, <1>6, <1>7, <1>8, <2>1, <2>2, CallKeeps
<1> QED
  BY <1>9, <1>10

LEMMA CallSucceedsKeeps ==
    ASSUME BreakerInv, NEW c \in StationCall, Breaker!CallSucceeds(c)
    PROVE  BreakerInv'
<1>1. BreakerTyped /\ Held /\ Breaker!TripsAtThreshold
  BY BreakerParts
<1>2. PICK o : o = holds[inFlight[c]]
  OBVIOUS
<1>3. inFlight[c] # 0 /\ inFlight[c] \in Breaker!Connection /\ stations[inFlight[c]] # "new"
  BY <1>1 DEF Breaker!CallSucceeds, Breaker!None, BreakerTyped, Held
<1>4. o \in 1 .. made /\ o \in Breaker!Circuit /\ circuit[o] \in CircuitRec
  BY <1>2, <1>3, UsedCircuit
<1>5. inFlight' = [inFlight EXCEPT ![c] = 0] /\ stations' = stations /\ holds' = holds
  BY DEF Breaker!CallSucceeds, Breaker!None
<1>6. CASE circuit[o].state = "HALF_OPEN"
  <2>1. PICK changed : changed = [Breaker!Ended(o) EXCEPT !.failures = 0]
    OBVIOUS
  <2>2. Breaker!Transition(o, changed, "CLOSED")
    BY <1>2, <1>6, <2>1 DEF Breaker!CallSucceeds
  <2>3. changed \in CircuitRec /\ changed.calls = Breaker!Ended(o).calls /\ changed.failures = 0
    BY <1>4, <2>1, EndedRecord, BreakerAssumption DEF CircuitRec
  <2>4. Changed(o, changed, {"CLOSED"})
    BY <1>1, <1>4, <2>2, <2>3, Transitioned
  <2>5. Finishes(c, o, changed)
    BY <1>2, <1>3, <1>4, <1>5, <2>3, EndedRecord DEF Finishes
  <2>6. changed.failures < FailureThreshold
    BY <2>3, BreakerAssumption
  <2> QED
    BY <1>4, <1>5, <2>3, <2>4, <2>5, <2>6, CallKeeps
<1>7. CASE circuit[o].state # "HALF_OPEN"
  <2>1. PICK n : n = IF Breaker!Ended(o).failures = 0 THEN 0 ELSE Breaker!Ended(o).failures - 1
    OBVIOUS
  <2>2. PICK changed : changed = [Breaker!Ended(o) EXCEPT !.failures = n]
    OBVIOUS
  <2>3. Breaker!Remains(o, changed)
    BY <1>2, <1>7, <2>1, <2>2 DEF Breaker!CallSucceeds
  <2>4. n \in 0 .. MaxFailures /\ n <= circuit[o].failures /\ circuit[o].failures \in Nat
    BY <1>4, <2>1, EndedRecord, BreakerAssumption DEF CircuitRec
  <2>5. changed \in CircuitRec /\ changed.calls = Breaker!Ended(o).calls
        /\ changed.failures = n /\ changed.state = circuit[o].state
    BY <1>4, <2>2, <2>4, EndedRecord DEF CircuitRec
  <2>6. Changed(o, changed, {changed.state})
    BY <1>1, <1>4, <2>3, <2>5, Remained
  <2>7. Finishes(c, o, changed)
    BY <1>2, <1>3, <1>4, <1>5, <2>5, EndedRecord DEF Finishes
  <2>8. made = 1 /\ mapped = 1 /\ o = 1 /\ "CLOSED" \in {changed.state}
           => changed.failures < FailureThreshold
    BY <1>1, <2>4, <2>5, BreakerAssumption DEF Breaker!TripsAtThreshold
  <2> QED
    BY <1>4, <1>5, <2>5, <2>6, <2>7, <2>8, CallKeeps
<1> QED
  BY <1>6, <1>7

LEMMA CallFailsKeeps ==
    ASSUME BreakerInv, NEW c \in StationCall, Breaker!CallFails(c)
    PROVE  BreakerInv'
<1>1. BreakerTyped /\ Held /\ Breaker!TripsAtThreshold
  BY BreakerParts
<1>2. PICK o : o = holds[inFlight[c]]
  OBVIOUS
<1>3. inFlight[c] # 0 /\ inFlight[c] \in Breaker!Connection /\ stations[inFlight[c]] # "new"
  BY <1>1 DEF Breaker!CallFails, Breaker!None, BreakerTyped, Held
<1>4. o \in 1 .. made /\ o \in Breaker!Circuit /\ circuit[o] \in CircuitRec
  BY <1>2, <1>3, UsedCircuit
<1>5. inFlight' = [inFlight EXCEPT ![c] = 0] /\ stations' = stations /\ holds' = holds
  BY DEF Breaker!CallFails, Breaker!None
<1>6. PICK n : n = IF Breaker!Ended(o).failures < MaxFailures THEN Breaker!Ended(o).failures + 1
                                                             ELSE Breaker!Ended(o).failures
  OBVIOUS
<1>7. PICK failed : failed = [Breaker!Ended(o) EXCEPT !.failures = n, !.cooled = FALSE]
  OBVIOUS
<1>8. IF Breaker!Trips(o, failed) THEN Breaker!Transition(o, failed, "OPEN")
                                  ELSE Breaker!Remains(o, failed)
  BY <1>2, <1>6, <1>7 DEF Breaker!CallFails
<1>9. n \in 0 .. MaxFailures
  BY <1>4, <1>6, EndedRecord, BreakerAssumption DEF CircuitRec
<1>10. failed \in CircuitRec /\ failed.calls = Breaker!Ended(o).calls /\ failed.failures = n
  BY <1>4, <1>7, <1>9, EndedRecord DEF CircuitRec
<1>11. Finishes(c, o, failed)
  BY <1>2, <1>3, <1>4, <1>5, <1>10, EndedRecord DEF Finishes
<1>12. CASE Breaker!Trips(o, failed)
  <2>1. Changed(o, failed, {"OPEN"})
    BY <1>1, <1>4, <1>8, <1>10, <1>12, Transitioned
  <2> QED
    BY <1>4, <1>5, <1>10, <1>11, <2>1, CallKeeps
<1>13. CASE ~ Breaker!Trips(o, failed)
  <2>1. Changed(o, failed, {failed.state})
    BY <1>1, <1>4, <1>8, <1>10, <1>13, Remained
  <2>2. failed.failures < FailureThreshold
    BY <1>9, <1>10, <1>13, BreakerAssumption DEF Breaker!Trips
  <2> QED
    BY <1>4, <1>5, <1>10, <1>11, <2>1, <2>2, CallKeeps
<1> QED
  BY <1>12, <1>13

(* A step that starts and ends no call.                                    *)
LEMMA CircuitsKeep ==
    ASSUME BreakerInv, BreakerTyped', Held', Breaker!TripsAtThreshold', inFlight' = inFlight,
           \A c \in StationCall : inFlight[c] # 0 => holds'[inFlight[c]] = holds[inFlight[c]],
           \A k \in Breaker!Connection : stations[k] = "closed" => stations'[k] = "closed",
           \A o \in Breaker!Circuit :
              \/ circuit'[o].calls = circuit[o].calls
              \/ circuit'[o].calls = 0 /\ \E k \in Breaker!Connection : stations'[k] = "closed"
    PROVE  BreakerInv'
<1>1. BreakerTyped /\ Held /\ BreakerCounts
  BY BreakerParts
<1>2. \A o \in Breaker!Circuit : Breaker!InFlight(o)' = Breaker!InFlight(o)
  BY DEF Breaker!InFlight, Breaker!None
<1>3. BreakerCounts'
  <2> SUFFICES ASSUME NEW o \in Breaker!Circuit
               PROVE  /\ circuit'[o].calls <= Cardinality(Breaker!InFlight(o)')
                      /\ (\A k \in Breaker!Connection : stations'[k] # "closed") =>
                            circuit'[o].calls = Cardinality(Breaker!InFlight(o)')
    BY DEF BreakerCounts
  <2>1. /\ circuit[o].calls <= Cardinality(Breaker!InFlight(o))
        /\ (\A k \in Breaker!Connection : stations[k] # "closed") =>
              circuit[o].calls = Cardinality(Breaker!InFlight(o))
        /\ Cardinality(Breaker!InFlight(o)) \in Nat
        /\ Breaker!InFlight(o)' = Breaker!InFlight(o)
    BY <1>1, <1>2, InFlightIsFinite DEF BreakerCounts
  <2>2. CASE circuit'[o].calls = circuit[o].calls
    BY <2>1, <2>2
  <2>3. CASE circuit'[o].calls = 0 /\ \E k \in Breaker!Connection : stations'[k] = "closed"
    BY <2>1, <2>3
  <2> QED
    BY <2>2, <2>3
<1> QED
  BY <1>3, BreakerParts, PTL

LEMMA BreakerInit == Breaker!Init => BreakerInv
<1> SUFFICES ASSUME Breaker!Init PROVE BreakerInv
  OBVIOUS
<1>1. /\ stations = [k \in Breaker!Connection |-> "new"] /\ holds = [k \in Breaker!Connection |-> 0]
      /\ mapped = 0 /\ made = 0 /\ circuit = [o \in Breaker!Circuit |-> Breaker!Fresh]
      /\ inFlight = [c \in StationCall |-> 0]
  BY DEF Breaker!Init, Breaker!None
<1>2. Breaker!Fresh \in CircuitRec /\ Breaker!Fresh.calls = 0
  BY BreakerAssumption DEF Breaker!Fresh, CircuitRec
<1>3. BreakerTyped
  BY <1>1, <1>2, BreakerAssumption DEF BreakerTyped
<1>4. Held
  BY <1>1 DEF Held
<1>5. BreakerCounts
  <2> SUFFICES ASSUME NEW o \in Breaker!Circuit
               PROVE  circuit[o].calls = 0 /\ Cardinality(Breaker!InFlight(o)) = 0
    BY DEF BreakerCounts
  <2>1. Breaker!InFlight(o) = {}
    BY <1>1 DEF Breaker!InFlight, Breaker!None
  <2> QED
    BY <1>1, <1>2, <2>1, FS_EmptySet
<1>6. Breaker!TripsAtThreshold
  BY <1>1 DEF Breaker!TripsAtThreshold
<1> QED
  BY <1>3, <1>4, <1>5, <1>6, BreakerParts

LEMMA ConnectKeeps ==
    ASSUME BreakerInv, NEW k \in Breaker!Connection, Breaker!Connect(k)
    PROVE  BreakerInv'
<1>1. BreakerTyped /\ Held /\ Breaker!TripsAtThreshold
  BY BreakerParts
<1>2. PICK f : f = Breaker!Found
  OBVIOUS
<1>3. /\ stations[k] = "new" /\ f <= MaxCircuits /\ mapped' = f
      /\ stations' = [stations EXCEPT ![k] = "open"] /\ holds' = [holds EXCEPT ![k] = f]
      /\ made' = IF mapped = 0 THEN made + 1 ELSE made
      /\ circuit' = circuit /\ inFlight' = inFlight
  BY <1>2 DEF Breaker!Connect, Breaker!None
<1>4. /\ f \in Breaker!Circuit /\ f \in 1 .. made' /\ made' \in 0 .. MaxCircuits /\ made <= made'
      /\ made' = 1 /\ f = 1 => \/ made = 1 /\ mapped = 1
                               \/ made = 0
  <2>1. CASE mapped = 0
    BY <1>1, <1>2, <1>3, <2>1, BreakerAssumption
       DEF Breaker!Found, Breaker!None, Breaker!Circuit, BreakerTyped
  <2>2. CASE mapped # 0
    BY <1>1, <1>2, <1>3, <2>2, BreakerAssumption
       DEF Breaker!Found, Breaker!None, Breaker!Circuit, Held, BreakerTyped
  <2> QED
    BY <2>1, <2>2
<1>5. BreakerTyped'
  BY <1>1, <1>3, <1>4 DEF BreakerTyped
<1>6. Held'
  <2>1. \A j \in Breaker!Connection : stations'[j] # "new" => holds'[j] \in 1 .. made'
    BY <1>1, <1>3, <1>4, BreakerAssumption DEF Held, BreakerTyped
  <2>2. \A c \in StationCall : inFlight'[c] # 0 => stations'[inFlight'[c]] # "new"
    BY <1>1, <1>3 DEF Held, BreakerTyped
  <2>3. \A o \in Breaker!Circuit : o > made' => circuit'[o] = Breaker!Fresh
    BY <1>1, <1>3, <1>4, BreakerAssumption DEF Held, BreakerTyped, Breaker!Circuit
  <2> QED
    BY <1>3, <1>4, <2>1, <2>2, <2>3 DEF Held
<1>7. Breaker!TripsAtThreshold'
  <2>1. ASSUME made' = 1, mapped' = 1 PROVE circuit[1].failures < FailureThreshold \/ circuit[1].state # "CLOSED"
    <3>1. CASE made = 1 /\ mapped = 1
      BY <1>1, <3>1 DEF Breaker!TripsAtThreshold
    <3>2. CASE made = 0
      <4>1. 1 \in Breaker!Circuit
        BY <1>3, <1>4, <2>1
      <4>2. circuit[1] = Breaker!Fresh
        BY <1>1, <3>2, <4>1 DEF Held
      <4> QED
        BY <4>2, BreakerAssumption DEF Breaker!Fresh
    <3> QED
      BY <1>3, <1>4, <2>1, <3>1, <3>2
  <2> QED
    BY <1>3, <2>1 DEF Breaker!TripsAtThreshold
<1>8. \A c \in StationCall : inFlight[c] # 0 => holds'[inFlight[c]] = holds[inFlight[c]]
  <2> SUFFICES ASSUME NEW c \in StationCall, inFlight[c] # 0
               PROVE  holds'[inFlight[c]] = holds[inFlight[c]]
    OBVIOUS
  <2>1. inFlight[c] \in Breaker!Connection /\ inFlight[c] # k
    BY <1>1, <1>3 DEF Held, BreakerTyped
  <2> QED
    BY <1>1, <1>3, <2>1 DEF BreakerTyped
<1>9. \A j \in Breaker!Connection : stations[j] = "closed" => stations'[j] = "closed"
  BY <1>1, <1>3 DEF BreakerTyped
<1> QED
  BY <1>3, <1>5, <1>6, <1>7, <1>8, <1>9, CircuitsKeep

LEMMA DisconnectKeeps ==
    ASSUME BreakerInv, NEW k \in Breaker!Connection, Breaker!Disconnect(k)
    PROVE  BreakerInv'
<1>1. BreakerTyped /\ Held /\ Breaker!TripsAtThreshold
  BY BreakerParts
<1>2. /\ stations[k] = "open" /\ stations' = [stations EXCEPT ![k] = "closed"]
      /\ holds' = holds /\ mapped' = mapped /\ made' = made /\ inFlight' = inFlight
      /\ circuit' = IF mapped = 0 THEN circuit ELSE [circuit EXCEPT ![mapped].calls = 0]
  BY DEF Breaker!Disconnect, Breaker!None
<1>3. /\ circuit' \in [Breaker!Circuit -> CircuitRec]
      /\ \A o \in Breaker!Circuit :
            /\ circuit'[o].state = circuit[o].state /\ circuit'[o].failures = circuit[o].failures
            /\ circuit'[o].calls = circuit[o].calls \/ circuit'[o].calls = 0
            /\ o # mapped => circuit'[o] = circuit[o]
  <2>1. CASE mapped = 0
    BY <1>1, <1>2, <2>1 DEF BreakerTyped
  <2>2. CASE mapped # 0
    <3>1. PICK zero : zero = [circuit[mapped] EXCEPT !.calls = 0]
      OBVIOUS
    <3>2. mapped \in Breaker!Circuit /\ circuit[mapped] \in CircuitRec
      BY <1>1, <2>2 DEF BreakerTyped
    <3>3. /\ zero \in CircuitRec /\ zero.state = circuit[mapped].state /\ zero.calls = 0
          /\ zero.failures = circuit[mapped].failures
      BY <3>1, <3>2, BreakerAssumption DEF CircuitRec
    <3>4. circuit' = [circuit EXCEPT ![mapped] = zero]
      BY <1>2, <2>2, <3>1
    <3> QED
      BY <1>1, <3>2, <3>3, <3>4 DEF BreakerTyped
  <2> QED
    BY <2>1, <2>2
<1>4. BreakerTyped'
  BY <1>1, <1>2, <1>3 DEF BreakerTyped
<1>5. \A j \in Breaker!Connection : stations'[j] = stations[j] \/ j = k
  BY <1>1, <1>2 DEF BreakerTyped
<1>6. stations'[k] = "closed"
  BY <1>1, <1>2 DEF BreakerTyped
<1>7. Held'
  <2>1. \A j \in Breaker!Connection : stations'[j] # "new" => holds'[j] \in 1 .. made'
    BY <1>1, <1>2, <1>5 DEF Held
  <2>2. \A c \in StationCall : inFlight'[c] # 0 => stations'[inFlight'[c]] # "new"
    BY <1>1, <1>2, <1>5, <1>6 DEF Held, BreakerTyped
  <2>3. \A o \in Breaker!Circuit : o > made' => circuit'[o] = Breaker!Fresh
    BY <1>1, <1>2, <1>3 DEF Held, BreakerTyped
  <2> QED
    BY <1>1, <1>2, <2>1, <2>2, <2>3 DEF Held
<1>8. Breaker!TripsAtThreshold'
  <2>1. made = 1 => 1 \in Breaker!Circuit
    BY <1>1, BreakerAssumption DEF BreakerTyped, Breaker!Circuit
  <2> QED
    BY <1>1, <1>2, <1>3, <2>1 DEF Breaker!TripsAtThreshold
<1> QED
  BY <1>2, <1>3, <1>4, <1>5, <1>6, <1>7, <1>8, CircuitsKeep

LEMMA BreakerStep == BreakerInv /\ [Breaker!Next]_breakerVars => BreakerInv'
<1> SUFFICES ASSUME BreakerInv, [Breaker!Next]_breakerVars PROVE BreakerInv'
  OBVIOUS
<1>1. BreakerTyped /\ Held /\ Breaker!TripsAtThreshold
  BY BreakerParts
<1>2. ASSUME UNCHANGED breakerVars PROVE BreakerInv'
  <2>1. /\ stations' = stations /\ holds' = holds /\ mapped' = mapped /\ made' = made
        /\ circuit' = circuit /\ inFlight' = inFlight
    BY <1>2 DEF breakerVars
  <2>2. BreakerTyped' /\ Held' /\ Breaker!TripsAtThreshold'
    BY <1>1, <2>1 DEF BreakerTyped, Held, Breaker!TripsAtThreshold
  <2> QED
    BY <2>1, <2>2, CircuitsKeep
<1>3. ASSUME Breaker!Evict PROVE BreakerInv'
  <2>1. /\ stations' = stations /\ holds' = holds /\ mapped' = 0 /\ made' = made
        /\ circuit' = circuit /\ inFlight' = inFlight
    BY <1>3 DEF Breaker!Evict, Breaker!None
  <2>2. BreakerTyped' /\ Held' /\ Breaker!TripsAtThreshold'
    BY <1>1, <2>1 DEF BreakerTyped, Held, Breaker!TripsAtThreshold
  <2> QED
    BY <2>1, <2>2, CircuitsKeep
<1>4. ASSUME NEW o \in Breaker!Circuit, Breaker!ResetTimeoutPasses(o) PROVE BreakerInv'
  <2>1. /\ ~ circuit[o].cooled /\ circuit' = [circuit EXCEPT ![o].cooled = TRUE]
        /\ stations' = stations /\ holds' = holds /\ mapped' = mapped /\ made' = made
        /\ inFlight' = inFlight
    BY <1>4 DEF Breaker!ResetTimeoutPasses
  <2>2. PICK cool : cool = [circuit[o] EXCEPT !.cooled = TRUE]
    OBVIOUS
  <2>3. circuit' = [circuit EXCEPT ![o] = cool]
    BY <2>1, <2>2
  <2>4. /\ cool \in CircuitRec /\ cool.state = circuit[o].state /\ cool.calls = circuit[o].calls
        /\ cool.failures = circuit[o].failures
    BY <1>1, <2>2 DEF BreakerTyped, CircuitRec
  <2>5. /\ circuit' \in [Breaker!Circuit -> CircuitRec]
        /\ \A p \in Breaker!Circuit :
              /\ circuit'[p].state = circuit[p].state /\ circuit'[p].calls = circuit[p].calls
              /\ circuit'[p].failures = circuit[p].failures
              /\ p # o => circuit'[p] = circuit[p]
    BY <1>1, <2>3, <2>4 DEF BreakerTyped
  <2>6. BreakerTyped'
    BY <1>1, <2>1, <2>5 DEF BreakerTyped
  <2>7. o <= made
    BY <1>1, <2>1, BreakerAssumption DEF Held, Breaker!Fresh, BreakerTyped, Breaker!Circuit
  <2>8. Held'
    <3>1. \A p \in Breaker!Circuit : p > made' => circuit'[p] = Breaker!Fresh
      BY <1>1, <2>1, <2>5, <2>7 DEF Held, BreakerTyped, Breaker!Circuit
    <3> QED
      BY <1>1, <2>1, <3>1 DEF Held
  <2>9. Breaker!TripsAtThreshold'
    <3>1. made = 1 => 1 \in Breaker!Circuit
      BY <1>1, BreakerAssumption DEF BreakerTyped, Breaker!Circuit
    <3> QED
      BY <1>1, <2>1, <2>5, <3>1 DEF Breaker!TripsAtThreshold
  <2> QED
    BY <2>1, <2>5, <2>6, <2>8, <2>9, CircuitsKeep
<1> QED
  BY <1>2, <1>3, <1>4, CallStartsKeeps, CallSucceedsKeeps, CallFailsKeeps, ConnectKeeps,
     DisconnectKeeps DEF Breaker!Next
-----------------------------------------------------------------------------
(* The simulated charge point *)

RunRec == [at : Engine!Call \cup {"none"}, tx : {0} \cup Engine!TransactionId,
           on : {0} \cup Engine!Socket, rejected : BOOLEAN]

EngineTyped ==
    /\ engineState \in {"POWER_ON", "IDLE", "CHARGING"}
    /\ connectorState \in {"Available", "Preparing", "Busy"}
    /\ crossed \in BOOLEAN /\ meterTrigger \in BOOLEAN
    /\ activeTransactionId \in {0} \cup Engine!TransactionId
    /\ runs \in [Run -> RunRec]
    /\ transaction \in [Engine!TransactionId
                          -> {"unknown", "asked", "refused", "started", "stopped"}]

LinksTyped ==
    /\ ws \in {0} \cup Engine!Socket
    /\ sockets \in [Engine!Socket -> {"unmade", "connecting", "open", "closed"}]
    /\ reconnects \in 0 .. MaxTimers /\ bootRetries \in 0 .. MaxTimers

(* What a run waits for agrees with what was heard of its transaction.     *)
RunsKnow ==
    /\ \A r \in Run :
          /\ runs[r].at \in {"start", "refuse", "stop"} => runs[r].tx \in Engine!TransactionId
          /\ runs[r].at = "start" => transaction[runs[r].tx] = "asked"
          /\ runs[r].at = "refuse" => transaction[runs[r].tx] = "refused"
          /\ runs[r].at = "stop" => transaction[runs[r].tx] \in {"started", "stopped"}
    /\ \A r, q \in Run : runs[r].at = "start" /\ runs[q].at = "start" /\ runs[r].tx = runs[q].tx
                            => r = q
    /\ activeTransactionId # 0 => transaction[activeTransactionId] \in {"started", "stopped"}
    /\ engineState = "CHARGING" => activeTransactionId # 0

(* While no commands overlap, one run at a time starts, begins to meter or *)
(* stops a transaction.                                                    *)
Starting == {"start", "charging", "stop"}
Apart ==
    ~ crossed =>
       /\ \A r, q \in Run : runs[r].at \in Starting /\ runs[q].at \in Starting => r = q
       /\ \A r \in Run :
             /\ runs[r].at = "start" => activeTransactionId = 0
             /\ runs[r].at = "charging" => activeTransactionId # 0 /\ ~ meterTrigger
             /\ runs[r].at = "stop" =>
                   activeTransactionId = runs[r].tx /\ activeTransactionId # 0 /\ ~ meterTrigger
       /\ \A t \in Engine!TransactionId : transaction[t] = "started" <=> activeTransactionId = t
       /\ meterTrigger => activeTransactionId # 0

Meters == /\ meters \in Nat /\ (meterTrigger => meters >= 1)
          /\ (~ crossed => meters = IF meterTrigger THEN 1 ELSE 0)

EngineInv == EngineTyped /\ LinksTyped /\ RunsKnow /\ Apart /\ Meters

(* The types of the simulator, with the records of runs written out.       *)
LEMMA EngineTypes == EngineTyped /\ LinksTyped /\ meters \in Nat <=> Engine!TypeOK
  BY DEF Engine!TypeOK, EngineTyped, LinksTyped, RunRec

(* A run that sends a call waits for its answer, and no other run is       *)
(* touched.                                                                *)
LEMMA Sent ==
    ASSUME EngineTyped, LinksTyped, NEW r \in Run, NEW call \in Engine!Call,
           NEW tx \in {0} \cup Engine!TransactionId, Engine!Sends(r, call, tx)
    PROVE  /\ runs' \in [Run -> RunRec] /\ runs'[r].at = call /\ runs'[r].tx = tx
           /\ \A q \in Run : q # r => runs'[q] = runs[q]
<1>1. PICK b \in BOOLEAN : b = ~ Engine!IsOpen
  BY DEF Engine!IsOpen
<1>2. PICK new : new = [at |-> call, tx |-> tx, on |-> ws, rejected |-> b]
  OBVIOUS
<1>3. new \in RunRec /\ new.at = call /\ new.tx = tx
  BY <1>1, <1>2 DEF RunRec, LinksTyped
<1>4. runs' = [runs EXCEPT ![r] = new]
  BY <1>1, <1>2 DEF Engine!Sends
<1> QED
  BY <1>3, <1>4 DEF EngineTyped

(* A run that ends is free for another method, and no other run is         *)
(* touched.                                                                *)
LEMMA Ended ==
    ASSUME EngineTyped, NEW r \in Run, Engine!Ends(r)
    PROVE  /\ runs' \in [Run -> RunRec] /\ runs'[r].at = "none" /\ runs'[r].tx = 0
           /\ \A q \in Run : q # r => runs'[q] = runs[q]
<1>1. Engine!Idle \in RunRec /\ Engine!Idle.at = "none" /\ Engine!Idle.tx = 0
  BY DEF Engine!Idle, RunRec
<1> QED
  BY <1>1 DEF EngineTyped, Engine!Ends

(* A step that begins and ends no transaction: runs go on or wait for      *)
(* calls whose answer changes nothing, and the interval may be cleared.    *)
Calm ==
    /\ transaction' = transaction /\ activeTransactionId' = activeTransactionId
    /\ crossed' = crossed
    /\ runs' \in [Run -> RunRec]
    /\ \A q \in Run : \/ runs'[q].at = runs[q].at /\ runs'[q].tx = runs[q].tx
                      \/ runs'[q].at \notin {"start", "charging", "stop", "refuse"}
    /\ engineState' \in {"POWER_ON", "IDLE", engineState}
    /\ connectorState' \in {"Available", "Preparing", "Busy"}
    /\ \/ meters' = meters /\ meterTrigger' = meterTrigger
       \/ Engine!ClearMeter

(* What touches neither runs nor transactions keeps what is known of them. *)
LEMMA CalmKeeps ==
    ASSUME EngineInv, Calm, LinksTyped'
    PROVE  EngineInv'
<1>1. EngineTyped /\ LinksTyped /\ RunsKnow /\ Apart /\ Meters
  BY DEF EngineInv
<1>2. meterTrigger \in BOOLEAN /\ meterTrigger' \in BOOLEAN /\ (meterTrigger' => meterTrigger)
  <2>1. meterTrigger \in BOOLEAN
    BY <1>1 DEF EngineTyped
  <2>2. CASE meterTrigger' = meterTrigger
    BY <2>1, <2>2
  <2>3. CASE Engine!ClearMeter
    BY <2>1, <2>3 DEF Engine!ClearMeter
  <2> QED
    BY <2>1, <2>2, <2>3 DEF Calm
<1>3. EngineTyped'
  BY <1>1, <1>2 DEF EngineTyped, Calm
<1>4. RunsKnow'
  <2>1. \A r \in Run :
          /\ runs'[r].at \in {"start", "refuse", "stop"} => runs'[r].tx \in Engine!TransactionId
          /\ runs'[r].at = "start" => transaction'[runs'[r].tx] = "asked"
          /\ runs'[r].at = "refuse" => transaction'[runs'[r].tx] = "refused"
          /\ runs'[r].at = "stop" => transaction'[runs'[r].tx] \in {"started", "stopped"}
    BY <1>1 DEF RunsKnow, Calm
  <2>2. \A r, q \in Run :
          runs'[r].at = "start" /\ runs'[q].at = "start" /\ runs'[r].tx = runs'[q].tx => r = q
    BY <1>1 DEF RunsKnow, Calm
  <2>3. activeTransactionId' # 0 => transaction'[activeTransactionId'] \in {"started", "stopped"}
    BY <1>1 DEF RunsKnow, Calm
  <2>4. engineState' = "CHARGING" => activeTransactionId' # 0
    BY <1>1 DEF RunsKnow, Calm
  <2> QED
    BY <2>1, <2>2, <2>3, <2>4 DEF RunsKnow
<1>5. Apart'
  <2> SUFFICES ASSUME ~ crossed'
               PROVE  /\ \A r, q \in Run :
                            runs'[r].at \in Starting /\ runs'[q].at \in Starting => r = q
                      /\ \A r \in Run :
                            /\ runs'[r].at = "start" => activeTransactionId' = 0
                            /\ runs'[r].at = "charging" =>
                                  activeTransactionId' # 0 /\ ~ meterTrigger'
                            /\ runs'[r].at = "stop" =>
                                  /\ activeTransactionId' = runs'[r].tx
                                  /\ activeTransactionId' # 0 /\ ~ meterTrigger'
                      /\ \A t \in Engine!TransactionId :
                            transaction'[t] = "started" <=> activeTransactionId' = t
                      /\ meterTrigger' => activeTransactionId' # 0
    BY DEF Apart
  <2>1. ~ crossed
    BY DEF Calm
  <2>2. \A r, q \in Run : runs'[r].at \in Starting /\ runs'[q].at \in Starting => r = q
    BY <1>1, <2>1 DEF Apart, Calm, Starting
  <2>3. ASSUME NEW r \in Run
        PROVE  /\ runs'[r].at = "start" => activeTransactionId' = 0
               /\ runs'[r].at = "charging" => activeTransactionId' # 0 /\ ~ meterTrigger'
               /\ runs'[r].at = "stop" => /\ activeTransactionId' = runs'[r].tx
                                          /\ activeTransactionId' # 0 /\ ~ meterTrigger'
    BY <1>1, <1>2, <2>1 DEF Apart, Calm
  <2> QED
    BY <1>1, <1>2, <2>1, <2>2, <2>3 DEF Apart, Calm
<1>6. Meters'
  <2>1. CASE meters' = meters /\ meterTrigger' = meterTrigger
    BY <1>1, <2>1 DEF Meters, Calm
  <2>2. CASE Engine!ClearMeter
    <3>1. meterTrigger' = FALSE /\ meters' = IF meterTrigger THEN meters - 1 ELSE meters
      BY <2>2 DEF Engine!ClearMeter
    <3>2. CASE meterTrigger
      BY <1>1, <3>1, <3>2 DEF Meters, Calm
    <3>3. CASE ~ meterTrigger
      BY <1>1, <3>1, <3>3 DEF Meters, Calm
    <3> QED
      BY <3>2, <3>3
  <2> QED
    BY <2>1, <2>2 DEF Calm
<1> QED
  BY <1>3, <1>4, <1>5, <1>6 DEF EngineInv

LEMMA StartTransactionKeeps ==
    ASSUME EngineInv, NEW r \in Run, runs[r].at = "none", Engine!StartTransaction(r)
    PROVE  EngineInv'
<1>1. EngineTyped /\ LinksTyped /\ RunsKnow /\ Apart /\ Meters
  BY DEF EngineInv
<1>2. PICK t \in Engine!TransactionId :
         /\ transaction[t] = "unknown" /\ transaction' = [transaction EXCEPT ![t] = "asked"]
         /\ Engine!Sends(r, "start", t)
  BY DEF Engine!StartTransaction
<1>3. /\ runs' \in [Run -> RunRec] /\ runs'[r].at = "start" /\ runs'[r].tx = t
      /\ \A q \in Run : q # r => runs'[q] = runs[q]
  BY <1>1, <1>2, Sent DEF Engine!Call
<1>4. /\ engineState' = engineState /\ connectorState' = connectorState
      /\ activeTransactionId' = activeTransactionId /\ ws' = ws /\ sockets' = sockets
      /\ reconnects' = reconnects /\ bootRetries' = bootRetries
      /\ meters' = meters /\ meterTrigger' = meterTrigger
  BY DEF Engine!StartTransaction, Engine!connection, Engine!metering
<1>10. crossed' \in BOOLEAN
       /\ (~ crossed' => /\ ~ crossed /\ activeTransactionId = 0
                         /\ \A q \in Run : runs[q].at \notin {"start", "charging"})
  <2>1. crossed \in BOOLEAN
    BY <1>1 DEF EngineTyped
  <2>2. CASE crossed' = TRUE
    BY <2>2
  <2>3. CASE crossed' = crossed /\ ~ (activeTransactionId # 0 \/ Engine!Doing({"start", "charging"}))
    BY <2>1, <2>3 DEF Engine!Doing
  <2> QED
    BY <2>2, <2>3 DEF Engine!StartTransaction, Engine!Overlap
<1>5. /\ transaction' \in [Engine!TransactionId
                             -> {"unknown", "asked", "refused", "started", "stopped"}]
      /\ transaction'[t] = "asked"
      /\ \A u \in Engine!TransactionId : u # t => transaction'[u] = transaction[u]
  BY <1>1, <1>2 DEF EngineTyped
<1>6. EngineTyped' /\ LinksTyped'
  BY <1>1, <1>3, <1>4, <1>5, <1>10 DEF EngineTyped, LinksTyped
<1>7. RunsKnow'
  <2>1. ASSUME NEW q \in Run
        PROVE
          /\ runs'[q].at \in {"start", "refuse", "stop"} => runs'[q].tx \in Engine!TransactionId
          /\ runs'[q].at = "start" => transaction'[runs'[q].tx] = "asked"
          /\ runs'[q].at = "refuse" => transaction'[runs'[q].tx] = "refused"
          /\ runs'[q].at = "stop" => transaction'[runs'[q].tx] \in {"started", "stopped"}
    BY <1>1, <1>2, <1>3, <1>5 DEF RunsKnow
  <2>2. ASSUME NEW p \in Run, NEW q \in Run, runs'[p].at = "start", runs'[q].at = "start",
               runs'[p].tx = runs'[q].tx
        PROVE  p = q
    BY <1>1, <1>2, <1>3, <2>2 DEF RunsKnow
  <2>3. activeTransactionId # 0 => transaction'[activeTransactionId] \in {"started", "stopped"}
    BY <1>1, <1>2, <1>5 DEF RunsKnow, EngineTyped
  <2> QED
    BY <1>1, <1>4, <2>1, <2>2, <2>3 DEF RunsKnow
<1>8. Apart'
  <2> SUFFICES ASSUME ~ crossed' PROVE Apart'
    BY DEF Apart
  <2>1. /\ ~ crossed /\ activeTransactionId = 0
        /\ \A q \in Run : runs[q].at \notin {"start", "charging"}
    BY <1>10
  <2>2. \A q \in Run : runs[q].at \notin Starting
    BY <1>1, <2>1 DEF Apart, Starting
  <2>3. \A p, q \in Run : runs'[p].at \in Starting /\ runs'[q].at \in Starting => p = q
    BY <1>3, <2>2
  <2>4. ~ meterTrigger
    BY <1>1, <2>1 DEF Apart
  <2>5. \A u \in Engine!TransactionId : transaction'[u] = "started" <=> activeTransactionId' = u
    BY <1>1, <1>2, <1>4, <1>5, <2>1 DEF Apart
  <2>6. \A q \in Run : q # r => runs'[q].at \notin {"start", "charging", "stop"}
    BY <1>3, <2>2 DEF Starting
  <2> QED
    BY <1>3, <1>4, <2>1, <2>3, <2>4, <2>5, <2>6, <1>10 DEF Apart
<1>9. Meters'
  BY <1>1, <1>4, <1>10 DEF Meters
<1> QED
  BY <1>6, <1>7, <1>8, <1>9 DEF EngineInv

LEMMA StopTransactionKeeps ==
    ASSUME EngineInv, NEW r \in Run, runs[r].at = "none", Engine!StopTransaction(r)
    PROVE  EngineInv'
<1>1. EngineTyped /\ LinksTyped /\ RunsKnow /\ Apart /\ Meters
  BY DEF EngineInv
<1>2. PICK t : t = activeTransactionId
  OBVIOUS
<1>3. t \in Engine!TransactionId /\ t # 0 /\ transaction[t] \in {"started", "stopped"}
  BY <1>1, <1>2 DEF Engine!StopTransaction, EngineTyped, RunsKnow
<1>4. /\ runs' \in [Run -> RunRec] /\ runs'[r].at = "stop" /\ runs'[r].tx = t
      /\ \A q \in Run : q # r => runs'[q] = runs[q]
  BY <1>1, <1>2, <1>3, Sent DEF Engine!Call, Engine!StopTransaction
<1>5. /\ engineState' = engineState /\ connectorState' = connectorState
      /\ activeTransactionId' = activeTransactionId /\ ws' = ws /\ sockets' = sockets
      /\ reconnects' = reconnects /\ bootRetries' = bootRetries
      /\ transaction' = transaction
      /\ meters' = IF meterTrigger THEN meters - 1 ELSE meters
      /\ meterTrigger' = FALSE
  BY DEF Engine!StopTransaction, Engine!connection, Engine!ClearMeter
<1>10. crossed' \in BOOLEAN
       /\ (~ crossed' => ~ crossed /\ \A q \in Run : runs[q].at \notin {"stop", "charging"})
  <2>1. crossed \in BOOLEAN
    BY <1>1 DEF EngineTyped
  <2>2. CASE crossed' = TRUE
    BY <2>2
  <2>3. CASE crossed' = crossed /\ ~ Engine!Doing({"stop", "charging"})
    BY <2>1, <2>3 DEF Engine!Doing
  <2> QED
    BY <2>2, <2>3 DEF Engine!StopTransaction, Engine!Overlap
<1>6. EngineTyped' /\ LinksTyped'
  BY <1>1, <1>4, <1>5, <1>10 DEF EngineTyped, LinksTyped
<1>7. RunsKnow'
  <2>1. ASSUME NEW q \in Run
        PROVE
          /\ runs'[q].at \in {"start", "refuse", "stop"} => runs'[q].tx \in Engine!TransactionId
          /\ runs'[q].at = "start" => transaction'[runs'[q].tx] = "asked"
          /\ runs'[q].at = "refuse" => transaction'[runs'[q].tx] = "refused"
          /\ runs'[q].at = "stop" => transaction'[runs'[q].tx] \in {"started", "stopped"}
    BY <1>1, <1>3, <1>4, <1>5 DEF RunsKnow
  <2>2. ASSUME NEW p \in Run, NEW q \in Run, runs'[p].at = "start", runs'[q].at = "start",
               runs'[p].tx = runs'[q].tx
        PROVE  p = q
    BY <1>1, <1>4, <2>2 DEF RunsKnow
  <2> QED
    BY <1>1, <1>5, <2>1, <2>2 DEF RunsKnow
<1>8. Apart'
  <2> SUFFICES ASSUME ~ crossed' PROVE Apart'
    BY DEF Apart
  <2>1. ~ crossed /\ \A q \in Run : runs[q].at \notin {"stop", "charging"}
    BY <1>10
  <2>2. \A q \in Run : runs[q].at \notin Starting
    BY <1>1, <1>2, <1>3, <2>1 DEF Apart, Starting
  <2>3. \A p, q \in Run : runs'[p].at \in Starting /\ runs'[q].at \in Starting => p = q
    BY <1>4, <2>2
  <2>4. \A q \in Run : q # r => runs'[q].at \notin {"start", "charging", "stop"}
    BY <1>4, <2>2 DEF Starting
  <2>5. \A u \in Engine!TransactionId : transaction'[u] = "started" <=> activeTransactionId' = u
    BY <1>1, <1>5, <2>1 DEF Apart
  <2> QED
    BY <1>2, <1>3, <1>4, <1>5, <2>3, <2>4, <2>5 DEF Apart
<1>9. Meters'
  <2>1. CASE meterTrigger
    BY <1>1, <1>5, <1>10, <2>1 DEF Meters
  <2>2. CASE ~ meterTrigger
    BY <1>1, <1>5, <1>10, <2>2 DEF Meters
  <2> QED
    BY <2>1, <2>2
<1> QED
  BY <1>6, <1>7, <1>8, <1>9 DEF EngineInv

LEMMA StartAcceptedKeeps ==
    ASSUME EngineInv, NEW r \in Run, runs[r].at = "start", Engine!StartAccepted(r)
    PROVE  EngineInv'
<1>1. EngineTyped /\ LinksTyped /\ RunsKnow /\ Apart /\ Meters
  BY DEF EngineInv
<1>2. PICK t : t = runs[r].tx
  OBVIOUS
<1>3. t \in Engine!TransactionId /\ t # 0 /\ transaction[t] = "asked"
  BY <1>1, <1>2, EngineAssumption DEF RunsKnow, Engine!TransactionId
<1>4. /\ runs' \in [Run -> RunRec] /\ runs'[r].at = "charging" /\ runs'[r].tx = 0
      /\ \A q \in Run : q # r => runs'[q] = runs[q]
  BY <1>1, Sent DEF Engine!Call, Engine!StartAccepted, Engine!ToState
<1>5. /\ engineState' = "CHARGING" /\ connectorState' = "Busy"
      /\ activeTransactionId' = t /\ ws' = ws /\ sockets' = sockets
      /\ reconnects' = reconnects /\ bootRetries' = bootRetries
      /\ transaction' = [transaction EXCEPT ![t] = "started"]
      /\ meters' = meters /\ meterTrigger' = meterTrigger /\ crossed' = crossed
  BY <1>2 DEF Engine!StartAccepted, Engine!ToState, Engine!connection, Engine!metering
<1>6. /\ transaction' \in [Engine!TransactionId
                             -> {"unknown", "asked", "refused", "started", "stopped"}]
      /\ transaction'[t] = "started"
      /\ \A u \in Engine!TransactionId : u # t => transaction'[u] = transaction[u]
  BY <1>1, <1>3, <1>5 DEF EngineTyped
<1>7. EngineTyped' /\ LinksTyped'
  BY <1>1, <1>3, <1>4, <1>5, <1>6 DEF EngineTyped, LinksTyped
<1>8. RunsKnow'
  <2>1. ASSUME NEW q \in Run
        PROVE
          /\ runs'[q].at \in {"start", "refuse", "stop"} => runs'[q].tx \in Engine!TransactionId
          /\ runs'[q].at = "start" => transaction'[runs'[q].tx] = "asked"
          /\ runs'[q].at = "refuse" => transaction'[runs'[q].tx] = "refused"
          /\ runs'[q].at = "stop" => transaction'[runs'[q].tx] \in {"started", "stopped"}
    <3>1. CASE q = r
      BY <1>4, <3>1
    <3>2. CASE q # r
      <4>1. runs[q].at = "start" => runs[q].tx # t
        BY <1>1, <1>2, <3>2 DEF RunsKnow
      <4> QED
        BY <1>1, <1>3, <1>4, <1>6, <3>2, <4>1 DEF RunsKnow
    <3> QED
      BY <3>1, <3>2
  <2>2. ASSUME NEW p \in Run, NEW q \in Run, runs'[p].at = "start", runs'[q].at = "start",
               runs'[p].tx = runs'[q].tx
        PROVE  p = q
    BY <1>1, <1>4, <2>2 DEF RunsKnow
  <2> QED
    BY <1>3, <1>5, <1>6, <2>1, <2>2 DEF RunsKnow
<1>9. Apart'
  <2> SUFFICES ASSUME ~ crossed' PROVE Apart'
    BY DEF Apart
  <2>1. ~ crossed /\ activeTransactionId = 0 /\ ~ meterTrigger
    BY <1>1, <1>5 DEF Apart
  <2>2. \A q \in Run : q # r => runs'[q].at \notin Starting
    BY <1>1, <1>4, <2>1 DEF Apart, Starting
  <2>3. \A p, q \in Run : runs'[p].at \in Starting /\ runs'[q].at \in Starting => p = q
    BY <2>2
  <2>4. \A q \in Run : q # r => runs'[q].at \notin {"start", "charging", "stop"}
    BY <2>2 DEF Starting
  <2>5. \A u \in Engine!TransactionId : transaction[u] # "started"
    BY <1>1, <2>1, EngineAssumption DEF Apart, Engine!TransactionId
  <2>6. \A u \in Engine!TransactionId : transaction'[u] = "started" <=> activeTransactionId' = u
    BY <1>5, <1>6, <2>5
  <2> QED
    BY <1>3, <1>4, <1>5, <2>1, <2>3, <2>4, <2>6 DEF Apart
<1>10. Meters'
  BY <1>1, <1>5 DEF Meters
<1> QED
  BY <1>7, <1>8, <1>9, <1>10 DEF EngineInv

LEMMA StartRefusedKeeps ==
    ASSUME EngineInv, NEW r \in Run, runs[r].at = "start", Engine!StartRefused(r)
    PROVE  EngineInv'
<1>1. EngineTyped /\ LinksTyped /\ RunsKnow /\ Apart /\ Meters
  BY DEF EngineInv
<1>2. PICK t : t = runs[r].tx
  OBVIOUS
<1>3. t \in Engine!TransactionId /\ t # 0 /\ transaction[t] = "asked"
  BY <1>1, <1>2, EngineAssumption DEF RunsKnow, Engine!TransactionId
<1>4. /\ runs' \in [Run -> RunRec] /\ runs'[r].at = "refuse" /\ runs'[r].tx = t
      /\ \A q \in Run : q # r => runs'[q] = runs[q]
  BY <1>1, <1>2, <1>3, Sent DEF Engine!Call, Engine!StartRefused
<1>5. /\ engineState' = engineState /\ connectorState' = connectorState
      /\ activeTransactionId' = activeTransactionId /\ ws' = ws /\ sockets' = sockets
      /\ reconnects' = reconnects /\ bootRetries' = bootRetries
      /\ transaction' = [transaction EXCEPT ![t] = "refused"]
      /\ meters' = meters /\ meterTrigger' = meterTrigger /\ crossed' = crossed
  BY <1>2 DEF Engine!StartRefused, Engine!connection, Engine!metering
<1>6. /\ transaction' \in [Engine!TransactionId
                             -> {"unknown", "asked", "refused", "started", "stopped"}]
      /\ transaction'[t] = "refused"
      /\ \A u \in Engine!TransactionId : u # t => transaction'[u] = transaction[u]
  BY <1>1, <1>3, <1>5 DEF EngineTyped
<1>7. EngineTyped' /\ LinksTyped'
  BY <1>1, <1>4, <1>5, <1>6 DEF EngineTyped, LinksTyped
<1>8. activeTransactionId # t
  BY <1>1, <1>3 DEF RunsKnow
<1>9. RunsKnow'
  <2>1. ASSUME NEW q \in Run
        PROVE
          /\ runs'[q].at \in {"start", "refuse", "stop"} => runs'[q].tx \in Engine!TransactionId
          /\ runs'[q].at = "start" => transaction'[runs'[q].tx] = "asked"
          /\ runs'[q].at = "refuse" => transaction'[runs'[q].tx] = "refused"
          /\ runs'[q].at = "stop" => transaction'[runs'[q].tx] \in {"started", "stopped"}
    <3>1. CASE q = r
      BY <1>3, <1>4, <1>6, <3>1
    <3>2. CASE q # r
      <4>1. runs[q].at = "start" => runs[q].tx # t
        BY <1>1, <1>2, <3>2 DEF RunsKnow
      <4> QED
        BY <1>1, <1>3, <1>4, <1>6, <3>2, <4>1 DEF RunsKnow
    <3> QED
      BY <3>1, <3>2
  <2>2. ASSUME NEW p \in Run, NEW q \in Run, runs'[p].at = "start", runs'[q].at = "start",
               runs'[p].tx = runs'[q].tx
        PROVE  p = q
    BY <1>1, <1>4, <2>2 DEF RunsKnow
  <2>3. activeTransactionId # 0 => transaction'[activeTransactionId] \in {"started", "stopped"}
    BY <1>1, <1>6, <1>8 DEF RunsKnow, EngineTyped
  <2> QED
    BY <1>1, <1>5, <2>1, <2>2, <2>3 DEF RunsKnow
<1>10. Apart'
  <2> SUFFICES ASSUME ~ crossed' PROVE Apart'
    BY DEF Apart
  <2>1. ~ crossed /\ activeTransactionId = 0 /\ ~ meterTrigger
    BY <1>1, <1>5 DEF Apart
  <2>2. \A q \in Run : runs'[q].at \notin Starting
    BY <1>1, <1>4, <2>1 DEF Apart, Starting
  <2>3. \A q \in Run : runs'[q].at \notin {"start", "charging", "stop"}
    BY <2>2 DEF Starting
  <2>4. \A u \in Engine!TransactionId : transaction'[u] = "started" <=> activeTransactionId' = u
    BY <1>1, <1>5, <1>6, <1>8, <2>1 DEF Apart
  <2> QED
    BY <1>5, <2>1, <2>2, <2>3, <2>4 DEF Apart
<1>11. Meters'
  BY <1>1, <1>5 DEF Meters
<1> QED
  BY <1>7, <1>9, <1>10, <1>11 DEF EngineInv

LEMMA MeteredKeeps ==
    ASSUME EngineInv, NEW r \in Run, runs[r].at = "charging", Engine!Metered(r)
    PROVE  EngineInv'
<1>1. EngineTyped /\ LinksTyped /\ RunsKnow /\ Apart /\ Meters
  BY DEF EngineInv
<1>2. /\ runs' \in [Run -> RunRec] /\ runs'[r].at = "none"
      /\ \A q \in Run : q # r => runs'[q] = runs[q]
  BY <1>1, Ended DEF Engine!Metered
<1>3. /\ engineState' = engineState /\ connectorState' = connectorState
      /\ activeTransactionId' = activeTransactionId /\ ws' = ws /\ sockets' = sockets
      /\ reconnects' = reconnects /\ bootRetries' = bootRetries
      /\ transaction' = transaction /\ meters' = meters + 1 /\ meterTrigger' = TRUE
      /\ crossed' = crossed
  BY DEF Engine!Metered, Engine!connection
<1>4. EngineTyped' /\ LinksTyped'
  BY <1>1, <1>2, <1>3 DEF EngineTyped, LinksTyped
<1>5. RunsKnow'
  <2>1. ASSUME NEW q \in Run
        PROVE
          /\ runs'[q].at \in {"start", "refuse", "stop"} => runs'[q].tx \in Engine!TransactionId
          /\ runs'[q].at = "start" => transaction'[runs'[q].tx] = "asked"
          /\ runs'[q].at = "refuse" => transaction'[runs'[q].tx] = "refused"
          /\ runs'[q].at = "stop" => transaction'[runs'[q].tx] \in {"started", "stopped"}
    BY <1>1, <1>2, <1>3 DEF RunsKnow
  <2>2. ASSUME NEW p \in Run, NEW q \in Run, runs'[p].at = "start", runs'[q].at = "start",
               runs'[p].tx = runs'[q].tx
        PROVE  p = q
    BY <1>1, <1>2, <2>2 DEF RunsKnow
  <2> QED
    BY <1>1, <1>3, <2>1, <2>2 DEF RunsKnow
<1>6. Apart'
  <2> SUFFICES ASSUME ~ crossed' PROVE Apart'
    BY DEF Apart
  <2>1. ~ crossed /\ activeTransactionId # 0
    BY <1>1, <1>3 DEF Apart
  <2>2. \A q \in Run : runs'[q].at \notin Starting
    BY <1>1, <1>2, <2>1 DEF Apart, Starting
  <2>3. \A q \in Run : runs'[q].at \notin {"start", "charging", "stop"}
    BY <2>2 DEF Starting
  <2>4. \A u \in Engine!TransactionId : transaction'[u] = "started" <=> activeTransactionId' = u
    BY <1>1, <1>3, <2>1 DEF Apart
  <2> QED
    BY <1>3, <2>1, <2>2, <2>3, <2>4 DEF Apart
<1>7. Meters'
  <2>1. ~ crossed => ~ meterTrigger
    BY <1>1 DEF Apart
  <2> QED
    BY <1>1, <1>3, <2>1 DEF Meters
<1> QED
  BY <1>4, <1>5, <1>6, <1>7 DEF EngineInv

LEMMA StoppedKeeps ==
    ASSUME EngineInv, NEW r \in Run, runs[r].at = "stop", Engine!Stopped(r)
    PROVE  EngineInv'
<1>1. EngineTyped /\ LinksTyped /\ RunsKnow /\ Apart /\ Meters
  BY DEF EngineInv
<1>2. PICK t : t = runs[r].tx
  OBVIOUS
<1>3. t \in Engine!TransactionId /\ t # 0 /\ transaction[t] \in {"started", "stopped"}
  BY <1>1, <1>2, EngineAssumption DEF RunsKnow, Engine!TransactionId
<1>4. /\ runs' \in [Run -> RunRec] /\ runs'[r].at = "status" /\ runs'[r].tx = 0
      /\ \A q \in Run : q # r => runs'[q] = runs[q]
  BY <1>1, Sent DEF Engine!Call, Engine!Stopped, Engine!ToState
<1>5. /\ engineState' = "IDLE" /\ connectorState' = "Busy"
      /\ activeTransactionId' = 0 /\ ws' = ws /\ sockets' = sockets
      /\ reconnects' = reconnects /\ bootRetries' = bootRetries
      /\ transaction' = [transaction EXCEPT ![t] = "stopped"]
      /\ meters' = meters /\ meterTrigger' = meterTrigger /\ crossed' = crossed
  BY <1>2 DEF Engine!Stopped, Engine!ToState, Engine!connection, Engine!metering
<1>6. /\ transaction' \in [Engine!TransactionId
                             -> {"unknown", "asked", "refused", "started", "stopped"}]
      /\ transaction'[t] = "stopped"
      /\ \A u \in Engine!TransactionId : u # t => transaction'[u] = transaction[u]
  BY <1>1, <1>3, <1>5 DEF EngineTyped
<1>7. EngineTyped' /\ LinksTyped'
  BY <1>1, <1>4, <1>5, <1>6 DEF EngineTyped, LinksTyped
<1>8. RunsKnow'
  <2>1. ASSUME NEW q \in Run
        PROVE
          /\ runs'[q].at \in {"start", "refuse", "stop"} => runs'[q].tx \in Engine!TransactionId
          /\ runs'[q].at = "start" => transaction'[runs'[q].tx] = "asked"
          /\ runs'[q].at = "refuse" => transaction'[runs'[q].tx] = "refused"
          /\ runs'[q].at = "stop" => transaction'[runs'[q].tx] \in {"started", "stopped"}
    BY <1>1, <1>3, <1>4, <1>6 DEF RunsKnow
  <2>2. ASSUME NEW p \in Run, NEW q \in Run, runs'[p].at = "start", runs'[q].at = "start",
               runs'[p].tx = runs'[q].tx
        PROVE  p = q
    BY <1>1, <1>4, <2>2 DEF RunsKnow
  <2> QED
    BY <1>5, <2>1, <2>2 DEF RunsKnow
<1>9. Apart'
  <2> SUFFICES ASSUME ~ crossed' PROVE Apart'
    BY DEF Apart
  <2>1. ~ crossed /\ activeTransactionId = t /\ ~ meterTrigger
    BY <1>1, <1>2, <1>5 DEF Apart
  <2>2. \A q \in Run : runs'[q].at \notin Starting
    BY <1>1, <1>4, <2>1 DEF Apart, Starting
  <2>3. \A q \in Run : runs'[q].at \notin {"start", "charging", "stop"}
    BY <2>2 DEF Starting
  <2>4. \A u \in Engine!TransactionId : transaction'[u] = "started" <=> activeTransactionId' = u
    BY <1>1, <1>5, <1>6, <2>1, EngineAssumption DEF Apart, Engine!TransactionId
  <2> QED
    BY <1>5, <2>1, <2>2, <2>3, <2>4 DEF Apart
<1>10. Meters'
  BY <1>1, <1>5 DEF Meters
<1> QED
  BY <1>7, <1>8, <1>9, <1>10 DEF EngineInv
(* A run that sends a call whose answer changes nothing, or ends.          *)
LEMMA CalmRun ==
    ASSUME EngineInv, NEW r \in Run,
           \/ \E call \in {"boot", "station", "status", "authorize"} : Engine!Sends(r, call, 0)
           \/ Engine!Ends(r),
           transaction' = transaction, activeTransactionId' = activeTransactionId,
           crossed' = crossed, meters' = meters, meterTrigger' = meterTrigger,
           engineState' \in {"POWER_ON", "IDLE", engineState},
           connectorState' \in {"Available", "Preparing", "Busy"},
           LinksTyped'
    PROVE  EngineInv'
<1>1. EngineTyped /\ LinksTyped
  BY DEF EngineInv
<1>2. /\ runs' \in [Run -> RunRec] /\ runs'[r].at \in {"boot", "station", "status", "authorize", "none"}
      /\ \A q \in Run : q # r => runs'[q] = runs[q]
  <2>1. ASSUME NEW call \in {"boot", "station", "status", "authorize"}, Engine!Sends(r, call, 0)
        PROVE  /\ runs' \in [Run -> RunRec] /\ runs'[r].at = call
               /\ \A q \in Run : q # r => runs'[q] = runs[q]
    <3>1. call \in Engine!Call /\ 0 \in {0} \cup Engine!TransactionId
      BY DEF Engine!Call
    <3> QED
      BY <1>1, <2>1, <3>1, Sent
  <2>2. CASE Engine!Ends(r)
    BY <1>1, <2>2, Ended
  <2> QED
    BY <2>1, <2>2
<1>3. \A q \in Run : \/ runs'[q].at = runs[q].at /\ runs'[q].tx = runs[q].tx
                     \/ runs'[q].at \notin {"start", "charging", "stop", "refuse"}
  BY <1>2
<1>4. Calm
  BY <1>2, <1>3 DEF Calm
<1> QED
  BY <1>4, CalmKeeps

LEMMA MovesKeep ==
    ASSUME EngineInv, NEW r \in Run, NEW status \in {"Available", "Preparing", "Busy"},
           Engine!Moves(r, status)
    PROVE  EngineInv'
<1>1. LinksTyped'
  BY DEF EngineInv, LinksTyped, Engine!Moves, Engine!Quiet, Engine!connection
<1> QED
  BY <1>1, CalmRun
     DEF Engine!Moves, Engine!Quiet, Engine!ToState, Engine!connection, Engine!metering

LEMMA AsksKeep ==
    ASSUME EngineInv, NEW r \in Run, NEW call \in {"status", "authorize"}, Engine!Asks(r, call)
    PROVE  EngineInv'
<1>1. LinksTyped'
  BY DEF EngineInv, LinksTyped, Engine!Asks, Engine!Quiet, Engine!connection
<1>2. connectorState' \in {"Available", "Preparing", "Busy"}
  BY DEF EngineInv, EngineTyped, Engine!Asks
<1> QED
  BY <1>1, <1>2, CalmRun DEF Engine!Asks, Engine!Quiet, Engine!connection, Engine!metering

LEMMA FailsKeep ==
    ASSUME EngineInv, NEW r \in Run, Engine!Fails(r)
    PROVE  EngineInv'
<1>1. EngineTyped /\ LinksTyped
  BY DEF EngineInv
<1>2. CASE runs[r].at = "boot" /\ Engine!BootFails(r)
  <2>1. /\ Engine!Ends(r) /\ bootRetries < MaxTimers /\ bootRetries' = bootRetries + 1
        /\ engineState' = engineState /\ connectorState' = connectorState
        /\ activeTransactionId' = activeTransactionId /\ ws' = ws /\ sockets' = sockets
        /\ reconnects' = reconnects /\ transaction' = transaction
        /\ meters' = meters /\ meterTrigger' = meterTrigger /\ crossed' = crossed
    BY <1>2 DEF Engine!BootFails, Engine!metering
  <2>2. LinksTyped' /\ connectorState' \in {"Available", "Preparing", "Busy"}
    BY <1>1, <2>1, EngineAssumption DEF LinksTyped, EngineTyped
  <2> QED
    BY <2>1, <2>2, CalmRun
<1>3. CASE runs[r].at = "station" /\ Engine!Moves(r, "Available")
  BY <1>3, MovesKeep
<1>4. CASE runs[r].at = "charging" /\ Engine!Metered(r)
  BY <1>4, MeteredKeeps
<1>5. CASE Engine!Unanswered(r)
  <2>1. /\ Engine!Ends(r) /\ bootRetries' = bootRetries
        /\ engineState' = engineState /\ connectorState' = connectorState
        /\ activeTransactionId' = activeTransactionId /\ ws' = ws /\ sockets' = sockets
        /\ reconnects' = reconnects /\ transaction' = transaction
        /\ meters' = meters /\ meterTrigger' = meterTrigger /\ crossed' = crossed
    BY <1>5 DEF Engine!Unanswered, Engine!Quiet, Engine!connection, Engine!metering
  <2>2. LinksTyped' /\ connectorState' \in {"Available", "Preparing", "Busy"}
    BY <1>1, <2>1 DEF LinksTyped, EngineTyped
  <2> QED
    BY <2>1, <2>2, CalmRun
<1> QED
  BY <1>2, <1>3, <1>4, <1>5 DEF Engine!Fails

LEMMA AnsweredKeeps ==
    ASSUME EngineInv, NEW r \in Run, Engine!Answered(r)
    PROVE  EngineInv'
<1>1. EngineTyped /\ LinksTyped
  BY DEF EngineInv
<1>2. CASE Engine!BootAccepted(r)
  <2>1. /\ engineState' = "IDLE" /\ bootRetries' = bootRetries
        /\ activeTransactionId' = activeTransactionId /\ ws' = ws /\ sockets' = sockets
        /\ reconnects' = reconnects /\ transaction' = transaction
        /\ meters' = meters /\ meterTrigger' = meterTrigger /\ crossed' = crossed
    BY <1>2 DEF Engine!BootAccepted, Engine!connection, Engine!metering
  <2>2. LinksTyped'
    BY <1>1, <2>1 DEF LinksTyped
  <2>3. \E call \in {"boot", "station", "status", "authorize"} : Engine!Sends(r, call, 0)
    BY <1>2 DEF Engine!BootAccepted, Engine!ToState
  <2>4. connectorState' \in {"Available", "Preparing", "Busy"}
    BY <1>1, <1>2 DEF Engine!BootAccepted, Engine!ToState, EngineTyped
  <2> QED
    BY <2>1, <2>2, <2>3, <2>4, CalmRun
<1>3. CASE Engine!RefusalStopped(r)
  <2>1. /\ engineState' = engineState /\ bootRetries' = bootRetries
        /\ activeTransactionId' = activeTransactionId /\ ws' = ws /\ sockets' = sockets
        /\ reconnects' = reconnects /\ transaction' = transaction
        /\ meters' = meters /\ meterTrigger' = meterTrigger /\ crossed' = crossed
        /\ connectorState' = "Available" /\ Engine!Sends(r, "status", 0)
    BY <1>3 DEF Engine!RefusalStopped, Engine!ToState, Engine!connection, Engine!metering
  <2>2. LinksTyped'
    BY <1>1, <2>1 DEF LinksTyped
  <2> QED
    BY <2>1, <2>2, CalmRun
<1>4. CASE Engine!Authorized(r)
  BY <1>4, MovesKeep DEF Engine!Authorized
<1> QED
  BY <1>2, <1>3, <1>4, FailsKeep, StartAcceptedKeeps, StartRefusedKeeps, StoppedKeeps
     DEF Engine!Answered

(* The sockets after a further one is made, and after the one in use is    *)
(* dropped.                                                                *)
LEMMA Connected ==
    ASSUME NEW made2 \in [Engine!Socket -> {"unmade", "connecting", "open", "closed"}],
           Engine!Connect(made2)
    PROVE  /\ ws' \in Engine!Socket
           /\ sockets' \in [Engine!Socket -> {"unmade", "connecting", "open", "closed"}]
  BY DEF Engine!Connect

LEMMA DroppedTyped ==
    LinksTyped => Engine!Dropped \in [Engine!Socket -> {"unmade", "connecting", "open", "closed"}]
  BY DEF LinksTyped, Engine!Dropped

LEMMA StopKeeps ==
    ASSUME EngineInv, Engine!Stop, LinksTyped'
    PROVE  EngineInv'
<1>1. EngineTyped
  BY DEF EngineInv
<1>2. Engine!Idle \in RunRec /\ Engine!Idle.at = "none"
  BY DEF Engine!Idle, RunRec
<1>3. /\ runs' \in [Run -> RunRec]
      /\ \A q \in Run : \/ runs'[q].at = runs[q].at /\ runs'[q].tx = runs[q].tx
                        \/ runs'[q].at = "none"
  <2>1. runs' = [r \in Run |-> IF runs[r].at = "none" THEN Engine!Idle
                               ELSE [runs[r] EXCEPT !.rejected = TRUE]]
    BY DEF Engine!Stop
  <2>2. ASSUME NEW r \in Run
        PROVE  /\ [runs[r] EXCEPT !.rejected = TRUE] \in RunRec
               /\ [runs[r] EXCEPT !.rejected = TRUE].at = runs[r].at
               /\ [runs[r] EXCEPT !.rejected = TRUE].tx = runs[r].tx
    BY <1>1 DEF EngineTyped, RunRec
  <2> QED
    BY <1>2, <2>1, <2>2
<1>4. Calm
  BY <1>1, <1>3 DEF Calm, Engine!Stop, EngineTyped
<1> QED
  BY <1>4, CalmKeeps

(* A socket that opens, closes, or is made changes no run but the boot.    *)
LEMMA LinkKeeps ==
    ASSUME EngineInv, LinksTyped', runs' = runs,
           transaction' = transaction, activeTransactionId' = activeTransactionId,
           crossed' = crossed, meters' = meters, meterTrigger' = meterTrigger,
           engineState' = engineState, connectorState' = connectorState
    PROVE  EngineInv'
  BY CalmKeeps DEF Calm, EngineInv, EngineTyped

LEMMA SocketOpensKeeps ==
    ASSUME EngineInv, NEW s \in Engine!Socket, NEW r \in Run, Engine!SocketOpens(s, r)
    PROVE  EngineInv'
<1>1. EngineTyped /\ LinksTyped
  BY DEF EngineInv
<1>2. /\ sockets' = [sockets EXCEPT ![s] = "open"] /\ engineState' = "POWER_ON"
      /\ connectorState' = connectorState /\ activeTransactionId' = activeTransactionId
      /\ ws' = ws /\ reconnects' = reconnects /\ bootRetries' = bootRetries
      /\ transaction' = transaction /\ meters' = meters /\ meterTrigger' = meterTrigger
      /\ crossed' = crossed
  BY DEF Engine!SocketOpens, Engine!metering
<1>3. LinksTyped'
  BY <1>1, <1>2 DEF LinksTyped
<1>4. PICK b \in BOOLEAN : b = (ws = 0 \/ sockets'[ws] # "open")
  OBVIOUS
<1>5. PICK new : new = [at |-> "boot", tx |-> 0, on |-> ws, rejected |-> b]
  OBVIOUS
<1>6. new \in RunRec /\ new.at = "boot"
  BY <1>1, <1>4, <1>5 DEF RunRec, Engine!Call, LinksTyped
<1>7. runs' = [runs EXCEPT ![r] = new]
  BY <1>4, <1>5 DEF Engine!SocketOpens
<1>8. Calm
  BY <1>1, <1>2, <1>6, <1>7 DEF Calm, EngineTyped
<1> QED
  BY <1>3, <1>8, CalmKeeps

LEMMA BeginsKeeps ==
    ASSUME EngineInv, NEW r \in Run, Engine!Begins(r)
    PROVE  EngineInv'
<1>1. EngineTyped /\ LinksTyped
  BY DEF EngineInv
<1>2. CASE Engine!BootRetry(r)
  <2>1. /\ engineState' = "POWER_ON" /\ bootRetries > 0 /\ bootRetries' = bootRetries - 1
        /\ connectorState' = connectorState /\ Engine!Sends(r, "boot", 0)
        /\ activeTransactionId' = activeTransactionId /\ ws' = ws /\ sockets' = sockets
        /\ reconnects' = reconnects /\ transaction' = transaction
        /\ meters' = meters /\ meterTrigger' = meterTrigger /\ crossed' = crossed
    BY <1>2 DEF Engine!BootRetry, Engine!RunBootSequence, Engine!metering
  <2>2. LinksTyped' /\ connectorState' \in {"Available", "Preparing", "Busy"}
    BY <1>1, <2>1, EngineAssumption DEF LinksTyped, EngineTyped
  <2> QED
    BY <2>1, <2>2, CalmRun
<1>3. CASE Engine!ChangeAvailability(r) \/ Engine!ReserveNow(r) \/ Engine!CancelReservation(r)
           \/ Engine!AvailableTimer(r)
  BY <1>3, MovesKeep DEF Engine!ChangeAvailability, Engine!ReserveNow,
     Engine!CancelReservation, Engine!AvailableTimer
<1>4. CASE Engine!Authorize(r) \/ Engine!Notify(r)
  BY <1>4, AsksKeep DEF Engine!Authorize, Engine!Notify
<1> QED
  BY <1>2, <1>3, <1>4, StartTransactionKeeps, StopTransactionKeeps, SocketOpensKeeps
     DEF Engine!Begins

LEMMA EngineStep == EngineInv /\ [Engine!Next]_engineVars => EngineInv'
<1> SUFFICES ASSUME EngineInv, [Engine!Next]_engineVars PROVE EngineInv'
  OBVIOUS
<1>1. EngineTyped /\ LinksTyped
  BY DEF EngineInv
<1>2. CASE UNCHANGED engineVars
  BY <1>1, <1>2, LinkKeeps DEF engineVars, LinksTyped
<1>3. ASSUME NEW s \in Engine!Socket, Engine!SocketCloses(s) PROVE EngineInv'
  <2>1. /\ sockets' = [sockets EXCEPT ![s] = "closed"] /\ engineState' = engineState
        /\ connectorState' = connectorState /\ activeTransactionId' = activeTransactionId
        /\ ws' = ws /\ runs' = runs /\ bootRetries' = bootRetries
        /\ transaction' = transaction /\ meters' = meters /\ meterTrigger' = meterTrigger
        /\ crossed' = crossed
        /\ \/ reconnects' = reconnects
           \/ reconnects < MaxTimers /\ reconnects' = reconnects + 1
    BY <1>3 DEF Engine!SocketCloses, Engine!metering
  <2>2. LinksTyped'
    BY <1>1, <2>1, EngineAssumption DEF LinksTyped
  <2> QED
    BY <2>1, <2>2, LinkKeeps
<1>4. CASE Engine!ReconnectTimer
  <2>1. /\ engineState' = engineState /\ reconnects > 0 /\ reconnects' = reconnects - 1
        /\ connectorState' = connectorState /\ activeTransactionId' = activeTransactionId
        /\ runs' = runs /\ bootRetries' = bootRetries
        /\ transaction' = transaction /\ meters' = meters /\ meterTrigger' = meterTrigger
        /\ crossed' = crossed /\ Engine!Connect(sockets)
    BY <1>4 DEF Engine!ReconnectTimer, Engine!metering
  <2>2. ws' \in Engine!Socket
        /\ sockets' \in [Engine!Socket -> {"unmade", "connecting", "open", "closed"}]
    BY <1>1, <2>1, Connected DEF LinksTyped
  <2>3. LinksTyped'
    BY <1>1, <2>1, <2>2, EngineAssumption DEF LinksTyped
  <2> QED
    BY <2>1, <2>3, LinkKeeps
<1>5. CASE Engine!Quit
  <2>1. Engine!Stop /\ ws' = 0 /\ sockets' = Engine!Dropped
    BY <1>5 DEF Engine!Quit
  <2>2. LinksTyped'
    BY <1>1, <2>1, DroppedTyped DEF LinksTyped, Engine!Stop
  <2> QED
    BY <2>1, <2>2, StopKeeps
<1>6. CASE Engine!ResetFires
  <2>1. Engine!Stop /\ Engine!Connect(Engine!Dropped)
    BY <1>6 DEF Engine!ResetFires
  <2>2. ws' \in Engine!Socket
        /\ sockets' \in [Engine!Socket -> {"unmade", "connecting", "open", "closed"}]
    BY <1>1, <2>1, DroppedTyped, Connected
  <2>3. LinksTyped'
    BY <1>1, <2>1, <2>2 DEF LinksTyped, Engine!Stop
  <2> QED
    BY <2>1, <2>3, StopKeeps
<1> QED
  BY <1>2, <1>3, <1>4, <1>5, <1>6, FailsKeep, AnsweredKeeps, BeginsKeeps
     DEF Engine!Next, Engine!Rejected, Engine!TimesOut

LEMMA EngineInit == Engine!Init => EngineInv
<1> SUFFICES ASSUME Engine!Init PROVE EngineInv
  OBVIOUS
<1>1. Engine!Idle \in RunRec /\ Engine!Idle.at = "none"
  BY DEF Engine!Idle, RunRec
<1>2. EngineTyped
  BY <1>1 DEF Engine!Init, EngineTyped
<1>3. LinksTyped
  BY EngineAssumption DEF Engine!Init, LinksTyped, Engine!Socket
<1>4. /\ \A r \in Run : runs[r].at = "none"
      /\ activeTransactionId = 0 /\ engineState = "POWER_ON" /\ crossed = FALSE
      /\ meters = 0 /\ meterTrigger = FALSE
      /\ \A t \in Engine!TransactionId : transaction[t] = "unknown" /\ t # 0
  BY <1>1, EngineAssumption DEF Engine!Init, Engine!TransactionId
<1>5. RunsKnow
  BY <1>4 DEF RunsKnow
<1>6. Apart
  BY <1>4 DEF Apart, Starting
<1>7. Meters
  BY <1>4 DEF Meters
<1> QED
  BY <1>2, <1>3, <1>5, <1>6, <1>7 DEF EngineInv

LEMMA EngineIsKept == EngineInv => Engine!TransactionsKept
<1> SUFFICES ASSUME EngineInv PROVE Engine!TransactionsKept
  OBVIOUS
<1>1. EngineTyped /\ LinksTyped /\ RunsKnow /\ Apart /\ Meters
  BY DEF EngineInv
<1>2. Engine!TypeOK
  BY <1>1, EngineTypes DEF Meters
<1>3. ASSUME ~ crossed
      PROVE  /\ \A t \in Engine!TransactionId : transaction[t] = "started" <=> activeTransactionId = t
             /\ meters = IF meterTrigger THEN 1 ELSE 0
             /\ meters > 0 => activeTransactionId # 0
  BY <1>1, <1>3 DEF Apart, Meters
<1> QED
  BY <1>1, <1>2, <1>3 DEF RunsKnow, Engine!TransactionsKept
-----------------------------------------------------------------------------
(* Records of connections *)

ConnRec == [of : Station, stage : {"open", "leaving", "gone"}, kept : BOOLEAN,
            measured : Nat, alone : BOOLEAN, touched : BOOLEAN]

RecordRec == [of : Nat, status : {"online", "offline"}]

RecordsTyped ==
    /\ conns \in Seq(ConnRec)
    /\ \A c \in 1 .. Len(conns) : conns[c].measured <= Len(conns)
    /\ holder \in [Station -> 0 .. Len(conns)]
    /\ started \in [Station -> 0 .. Len(conns)]
    /\ record \in [Station -> RecordRec]
    /\ \A s \in Station : record[s].of <= Len(conns)
    /\ requests \subseteq [op : Records!Op, station : Station, on : 1 .. Len(conns)]

PeaksTyped == activeConnections \in Nat /\ peakConnections \in Nat /\ peakOnline \in Nat

(* The server holds a connection of the identity that is there; the start  *)
(* that is kept under an identity is of one of its connections, and no end *)
(* was measured from it yet.                                               *)
Kept ==
    \A s \in Station :
        /\ holder[s] # 0 => holder[s] \in Records!LiveOf(s)
        /\ started[s] # 0 => /\ conns[started[s]].of = s
                             /\ \A c \in Records!Conn \ Records!Live : conns[c].measured # started[s]

(* A connection that met no other is the only one of its station, and the  *)
(* start that is kept is its own.                                          *)
Lone ==
    \A c \in Records!Live :
        conns[c].alone => /\ started[conns[c].of] = c
                          /\ \A d \in Records!Live : conns[d].of = conns[c].of => d = c

RecordsInv == /\ RecordsTyped /\ PeaksTyped /\ Kept /\ Lone
              /\ Records!CountsExact /\ Records!MeasuresOwn /\ Records!ShownTrue

RecordsBasic ==
    /\ Len(conns) \in Nat /\ Records!Conn = 1 .. Len(conns)
    /\ \A c \in Records!Conn : conns[c] \in ConnRec
    /\ Records!Live \subseteq Records!Conn /\ IsFiniteSet(Records!Live)
    /\ Cardinality(Records!Live) \in Nat

(* Connections are numbered from one, and those that live are finitely     *)
(* many.                                                                   *)
LEMMA RecordsBasics == RecordsTyped => RecordsBasic
<1> SUFFICES ASSUME RecordsTyped PROVE RecordsBasic
  OBVIOUS
<1>1. Len(conns) \in Nat /\ Records!Conn = 1 .. Len(conns)
  BY LenProperties DEF RecordsTyped, Records!Conn
<1>2. \A c \in Records!Conn : conns[c] \in ConnRec
  BY <1>1, ElementOfSeq DEF RecordsTyped
<1>3. Records!Live \subseteq Records!Conn
  BY DEF Records!Live
<1>4. IsFiniteSet(1 .. Len(conns))
  BY <1>1, FS_Interval
<1>5. IsFiniteSet(Records!Live)
  BY <1>1, <1>3, <1>4, FS_Subset
<1>6. Cardinality(Records!Live) \in Nat
  BY <1>5, FS_CardinalityType
<1> QED
  BY <1>1, <1>2, <1>3, <1>5, <1>6 DEF RecordsBasic

KeptLive == {c \in Records!Live : conns[c].kept}
CountsHold ==
    /\ activeCount = Cardinality(Records!Live) /\ activeConnections = activeCount
    /\ Cardinality(KeptLive) <= GuardLimit
    /\ activeConnections <= peakConnections /\ peakOnline <= peakConnections

(* Cardinality is one operator, in whichever instance of FiniteSets.       *)
LEMMA SameCardinality == \A S : Records!Cardinality(S) = Cardinality(S)
  BY DEF Records!Cardinality, Cardinality

(* The counts of the plugins are the numbers of connections that live.     *)
LEMMA CountsAgree == Records!CountsExact <=> CountsHold
  BY SameCardinality DEF Records!CountsExact, CountsHold, KeptLive

(* The dashboard sees no more stations online than there are connections.  *)
OnlineFew == Records!Online(record) \in Nat /\ Records!Online(record) <= Cardinality(Records!Live)

(* A record is online for the connection that holds its station: so no     *)
(* more records are online than connections live.                          *)
LEMMA OnlineIsFew == RecordsTyped /\ Kept /\ Records!ShownTrue => OnlineFew
<1> SUFFICES ASSUME RecordsTyped, Kept, Records!ShownTrue PROVE OnlineFew
  OBVIOUS
<1>1. PICK up : up = {s \in Station : record[s].status = "online"}
  OBVIOUS
<1>2. PICK f : f = [s \in up |-> holder[s]]
  OBVIOUS
<1>3. \A s \in up : s \in Station /\ holder[s] \in Records!Live /\ conns[holder[s]].of = s
  BY <1>1 DEF Records!ShownTrue, Kept, Records!LiveOf
<1>4. f \in Injection(up, Records!Live)
  BY <1>2, <1>3 DEF Injection, IsInjective
<1>5. IsFiniteSet(Records!Live)
  BY RecordsBasics DEF RecordsBasic
<1>6. IsFiniteSet(up) /\ Cardinality(up) <= Cardinality(Records!Live)
  BY <1>4, <1>5, FS_Injection
<1>7. Records!Online(record) = Cardinality(up)
  BY <1>1, SameCardinality DEF Records!Online
<1> QED
  BY <1>6, <1>7, FS_CardinalityType DEF OnlineFew

(* A step after which the same connections are there, though some of them  *)
(* are leaving or touched.                                                 *)
Marked ==
    /\ conns' \in Seq(ConnRec) /\ Len(conns') = Len(conns)
    /\ \A c \in 1 .. Len(conns) :
          /\ conns'[c].of = conns[c].of /\ conns'[c].kept = conns[c].kept
          /\ conns'[c].measured = conns[c].measured /\ conns'[c].alone = conns[c].alone
          /\ conns'[c].stage = "gone" <=> conns[c].stage = "gone"
          /\ conns[c].touched => conns'[c].touched
    /\ record' \in [Station -> RecordRec]
    /\ \A s \in Station :
          \/ record'[s] = record[s]
          \/ /\ record'[s].status = "offline" /\ record'[s].of <= Len(conns)
             /\ holder[s] # 0 => conns'[holder[s]].touched
    /\ requests' \subseteq [op : Records!Op, station : Station, on : 1 .. Len(conns)]
    /\ UNCHANGED <<holder, activeCount, activeConnections, peakConnections, started, peakOnline>>

(* Marking connections as met or touched keeps the invariant.              *)
LEMMA MarkedKeeps == RecordsInv /\ Marked => RecordsInv'
<1> SUFFICES ASSUME RecordsInv, Marked PROVE RecordsInv'
  OBVIOUS
<1>1. /\ RecordsTyped /\ PeaksTyped /\ Kept /\ Lone
      /\ CountsHold /\ Records!MeasuresOwn /\ Records!ShownTrue /\ RecordsBasic
  BY RecordsBasics, CountsAgree DEF RecordsInv
<1>2. RecordsTyped'
  BY <1>1 DEF RecordsTyped, Marked
<1>3. Len(conns') = Len(conns) /\ Records!Conn' = Records!Conn /\ Records!Live' = Records!Live
  <2>0. RecordsBasic'
    BY <1>2, RecordsBasics, PTL
  <2>1. Records!Conn' = 1 .. Len(conns')
    BY <2>0 DEF RecordsBasic
  <2>2. Records!Conn' = Records!Conn
    BY <1>1, <2>1 DEF RecordsBasic, Marked
  <2> QED
    BY <1>1, <2>2 DEF RecordsBasic, Marked, Records!Live
<1>4. /\ holder' = holder /\ activeCount' = activeCount /\ activeConnections' = activeConnections
      /\ peakConnections' = peakConnections /\ started' = started /\ peakOnline' = peakOnline
      /\ \A c \in Records!Conn :
          /\ conns'[c].of = conns[c].of /\ conns'[c].kept = conns[c].kept
          /\ conns'[c].measured = conns[c].measured /\ conns'[c].alone = conns[c].alone
          /\ conns[c].touched => conns'[c].touched
  BY <1>1 DEF Marked, RecordsBasic
<1>5. PeaksTyped'
  BY <1>1, <1>4 DEF PeaksTyped
<1>6. \A s \in Station : Records!LiveOf(s)' = Records!LiveOf(s)
  BY <1>1, <1>3, <1>4 DEF Records!LiveOf, RecordsBasic
<1>7. Kept'
  <2> SUFFICES ASSUME NEW s \in Station
               PROVE  /\ holder[s] # 0 => holder[s] \in Records!LiveOf(s)
                      /\ started[s] # 0 =>
                            /\ conns'[started[s]].of = s
                            /\ \A c \in Records!Conn \ Records!Live :
                                  conns'[c].measured # started[s]
    BY <1>3, <1>4, <1>6 DEF Kept
  <2>1. started[s] # 0 => started[s] \in Records!Conn
    BY <1>1 DEF RecordsTyped, RecordsBasic
  <2> QED
    BY <1>1, <1>4, <2>1 DEF Kept
<1>8. Lone'
  BY <1>1, <1>3, <1>4 DEF Lone, RecordsBasic
<1>9. CountsHold'
  <2>1. KeptLive' = KeptLive
    BY <1>1, <1>3, <1>4 DEF KeptLive, RecordsBasic
  <2> QED
    BY <1>1, <1>3, <1>4, <2>1 DEF CountsHold
<1>10. Records!MeasuresOwn'
  BY <1>1, <1>3, <1>4 DEF Records!MeasuresOwn
<1>11. Records!ShownTrue'
  <2> SUFFICES ASSUME NEW s \in Station
               PROVE  /\ record'[s].status = "online" =>
                            record'[s].of = holder[s] /\ holder[s] # 0
                      /\ holder[s] # 0 /\ conns'[holder[s]].alone /\ ~ conns'[holder[s]].touched
                            => record'[s] = [of |-> holder[s], status |-> "online"]
    BY <1>4 DEF Records!ShownTrue
  <2>1. holder[s] # 0 => holder[s] \in Records!Conn
    BY <1>1 DEF RecordsTyped, RecordsBasic
  <2>2. CASE record'[s] = record[s]
    BY <1>1, <1>4, <2>1, <2>2 DEF Records!ShownTrue
  <2>3. CASE record'[s].status = "offline" /\ (holder[s] # 0 => conns'[holder[s]].touched)
    BY <2>3
  <2> QED
    BY <2>2, <2>3 DEF Marked
<1> QED
  BY <1>2, <1>5, <1>7, <1>8, <1>9, <1>10, <1>11, CountsAgree, PTL DEF RecordsInv
(* A connection that begins to leave, and one that is touched.             *)
Milder(cs) ==
    /\ cs \in Seq(ConnRec) /\ Len(cs) = Len(conns)
    /\ \A c \in 1 .. Len(conns) :
          /\ cs[c].of = conns[c].of /\ cs[c].kept = conns[c].kept
          /\ cs[c].measured = conns[c].measured /\ cs[c].alone = conns[c].alone
          /\ cs[c].stage = "gone" <=> conns[c].stage = "gone"
          /\ conns[c].touched => cs[c].touched

(* A sequence of connections with one of them changed.                     *)
LEMMA OneChanged ==
    ASSUME RecordsTyped, NEW c \in Records!Conn, NEW new \in ConnRec
    PROVE  /\ [conns EXCEPT ![c] = new] \in Seq(ConnRec)
           /\ Len([conns EXCEPT ![c] = new]) = Len(conns)
           /\ \A d \in 1 .. Len(conns) :
                 [conns EXCEPT ![c] = new][d] = IF d = c THEN new ELSE conns[d]
<1>1. c \in 1 .. Len(conns) /\ conns \in Seq(ConnRec)
  BY RecordsBasics DEF RecordsBasic, RecordsTyped
<1> QED
  BY <1>1

LEMMA SameIsMilder == RecordsTyped => Milder(conns)
  BY DEF Milder, RecordsTyped

LEMMA ShutIsMilder ==
    ASSUME RecordsTyped, NEW c \in Records!Conn
    PROVE  Milder(Records!Shut(c))
<1>1. conns[c] \in ConnRec
  BY RecordsBasics DEF RecordsBasic
<1>2. CASE conns[c].stage = "open"
  <2>1. PICK new : new = [conns[c] EXCEPT !.stage = "leaving"]
    OBVIOUS
  <2>2. /\ new \in ConnRec /\ new.of = conns[c].of /\ new.kept = conns[c].kept
        /\ new.measured = conns[c].measured /\ new.alone = conns[c].alone
        /\ new.touched = conns[c].touched /\ new.stage = "leaving"
    BY <1>1, <2>1 DEF ConnRec
  <2>3. Records!Shut(c) = [conns EXCEPT ![c] = new]
    BY <1>2, <2>1 DEF Records!Shut
  <2> QED
    BY <1>2, <2>2, <2>3, OneChanged DEF Milder
<1>3. CASE conns[c].stage # "open"
  BY <1>3, SameIsMilder DEF Records!Shut
<1> QED
  BY <1>2, <1>3

LEMMA TouchIsMilder ==
    ASSUME RecordsTyped, NEW s \in Station
    PROVE  Milder(Records!Touch(s)) /\ (holder[s] # 0 => Records!Touch(s)[holder[s]].touched)
<1>1. CASE holder[s] # 0
  <2>1. holder[s] \in Records!Conn /\ conns[holder[s]] \in ConnRec
    BY <1>1, RecordsBasics DEF RecordsBasic, RecordsTyped
  <2>2. PICK new : new = [conns[holder[s]] EXCEPT !.touched = TRUE]
    OBVIOUS
  <2>3. /\ new \in ConnRec /\ new.of = conns[holder[s]].of /\ new.kept = conns[holder[s]].kept
        /\ new.measured = conns[holder[s]].measured /\ new.alone = conns[holder[s]].alone
        /\ new.touched /\ new.stage = conns[holder[s]].stage
    BY <2>1, <2>2 DEF ConnRec
  <2>4. Records!Touch(s) = [conns EXCEPT ![holder[s]] = new]
    BY <1>1, <2>2 DEF Records!Touch
  <2>5. holder[s] \in 1 .. Len(conns)
    BY <2>1, RecordsBasics DEF RecordsBasic
  <2> QED
    BY <2>1, <2>3, <2>4, <2>5, OneChanged DEF Milder
<1>2. CASE holder[s] = 0
  BY <1>2, SameIsMilder DEF Records!Touch
<1> QED
  BY <1>1, <1>2

LEMMA Applied ==
    ASSUME RecordsTyped, NEW s \in Station, NEW op, Records!Apply(op, s)
    PROVE  /\ record' \in [Station -> RecordRec]
           /\ \/ record'[s] = record[s]
              \/ record'[s].status = "offline" /\ record'[s].of <= Len(conns)
           /\ \A t \in Station : t # s => record'[t] = record[t]
<1>1. Len(conns) \in Nat /\ record[s] \in RecordRec /\ record[s].of <= Len(conns)
  BY RecordsBasics DEF RecordsBasic, RecordsTyped
<1>2. PICK new : new = [record[s] EXCEPT !.status = "offline"]
  OBVIOUS
<1>3. new \in RecordRec /\ new.status = "offline" /\ new.of = record[s].of
  BY <1>1, <1>2 DEF RecordRec
<1>4. Records!NoRecord \in RecordRec /\ Records!NoRecord.status = "offline" /\ Records!NoRecord.of = 0
  BY DEF Records!NoRecord, RecordRec
<1>5. \/ record' = record
      \/ record' = [record EXCEPT ![s] = new]
      \/ record' = [record EXCEPT ![s] = Records!NoRecord]
  BY <1>2 DEF Records!Apply, Records!Offline
<1>6. record \in [Station -> RecordRec]
  BY DEF RecordsTyped
<1>7. CASE record' = record
  BY <1>6, <1>7
<1>8. CASE record' = [record EXCEPT ![s] = new]
  BY <1>1, <1>3, <1>6, <1>8
<1>9. CASE record' = [record EXCEPT ![s] = Records!NoRecord]
  BY <1>1, <1>4, <1>6, <1>9
<1> QED
  BY <1>5, <1>7, <1>8, <1>9

LEMMA MilderMarks ==
    ASSUME RecordsTyped, Milder(conns'),
           record' \in [Station -> RecordRec],
           \A s \in Station :
              \/ record'[s] = record[s]
              \/ /\ record'[s].status = "offline" /\ record'[s].of <= Len(conns)
                 /\ holder[s] # 0 => conns'[holder[s]].touched,
           requests' \subseteq [op : Records!Op, station : Station, on : 1 .. Len(conns)],
           UNCHANGED <<holder, activeCount, activeConnections, peakConnections, started, peakOnline>>
    PROVE  Marked
  BY DEF Marked, Milder

LEMMA AskKeeps ==
    ASSUME RecordsInv, NEW s \in Station, NEW op \in Records!Op, Records!Ask(op, s)
    PROVE  RecordsInv'
<1>1. RecordsTyped /\ RecordsBasic
  BY RecordsBasics DEF RecordsInv
<1>2. UNCHANGED <<holder, activeCount, activeConnections, peakConnections, started, peakOnline>>
  BY DEF Records!Ask, Records!counts
<1>3. CASE holder[s] = 0
  <2>1. Records!Apply(op, s) /\ conns' = conns /\ requests' = requests
    BY <1>3 DEF Records!Ask
  <2>2. Milder(conns')
    BY <1>1, <2>1, SameIsMilder
  <2>3. Marked
    BY <1>1, <1>2, <1>3, <2>1, <2>2, Applied, MilderMarks DEF RecordsTyped
  <2> QED
    BY <2>3, MarkedKeeps
<1>4. CASE holder[s] # 0
  <2>1. /\ requests' = requests \cup {[op |-> op, station |-> s, on |-> holder[s]]}
        /\ conns' = Records!Shut(holder[s]) /\ record' = record
    BY <1>4 DEF Records!Ask
  <2>2. holder[s] \in Records!Conn /\ holder[s] \in 1 .. Len(conns)
    BY <1>1, <1>4 DEF RecordsTyped, RecordsBasic
  <2>3. Milder(conns')
    BY <1>1, <2>1, <2>2, ShutIsMilder
  <2>4. requests' \subseteq [op : Records!Op, station : Station, on : 1 .. Len(conns)]
    BY <1>1, <2>1, <2>2 DEF RecordsTyped
  <2>5. record' \in [Station -> RecordRec] /\ \A t \in Station : record'[t] = record[t]
    BY <1>1, <2>1 DEF RecordsTyped
  <2>6. Marked
    BY <1>1, <1>2, <2>3, <2>4, <2>5, MilderMarks
  <2> QED
    BY <2>6, MarkedKeeps
<1> QED
  BY <1>3, <1>4

LEMMA AskEndsKeeps ==
    ASSUME RecordsInv, NEW r \in requests, Records!AskEnds(r)
    PROVE  RecordsInv'
<1>1. RecordsTyped /\ RecordsBasic
  BY RecordsBasics DEF RecordsInv
<1>2. r.station \in Station
  BY <1>1 DEF RecordsTyped
<1>3. /\ requests' = requests \ {r} /\ Records!Apply(r.op, r.station)
      /\ conns' = Records!Touch(r.station)
      /\ UNCHANGED <<holder, activeCount, activeConnections, peakConnections, started, peakOnline>>
  BY DEF Records!AskEnds, Records!counts
<1>4. Milder(conns') /\ (holder[r.station] # 0 => conns'[holder[r.station]].touched)
  BY <1>1, <1>2, <1>3, TouchIsMilder
<1>5. /\ record' \in [Station -> RecordRec]
      /\ \/ record'[r.station] = record[r.station]
         \/ record'[r.station].status = "offline" /\ record'[r.station].of <= Len(conns)
      /\ \A t \in Station : t # r.station => record'[t] = record[t]
  BY <1>1, <1>2, <1>3, Applied
<1>6. requests' \subseteq [op : Records!Op, station : Station, on : 1 .. Len(conns)]
  BY <1>1, <1>3 DEF RecordsTyped
<1>7. Marked
  BY <1>1, <1>3, <1>4, <1>5, <1>6, MilderMarks
<1> QED
  BY <1>7, MarkedKeeps

LEMMA LeavesKeeps ==
    ASSUME RecordsInv, NEW c \in Records!Conn, Records!Leaves(c)
    PROVE  RecordsInv'
<1>1. RecordsTyped /\ RecordsBasic
  BY RecordsBasics DEF RecordsInv
<1>2. Milder(conns') /\ record' = record /\ requests' = requests
      /\ UNCHANGED <<holder, activeCount, activeConnections, peakConnections, started, peakOnline>>
  BY <1>1, ShutIsMilder DEF Records!Leaves, Records!counts
<1>3. Marked
  BY <1>1, <1>2, MilderMarks DEF RecordsTyped
<1> QED
  BY <1>3, MarkedKeeps

LEMMA RecordsStay ==
    ASSUME RecordsInv, UNCHANGED recordsVars
    PROVE  RecordsInv'
<1>1. RecordsTyped
  BY DEF RecordsInv
<1>2. Milder(conns') /\ record' = record /\ requests' = requests
      /\ UNCHANGED <<holder, activeCount, activeConnections, peakConnections, started, peakOnline>>
  BY <1>1, SameIsMilder DEF recordsVars
<1>3. Marked
  BY <1>1, <1>2, MilderMarks DEF RecordsTyped
<1> QED
  BY <1>3, MarkedKeeps

LEMMA ClosesKeeps ==
    ASSUME RecordsInv, NEW c \in Records!Conn, Records!Closes(c)
    PROVE  RecordsInv'
<1>1. /\ RecordsTyped /\ PeaksTyped /\ Kept /\ Lone
      /\ CountsHold /\ Records!MeasuresOwn /\ Records!ShownTrue /\ RecordsBasic
  BY RecordsBasics, CountsAgree DEF RecordsInv
<1>2. PICK s : s = conns[c].of
  OBVIOUS
<1>3. c \in 1 .. Len(conns) /\ c # 0 /\ conns[c] \in ConnRec /\ s \in Station /\ started[s] \in Nat
  BY <1>1, <1>2 DEF RecordsBasic, ConnRec, RecordsTyped
<1>4. PICK new : new = [[conns[c] EXCEPT !.stage = "gone"] EXCEPT !.measured = started[s]]
  OBVIOUS
<1>5. /\ new \in ConnRec /\ new.stage = "gone" /\ new.measured = started[s]
      /\ new.of = s /\ new.kept = conns[c].kept /\ new.alone = conns[c].alone
      /\ new.touched = conns[c].touched
  BY <1>2, <1>3, <1>4 DEF ConnRec
<1>6. /\ c \in Records!Live
      /\ holder' = IF holder[s] = c THEN [holder EXCEPT ![s] = 0] ELSE holder
      /\ activeCount' = Records!Most(0, activeCount - 1)
      /\ activeConnections' = Records!Most(0, activeConnections - 1)
      /\ started' = [started EXCEPT ![s] = 0]
      /\ record' = Records!Offline(record, s)
      /\ peakConnections' = peakConnections /\ peakOnline' = peakOnline /\ requests' = requests
  BY <1>2 DEF Records!Closes
<1>7. conns' = [conns EXCEPT ![c] = new]
  BY <1>2, <1>3, <1>4, <1>1 DEF Records!Closes, RecordsTyped
<1>8. /\ conns' \in Seq(ConnRec) /\ Len(conns') = Len(conns) /\ conns'[c] = new
      /\ \A d \in 1 .. Len(conns) : d # c => conns'[d] = conns[d]
  BY <1>1, <1>3, <1>5, <1>7, OneChanged
<1>9. /\ holder' \in [Station -> 0 .. Len(conns)] /\ holder'[s] # c
      /\ holder'[s] \in {0, holder[s]}
      /\ \A t \in Station : t # s => holder'[t] = holder[t]
  <2>1. CASE holder[s] = c
    BY <1>1, <1>3, <1>6, <2>1 DEF RecordsTyped, RecordsBasic
  <2>2. CASE holder[s] # c
    BY <1>1, <1>3, <1>6, <2>2 DEF RecordsTyped
  <2> QED
    BY <2>1, <2>2
<1>10. /\ started' \in [Station -> 0 .. Len(conns)] /\ started'[s] = 0
       /\ \A t \in Station : t # s => started'[t] = started[t]
  BY <1>1, <1>3, <1>6 DEF RecordsTyped, RecordsBasic
<1>11. /\ record' \in [Station -> RecordRec] /\ record'[s].status = "offline"
       /\ record'[s].of <= Len(conns)
       /\ \A t \in Station : t # s => record'[t] = record[t]
  <2>1. record[s] \in RecordRec /\ record[s].of <= Len(conns)
    BY <1>1, <1>3 DEF RecordsTyped
  <2>2. PICK off : off = [record[s] EXCEPT !.status = "offline"]
    OBVIOUS
  <2>3. off \in RecordRec /\ off.status = "offline" /\ off.of = record[s].of
    BY <2>1, <2>2 DEF RecordRec
  <2>4. CASE record[s].of = 0
    <3>1. record[s].status = "offline"
      BY <1>1, <1>3, <2>1, <2>4 DEF Records!ShownTrue, RecordRec
    <3> QED
      BY <1>1, <1>6, <2>1, <2>4, <3>1 DEF Records!Offline, RecordsTyped
  <2>5. CASE record[s].of # 0
    <3>1. record' = [record EXCEPT ![s] = off]
      BY <1>6, <2>2, <2>5 DEF Records!Offline
    <3> QED
      BY <1>1, <1>3, <2>1, <2>3, <3>1 DEF RecordsTyped
  <2> QED
    BY <2>4, <2>5
<1>12. RecordsTyped'
  <2>1. \A d \in 1 .. Len(conns') : conns'[d].measured <= Len(conns')
    BY <1>1, <1>3, <1>5, <1>8 DEF RecordsTyped, RecordsBasic
  <2>2. \A t \in Station : record'[t].of <= Len(conns')
    BY <1>1, <1>8, <1>11 DEF RecordsTyped
  <2>3. requests' \subseteq [op : Records!Op, station : Station, on : 1 .. Len(conns')]
    BY <1>1, <1>6, <1>8 DEF RecordsTyped
  <2> QED
    BY <1>8, <1>9, <1>10, <1>11, <2>1, <2>2, <2>3 DEF RecordsTyped
<1>13. RecordsBasic'
  BY <1>12, RecordsBasics, PTL
<1>14. Records!Conn' = Records!Conn /\ Records!Conn = 1 .. Len(conns)
  BY <1>1, <1>8, <1>13 DEF RecordsBasic
<1>15. Records!Live' = Records!Live \ {c}
  BY <1>1, <1>3, <1>5, <1>8, <1>14 DEF Records!Live, RecordsBasic
<1>16. Cardinality(Records!Live') = Cardinality(Records!Live) - 1
  BY <1>1, <1>6, <1>15, FS_RemoveElement DEF RecordsBasic
<1>17. /\ activeCount' = activeCount - 1 /\ activeConnections' = activeConnections - 1
  <2>1. Cardinality(Records!Live') \in Nat
    BY <1>13 DEF RecordsBasic
  <2>2. activeCount \in Nat /\ activeCount >= 1 /\ activeConnections = activeCount
    BY <1>1, <1>16, <2>1 DEF CountsHold, RecordsBasic
  <2> QED
    BY <1>6, <2>2 DEF Records!Most
<1>18. PeaksTyped' /\ CountsHold'
  <2>1. KeptLive' \subseteq KeptLive
    BY <1>1, <1>8, <1>14, <1>15 DEF KeptLive, RecordsBasic
  <2>2. KeptLive \subseteq Records!Live
    BY DEF KeptLive
  <2>3. IsFiniteSet(KeptLive)
    BY <1>1, <2>2, FS_Subset DEF RecordsBasic
  <2>4. Cardinality(KeptLive') <= Cardinality(KeptLive) /\ IsFiniteSet(KeptLive')
    BY <2>1, <2>3, FS_Subset
  <2>5. Cardinality(KeptLive) \in Nat /\ Cardinality(KeptLive') \in Nat
    BY <2>3, <2>4, FS_CardinalityType
  <2>6. Cardinality(KeptLive') <= GuardLimit
    BY <1>1, <2>4, <2>5, RecordsAssumption DEF CountsHold
  <2>7. Cardinality(Records!Live') \in Nat
    BY <1>13 DEF RecordsBasic
  <2> QED
    BY <1>1, <1>6, <1>16, <1>17, <2>6, <2>7 DEF CountsHold, PeaksTyped, RecordsBasic
<1>19. Kept'
  <2> SUFFICES ASSUME NEW t \in Station
               PROVE  /\ holder'[t] # 0 => holder'[t] \in Records!LiveOf(t)'
                      /\ started'[t] # 0 =>
                            /\ conns'[started'[t]].of = t
                            /\ \A d \in Records!Conn' \ Records!Live' :
                                  conns'[d].measured # started'[t]
    BY DEF Kept
  <2>1. holder'[t] # 0 => holder'[t] = holder[t] /\ holder[t] # c
    <3>1. holder[t] = c /\ t # s => FALSE
      BY <1>1, <1>2, <1>3 DEF Kept, Records!LiveOf
    <3> QED
      BY <1>9, <3>1
  <2>2. holder'[t] # 0 => holder'[t] \in Records!LiveOf(t)'
    <3>1. ASSUME holder'[t] # 0
          PROVE  holder[t] \in Records!Live /\ holder[t] # c /\ conns[holder[t]].of = t
      BY <1>1, <2>1, <3>1 DEF Kept, Records!LiveOf
    <3>2. ASSUME holder'[t] # 0
          PROVE  holder'[t] \in Records!Live' /\ conns'[holder'[t]].of = t
      <4>1. holder[t] \in 1 .. Len(conns) /\ holder'[t] = holder[t]
        BY <1>1, <1>14, <2>1, <3>1, <3>2 DEF RecordsBasic
      <4> QED
        BY <1>8, <1>15, <3>1, <3>2, <4>1
    <3> QED
      BY <3>2 DEF Records!LiveOf
  <2>3. ASSUME started'[t] # 0
        PROVE  /\ conns'[started'[t]].of = t
               /\ \A d \in Records!Conn' \ Records!Live' : conns'[d].measured # started'[t]
    <3>1. t # s /\ started'[t] = started[t] /\ started[t] \in 1 .. Len(conns)
      BY <1>1, <1>10, <2>3 DEF RecordsTyped, RecordsBasic
    <3>2. conns'[started'[t]].of = t
      BY <1>1, <1>2, <1>8, <2>3, <3>1 DEF Kept
    <3>3. conns'[c].measured # started'[t]
      BY <1>1, <1>3, <1>5, <1>8, <2>3, <3>1 DEF Kept
    <3>4. \A d \in Records!Conn \ Records!Live : conns'[d].measured # started'[t]
      BY <1>1, <1>6, <1>8, <1>14, <2>3, <3>1 DEF Kept
    <3> QED
      BY <1>14, <1>15, <3>2, <3>3, <3>4
  <2> QED
    BY <2>2, <2>3
<1>20. Lone'
  <2> SUFFICES ASSUME NEW d \in Records!Live, d # c, conns[d].alone
               PROVE  /\ started'[conns[d].of] = d
                      /\ \A e \in Records!Live : e # c /\ conns[e].of = conns[d].of => e = d
    BY <1>1, <1>8, <1>14, <1>15 DEF Lone, RecordsBasic
  <2>1. conns[d].of \in Station /\ conns[d].of # s
    BY <1>1, <1>2, <1>6 DEF Lone, RecordsBasic, ConnRec
  <2> QED
    BY <1>1, <1>10, <2>1 DEF Lone
<1>21. Records!MeasuresOwn'
  <2>1. \A d \in Records!Conn' \ Records!Live' :
           d = c \/ (d \in Records!Conn \ Records!Live /\ conns'[d] = conns[d])
    BY <1>8, <1>14, <1>15
  <2>2. conns'[c].alone => conns'[c].measured = c
    BY <1>1, <1>2, <1>5, <1>6, <1>8 DEF Lone
  <2>3. \A d \in Records!Conn' \ Records!Live' : conns'[d].alone => conns'[d].measured = d
    BY <1>1, <2>1, <2>2 DEF Records!MeasuresOwn
  <2>4. \A d \in Records!Conn \ Records!Live : conns[d].measured = started[s] => started[s] = 0
    BY <1>1, <1>3 DEF Kept
  <2>5. \A d, e \in Records!Conn' \ Records!Live' :
           conns'[d].measured = conns'[e].measured => d = e \/ conns'[d].measured = 0
    BY <1>1, <1>5, <1>8, <2>1, <2>4 DEF Records!MeasuresOwn
  <2> QED
    BY <2>3, <2>5 DEF Records!MeasuresOwn
<1>22. Records!ShownTrue'
  <2> SUFFICES ASSUME NEW t \in Station
               PROVE  /\ record'[t].status = "online" =>
                            record'[t].of = holder'[t] /\ holder'[t] # 0
                      /\ holder'[t] # 0 /\ conns'[holder'[t]].alone /\ ~ conns'[holder'[t]].touched
                            => record'[t] = [of |-> holder'[t], status |-> "online"]
    BY DEF Records!ShownTrue
  <2>1. CASE t = s
    <3>1. record'[t].status = "offline"
      BY <1>11, <2>1
    <3>2. ASSUME holder'[t] # 0 PROVE ~ conns'[holder'[t]].alone
      <4>1. holder'[t] = holder[s] /\ holder[s] # c /\ holder[s] # 0
        BY <1>9, <2>1, <3>2
      <4>2. holder[s] \in Records!Live /\ conns[holder[s]].of = s
        BY <1>1, <1>3, <4>1 DEF Kept, Records!LiveOf
      <4>3. ~ conns[holder[s]].alone
        BY <1>1, <1>2, <1>6, <4>1, <4>2 DEF Lone
      <4> QED
        BY <1>1, <1>8, <1>14, <4>1, <4>2, <4>3 DEF RecordsBasic
    <3> QED
      BY <3>1, <3>2
  <2>2. CASE t # s
    <3>1. holder'[t] = holder[t] /\ record'[t] = record[t]
      BY <1>9, <1>11, <2>2
    <3>2. holder[t] # 0 => holder[t] # c /\ holder[t] \in 1 .. Len(conns)
      BY <1>1, <1>2, <1>14, <2>2 DEF Kept, Records!LiveOf, RecordsBasic
    <3> QED
      BY <1>1, <1>8, <3>1, <3>2 DEF Records!ShownTrue
  <2> QED
    BY <2>1, <2>2
<1> QED
  BY <1>12, <1>18, <1>19, <1>20, <1>21, <1>22, CountsAgree, PTL DEF RecordsInv
(* The connections after another of the station has come: those of before, *)
(* the holder leaving, and the new one.                                    *)
LEMMA Joined ==
    ASSUME RecordsTyped, NEW s \in Station, Records!Connect(s)
    PROVE  \E new \in ConnRec :
              /\ new.of = s /\ new.stage # "gone" /\ new.measured = 0 /\ ~ new.touched
              /\ new.alone = (Records!LiveOf(s) = {})
              /\ new.kept = (activeCount + 1 <= GuardLimit)
              /\ conns' \in Seq(ConnRec) /\ Len(conns') = Len(conns) + 1
              /\ conns'[Len(conns) + 1] = new
              /\ \A d \in 1 .. Len(conns) :
                    /\ conns'[d].of = conns[d].of /\ conns'[d].kept = conns[d].kept
                    /\ conns'[d].measured = conns[d].measured
                    /\ conns'[d].touched = conns[d].touched
                    /\ conns'[d].stage = "gone" <=> conns[d].stage = "gone"
                    /\ conns'[d].alone = (conns[d].alone /\ d \notin Records!LiveOf(s))
<1>1. RecordsBasic
  BY RecordsBasics
<1>2. PICK leaving : leaving = [o \in Records!Conn |->
                 [conns[o] EXCEPT !.alone = FALSE,
                                  !.stage = IF o = holder[s] THEN "leaving"
                                            ELSE conns[o].stage]]
  BY Zenon
<1>3. PICK others : others = [o \in Records!Conn |->
                 IF o \in Records!LiveOf(s)
                 THEN [conns[o] EXCEPT !.alone = FALSE,
                                       !.stage = IF o = holder[s] THEN "leaving"
                                                 ELSE conns[o].stage]
                 ELSE conns[o]]
  BY Zenon
<1>4. PICK new : new = [of |-> s,
                  stage |-> IF activeCount + 1 <= GuardLimit THEN "open" ELSE "leaving",
                  kept |-> activeCount + 1 <= GuardLimit,
                  measured |-> 0, alone |-> Records!LiveOf(s) = {}, touched |-> FALSE]
  BY Zenon
<1>5. conns' = Append(others, new)
  BY <1>3, <1>4, Zenon DEF Records!Connect, Records!Counted
<1>11. \A o \in Records!Conn : o \in Records!LiveOf(s) => others[o] = leaving[o]
  BY <1>2, <1>3, Zenon
<1>12. \A o \in Records!Conn : o \notin Records!LiveOf(s) => others[o] = conns[o]
  BY <1>3, Zenon
<1>6. /\ new \in ConnRec /\ new.of = s /\ new.stage # "gone" /\ new.measured = 0 /\ ~ new.touched
      /\ new.alone = (Records!LiveOf(s) = {})
      /\ new.kept = (activeCount + 1 <= GuardLimit)
  BY <1>4 DEF ConnRec
<1>7. ASSUME NEW d \in Records!Conn
      PROVE  /\ leaving[d] \in ConnRec
             /\ leaving[d].of = conns[d].of /\ leaving[d].kept = conns[d].kept
             /\ leaving[d].measured = conns[d].measured
             /\ leaving[d].touched = conns[d].touched /\ leaving[d].alone = FALSE
             /\ conns[d].stage # "gone" => leaving[d].stage # "gone"
  <2>1. conns[d] \in ConnRec
    BY <1>1 DEF RecordsBasic
  <2>2. PICK st : st = IF d = holder[s] THEN "leaving" ELSE conns[d].stage
    OBVIOUS
  <2>3. st \in {"open", "leaving", "gone"} /\ (conns[d].stage # "gone" => st # "gone")
    BY <2>1, <2>2 DEF ConnRec
  <2>4. leaving[d] = [conns[d] EXCEPT !.alone = FALSE, !.stage = st]
    BY <1>2, <2>2, Zenon
  <2> QED
    BY <2>1, <2>3, <2>4 DEF ConnRec
<1>8. ASSUME NEW d \in Records!Conn
      PROVE  /\ others[d] \in ConnRec
             /\ others[d].of = conns[d].of /\ others[d].kept = conns[d].kept
             /\ others[d].measured = conns[d].measured
             /\ others[d].touched = conns[d].touched
             /\ others[d].stage = "gone" <=> conns[d].stage = "gone"
             /\ others[d].alone = (conns[d].alone /\ d \notin Records!LiveOf(s))
  <2>1. conns[d] \in ConnRec /\ conns[d].alone \in BOOLEAN
    BY <1>1 DEF RecordsBasic, ConnRec
  <2>2. CASE d \in Records!LiveOf(s)
    <3>1. others[d] = leaving[d] /\ conns[d].stage # "gone"
      BY <1>11, <2>2 DEF Records!LiveOf, Records!Live
    <3> QED
      BY <1>7, <2>2, <3>1
  <2>3. CASE d \notin Records!LiveOf(s)
    <3>1. others[d] = conns[d]
      BY <1>12, <2>3
    <3> QED
      BY <2>1, <2>3, <3>1
  <2> QED
    BY <2>2, <2>3
<1>13. DOMAIN others = Records!Conn /\ others = [d \in Records!Conn |-> others[d]]
  BY <1>3, Zenon
<1>9. others \in Seq(ConnRec) /\ Len(others) = Len(conns)
  BY <1>1, <1>8, <1>13 DEF RecordsBasic
<1>10. /\ conns' \in Seq(ConnRec) /\ Len(conns') = Len(conns) + 1
       /\ conns'[Len(conns) + 1] = new
       /\ \A d \in 1 .. Len(conns) : conns'[d] = others[d]
  BY <1>5, <1>6, <1>9, AppendProperties
<1> QED
  BY <1>1, <1>6, <1>8, <1>10 DEF RecordsBasic

LEMMA JoinedKeeps ==
    ASSUME RecordsInv, NEW s \in Station, Records!Connect(s)
    PROVE  RecordsInv'
<1>1. /\ RecordsTyped /\ PeaksTyped /\ Kept /\ Lone
      /\ CountsHold /\ Records!MeasuresOwn /\ Records!ShownTrue /\ RecordsBasic
  BY RecordsBasics, CountsAgree DEF RecordsInv
<1>2. PICK new \in ConnRec :
         /\ new.of = s /\ new.stage # "gone" /\ new.measured = 0 /\ ~ new.touched
         /\ new.alone = (Records!LiveOf(s) = {})
         /\ new.kept = (activeCount + 1 <= GuardLimit)
         /\ conns' \in Seq(ConnRec) /\ Len(conns') = Len(conns) + 1
         /\ conns'[Len(conns) + 1] = new
         /\ \A d \in 1 .. Len(conns) :
               /\ conns'[d].of = conns[d].of /\ conns'[d].kept = conns[d].kept
               /\ conns'[d].measured = conns[d].measured
               /\ conns'[d].touched = conns[d].touched
               /\ conns'[d].stage = "gone" <=> conns[d].stage = "gone"
               /\ conns'[d].alone = (conns[d].alone /\ d \notin Records!LiveOf(s))
  BY <1>1, Joined
<1>3. PICK c : c = Len(conns) + 1
  OBVIOUS
<1>4. Len(conns) \in Nat /\ c \in Nat /\ c # 0 /\ c \notin 1 .. Len(conns)
      /\ 1 .. Len(conns') = 1 .. Len(conns) \cup {c}
  BY <1>1, <1>2, <1>3 DEF RecordsBasic
<1>5. PICK shown : shown = [of |-> c, status |-> "online"]
  OBVIOUS
<1>6. /\ holder' = [holder EXCEPT ![s] = c] /\ activeCount' = activeCount + 1
      /\ activeConnections' = activeConnections + 1
      /\ peakConnections' = Records!Most(peakConnections, activeConnections')
      /\ started' = [started EXCEPT ![s] = c]
      /\ record' = [record EXCEPT ![s] = shown]
      /\ peakOnline' = Records!Most(peakOnline, Records!Online(record'))
      /\ requests' = requests
  <2>1. /\ Records!Measures /\ Records!Recorded(s, c)
        /\ holder' = [holder EXCEPT ![s] = c] /\ activeCount' = activeCount + 1
        /\ started' = [started EXCEPT ![s] = c] /\ requests' = requests
    BY <1>3, Zenon DEF Records!Connect, Records!Counted
  <2>2. /\ activeConnections' = activeConnections + 1
        /\ peakConnections' = Records!Most(peakConnections, activeConnections')
    BY <2>1 DEF Records!Measures
  <2>3. /\ record' = [record EXCEPT ![s] = shown]
        /\ peakOnline' = Records!Most(peakOnline, Records!Online(record'))
    BY <1>5, <2>1, Zenon DEF Records!Recorded
  <2> QED
    BY <2>1, <2>2, <2>3
<1>7. shown \in RecordRec /\ shown.of = c /\ shown.status = "online"
  BY <1>4, <1>5 DEF RecordRec
<1>8. RecordsTyped'
  <2>1. \A d \in 1 .. Len(conns') : conns'[d].measured <= Len(conns')
    <3>1. ASSUME NEW d \in 1 .. Len(conns) PROVE conns'[d].measured <= Len(conns')
      <4>1. conns'[d].measured = conns[d].measured /\ Len(conns') = Len(conns) + 1
        BY <1>2
      <4>2. conns[d].measured \in Nat /\ conns[d].measured <= Len(conns)
        BY <1>1 DEF RecordsTyped, RecordsBasic, ConnRec
      <4> QED
        BY <1>4, <4>1, <4>2
    <3>2. conns'[c].measured <= Len(conns')
      BY <1>2, <1>3, <1>4
    <3> QED
      BY <1>4, <3>1, <3>2
  <2>2. holder' \in [Station -> 0 .. Len(conns')] /\ started' \in [Station -> 0 .. Len(conns')]
    BY <1>1, <1>2, <1>3, <1>4, <1>6 DEF RecordsTyped
  <2>3. record' \in [Station -> RecordRec] /\ \A t \in Station : record'[t].of <= Len(conns')
    <3>1. \A t \in Station : record[t].of \in Nat /\ record[t].of <= Len(conns)
      BY <1>1 DEF RecordsTyped, RecordRec
    <3> QED
      BY <1>1, <1>2, <1>3, <1>4, <1>6, <1>7, <3>1 DEF RecordsTyped
  <2>4. requests' \subseteq [op : Records!Op, station : Station, on : 1 .. Len(conns')]
    BY <1>1, <1>4, <1>6 DEF RecordsTyped
  <2> QED
    BY <1>2, <2>1, <2>2, <2>3, <2>4 DEF RecordsTyped
<1>9. RecordsBasic'
  BY <1>8, RecordsBasics, PTL
<1>10. Records!Conn' = Records!Conn \cup {c} /\ Records!Conn = 1 .. Len(conns)
  BY <1>1, <1>4, <1>9 DEF RecordsBasic
<1>11. Records!Live' = Records!Live \cup {c} /\ c \notin Records!Live
  BY <1>1, <1>2, <1>3, <1>4, <1>10 DEF Records!Live, RecordsBasic
<1>12. Cardinality(Records!Live') = Cardinality(Records!Live) + 1
  BY <1>1, <1>11, FS_AddElement DEF RecordsBasic
<1>13. /\ holder'[s] = c /\ started'[s] = c /\ record'[s] = shown
       /\ \A t \in Station : t # s => /\ holder'[t] = holder[t] /\ started'[t] = started[t]
                                      /\ record'[t] = record[t]
  BY <1>1, <1>6 DEF RecordsTyped
<1>14. Kept'
  <2> SUFFICES ASSUME NEW t \in Station
               PROVE  /\ holder'[t] # 0 => holder'[t] \in Records!Live'
                                           /\ conns'[holder'[t]].of = t
                      /\ started'[t] # 0 =>
                            /\ conns'[started'[t]].of = t
                            /\ \A d \in Records!Conn' \ Records!Live' :
                                  conns'[d].measured # started'[t]
    BY DEF Kept, Records!LiveOf
  <2>1. \A d \in Records!Conn' \ Records!Live' :
           d \in 1 .. Len(conns) /\ d \in Records!Conn \ Records!Live
           /\ conns'[d].measured = conns[d].measured
    BY <1>2, <1>10, <1>11
  <2>2. CASE t = s
    <3>1. \A d \in Records!Conn' \ Records!Live' : conns'[d].measured # c
      <4>1. \A d \in 1 .. Len(conns) :
               conns[d].measured \in Nat /\ conns[d].measured <= Len(conns)
        BY <1>1 DEF RecordsTyped, RecordsBasic, ConnRec
      <4> QED
        BY <1>3, <1>4, <2>1, <4>1
    <3> QED
      BY <1>2, <1>3, <1>11, <1>13, <2>2, <3>1
  <2>3. CASE t # s
    <3>1. holder[t] # 0 => holder[t] \in Records!Live /\ conns[holder[t]].of = t
      BY <1>1 DEF Kept, Records!LiveOf
    <3>2. holder[t] # 0 => holder[t] \in 1 .. Len(conns)
      BY <1>1, <1>10, <3>1 DEF RecordsBasic
    <3>3. started[t] # 0 => started[t] \in 1 .. Len(conns)
      BY <1>1, <1>10 DEF RecordsTyped, RecordsBasic
    <3> QED
      BY <1>1, <1>2, <1>11, <1>13, <2>1, <2>3, <3>1, <3>2, <3>3 DEF Kept
  <2> QED
    BY <2>2, <2>3
<1>15. \A d \in Records!Live : /\ d \in 1 .. Len(conns) /\ conns[d] \in ConnRec
                               /\ conns'[d].of = conns[d].of /\ conns'[d].kept = conns[d].kept
                               /\ conns'[d].alone =>
                                     conns[d].alone /\ conns[d].of # s
  <2> SUFFICES ASSUME NEW d \in Records!Live
               PROVE  /\ d \in 1 .. Len(conns) /\ conns[d] \in ConnRec
                      /\ conns'[d].of = conns[d].of /\ conns'[d].kept = conns[d].kept
                      /\ conns'[d].alone => conns[d].alone /\ conns[d].of # s
    OBVIOUS
  <2>1. d \in 1 .. Len(conns) /\ conns[d] \in ConnRec
    BY <1>1, <1>10 DEF RecordsBasic
  <2>2. conns[d].of = s <=> d \in Records!LiveOf(s)
    BY DEF Records!LiveOf
  <2> QED
    BY <1>2, <2>1, <2>2
<1>16. new.alone => \A d \in Records!Live : conns[d].of # s
  BY <1>2 DEF Records!LiveOf
<1>17. Lone'
  <2> SUFFICES ASSUME NEW d \in Records!Live', conns'[d].alone
               PROVE  /\ started'[conns'[d].of] = d
                      /\ \A e \in Records!Live' : conns'[e].of = conns'[d].of => e = d
    BY DEF Lone
  <2>1. CASE d = c
    <3>1. conns'[d] = new /\ new.alone /\ started'[new.of] = c
      BY <1>2, <1>3, <1>13, <2>1
    <3>2. \A e \in Records!Live' : conns'[e].of = s => e = c
      BY <1>11, <1>15, <1>16, <3>1
    <3> QED
      BY <1>2, <2>1, <3>1, <3>2
  <2>2. CASE d # c
    <3>1. d \in Records!Live /\ conns[d].alone /\ conns[d].of # s /\ conns'[d].of = conns[d].of
          /\ conns[d].of \in Station
      BY <1>11, <1>15, <2>2 DEF ConnRec
    <3>2. started'[conns'[d].of] = d
      BY <1>1, <1>13, <3>1 DEF Lone
    <3>3. \A e \in Records!Live' : conns'[e].of = conns'[d].of => e = d
      BY <1>1, <1>2, <1>3, <1>11, <1>15, <3>1 DEF Lone
    <3> QED
      BY <3>2, <3>3
  <2> QED
    BY <2>1, <2>2
<1>18. Records!MeasuresOwn'
  <2>1. \A d \in Records!Conn' \ Records!Live' :
           /\ d \in Records!Conn \ Records!Live /\ conns'[d].measured = conns[d].measured
           /\ conns'[d].alone => conns[d].alone
    BY <1>2, <1>10, <1>11
  <2> QED
    BY <1>1, <2>1 DEF Records!MeasuresOwn
<1>19. Records!ShownTrue'
  <2> SUFFICES ASSUME NEW t \in Station
               PROVE  /\ record'[t].status = "online" =>
                            record'[t].of = holder'[t] /\ holder'[t] # 0
                      /\ holder'[t] # 0 /\ conns'[holder'[t]].alone /\ ~ conns'[holder'[t]].touched
                            => record'[t] = [of |-> holder'[t], status |-> "online"]
    BY Zenon DEF Records!ShownTrue
  <2>1. CASE t = s
    BY <1>4, <1>5, <1>7, <1>13, <2>1
  <2>2. CASE t # s
    <3>1. holder[t] # 0 => holder[t] \in 1 .. Len(conns)
      BY <1>1, <1>4 DEF RecordsTyped
    <3>2. holder[t] # 0 /\ conns'[holder[t]].alone /\ ~ conns'[holder[t]].touched
             => conns[holder[t]].alone /\ ~ conns[holder[t]].touched
      BY <1>2, <3>1
    <3> QED
      BY <1>1, <1>13, <2>2, <3>2 DEF Records!ShownTrue
  <2> QED
    BY <2>1, <2>2
<1>20. OnlineFew'
  BY <1>8, <1>14, <1>19, OnlineIsFew, PTL
<1>21. PeaksTyped' /\ CountsHold'
  <2>1. KeptLive \subseteq Records!Live
    BY DEF KeptLive
  <2>2. IsFiniteSet(KeptLive) /\ Cardinality(KeptLive) <= Cardinality(Records!Live)
    BY <1>1, <2>1, FS_Subset DEF RecordsBasic
  <2>3. Cardinality(KeptLive) \in Nat
    BY <2>2, FS_CardinalityType
  <2>4. KeptLive' = IF new.kept THEN KeptLive \cup {c} ELSE KeptLive
    BY <1>2, <1>3, <1>11, <1>15 DEF KeptLive
  <2>5. c \notin KeptLive
    BY <1>11, <2>1
  <2>6. Cardinality(KeptLive') = IF new.kept THEN Cardinality(KeptLive) + 1 ELSE Cardinality(KeptLive)
    BY <2>2, <2>4, <2>5, FS_AddElement
  <2>7. Cardinality(KeptLive') <= GuardLimit
    <3>1. CASE new.kept
      <4>1. activeCount + 1 <= GuardLimit /\ activeCount = Cardinality(Records!Live)
        BY <1>1, <1>2, <3>1 DEF CountsHold
      <4> QED
        BY <1>1, <2>2, <2>3, <2>6, <3>1, <4>1, RecordsAssumption DEF RecordsBasic
    <3>2. CASE ~ new.kept
      BY <1>1, <2>6, <3>2 DEF CountsHold
    <3> QED
      BY <3>1, <3>2
  <2>8. Records!Online(record') \in Nat /\ Records!Online(record') <= activeConnections'
    BY <1>1, <1>6, <1>12, <1>20 DEF OnlineFew, CountsHold
  <2>9. activeConnections' \in Nat /\ activeCount' = Cardinality(Records!Live')
        /\ activeConnections' = activeCount'
    BY <1>1, <1>6, <1>12 DEF CountsHold, RecordsBasic
  <2>10. peakConnections' \in Nat /\ activeConnections' <= peakConnections'
         /\ peakConnections <= peakConnections'
    BY <1>1, <1>6, <2>9 DEF PeaksTyped, Records!Most
  <2>11. peakOnline' \in Nat /\ peakOnline' <= peakConnections'
    BY <1>1, <1>6, <2>8, <2>9, <2>10 DEF PeaksTyped, CountsHold, Records!Most
  <2> QED
    BY <2>7, <2>9, <2>10, <2>11 DEF PeaksTyped, CountsHold
<1> QED
  BY <1>8, <1>14, <1>17, <1>18, <1>19, <1>21, CountsAgree, PTL DEF RecordsInv

LEMMA RecordsStep == RecordsInv /\ [Records!Next]_recordsVars => RecordsInv'
  BY RecordsStay, JoinedKeeps, AskKeeps, LeavesKeeps, ClosesKeeps, AskEndsKeeps DEF Records!Next

LEMMA RecordsInit == Records!Init => RecordsInv
<1> SUFFICES ASSUME Records!Init PROVE RecordsInv
  OBVIOUS
<1>1. /\ conns = <<>> /\ holder = [s \in Station |-> 0] /\ started = [s \in Station |-> 0]
      /\ activeCount = 0 /\ activeConnections = 0 /\ peakConnections = 0 /\ peakOnline = 0
      /\ record = [s \in Station |-> Records!NoRecord] /\ requests = {}
  BY DEF Records!Init
<1>2. /\ Records!NoRecord \in RecordRec /\ Records!NoRecord.status = "offline"
      /\ Records!NoRecord.of = 0
  BY DEF Records!NoRecord, RecordRec
<1>3. conns \in Seq(ConnRec) /\ Len(conns) = 0 /\ Records!Conn = {} /\ Records!Live = {}
  BY <1>1, EmptySeq DEF Records!Conn, Records!Live
<1>4. RecordsTyped
  BY <1>1, <1>2, <1>3 DEF RecordsTyped
<1>5. Kept /\ Lone /\ Records!MeasuresOwn /\ PeaksTyped
  BY <1>1, <1>3 DEF Kept, Lone, Records!MeasuresOwn, PeaksTyped
<1>6. Records!ShownTrue
  BY <1>1, <1>2 DEF Records!ShownTrue
<1>7. CountsHold
  <2>1. KeptLive = {}
    BY <1>3 DEF KeptLive
  <2> QED
    BY <1>1, <1>3, <2>1, FS_EmptySet, RecordsAssumption DEF CountsHold
<1> QED
  BY <1>4, <1>5, <1>6, <1>7, CountsAgree DEF RecordsInv

LEMMA RecordsAreTrue == RecordsInv => Records!RecordsTrue
<1> SUFFICES ASSUME RecordsInv PROVE Records!RecordsTrue
  OBVIOUS
<1>1. RecordsTyped /\ PeaksTyped /\ RecordsBasic /\ CountsHold
  BY RecordsBasics, CountsAgree DEF RecordsInv
<1>2. ASSUME NEW c \in Records!Conn
      PROVE  conns[c] \in [of : Station, stage : {"open", "leaving", "gone"}, kept : BOOLEAN,
                           measured : 0 .. Len(conns), alone : BOOLEAN, touched : BOOLEAN]
  BY <1>1 DEF RecordsTyped, RecordsBasic, ConnRec
<1>3. record \in [Station -> [of : 0 .. Len(conns), status : {"online", "offline"}]]
  BY <1>1 DEF RecordsTyped, RecordsBasic, RecordRec
<1>4. activeCount \in Nat
  BY <1>1 DEF CountsHold, RecordsBasic
<1>5. requests \subseteq [op : Records!Op, station : Station, on : Records!Conn]
  BY <1>1 DEF RecordsTyped, RecordsBasic
<1>6. Records!TypeOK
  BY <1>1, <1>2, <1>3, <1>4, <1>5 DEF Records!TypeOK, RecordsTyped, PeaksTyped
<1> QED
  BY <1>6 DEF RecordsInv, Records!RecordsTrue
-----------------------------------------------------------------------------
(* Rate limits *)

(* What a bucket b with a limit holds at time t, and the times at which it *)
(* let through: from each of them on it has given and still holds no more  *)
(* than a full bucket and what the time since then refilled.               *)
Spent(b, times, limit, t) ==
    /\ b \in Limits!Bucket(limit) \cup {Limits!NoBucket}
    /\ times \in Seq(0 .. MaxTime)
    /\ b = Limits!NoBucket => times = <<>>
    /\ b # Limits!NoBucket =>
          /\ b.lastRefill <= t
          /\ \A i \in 1 .. Len(times) :
                /\ times[i] <= b.lastRefill
                /\ b.tokens + 20 * ((Len(times) - i + 1) * Window)
                      <= 20 * (limit * Window) + 20 * ((b.lastRefill - times[i]) * limit)
    /\ Limits!Bounded(times, limit)

(* The bucket of an address is the one that was never swept, or none while *)
(* that one has had the time to be full again.                             *)
SweptWhenFull ==
    \/ upgrades = kept
    \/ /\ upgrades = Limits!NoBucket
       /\ now - kept.lastRefill > Window

LimitsTyped ==
    /\ limited \in {"upgrades", "messages"} /\ now \in 0 .. MaxTime
    /\ multiplier \in 5 .. 20 /\ lastOverload \in -Cooldown - 1 .. MaxTime
    /\ DOMAIN accepted = {"upgrade", "message", "method"}
    /\ accepted = [k \in {"upgrade", "message", "method"} |-> accepted[k]]

LimitsInv ==
    /\ LimitsTyped /\ SweptWhenFull
    /\ Spent(kept, accepted["upgrade"], Limit, now)
    /\ Spent(messages, accepted["message"], Limit, now)
    /\ Spent(method, accepted["method"], MethodLimit, now)

(* The facts about products that the bounds on bursts rest on.             *)
LEMMA ProductIsInt == \A x, y \in Int : x * y \in Int
  OBVIOUS

LEMMA Distributes == \A x, y, z \in Int : (x + y) * z = x * z + y * z
  OBVIOUS

LEMMA MoreTimes == \A x, y \in Int : \A z \in Nat : x <= y => x * z <= y * z
  OBVIOUS

(* The multiplier never makes a refill more than the plain one.            *)
LEMMA RateBelow == \A x, r \in Nat : r <= 20 => x * r \in Nat /\ x * r <= 20 * x
<1> SUFFICES ASSUME NEW x \in Nat, NEW r \in Nat, r <= 20 PROVE x * r \in Nat /\ x * r <= 20 * x
  OBVIOUS
<1>1. r * x <= 20 * x
  BY MoreTimes
<1>2. r * x = x * r /\ x * r \in Nat
  OBVIOUS
<1> QED
  BY <1>1, <1>2

(* What a full bucket and a token are in the units of the buckets.         *)
LEMMA FullBucket ==
    ASSUME NEW limit \in Nat
    PROVE  /\ Limits!Full(limit) = 20 * (limit * Window) /\ limit * Window \in Nat
           /\ Limits!Full(limit) \in Nat
           /\ Limits!Token = 20 * Window /\ Limits!Token \in Nat
           /\ Limits!Scale = 20
<1>1. Limits!Token = 20 * Window /\ Limits!Token \in Nat /\ Limits!Scale = 20
  BY LimitsAssumption DEF Limits!Token, Limits!Scale
<1>2. limit * (Window * 20) = 20 * (limit * Window) /\ limit * Window \in Nat
  BY LimitsAssumption
<1> QED
  BY <1>1, <1>2, LimitsAssumption DEF Limits!Full, Limits!Token, Limits!Scale

LEMMA BucketFields ==
    ASSUME NEW limit \in Nat, NEW b \in Limits!Bucket(limit)
    PROVE  /\ b.tokens \in Nat /\ b.tokens <= 20 * (limit * Window)
           /\ b.lastRefill \in 0 .. MaxTime /\ b.lastRefill \in Nat
           /\ b # Limits!NoBucket
<1>1. b.tokens \in 0 .. Limits!Full(limit) /\ b.lastRefill \in 0 .. MaxTime
  BY DEF Limits!Bucket
<1> QED
  BY <1>1, FullBucket, LimitsAssumption DEF Limits!NoBucket

(* A bucket that gained no more than the time that went by keeps the bound. *)
LEMMA Summed ==
    \A t, b, x, y, e, f \in Int :
        t <= b + 20 * e /\ b + 20 * x <= 20 * f + 20 * y => t + 20 * x <= 20 * f + 20 * (y + e)
  OBVIOUS

(* A bucket that is looked at.                                             *)
LEMMA RefillKeepsSpent ==
    ASSUME LimitsTyped, NEW limit \in Nat, NEW b, NEW times, Spent(b, times, limit, now),
           NEW rate \in 0 .. 20
    PROVE  /\ Limits!Refilled(b, limit, rate) \in Limits!Bucket(limit)
           /\ Limits!Refilled(b, limit, rate).lastRefill = now
           /\ Spent(Limits!Refilled(b, limit, rate), times, limit, now)
<1>1. now \in 0 .. MaxTime /\ now \in Nat
  BY LimitsAssumption DEF LimitsTyped
<1>5. PICK full \in Nat : full = limit * Window
  BY FullBucket
<1>6. Limits!Full(limit) = 20 * full
  BY <1>5, FullBucket
<1>2. PICK r : r = Limits!Refilled(b, limit, rate)
  OBVIOUS
<1>3. CASE b = Limits!NoBucket
  <2>1. r = [tokens |-> Limits!Full(limit), lastRefill |-> now]
    BY <1>2, <1>3 DEF Limits!Refilled
  <2>2. r \in Limits!Bucket(limit) /\ r.lastRefill = now
    BY <1>1, <1>6, <2>1 DEF Limits!Bucket
  <2>3. times = <<>>
    BY <1>3 DEF Spent
  <2>4. Len(times) = 0
    BY <2>3
  <2>5. Spent(r, times, limit, now)
    BY <1>1, <2>2, <2>4 DEF Spent, Limits!Bounded
  <2> QED
    BY <1>2, <2>2, <2>5
<1>4. CASE b # Limits!NoBucket
  <2>1. b.tokens \in Nat /\ b.lastRefill \in Nat /\ b.lastRefill <= now
    BY <1>4, BucketFields DEF Spent
  <2>2. PICK e \in Nat : e = (now - b.lastRefill) * limit
    BY <1>1, <2>1
  <2>3. PICK more \in Nat : more = e * rate /\ more <= 20 * e
    BY <2>2, RateBelow
  <2>4. PICK tokens : tokens = Limits!Least(Limits!Full(limit), b.tokens + more)
    OBVIOUS
  <2>5. r = [tokens |-> tokens, lastRefill |-> now]
    BY <1>2, <1>4, <2>2, <2>3, <2>4 DEF Limits!Refilled
  <2>6. tokens \in 0 .. Limits!Full(limit) /\ tokens <= b.tokens + 20 * e
    BY <1>6, <2>1, <2>3, <2>4 DEF Limits!Least
  <2>7. r \in Limits!Bucket(limit) /\ r.lastRefill = now /\ r.tokens = tokens
    BY <1>1, <2>5, <2>6 DEF Limits!Bucket
  <2>8. ASSUME NEW i \in 1 .. Len(times)
        PROVE  /\ times[i] <= now
               /\ tokens + 20 * ((Len(times) - i + 1) * Window)
                     <= 20 * (limit * Window) + 20 * ((now - times[i]) * limit)
    <3>1. /\ times[i] <= b.lastRefill
          /\ b.tokens + 20 * ((Len(times) - i + 1) * Window)
                <= 20 * (limit * Window) + 20 * ((b.lastRefill - times[i]) * limit)
      BY <1>4, <2>8 DEF Spent
    <3>2. times[i] \in Nat /\ Len(times) \in Nat
      BY <2>8, LenProperties, ElementOfSeq, LimitsAssumption DEF Spent
    <3>3. (now - times[i]) * limit = (b.lastRefill - times[i]) * limit + e
      <4>1. now - times[i] = (b.lastRefill - times[i]) + (now - b.lastRefill)
        BY <1>1, <2>1, <3>2
      <4>2. b.lastRefill - times[i] \in Int /\ now - b.lastRefill \in Int /\ limit \in Int
        BY <1>1, <2>1, <3>2
      <4> QED
        BY <2>2, <4>1, <4>2, Distributes
    <3>4. PICK x \in Int : x = (Len(times) - i + 1) * Window
      BY <3>2, LimitsAssumption
    <3>5. PICK y \in Int : y = (b.lastRefill - times[i]) * limit
      BY <2>1, <3>2
    <3>6. b.tokens + 20 * x <= 20 * full + 20 * y
      BY <1>5, <3>1, <3>4, <3>5
    <3>7. tokens + 20 * x <= 20 * full + 20 * (y + e)
      <4>1. tokens \in Int
        BY <1>6, <2>6
      <4>2. b.tokens \in Int /\ x \in Int /\ y \in Int /\ e \in Int /\ full \in Int
        <5>1. b.tokens \in Int
          BY <2>1
        <5>2. x \in Int
          BY <3>4
        <5>3. y \in Int
          BY <3>5
        <5>4. e \in Int
          BY <2>2
        <5>5. full \in Int
          BY <1>5
        <5> QED
          BY <5>1, <5>2, <5>3, <5>4, <5>5
      <4>3. tokens <= b.tokens + 20 * e
        BY <2>6
      <4> QED
        BY <3>6, <4>1, <4>2, <4>3, Summed
    <3>8. times[i] <= now
      BY <1>1, <2>1, <3>1, <3>2
    <3> QED
      BY <1>5, <3>3, <3>4, <3>5, <3>7, <3>8
  <2>9. Spent(r, times, limit, now)
    <3>1. \A i \in 1 .. Len(times) :
             /\ times[i] <= r.lastRefill
             /\ r.tokens + 20 * ((Len(times) - i + 1) * Window)
                   <= 20 * (limit * Window) + 20 * ((r.lastRefill - times[i]) * limit)
      BY <2>7, <2>8
    <3>2. times \in Seq(0 .. MaxTime) /\ Limits!Bounded(times, limit)
      BY DEF Spent
    <3>3. r # Limits!NoBucket
      BY <2>7, BucketFields
    <3> QED
      BY <1>1, <2>7, <3>1, <3>2, <3>3 DEF Spent
  <2> QED
    BY <1>2, <2>7, <2>9
<1> QED
  BY <1>3, <1>4

(* A bucket that lets through, or does not, or whose token is spent for    *)
(* nothing.                                                                *)
LEMMA TakeKeepsSpent ==
    ASSUME LimitsTyped, NEW limit \in Nat, NEW r \in Limits!Bucket(limit), r.lastRefill = now,
           NEW times, Spent(r, times, limit, now)
    PROVE  /\ Spent(Limits!Taken(r), times, limit, now)
           /\ Limits!Allows(r) => Spent(Limits!Taken(r), Append(times, now), limit, now)
<1>1. now \in 0 .. MaxTime /\ now \in Nat /\ limit * Window \in Nat /\ Window \in Nat
  BY LimitsAssumption, FullBucket DEF LimitsTyped
<1>2. r.tokens \in Nat /\ r.tokens <= 20 * (limit * Window) /\ r # Limits!NoBucket
  BY BucketFields
<1>3. CASE ~ Limits!Allows(r)
  BY <1>3 DEF Limits!Taken
<1>4. CASE Limits!Allows(r)
  <2>1. PICK left : left = r.tokens - 20 * Window
    OBVIOUS
  <2>2. left \in Nat /\ left <= r.tokens
    BY <1>1, <1>2, <1>4, <2>1, FullBucket DEF Limits!Allows
  <2>3. PICK b : b = [r EXCEPT !.tokens = left]
    OBVIOUS
  <2>4. Limits!Taken(r) = b
    BY <1>4, <2>1, <2>3, FullBucket DEF Limits!Taken
  <2>5. /\ b \in Limits!Bucket(limit) /\ b.tokens = left /\ b.lastRefill = now
        /\ b # Limits!NoBucket
    <3>1. b \in Limits!Bucket(limit) /\ b.tokens = left /\ b.lastRefill = now
      BY <1>1, <1>2, <2>2, <2>3, FullBucket DEF Limits!Bucket
    <3> QED
      BY <3>1, BucketFields
  <2>6. Len(times) \in Nat /\ times \in Seq(0 .. MaxTime)
        /\ \A i \in 1 .. Len(times) : times[i] \in Nat
    BY LenProperties, ElementOfSeq, LimitsAssumption DEF Spent
  <2>7. PICK n \in Nat : n = Len(times)
    BY <2>6
  <2>8. \A i \in 1 .. n : /\ times[i] <= now
                          /\ r.tokens + 20 * ((n - i + 1) * Window)
                                <= 20 * (limit * Window) + 20 * ((now - times[i]) * limit)
    BY <1>2, <2>7 DEF Spent
  <2>9. Spent(b, times, limit, now)
    <3>1. ASSUME NEW i \in 1 .. n
          PROVE  left + 20 * ((n - i + 1) * Window)
                    <= 20 * (limit * Window) + 20 * ((now - times[i]) * limit)
      <4>1. PICK x \in Int : x = (n - i + 1) * Window
        BY <1>1
      <4>2. PICK y \in Int : y = (now - times[i]) * limit
        BY <1>1, <2>6, <2>7
      <4>3. r.tokens + 20 * x <= 20 * (limit * Window) + 20 * y
        BY <2>8, <4>1, <4>2
      <4> QED
        BY <1>1, <1>2, <2>2, <4>1, <4>2, <4>3
    <3> QED
      BY <1>1, <2>5, <2>6, <2>7, <2>8, <3>1 DEF Spent
  <2>10. PICK more : more = Append(times, now)
    OBVIOUS
  <2>11. /\ more \in Seq(0 .. MaxTime) /\ Len(more) = n + 1 /\ more[n + 1] = now
         /\ \A i \in 1 .. n : more[i] = times[i]
    BY <1>1, <2>6, <2>7, <2>10, AppendProperties
  <2>12. ASSUME NEW i \in 1 .. n + 1
         PROVE  /\ more[i] <= now
                /\ left + 20 * ((n + 1 - i + 1) * Window)
                      <= 20 * (limit * Window) + 20 * ((now - more[i]) * limit)
    <3>1. CASE i = n + 1
      <4>1. (n + 1 - i + 1) * Window = Window
        BY <1>1, <3>1
      <4>2. (now - more[i]) * limit = 0
        BY <1>1, <2>11, <3>1
      <4> QED
        BY <1>1, <1>2, <2>1, <2>11, <3>1, <4>1, <4>2
    <3>2. CASE i \in 1 .. n
      <4>1. more[i] = times[i] /\ times[i] \in Nat /\ times[i] <= now
        BY <2>6, <2>7, <2>8, <2>11, <3>2
      <4>2. PICK x \in Int : x = (n - i + 1) * Window
        BY <1>1, <3>2
      <4>3. (n + 1 - i + 1) * Window = x + Window
        <5>1. n + 1 - i + 1 = (n - i + 1) + 1 /\ n - i + 1 \in Int
          BY <3>2
        <5> QED
          BY <1>1, <4>2, <5>1, Distributes
      <4>4. PICK y \in Int : y = (now - times[i]) * limit
        BY <1>1, <4>1
      <4>5. r.tokens + 20 * x <= 20 * (limit * Window) + 20 * y
        BY <2>8, <3>2, <4>2, <4>4
      <4> QED
        BY <1>1, <1>2, <2>1, <4>1, <4>2, <4>3, <4>4, <4>5
    <3> QED
      BY <3>1, <3>2
  <2>13. Limits!Bounded(more, limit)
    <3> SUFFICES ASSUME NEW i \in 1 .. n + 1, NEW j \in 1 .. n + 1, i <= j
                 PROVE  (j - i + 1) * Window <= limit * Window + (more[j] - more[i]) * limit
      BY <2>11 DEF Limits!Bounded
    <3>1. CASE j = n + 1
      <4>1. more[i] \in Int /\ more[j] = now
        BY <2>11, <3>1, ElementOfSeq, LimitsAssumption
      <4>2. PICK x \in Int : x = (n + 1 - i + 1) * Window
        BY <1>1
      <4>3. PICK y \in Int : y = (now - more[i]) * limit
        BY <1>1, <4>1
      <4>4. left + 20 * x <= 20 * (limit * Window) + 20 * y
        BY <2>12, <4>2, <4>3
      <4>5. x <= limit * Window + y
        BY <1>1, <2>2, <4>2, <4>3, <4>4
      <4> QED
        BY <3>1, <4>1, <4>2, <4>3, <4>5
    <3>2. CASE j \in 1 .. n
      <4>1. i \in 1 .. n
        BY <3>2
      <4>2. (j - i + 1) * Window <= limit * Window + (times[j] - times[i]) * limit
        BY <2>7, <3>2, <4>1 DEF Spent, Limits!Bounded
      <4> QED
        BY <2>11, <3>2, <4>1, <4>2
    <3> QED
      BY <3>1, <3>2
  <2>14. Spent(b, more, limit, now)
    <3>1. \A i \in 1 .. Len(more) :
             /\ more[i] <= b.lastRefill
             /\ b.tokens + 20 * ((Len(more) - i + 1) * Window)
                   <= 20 * (limit * Window) + 20 * ((b.lastRefill - more[i]) * limit)
      BY <2>5, <2>11, <2>12
    <3> QED
      BY <1>1, <2>5, <2>11, <2>13, <3>1 DEF Spent
  <2> QED
    BY <2>4, <2>9, <2>10, <2>14
<1> QED
  BY <1>3, <1>4
(* A bucket that was swept fills to what it would have held.               *)
LEMMA SameRefill ==
    LimitsInv => Limits!Refilled(upgrades, Limit, Limits!Scale) = Limits!Refilled(kept, Limit, Limits!Scale)
<1> SUFFICES ASSUME LimitsInv
             PROVE  Limits!Refilled(upgrades, Limit, Limits!Scale)
                       = Limits!Refilled(kept, Limit, Limits!Scale)
  OBVIOUS
<1>1. CASE upgrades = kept
  BY <1>1
<1>2. CASE upgrades = Limits!NoBucket /\ now - kept.lastRefill > Window
             /\ kept # Limits!NoBucket
  <2>1. now \in Nat /\ kept \in Limits!Bucket(Limit)
    BY <1>2, LimitsAssumption DEF LimitsInv, LimitsTyped, Spent
  <2>2. kept.tokens \in Nat /\ kept.lastRefill \in Nat
    BY <2>1, BucketFields, LimitsAssumption
  <2>3. PICK full \in Nat : full = Limit * Window
    BY FullBucket, LimitsAssumption
  <2>4. Limits!Full(Limit) = 20 * full /\ Limits!Scale = 20
    BY <2>3, FullBucket, LimitsAssumption
  <2>5. PICK gap \in Nat : gap = now - kept.lastRefill /\ gap >= Window
    BY <1>2, <2>1, <2>2, LimitsAssumption
  <2>6. PICK more \in Int : more = gap * Limit
    BY <2>5, LimitsAssumption
  <2>7. more >= full
    <3>1. Window * Limit <= gap * Limit
      BY <2>5, MoreTimes, LimitsAssumption
    <3>2. Window * Limit = Limit * Window
      BY LimitsAssumption
    <3> QED
      BY <2>3, <2>6, <3>1, <3>2
  <2>8. (now - kept.lastRefill) * Limit * Limits!Scale = more * 20
    BY <2>4, <2>5, <2>6
  <2>9. Limits!Least(Limits!Full(Limit), kept.tokens + more * 20) = Limits!Full(Limit)
    <3>1. kept.tokens + more * 20 >= 20 * full
      <4>1. more \in Int /\ full \in Int
        BY <2>3, <2>6
      <4> QED
        BY <2>2, <2>7, <4>1
    <3>2. kept.tokens + more * 20 \in Int /\ 20 * full \in Int
      <4>1. more \in Int /\ full \in Int
        BY <2>3, <2>6
      <4> QED
        BY <2>2, <4>1
    <3> QED
      BY <2>4, <3>1, <3>2 DEF Limits!Least
  <2> QED
    BY <1>2, <2>8, <2>9 DEF Limits!Refilled
<1> QED
  BY <1>1, <1>2 DEF LimitsInv, SweptWhenFull

LEMMA UpgradeKeeps ==
    ASSUME LimitsInv, Limits!Upgrade
    PROVE  LimitsInv'
<1>1. /\ LimitsTyped /\ SweptWhenFull /\ Spent(kept, accepted["upgrade"], Limit, now)
      /\ Spent(messages, accepted["message"], Limit, now)
      /\ Spent(method, accepted["method"], MethodLimit, now)
  BY DEF LimitsInv
<1>2. PICK r : r = Limits!Refilled(kept, Limit, Limits!Scale)
  OBVIOUS
<1>3. /\ upgrades' = Limits!Taken(r) /\ kept' = Limits!Taken(r)
      /\ Limits!Lets("upgrade", Limits!Allows(r))
      /\ limited' = limited /\ now' = now /\ messages' = messages /\ method' = method
      /\ multiplier' = multiplier /\ lastOverload' = lastOverload
  BY <1>2, SameRefill DEF Limits!Upgrade
<1>4. r \in Limits!Bucket(Limit) /\ r.lastRefill = now /\ Spent(r, accepted["upgrade"], Limit, now)
  BY <1>1, <1>2, RefillKeepsSpent, LimitsAssumption DEF Limits!Scale
<1>5. /\ Spent(kept', accepted'["upgrade"], Limit, now)
      /\ accepted'["message"] = accepted["message"] /\ accepted'["method"] = accepted["method"]
      /\ DOMAIN accepted' = {"upgrade", "message", "method"}
      /\ accepted' = [k \in {"upgrade", "message", "method"} |-> accepted'[k]]
  <2>1. CASE Limits!Allows(r)
    <3>1. accepted' = [accepted EXCEPT !["upgrade"] = Append(accepted["upgrade"], now)]
      BY <1>3, <2>1 DEF Limits!Lets
    <3>2. Spent(Limits!Taken(r), Append(accepted["upgrade"], now), Limit, now)
      BY <1>1, <1>4, <2>1, TakeKeepsSpent, LimitsAssumption
    <3> QED
      BY <1>1, <1>3, <3>1, <3>2 DEF LimitsTyped
  <2>2. CASE ~ Limits!Allows(r)
    <3>1. accepted' = accepted
      BY <1>3, <2>2 DEF Limits!Lets
    <3>2. Spent(Limits!Taken(r), accepted["upgrade"], Limit, now)
      BY <1>1, <1>4, TakeKeepsSpent, LimitsAssumption
    <3> QED
      BY <1>1, <1>3, <3>1, <3>2 DEF LimitsTyped
  <2> QED
    BY <2>1, <2>2
<1>6. LimitsTyped' /\ SweptWhenFull'
  BY <1>1, <1>3, <1>5 DEF LimitsTyped, SweptWhenFull
<1> QED
  BY <1>1, <1>3, <1>5, <1>6 DEF LimitsInv

LEMMA MessageKeeps ==
    ASSUME LimitsInv, Limits!Message
    PROVE  LimitsInv'
<1>1. /\ LimitsTyped /\ SweptWhenFull /\ Spent(kept, accepted["upgrade"], Limit, now)
      /\ Spent(messages, accepted["message"], Limit, now)
      /\ Spent(method, accepted["method"], MethodLimit, now)
  BY DEF LimitsInv
<1>2. PICK r : r = Limits!Refilled(messages, Limit, multiplier)
  OBVIOUS
<1>3. /\ messages' = Limits!Taken(r)
      /\ Limits!Lets("message", Limits!Allows(r))
      /\ limited' = limited /\ now' = now /\ upgrades' = upgrades /\ kept' = kept
      /\ method' = method /\ multiplier' = multiplier /\ lastOverload' = lastOverload
  BY <1>2 DEF Limits!Message
<1>4. r \in Limits!Bucket(Limit) /\ r.lastRefill = now /\ Spent(r, accepted["message"], Limit, now)
  <2>1. multiplier \in 0 .. 20
    BY <1>1 DEF LimitsTyped
  <2> QED
    BY <1>1, <1>2, <2>1, RefillKeepsSpent, LimitsAssumption
<1>5. /\ Spent(messages', accepted'["message"], Limit, now)
      /\ accepted'["upgrade"] = accepted["upgrade"] /\ accepted'["method"] = accepted["method"]
      /\ DOMAIN accepted' = {"upgrade", "message", "method"}
      /\ accepted' = [k \in {"upgrade", "message", "method"} |-> accepted'[k]]
  <2>1. CASE Limits!Allows(r)
    <3>1. accepted' = [accepted EXCEPT !["message"] = Append(accepted["message"], now)]
      BY <1>3, <2>1 DEF Limits!Lets
    <3>2. Spent(Limits!Taken(r), Append(accepted["message"], now), Limit, now)
      BY <1>1, <1>4, <2>1, TakeKeepsSpent, LimitsAssumption
    <3> QED
      BY <1>1, <1>3, <3>1, <3>2 DEF LimitsTyped
  <2>2. CASE ~ Limits!Allows(r)
    <3>1. accepted' = accepted
      BY <1>3, <2>2 DEF Limits!Lets
    <3>2. Spent(Limits!Taken(r), accepted["message"], Limit, now)
      BY <1>1, <1>4, TakeKeepsSpent, LimitsAssumption
    <3> QED
      BY <1>1, <1>3, <3>1, <3>2 DEF LimitsTyped
  <2> QED
    BY <2>1, <2>2
<1>6. LimitsTyped' /\ SweptWhenFull'
  BY <1>1, <1>3, <1>5 DEF LimitsTyped, SweptWhenFull
<1> QED
  BY <1>1, <1>3, <1>5, <1>6 DEF LimitsInv

LEMMA MethodMessageKeeps ==
    ASSUME LimitsInv, Limits!MethodMessage
    PROVE  LimitsInv'
<1>1. /\ LimitsTyped /\ SweptWhenFull /\ Spent(kept, accepted["upgrade"], Limit, now)
      /\ Spent(messages, accepted["message"], Limit, now)
      /\ Spent(method, accepted["method"], MethodLimit, now)
  BY DEF LimitsInv
<1>2. PICK r : r = Limits!Refilled(messages, Limit, multiplier)
  OBVIOUS
<1>3. PICK own : own = Limits!Refilled(method, MethodLimit, multiplier)
  OBVIOUS
<1>4. /\ messages' = Limits!Taken(r)
      /\ method' = IF Limits!Allows(r) THEN Limits!Taken(own) ELSE method
      /\ limited' = limited /\ now' = now /\ upgrades' = upgrades /\ kept' = kept
      /\ multiplier' = multiplier /\ lastOverload' = lastOverload
      /\ IF Limits!Allows(r) /\ Limits!Allows(own)
           THEN accepted' = [accepted EXCEPT !["message"] = Append(accepted["message"], now),
                                             !["method"] = Append(accepted["method"], now)]
           ELSE accepted' = accepted
  BY <1>2, <1>3 DEF Limits!MethodMessage
<1>5. multiplier \in 0 .. 20
  BY <1>1 DEF LimitsTyped
<1>6. r \in Limits!Bucket(Limit) /\ r.lastRefill = now /\ Spent(r, accepted["message"], Limit, now)
  BY <1>1, <1>2, <1>5, RefillKeepsSpent, LimitsAssumption
<1>7. /\ own \in Limits!Bucket(MethodLimit) /\ own.lastRefill = now
      /\ Spent(own, accepted["method"], MethodLimit, now)
  BY <1>1, <1>3, <1>5, RefillKeepsSpent, LimitsAssumption
<1>8. /\ Spent(Limits!Taken(r), accepted["message"], Limit, now)
      /\ Spent(Limits!Taken(own), accepted["method"], MethodLimit, now)
      /\ Limits!Allows(r) => Spent(Limits!Taken(r), Append(accepted["message"], now), Limit, now)
      /\ Limits!Allows(own) =>
            Spent(Limits!Taken(own), Append(accepted["method"], now), MethodLimit, now)
  BY <1>1, <1>6, <1>7, TakeKeepsSpent, LimitsAssumption
<1>9. /\ Spent(messages', accepted'["message"], Limit, now)
      /\ Spent(method', accepted'["method"], MethodLimit, now)
      /\ accepted'["upgrade"] = accepted["upgrade"]
      /\ DOMAIN accepted' = {"upgrade", "message", "method"}
      /\ accepted' = [k \in {"upgrade", "message", "method"} |-> accepted'[k]]
  <2>1. CASE Limits!Allows(r) /\ Limits!Allows(own)
    <3>1. accepted' = [accepted EXCEPT !["message"] = Append(accepted["message"], now),
                                       !["method"] = Append(accepted["method"], now)]
      BY <1>4, <2>1
    <3>2. /\ accepted'["message"] = Append(accepted["message"], now)
          /\ accepted'["method"] = Append(accepted["method"], now)
          /\ accepted'["upgrade"] = accepted["upgrade"]
          /\ DOMAIN accepted' = {"upgrade", "message", "method"}
          /\ accepted' = [k \in {"upgrade", "message", "method"} |-> accepted'[k]]
      BY <1>1, <3>1 DEF LimitsTyped
    <3> QED
      BY <1>4, <1>8, <2>1, <3>2
  <2>2. CASE ~ (Limits!Allows(r) /\ Limits!Allows(own))
    <3>1. accepted' = accepted
      BY <1>4, <2>2
    <3>2. method' = method \/ method' = Limits!Taken(own)
      BY <1>4
    <3> QED
      BY <1>1, <1>4, <1>8, <3>1, <3>2 DEF LimitsTyped
  <2> QED
    BY <2>1, <2>2
<1>10. LimitsTyped' /\ SweptWhenFull'
  BY <1>1, <1>4, <1>9 DEF LimitsTyped, SweptWhenFull
<1> QED
  BY <1>1, <1>4, <1>9, <1>10 DEF LimitsInv

(* Time refills the bucket by what it adds to the bound.                   *)
LEMMA LaterSpent ==
    ASSUME NEW b, NEW times, NEW limit \in Nat, NEW t \in Nat, Spent(b, times, limit, t)
    PROVE  Spent(b, times, limit, t + 1)
<1>1. b # Limits!NoBucket => b.lastRefill \in Nat
  BY BucketFields DEF Spent
<1> QED
  BY <1>1 DEF Spent

LEMMA TickKeeps ==
    ASSUME LimitsInv, NEW overloaded \in BOOLEAN, Limits!Tick(overloaded)
    PROVE  LimitsInv'
<1>1. /\ LimitsTyped /\ SweptWhenFull /\ Spent(kept, accepted["upgrade"], Limit, now)
      /\ Spent(messages, accepted["message"], Limit, now)
      /\ Spent(method, accepted["method"], MethodLimit, now)
  BY DEF LimitsInv
<1>2. /\ now < MaxTime /\ now' = now + 1 /\ limited' = limited /\ upgrades' = upgrades
      /\ kept' = kept /\ messages' = messages /\ method' = method /\ accepted' = accepted
      /\ Limits!Sample(overloaded) \/ UNCHANGED <<multiplier, lastOverload>>
  BY DEF Limits!Tick
<1>3. now \in Nat /\ now' \in 0 .. MaxTime
  BY <1>1, <1>2, LimitsAssumption DEF LimitsTyped
<1>4. multiplier' \in 5 .. 20
  <2>1. multiplier \in 5 .. 20
    BY <1>1 DEF LimitsTyped
  <2>2. CASE UNCHANGED <<multiplier, lastOverload>>
    BY <2>1, <2>2
  <2>3. CASE Limits!Sample(overloaded) /\ overloaded
    <3>1. multiplier' = IF multiplier \div 2 > 20 \div 4 THEN multiplier \div 2 ELSE 20 \div 4
      BY <2>3 DEF Limits!Sample, Limits!Scale
    <3> QED
      BY <2>1, <3>1
  <2>4. CASE Limits!Sample(overloaded) /\ ~ overloaded
    BY <2>1, <2>4 DEF Limits!Sample, Limits!Scale, Limits!Least
  <2> QED
    BY <1>2, <2>2, <2>3, <2>4
<1>5. lastOverload' \in -Cooldown - 1 .. MaxTime
  <2>1. lastOverload' = now + 1 \/ lastOverload' = lastOverload
    BY <1>2 DEF Limits!Sample
  <2> QED
    BY <1>1, <1>2, <1>3, <2>1, LimitsAssumption DEF LimitsTyped
<1>6. LimitsTyped'
  BY <1>1, <1>2, <1>3, <1>4, <1>5 DEF LimitsTyped
<1>7. SweptWhenFull'
  <2>1. CASE upgrades = kept
    BY <1>2, <2>1 DEF SweptWhenFull
  <2>2. CASE upgrades # kept
    <3>1. upgrades = Limits!NoBucket /\ now - kept.lastRefill > Window
          /\ kept \in Limits!Bucket(Limit)
      BY <1>1, <2>2 DEF SweptWhenFull, Spent
    <3>2. kept.lastRefill \in Nat
      BY <3>1, BucketFields, LimitsAssumption
    <3> QED
      BY <1>2, <1>3, <3>1, <3>2, LimitsAssumption DEF SweptWhenFull
  <2> QED
    BY <2>1, <2>2
<1>8. /\ Spent(kept, accepted["upgrade"], Limit, now + 1)
      /\ Spent(messages, accepted["message"], Limit, now + 1)
      /\ Spent(method, accepted["method"], MethodLimit, now + 1)
  BY <1>1, <1>3, LaterSpent, LimitsAssumption
<1> QED
  BY <1>2, <1>6, <1>7, <1>8 DEF LimitsInv

LEMMA SweepKeeps ==
    ASSUME LimitsInv, Limits!Sweep
    PROVE  LimitsInv'
<1>1. SweptWhenFull /\ LimitsTyped
  BY DEF LimitsInv
<1>2. /\ upgrades # Limits!NoBucket /\ now - upgrades.lastRefill > Window
      /\ upgrades' = Limits!NoBucket /\ limited' = limited /\ now' = now /\ kept' = kept
      /\ messages' = messages /\ method' = method /\ multiplier' = multiplier
      /\ lastOverload' = lastOverload /\ accepted' = accepted
  BY DEF Limits!Sweep, Limits!Idle
<1>3. SweptWhenFull'
  BY <1>1, <1>2 DEF SweptWhenFull
<1>4. LimitsTyped'
  BY <1>1, <1>2 DEF LimitsTyped
<1> QED
  BY <1>2, <1>3, <1>4 DEF LimitsInv

LEMMA LimitsStep == LimitsInv /\ [Limits!Next]_limitsVars => LimitsInv'
<1> SUFFICES ASSUME LimitsInv, [Limits!Next]_limitsVars PROVE LimitsInv'
  OBVIOUS
<1>1. CASE UNCHANGED limitsVars
  <2>1. /\ limited' = limited /\ now' = now /\ upgrades' = upgrades /\ kept' = kept
        /\ messages' = messages /\ method' = method /\ multiplier' = multiplier
        /\ lastOverload' = lastOverload /\ accepted' = accepted
    BY <1>1 DEF limitsVars
  <2>2. LimitsTyped' /\ SweptWhenFull'
    BY <2>1 DEF LimitsInv, LimitsTyped, SweptWhenFull
  <2> QED
    BY <2>1, <2>2 DEF LimitsInv
<1> QED
  BY <1>1, UpgradeKeeps, MessageKeeps, MethodMessageKeeps, SweepKeeps, TickKeeps DEF Limits!Next

LEMMA LimitsInit == Limits!Init => LimitsInv
<1> SUFFICES ASSUME Limits!Init PROVE LimitsInv
  OBVIOUS
<1>1. /\ limited \in {"upgrades", "messages"} /\ now = 0 /\ multiplier = 20
      /\ upgrades = Limits!NoBucket /\ kept = Limits!NoBucket
      /\ messages = Limits!NoBucket /\ method = Limits!NoBucket
      /\ lastOverload = -Cooldown - 1
      /\ accepted = [k \in {"upgrade", "message", "method"} |-> <<>>]
  BY DEF Limits!Init, Limits!Scale
<1>2. LimitsTyped
  BY <1>1, LimitsAssumption DEF LimitsTyped
<1>3. \A limit \in Nat : Spent(Limits!NoBucket, <<>>, limit, 0)
  <2>1. <<>> \in Seq(0 .. MaxTime) /\ Len(<<>>) = 0
    BY EmptySeq
  <2> QED
    BY <2>1 DEF Spent, Limits!Bounded
<1> QED
  BY <1>1, <1>2, <1>3, LimitsAssumption DEF LimitsInv, SweptWhenFull

LEMMA LimitsAreHeld == LimitsInv => Limits!LimitsHold
<1> SUFFICES ASSUME LimitsInv PROVE Limits!LimitsHold
  OBVIOUS
<1>1. /\ LimitsTyped /\ SweptWhenFull /\ Spent(kept, accepted["upgrade"], Limit, now)
      /\ Spent(messages, accepted["message"], Limit, now)
      /\ Spent(method, accepted["method"], MethodLimit, now)
  BY DEF LimitsInv
<1>2. /\ kept \in Limits!Bucket(Limit) \cup {Limits!NoBucket}
      /\ upgrades \in Limits!Bucket(Limit) \cup {Limits!NoBucket}
      /\ messages \in Limits!Bucket(Limit) \cup {Limits!NoBucket}
      /\ method \in Limits!Bucket(MethodLimit) \cup {Limits!NoBucket}
  BY <1>1 DEF Spent, SweptWhenFull
<1>3. /\ accepted["upgrade"] \in Seq(0 .. MaxTime) /\ Limits!Bounded(accepted["upgrade"], Limit)
      /\ accepted["message"] \in Seq(0 .. MaxTime) /\ Limits!Bounded(accepted["message"], Limit)
      /\ accepted["method"] \in Seq(0 .. MaxTime)
      /\ Limits!Bounded(accepted["method"], MethodLimit)
  BY <1>1 DEF Spent
<1>4. accepted \in [{"upgrade", "message", "method"} -> Seq(0 .. MaxTime)]
  BY <1>1, <1>3 DEF LimitsTyped
<1>5. multiplier \in Limits!Scale \div 4 .. Limits!Scale
  <2>1. 20 \div 4 = 5
    OBVIOUS
  <2> QED
    BY <1>1, <2>1 DEF LimitsTyped, Limits!Scale
<1>6. Limits!TypeOK
  BY <1>1, <1>2, <1>4, <1>5 DEF Limits!TypeOK, LimitsTyped
<1> QED
  BY <1>3, <1>6, SameRefill DEF Limits!LimitsHold
-----------------------------------------------------------------------------
(* Keep-alive *)

(* With a timeout shorter than the time to the next ping there is one      *)
(* timer, which ends before that ping; a closed connection has none in     *)
(* _pongTimer.                                                             *)
OneTimer ==
    /\ state = "closed" => pong = {}
    /\ pongTimeout < ShortestPing =>
          /\ lost = {}
          /\ \A t \in pong : ~ t.heard /\ ~ t.old /\ (state = "open" => t.left < ping)

(* A silent peer is about to be pinged, or a timer runs that will end its  *)
(* connection in time.                                                     *)
Watched ==
    state = "open" /\ pongTimeout > 0 =>
       \/ Silent + ping <= LongestPing
       \/ \E t \in AllTimers : Silent + t.left <= LongestPing + pongTimeout

KeepAliveInv == TypeOK /\ OneTimer /\ Watched

(* The intervals and timeouts as numbers.                                  *)
LEMMA Ranges ==
    /\ LongestPing \in Nat /\ ShortestPing \in Nat /\ Interval \in Nat /\ Interval <= LongestPing
    /\ Jittered = ShortestPing .. LongestPing
    /\ Max(PongTimeouts) \in Nat /\ \A n \in PongTimeouts : n \in Nat /\ n <= Max(PongTimeouts)
    /\ Quiet = LongestPing + Max(PongTimeouts) + 1
<1>1. LongestPing \in Nat /\ ShortestPing \in Nat /\ Interval \in Nat /\ Interval <= LongestPing
  BY IntervalAssumption DEF LongestPing, ShortestPing
<1>2. Jittered = ShortestPing .. LongestPing
  BY DEF Jittered, ShortestPing, LongestPing
<1>3. Max(PongTimeouts) \in PongTimeouts /\ \A n \in PongTimeouts : n <= Max(PongTimeouts)
  <2>1. \E x \in PongTimeouts : \A y \in PongTimeouts : x >= y
    BY PongTimeoutsAssumption
  <2> QED
    BY <2>1 DEF Max
<1> QED
  BY <1>1, <1>2, <1>3, PongTimeoutsAssumption DEF Quiet

LEMMA QuietIsNat == Quiet \in Nat
<1>1. PICK l \in Nat : l = LongestPing
  BY Ranges
<1>2. PICK m \in Nat : m = Max(PongTimeouts)
  BY Ranges
<1>3. l + m + 1 \in Nat
  OBVIOUS
<1> QED
  BY <1>1, <1>2, <1>3 DEF Quiet

(* The ages of a connection as numbers.                                    *)
LEMMA TypedNumbers ==
    TypeOK => /\ ping \in Nat /\ ping <= LongestPing /\ LongestPing \in Nat
              /\ pongTimeout \in Nat /\ pongTimeout <= Max(PongTimeouts) /\ Max(PongTimeouts) \in Nat
              /\ idle \in Nat /\ idle <= Quiet /\ age \in Nat /\ age <= Quiet /\ Quiet \in Nat
<1> SUFFICES ASSUME TypeOK
             PROVE  /\ ping \in Nat /\ ping <= LongestPing /\ LongestPing \in Nat
                    /\ pongTimeout \in Nat /\ pongTimeout <= Max(PongTimeouts) /\ Max(PongTimeouts) \in Nat
                    /\ idle \in Nat /\ idle <= Quiet /\ age \in Nat /\ age <= Quiet /\ Quiet \in Nat
  OBVIOUS
<1>1. ping \in 0 .. LongestPing /\ idle \in 0 .. Quiet /\ age \in 0 .. Quiet /\ pongTimeout \in PongTimeouts
  BY DEF TypeOK
<1>2. PICK l \in Nat : l = LongestPing
  BY Ranges
<1>3. PICK q \in Nat : q = Quiet
  BY QuietIsNat
<1>4. ping \in 0 .. l /\ idle \in 0 .. q /\ age \in 0 .. q
  BY <1>1, <1>2, <1>3
<1>5. ping \in Nat /\ ping <= l /\ idle \in Nat /\ idle <= q /\ age \in Nat /\ age <= q
  BY ONLY <1>4, l \in Nat, q \in Nat
<1>6. pongTimeout \in Nat /\ pongTimeout <= Max(PongTimeouts) /\ Max(PongTimeouts) \in Nat
  BY <1>1, Ranges
<1> QED
  BY <1>2, <1>3, <1>5, <1>6

LEMMA TimerFields ==
    ASSUME NEW t \in PongTimer
    PROVE  t.left \in 0 .. Max(PongTimeouts) /\ t.left \in Nat /\ t.heard \in BOOLEAN /\ t.old \in BOOLEAN
  BY Ranges DEF PongTimer

(* Silence is a number, and saturates with the ages.                       *)
LEMMA SilentRange ==
    TypeOK => /\ Silent \in Nat /\ Silent <= idle /\ idle \in Nat /\ age \in Nat
              /\ ((idle = 0 \/ age = 0) => Silent = 0)
  BY TypedNumbers DEF Silent

LEMMA KeepAliveInit == Init => KeepAliveInv
<1> SUFFICES ASSUME Init PROVE KeepAliveInv
  OBVIOUS
<1>1. TypeOK
  BY Ranges DEF Init, TypeOK, MaxFlight
<1>2. OneTimer
  BY DEF Init, OneTimer
<1>3. Watched
  BY <1>1, SilentRange, Ranges DEF Init, Watched, TypeOK
<1> QED
  BY <1>1, <1>2, <1>3 DEF KeepAliveInv

(* A tick brings silence and timers one nearer to each other: one still    *)
(* watches.                                                                *)
LEMMA TickWatches == KeepAliveInv /\ Tick => KeepAliveInv'
<1> SUFFICES ASSUME KeepAliveInv, Tick PROVE KeepAliveInv'
  OBVIOUS
<1>1. TypeOK /\ OneTimer /\ Watched
  BY DEF KeepAliveInv
<1>2. /\ \A t \in AllTimers : t.left # 0
      /\ state = "open" => ping > 0
      /\ ping' = IF state = "open" THEN ping - 1 ELSE ping
      /\ pong' = {Older(t) : t \in pong} /\ lost' = {Older(t) : t \in lost}
      /\ idle' = Later(idle) /\ age' = Later(age)
      /\ pongTimeout' = pongTimeout /\ defer' = defer /\ state' = state
      /\ peerAlive' = peerAlive /\ flight' = flight
  BY DEF Tick, TimersRun, Due, options
<1>3. ASSUME NEW t \in AllTimers
      PROVE  /\ t \in PongTimer /\ t.left \in Nat /\ t.left > 0
             /\ Older(t) \in PongTimer /\ Older(t).left = t.left - 1
             /\ Older(t).heard = t.heard /\ Older(t).old = t.old
  <2>1. t \in PongTimer /\ t.left \in Nat /\ t.left > 0
    BY <1>1, <1>2, TimerFields DEF TypeOK, AllTimers
  <2>2. PICK n : n = t.left - 1
    OBVIOUS
  <2>3. n \in 0 .. Max(PongTimeouts)
    <3>1. PICK m \in Nat : m = Max(PongTimeouts)
      BY Ranges
    <3>2. t.left \in 0 .. m
      BY <2>1, <3>1, TimerFields
    <3>3. n \in 0 .. m
      BY <2>1, <2>2, <3>2
    <3> QED
      BY <3>1, <3>3
  <2>4. Older(t) = [t EXCEPT !.left = n]
    BY <2>2 DEF Older
  <2> QED
    BY <2>1, <2>2, <2>3, <2>4 DEF PongTimer
<1>4. /\ idle' \in 0 .. Quiet /\ age' \in 0 .. Quiet
      /\ (idle' = idle + 1 \/ (idle = Quiet /\ idle' = Quiet))
      /\ (age' = age + 1 \/ (age = Quiet /\ age' = Quiet))
  BY <1>1, <1>2, TypedNumbers DEF Later
<1>5. ping' \in 0 .. LongestPing
  BY <1>1, <1>2, TypedNumbers
<1>6. pong' \subseteq PongTimer /\ lost' \subseteq PongTimer
  BY <1>2, <1>3 DEF AllTimers
<1>7. TypeOK'
  BY <1>1, <1>2, <1>4, <1>5, <1>6 DEF TypeOK
<1>8. OneTimer'
  <2>1. state' = "closed" => pong' = {}
    BY <1>1, <1>2 DEF OneTimer
  <2>2. ASSUME pongTimeout < ShortestPing
        PROVE  lost' = {} /\ \A t \in pong' : ~ t.heard /\ ~ t.old /\ (state' = "open" => t.left < ping')
    <3>1. lost = {} /\ \A t \in pong : ~ t.heard /\ ~ t.old /\ (state = "open" => t.left < ping)
      BY <1>1, <2>2 DEF OneTimer
    <3>2. ASSUME NEW u \in pong
          PROVE  /\ ~ Older(u).heard /\ ~ Older(u).old
                 /\ state' = "open" => Older(u).left < ping'
      <4>1. u \in AllTimers
        BY DEF AllTimers
      <4>2. ping \in Nat
        BY <1>1, Ranges DEF TypeOK
      <4> QED
        BY <1>2, <1>3, <3>1, <4>1, <4>2
    <3> QED
      BY <1>2, <3>1, <3>2
  <2> QED
    BY <1>2, <2>1, <2>2 DEF OneTimer
<1>9. Watched'
  <2> SUFFICES ASSUME state' = "open", pongTimeout' > 0
               PROVE  \/ Silent' + ping' <= LongestPing
                      \/ \E t \in AllTimers' : Silent' + t.left <= LongestPing + pongTimeout'
    BY DEF Watched
  <2>1. /\ state = "open" /\ pongTimeout > 0 /\ ping > 0 /\ ping' = ping - 1
        /\ Silent \in Nat /\ ping \in Nat /\ pongTimeout \in Nat /\ LongestPing \in Nat
    BY <1>1, <1>2, SilentRange, TypedNumbers
  <2>2. Silent' \in Nat /\ Silent' <= Silent + 1
    <3>1. idle \in Nat /\ age \in Nat /\ idle <= Quiet /\ age <= Quiet
      BY <1>1, TypedNumbers
    <3>2. idle' \in Nat /\ idle' <= idle + 1 /\ age' \in Nat /\ age' <= age + 1
      BY <1>4, <3>1, QuietIsNat
    <3> QED
      BY <3>1, <3>2 DEF Silent
  <2>3. ASSUME Silent + ping <= LongestPing
        PROVE  Silent' + ping' <= LongestPing
    <3>1. PICK s \in Nat : s = Silent
      BY <2>1
    <3>2. PICK z \in Nat : z = Silent'
      BY <2>2
    <3>3. PICK l \in Nat : l = LongestPing
      BY <2>1
    <3>4. PICK p \in Nat : p = ping
      BY <2>1
    <3>5. z <= s + 1 /\ s + p <= l /\ ping' = p - 1
      BY <2>1, <2>2, <2>3, <3>1, <3>2, <3>3, <3>4
    <3>6. z + (p - 1) <= l
      BY <3>5
    <3> QED
      BY <3>2, <3>3, <3>5, <3>6
  <2>4. ASSUME NEW t \in AllTimers, Silent + t.left <= LongestPing + pongTimeout
        PROVE  \E u \in AllTimers' : Silent' + u.left <= LongestPing + pongTimeout'
    <3>1. Older(t) \in AllTimers'
      BY <1>2 DEF AllTimers
    <3>2. Silent' + Older(t).left <= LongestPing + pongTimeout
      BY <1>3, <2>1, <2>2, <2>4
    <3> QED
      BY <1>2, <3>1, <3>2
  <2> QED
    BY <1>1, <2>1, <2>3, <2>4 DEF Watched
<1> QED
  BY <1>7, <1>8, <1>9 DEF KeepAliveInv

(* The steps of doPing.                                                    *)
LEMMA PingWatches == KeepAliveInv /\ (DeferPing \/ SendPing) => KeepAliveInv'
<1> SUFFICES ASSUME KeepAliveInv, DeferPing \/ SendPing PROVE KeepAliveInv'
  OBVIOUS
<1>1. TypeOK /\ OneTimer /\ Watched
  BY DEF KeepAliveInv
<1>2. /\ state = "open" /\ state' = "open" /\ ping = 0 /\ idle' = idle /\ age' = age
      /\ pongTimeout' = pongTimeout /\ defer' = defer /\ peerAlive' = peerAlive
  BY DEF DeferPing, SendPing, options
<1>3. Silent' = Silent /\ Silent \in Nat /\ Silent <= idle /\ idle \in Nat
  BY <1>1, <1>2, SilentRange DEF Silent
<1>4. pongTimeout < ShortestPing => pong = {} /\ lost = {}
  <2>1. pongTimeout < ShortestPing => \A t \in pong : t.left < 0 /\ t \in PongTimer
    BY <1>1, <1>2 DEF OneTimer, TypeOK
  <2>2. \A t \in PongTimer : ~ (t.left < 0)
    BY TimerFields
  <2> QED
    BY <1>1, <2>1, <2>2 DEF OneTimer
<1>5. CASE DeferPing
  <2>1. /\ idle < Interval /\ ping' = Interval - idle /\ pong' = pong /\ lost' = lost
        /\ flight' = flight
    BY <1>5 DEF DeferPing
  <2>2. ping' \in 0 .. LongestPing /\ Silent + ping' <= LongestPing
    BY <1>1, <1>3, <2>1, Ranges
  <2>3. TypeOK'
    BY <1>1, <1>2, <2>1, <2>2 DEF TypeOK
  <2>4. OneTimer'
    BY <1>2, <1>4, <2>1 DEF OneTimer
  <2>5. Watched'
    BY <1>3, <2>2 DEF Watched
  <2> QED
    BY <2>3, <2>4, <2>5 DEF KeepAliveInv
<1>6. CASE SendPing
  <2>1. ping' \in Jittered /\ flight' \in {flight, flight + 1}
        /\ (flight' = flight + 1 => flight < MaxFlight)
    BY <1>6 DEF SendPing
  <2>4. flight' \in 0 .. MaxFlight
    BY <1>1, <2>1 DEF TypeOK, MaxFlight
  <2>5. ping' \in 0 .. LongestPing /\ ping' \in Nat /\ ShortestPing <= ping'
    BY <2>1, Ranges
  <2>2. CASE pongTimeout = 0
    <3>1. pong' = pong /\ lost' = lost
      BY <1>6, <2>2 DEF SendPing
    <3>2. TypeOK'
      BY <1>1, <1>2, <2>4, <2>5, <3>1 DEF TypeOK
    <3>3. OneTimer'
      BY <1>2, <1>4, <3>1 DEF OneTimer
    <3>4. Watched'
      BY <1>2, <2>2 DEF Watched
    <3> QED
      BY <3>2, <3>3, <3>4 DEF KeepAliveInv
  <2>3. CASE pongTimeout # 0
    <3>1. PICK new : new = [left |-> pongTimeout, heard |-> FALSE, old |-> FALSE]
      OBVIOUS
    <3>2. pong' = {new} /\ lost' = lost \cup pong
      BY <1>6, <2>3, <3>1 DEF SendPing
    <3>3. new.left = pongTimeout /\ ~ new.heard /\ ~ new.old /\ pongTimeout \in Nat
      BY <1>1, <3>1, TypedNumbers
    <3>7. pongTimeout \in 0 .. Max(PongTimeouts)
      BY <1>1, TypedNumbers
    <3>8. new \in PongTimer
      BY <3>1, <3>7 DEF PongTimer
    <3>4. TypeOK'
      BY <1>1, <1>2, <2>4, <2>5, <3>2, <3>8 DEF TypeOK
    <3>5. OneTimer'
      <4>1. pongTimeout < ShortestPing => pongTimeout < ping'
        BY <2>5, <3>3, Ranges
      <4> QED
        BY <1>2, <1>4, <3>2, <3>3, <4>1 DEF OneTimer
    <3>6. Watched'
      <4>1. CASE Silent + ping <= LongestPing
        <5>1. Silent <= LongestPing
          BY <1>2, <1>3, <4>1, Ranges
        <5>2. Silent' + new.left <= LongestPing + pongTimeout'
          BY <1>2, <1>3, <3>3, <5>1, Ranges
        <5>3. new \in AllTimers'
          BY <3>2 DEF AllTimers
        <5> QED
          BY <5>2, <5>3 DEF Watched
      <4>2. CASE \E t \in AllTimers : Silent + t.left <= LongestPing + pongTimeout
        BY <1>2, <1>3, <3>2, <4>2 DEF Watched, AllTimers
      <4>3. pongTimeout > 0
        BY <2>3, <3>3
      <4> QED
        BY <1>1, <1>2, <4>1, <4>2, <4>3 DEF Watched
    <3> QED
      BY <3>4, <3>5, <3>6 DEF KeepAliveInv
  <2> QED
    BY <2>2, <2>3
<1> QED
  BY <1>5, <1>6

(* Something is heard, or the peer dies, or close() is called.             *)
LEMMA HearingWatches ==
    KeepAliveInv /\ (PongArrives \/ MessageArrives \/ PeerDies \/ Close) => KeepAliveInv'
<1> SUFFICES ASSUME KeepAliveInv, PongArrives \/ MessageArrives \/ PeerDies \/ Close
             PROVE  KeepAliveInv'
  OBVIOUS
<1>1. TypeOK /\ OneTimer /\ Watched
  BY DEF KeepAliveInv
<1>2. CASE PongArrives
  <2>1. /\ flight > 0 /\ flight' = flight - 1 /\ pong' = {}
        /\ lost' = {[t EXCEPT !.heard = TRUE] : t \in lost} /\ idle' = 0
        /\ pongTimeout' = pongTimeout /\ defer' = defer /\ state' = state /\ ping' = ping
        /\ peerAlive' = peerAlive /\ age' = age
    BY <1>2 DEF PongArrives, options
  <2>2. \A t \in PongTimer : [t EXCEPT !.heard = TRUE] \in PongTimer
    BY DEF PongTimer
  <2>3. lost' \subseteq PongTimer
    BY <1>1, <2>1, <2>2 DEF TypeOK
  <2>8. flight' \in 0 .. MaxFlight /\ idle' \in 0 .. Quiet
    BY <1>1, <2>1, QuietIsNat DEF TypeOK, MaxFlight
  <2>4. TypeOK'
    BY <1>1, <2>1, <2>3, <2>8 DEF TypeOK
  <2>5. OneTimer'
    BY <1>1, <2>1 DEF OneTimer
  <2>6. Silent' = 0 /\ Silent' + ping' <= LongestPing
    BY <1>1, <2>1, TypedNumbers DEF Silent
  <2>7. Watched'
    BY <2>6 DEF Watched
  <2> QED
    BY <2>4, <2>5, <2>7 DEF KeepAliveInv
<1>3. CASE MessageArrives
  <2>1. /\ idle' = 0 /\ flight' = flight /\ pong' = pong /\ lost' = lost
        /\ pongTimeout' = pongTimeout /\ defer' = defer /\ state' = state /\ ping' = ping
        /\ peerAlive' = peerAlive /\ age' = age
    BY <1>3 DEF MessageArrives, options
  <2>6. idle' \in 0 .. Quiet
    BY <2>1, QuietIsNat
  <2>2. TypeOK'
    BY <1>1, <2>1, <2>6 DEF TypeOK
  <2>3. OneTimer'
    BY <1>1, <2>1 DEF OneTimer
  <2>4. Silent' = 0 /\ Silent' + ping' <= LongestPing
    BY <1>1, <2>1, TypedNumbers DEF Silent
  <2>5. Watched'
    BY <2>4 DEF Watched
  <2> QED
    BY <2>2, <2>3, <2>5 DEF KeepAliveInv
<1>4. CASE PeerDies
  <2>1. /\ idle' = idle /\ flight' = 0 /\ pong' = pong /\ lost' = lost
        /\ pongTimeout' = pongTimeout /\ defer' = defer /\ state' = state /\ ping' = ping
        /\ peerAlive' = FALSE /\ age' = age
    BY <1>4 DEF PeerDies, options
  <2>4. flight' \in 0 .. MaxFlight
    BY <2>1 DEF MaxFlight
  <2>2. TypeOK'
    BY <1>1, <2>1, <2>4 DEF TypeOK
  <2>3. OneTimer' /\ Watched'
    BY <1>1, <2>1 DEF OneTimer, Watched, Silent, AllTimers
  <2> QED
    BY <2>2, <2>3 DEF KeepAliveInv
<1>5. CASE Close
  <2>1. /\ idle' = idle /\ flight' = flight /\ pong' = pong /\ lost' = lost
        /\ pongTimeout' = pongTimeout /\ defer' = defer /\ state' = "closing" /\ ping' = ping
        /\ peerAlive' = peerAlive /\ age' = age
    BY <1>5 DEF Close, options
  <2>2. TypeOK'
    BY <1>1, <2>1 DEF TypeOK
  <2>3. OneTimer' /\ Watched'
    BY <1>1, <2>1 DEF OneTimer, Watched
  <2> QED
    BY <2>2, <2>3 DEF KeepAliveInv
<1> QED
  BY <1>2, <1>3, <1>4, <1>5

(* A connection that ends was silent, for the timers that end one are its  *)
(* own.                                                                    *)
LEMMA ClosedWatches ==
    ASSUME KeepAliveInv, NEW rest \in SUBSET lost, Closed(rest)
    PROVE  KeepAliveInv'
<1>1. TypeOK /\ OneTimer /\ Watched
  BY DEF KeepAliveInv
<1>2. /\ state' = "closed" /\ pong' = {} /\ lost' = {[t EXCEPT !.old = TRUE] : t \in rest}
      /\ pongTimeout' = pongTimeout /\ defer' = defer /\ ping' = ping /\ idle' = idle
      /\ age' = age /\ flight' = flight /\ peerAlive' = peerAlive
  BY DEF Closed, options
<1>3. \A t \in PongTimer : [t EXCEPT !.old = TRUE] \in PongTimer
  BY DEF PongTimer
<1>4. lost' \subseteq PongTimer
  BY <1>1, <1>2, <1>3 DEF TypeOK
<1>5. TypeOK'
  BY <1>1, <1>2, <1>4 DEF TypeOK
<1>6. OneTimer' /\ Watched'
  BY <1>1, <1>2 DEF OneTimer, Watched
<1> QED
  BY <1>5, <1>6 DEF KeepAliveInv

LEMMA KeepAliveStep == KeepAliveInv /\ [Next]_vars => KeepAliveInv'
<1> SUFFICES ASSUME KeepAliveInv, [Next]_vars PROVE KeepAliveInv'
  OBVIOUS
<1>1. TypeOK /\ OneTimer /\ Watched
  BY DEF KeepAliveInv
<1>2. CASE UNCHANGED vars
  <2>1. /\ idle' = idle /\ flight' = flight /\ pong' = pong /\ lost' = lost
        /\ pongTimeout' = pongTimeout /\ defer' = defer /\ state' = state /\ ping' = ping
        /\ peerAlive' = peerAlive /\ age' = age
    BY <1>2 DEF vars, options
  <2>2. TypeOK'
    BY <1>1, <2>1 DEF TypeOK
  <2>3. OneTimer' /\ Watched'
    BY <1>1, <2>1 DEF OneTimer, Watched, Silent, AllTimers
  <2> QED
    BY <2>2, <2>3 DEF KeepAliveInv
<1>3. CASE Closes
  BY <1>3, ClosedWatches DEF Closes
<1>4. CASE PongTimesOut
  <2>1. PICK t \in AllTimers :
           IF state # "closed" THEN Closed(lost \ {t})
           ELSE /\ lost' = lost \ {t}
                /\ UNCHANGED <<options, state, ping, pong, peerAlive, flight, idle, age>>
    BY <1>4 DEF PongTimesOut
  <2>2. CASE state # "closed"
    BY <2>1, <2>2, ClosedWatches
  <2>3. CASE state = "closed"
    <3>1. /\ idle' = idle /\ flight' = flight /\ pong' = pong /\ lost' = lost \ {t}
          /\ pongTimeout' = pongTimeout /\ defer' = defer /\ state' = state /\ ping' = ping
          /\ peerAlive' = peerAlive /\ age' = age
      BY <2>1, <2>3 DEF options
    <3>2. TypeOK'
      BY <1>1, <3>1 DEF TypeOK
    <3>3. OneTimer' /\ Watched'
      BY <1>1, <2>3, <3>1 DEF OneTimer, Watched
    <3> QED
      BY <3>2, <3>3 DEF KeepAliveInv
  <2> QED
    BY <2>2, <2>3
<1>5. CASE Reconnects
  <2>1. /\ state = "closed" /\ state' = "open" /\ peerAlive' = TRUE /\ ping' \in Jittered
        /\ flight' = 0 /\ age' = 0 /\ pongTimeout' = pongTimeout /\ defer' = defer
        /\ pong' = pong /\ lost' = lost /\ idle' = idle
    BY <1>5 DEF Reconnects, Opened, options
  <2>6. flight' \in 0 .. MaxFlight /\ age' \in 0 .. Quiet
    BY <2>1, QuietIsNat DEF MaxFlight
  <2>7. ping' \in 0 .. LongestPing
    BY <2>1, Ranges
  <2>2. TypeOK'
    BY <1>1, <2>1, <2>6, <2>7 DEF TypeOK
  <2>3. OneTimer'
    BY <1>1, <2>1 DEF OneTimer
  <2>4. Silent' = 0 /\ Silent' + ping' <= LongestPing
    <3>1. idle \in Nat
      BY <1>1, SilentRange
    <3>2. Silent' = 0
      BY <2>1, <3>1 DEF Silent
    <3>3. PICK l \in Nat : l = LongestPing
      BY Ranges
    <3>4. ping' \in 0 .. l
      BY <2>7, <3>3
    <3>5. \A p \in 0 .. l : 0 + p <= l
      BY <3>3
    <3> QED
      BY <3>2, <3>3, <3>4, <3>5
  <2>5. Watched'
    BY <2>4 DEF Watched
  <2> QED
    BY <2>2, <2>3, <2>5 DEF KeepAliveInv
<1> QED
  BY <1>2, <1>3, <1>4, <1>5, TickWatches, PingWatches, HearingWatches DEF Next

LEMMA PeersAreWatched == KeepAliveInv => PeersWatched
<1> SUFFICES ASSUME KeepAliveInv PROVE PeersWatched
  OBVIOUS
<1>1. TypeOK /\ OneTimer /\ Watched
  BY DEF KeepAliveInv
<1>2. TimeoutMeansSilence
  BY <1>1 DEF OneTimer, TimeoutMeansSilence, AllTimers
<1>3. DeadPeerDetected
  <2> SUFFICES ASSUME state = "open", pongTimeout > 0
               PROVE  Silent <= LongestPing + pongTimeout
    BY DEF DeadPeerDetected
  <2>1. Silent \in Nat /\ ping \in Nat /\ pongTimeout \in Nat /\ LongestPing \in Nat
    BY <1>1, SilentRange, TypedNumbers
  <2>2. CASE Silent + ping <= LongestPing
    BY <2>1, <2>2
  <2>3. ASSUME NEW t \in AllTimers, Silent + t.left <= LongestPing + pongTimeout
        PROVE  Silent <= LongestPing + pongTimeout
    <3>1. t.left \in Nat
      BY <1>1, TimerFields DEF TypeOK, AllTimers
    <3> QED
      BY <2>1, <2>3, <3>1
  <2> QED
    BY <1>1, <2>2, <2>3 DEF Watched
<1> QED
  BY <1>1, <1>2, <1>3 DEF PeersWatched
-----------------------------------------------------------------------------
(* The protocol proxy *)

(* A later connection takes nothing from an earlier one: a heard call is   *)
(* the last of its connection, as the station makes one at a time, and the *)
(* calls forwarded come before those that are not.                         *)
ProxyQueues ==
    /\ \A k \in Proxy!Connection : conn[k] = "new" => upstream[k] = "none" /\ Len(calls[k]) = 0
    /\ \A k \in Proxy!Connection : \A i \in 1 .. Len(calls[k]) :
          /\ calls[k][i].heard => i = Len(calls[k])
          /\ calls[k][i].phase = "forwarded" => \A j \in 1 .. i : calls[k][j].phase = "forwarded"

(* UUIDs are made in order, and the maps hold only numbers that were given *)
(* and UUIDs that were made.                                               *)
ProxyNumbers ==
    /\ \E last \in 0 .. MaxUuids : \A u \in Proxy!Uuid : owner[u] # 0 <=> u <= last
    /\ pendingStartTx # 0 => owner[pendingStartTx] # 0
    /\ \A n \in Proxy!Number : int2uuid[n] # 0 => n < txIdCounter /\ owner[int2uuid[n]] # 0
    /\ \A u \in Proxy!Uuid : uuid2int[u] # 0 => uuid2int[u] < txIdCounter /\ owner[u] # 0
    /\ \A t \in Transaction : station[t].number < txIdCounter

(* While the station waits for the answer to a start, the UUID that waits  *)
(* in the session is that of the start, or an older answer has taken it.   *)
Awaited(k, c) ==
    c.heard /\ c.kind = "start" /\ c.phase = "forwarded" =>
        /\ \A j \in Proxy!Connection : j > k => conn[j] = "new"
        /\ pendingStartTx # 0 => owner[pendingStartTx] = c.tx

ProxyWaiting ==
    late \/ \A k \in Proxy!Connection : \A i \in 1 .. Len(calls[k]) : Awaited(k, calls[k][i])

ProxyMatch ==
    late \/ \A t \in Transaction, u \in Proxy!Uuid :
               station[t].number # 0 /\ (int2uuid[station[t].number] = u \/ uuid2int[u] = station[t].number)
               => owner[u] = t

StationState == [state : {"none", "starting", "running", "stopping"}, number : Proxy!Number \cup {0}]

ProxyTyped ==
    /\ conn \in [Proxy!Connection -> {"new", "open", "closed"}]
    /\ upstream \in [Proxy!Connection -> {"none", "open", "closed"}]
    /\ calls \in [Proxy!Connection -> Seq(Proxy!Call)]
    /\ \A k \in Proxy!Connection : Len(calls[k]) <= MaxCalls
    /\ pendingStartTx \in Proxy!Uuid \cup {0}
    /\ int2uuid \in [Proxy!Number -> Proxy!Uuid \cup {0}]
    /\ uuid2int \in [Proxy!Uuid -> Proxy!Number \cup {0}]
    /\ txIdCounter \in 1 .. MaxNumbers + 1
    /\ owner \in [Proxy!Uuid -> Transaction \cup {0}]
    /\ station \in [Transaction -> StationState]
    /\ late \in BOOLEAN

ProxyInv == ProxyTyped /\ ProxyQueues /\ ProxyNumbers /\ ProxyWaiting /\ ProxyMatch

(* Connections, UUIDs and numbers are natural numbers, none of them zero.  *)
LEMMA ProxySets ==
    /\ \A k \in Proxy!Connection : k \in Nat
    /\ \A u \in Proxy!Uuid : u \in Nat /\ u # 0 /\ u <= MaxUuids
    /\ \A n \in Proxy!Number : n \in Nat /\ n # 0 /\ n <= MaxNumbers
    /\ \A n \in Nat : n # 0 /\ n <= MaxNumbers => n \in Proxy!Number
    /\ 0 \notin Transaction
  BY BreakerAssumption, ProxyAssumption DEF Proxy!Connection, Proxy!Uuid, Proxy!Number

(* A call and what is left of it a step later.                             *)
Kin(c, d) == d.kind = c.kind /\ d.tx = c.tx /\ d.phase = c.phase /\ (d.heard => c.heard)

(* Of each connection the first call is gone, where s is 1, and the others *)
(* are what they were, but that some are no longer heard.                  *)
Shrunk(s) ==
    /\ s \in [Proxy!Connection -> {0, 1}]
    /\ calls' \in [Proxy!Connection -> Seq(Proxy!Call)]
    /\ \A k \in Proxy!Connection :
          /\ Len(calls[k]) = Len(calls'[k]) + s[k]
          /\ \A i \in 1 .. Len(calls'[k]) : Kin(calls[k][i + s[k]], calls'[k][i])

NoneGone == [k \in Proxy!Connection |-> 0]

(* The calls of a connection are a bounded sequence.                       *)
LEMMA ProxyQueue ==
    ASSUME ProxyTyped, NEW k \in Proxy!Connection
    PROVE  calls[k] \in Seq(Proxy!Call) /\ Len(calls[k]) \in Nat /\ Len(calls[k]) <= MaxCalls
<1>1. calls \in [Proxy!Connection -> Seq(Proxy!Call)] /\ Len(calls[k]) <= MaxCalls
  BY DEF ProxyTyped
<1>2. PICK q \in Seq(Proxy!Call) : q = calls[k]
  BY <1>1
<1> QED
  BY <1>1, <1>2

LEMMA ShrunkQueues ==
    ASSUME ProxyTyped, ProxyQueues, NEW s, Shrunk(s),
           \A k \in Proxy!Connection : conn'[k] = "new" => conn[k] = "new" /\ upstream'[k] = "none"
    PROVE  ProxyQueues' /\ \A k \in Proxy!Connection : Len(calls'[k]) <= MaxCalls
<1> SUFFICES ASSUME NEW k \in Proxy!Connection
             PROVE  /\ conn'[k] = "new" => upstream'[k] = "none" /\ Len(calls'[k]) = 0
                    /\ \A i \in 1 .. Len(calls'[k]) :
                          /\ calls'[k][i].heard => i = Len(calls'[k])
                          /\ calls'[k][i].phase = "forwarded" =>
                                \A j \in 1 .. i : calls'[k][j].phase = "forwarded"
                    /\ Len(calls'[k]) <= MaxCalls
  BY DEF ProxyQueues
<1>1. PICK n \in Nat : n = Len(calls[k])
  BY ProxyQueue
<1>2. PICK m \in Nat : m = Len(calls'[k])
  BY DEF Shrunk
<1>3. PICK d \in {0, 1} : d = s[k]
  BY DEF Shrunk
<1>4. n = m + d /\ n <= MaxCalls
  BY <1>1, <1>2, <1>3, ProxyQueue DEF Shrunk
<1>5. \A i \in 1 .. m : i + d \in 1 .. n /\ Kin(calls[k][i + d], calls'[k][i])
  BY <1>2, <1>3, <1>4 DEF Shrunk
<1>6. conn'[k] = "new" => upstream'[k] = "none" /\ m = 0
  <2>1. conn[k] = "new" => n = 0
    BY <1>1 DEF ProxyQueues
  <2> QED
    BY <1>3, <1>4, <2>1
<1>7. m <= MaxCalls
  BY <1>4, ProxyAssumption
<1>8. ASSUME NEW i \in 1 .. m
      PROVE  /\ calls'[k][i].heard => i = m
             /\ calls'[k][i].phase = "forwarded" => \A j \in 1 .. i : calls'[k][j].phase = "forwarded"
  <2>1. i + d \in 1 .. n /\ Kin(calls[k][i + d], calls'[k][i])
    BY <1>5
  <2>2. calls'[k][i].heard => i + d = n
    BY <1>1, <2>1 DEF ProxyQueues, Kin
  <2>3. calls'[k][i].heard => i = m
    BY <1>4, <2>2
  <2>4. ASSUME calls'[k][i].phase = "forwarded", NEW j \in 1 .. i
        PROVE  calls'[k][j].phase = "forwarded"
    <3>1. j \in 1 .. m /\ j + d \in 1 .. i + d
      OBVIOUS
    <3>2. calls[k][i + d].phase = "forwarded"
      BY <2>1, <2>4 DEF Kin
    <3>3. calls[k][j + d].phase = "forwarded"
      BY <1>1, <2>1, <3>1, <3>2 DEF ProxyQueues
    <3> QED
      BY <1>5, <3>1, <3>3 DEF Kin
  <2> QED
    BY <2>3, <2>4
<1> QED
  BY <1>2, <1>6, <1>7, <1>8

LEMMA ShrunkWaiting ==
    ASSUME ProxyTyped, ProxyWaiting, NEW s, Shrunk(s), late' = late,
           \A k \in Proxy!Connection : \A i \in 1 .. Len(calls'[k]) :
              calls'[k][i].heard /\ (\A j \in Proxy!Connection : j > k => conn[j] = "new")
              => \A j \in Proxy!Connection : j > k => conn'[j] = "new",
           pendingStartTx' # 0 => pendingStartTx' = pendingStartTx,
           owner' = owner
    PROVE  ProxyWaiting'
<1> SUFFICES ASSUME ~late, NEW k \in Proxy!Connection, NEW i \in 1 .. Len(calls'[k])
             PROVE  LET c == calls'[k][i] IN
                    c.heard /\ c.kind = "start" /\ c.phase = "forwarded" =>
                       /\ \A j \in Proxy!Connection : j > k => conn'[j] = "new"
                       /\ pendingStartTx' # 0 => owner'[pendingStartTx'] = c.tx
  BY Zenon DEF ProxyWaiting, Awaited
<1>1. PICK n \in Nat : n = Len(calls[k])
  BY ProxyQueue
<1>2. PICK m \in Nat : m = Len(calls'[k])
  BY DEF Shrunk
<1>3. PICK d \in {0, 1} : d = s[k]
  BY DEF Shrunk
<1>4. n = m + d /\ i \in 1 .. m
  BY <1>1, <1>2, <1>3 DEF Shrunk
<1>5. i + d \in 1 .. n /\ Kin(calls[k][i + d], calls'[k][i])
  BY <1>2, <1>3, <1>4 DEF Shrunk
<1>6. Awaited(k, calls[k][i + d])
  BY <1>1, <1>5 DEF ProxyWaiting
<1> QED
  BY <1>5, <1>6 DEF Awaited, Kin

LEMMA SameShrinks == ProxyTyped /\ calls' = calls => Shrunk(NoneGone)
<1> SUFFICES ASSUME ProxyTyped, calls' = calls PROVE Shrunk(NoneGone)
  OBVIOUS
<1>1. calls \in [Proxy!Connection -> Seq(Proxy!Call)]
  BY DEF ProxyTyped
<1>2. ASSUME NEW k \in Proxy!Connection
      PROVE  /\ Len(calls[k]) = Len(calls[k]) + NoneGone[k]
             /\ \A i \in 1 .. Len(calls[k]) : Kin(calls[k][i + NoneGone[k]], calls[k][i])
  BY ProxyQueue DEF NoneGone, Kin
<1> QED
  BY <1>1, <1>2 DEF Shrunk, NoneGone

(* The first call of a connection is answered or has failed.               *)
LEMMA TailShrinks ==
    ASSUME ProxyTyped, NEW k \in Proxy!Connection, calls[k] # <<>>, calls' = [calls EXCEPT ![k] = Tail(@)]
    PROVE  /\ Shrunk([NoneGone EXCEPT ![k] = 1])
           /\ 1 \in 1 .. Len(calls[k]) /\ Head(calls[k]) = calls[k][1] /\ calls[k][1] \in Proxy!Call
<1>1. PICK q \in Seq(Proxy!Call) : q = calls[k]
  BY ProxyQueue
<1>2. PICK n \in Nat : n = Len(q)
  OBVIOUS
<1>3. n > 0 /\ Head(q) = q[1] /\ q[1] \in Proxy!Call
  BY <1>1, <1>2
<1>4. /\ Tail(q) \in Seq(Proxy!Call) /\ Len(Tail(q)) = n - 1
      /\ \A i \in 1 .. n - 1 : Tail(q)[i] = q[i + 1]
  BY <1>2, <1>3, <1>1
<1>5. calls \in [Proxy!Connection -> Seq(Proxy!Call)]
  BY DEF ProxyTyped
<1>6. /\ calls' \in [Proxy!Connection -> Seq(Proxy!Call)] /\ calls'[k] = Tail(q)
      /\ \A j \in Proxy!Connection : j # k => calls'[j] = calls[j]
  BY <1>1, <1>4, <1>5
<1>7. PICK s : s = [NoneGone EXCEPT ![k] = 1]
  OBVIOUS
<1>8. s \in [Proxy!Connection -> {0, 1}] /\ s[k] = 1 /\ \A j \in Proxy!Connection : j # k => s[j] = 0
  BY <1>7 DEF NoneGone
<1>9. ASSUME NEW j \in Proxy!Connection
      PROVE  /\ Len(calls[j]) = Len(calls'[j]) + s[j]
             /\ \A i \in 1 .. Len(calls'[j]) : Kin(calls[j][i + s[j]], calls'[j][i])
  <2>1. CASE j = k
    BY <1>1, <1>2, <1>4, <1>6, <1>8, <2>1 DEF Kin
  <2>2. CASE j # k
    BY <1>6, <1>8, <2>2, ProxyQueue DEF Kin
  <2> QED
    BY <2>1, <2>2
<1>10. Shrunk(s)
  BY <1>6, <1>8, <1>9 DEF Shrunk
<1> QED
  BY <1>1, <1>2, <1>3, <1>7, <1>10

LEMMA BackKeeps ==
    ASSUME NEW s \in StationState
    PROVE  Proxy!Back(s) \in StationState /\ Proxy!Back(s).number = s.number
<1>1. CASE s.state = "starting"
  <2>1. Proxy!Back(s) = [s EXCEPT !.state = "none"]
    BY <1>1 DEF Proxy!Back
  <2> QED
    BY <2>1 DEF StationState
<1>2. CASE s.state = "stopping"
  <2>1. Proxy!Back(s) = [s EXCEPT !.state = "running"]
    BY <1>2 DEF Proxy!Back
  <2> QED
    BY <2>1 DEF StationState
<1>3. CASE s.state # "starting" /\ s.state # "stopping"
  <2>1. Proxy!Back(s) = s
    BY <1>3, Zenon DEF Proxy!Back
  <2> QED
    BY <2>1
<1> QED
  BY <1>1, <1>2, <1>3

(* The station forgets calls: only what it waits for changes.              *)
LEMMA ForgetsShrinks ==
    ASSUME ProxyTyped, NEW k \in Proxy!Connection, NEW I, I \subseteq DOMAIN calls[k], Proxy!Forgets(k, I)
    PROVE  /\ Shrunk(NoneGone)
           /\ \A i \in I : ~ calls'[k][i].heard
           /\ station' \in [Transaction -> StationState]
           /\ \A t \in Transaction : station'[t].number = station[t].number
<1>1. PICK q \in Seq(Proxy!Call) : q = calls[k]
  BY ProxyQueue
<1>2. PICK n \in Nat : n = Len(q)
  OBVIOUS
<1>3. DOMAIN q = 1 .. n /\ \A i \in 1 .. n : q[i] \in Proxy!Call
  BY <1>2
<1>4. PICK p : p = [i \in 1 .. n |-> IF i \in I THEN [q[i] EXCEPT !.heard = FALSE] ELSE q[i]]
  OBVIOUS
<1>5. calls' = [calls EXCEPT ![k] = p]
  <2>1. calls' = [calls EXCEPT ![k] = [i \in DOMAIN calls[k] |->
                     IF i \in I THEN [calls[k][i] EXCEPT !.heard = FALSE] ELSE calls[k][i]]]
    BY Zenon DEF Proxy!Forgets
  <2> QED
    BY <1>1, <1>3, <1>4, <2>1, Zenon
<1>6. ASSUME NEW i \in 1 .. n
      PROVE  p[i] \in Proxy!Call /\ Kin(q[i], p[i]) /\ (i \in I => ~ p[i].heard)
  <2>1. CASE i \in I
    <3>1. p[i] = [q[i] EXCEPT !.heard = FALSE]
      BY <1>4, <2>1
    <3> QED
      BY <1>3, <3>1 DEF Proxy!Call, Kin
  <2>2. CASE i \notin I
    BY <1>3, <1>4, <2>2 DEF Kin
  <2> QED
    BY <2>1, <2>2
<1>7. p \in [1 .. n -> Proxy!Call]
  BY <1>4, <1>6
<1>8. p \in Seq(Proxy!Call) /\ Len(p) = n
  BY <1>7
<1>9. calls \in [Proxy!Connection -> Seq(Proxy!Call)]
  BY DEF ProxyTyped
<1>10. /\ calls' \in [Proxy!Connection -> Seq(Proxy!Call)] /\ calls'[k] = p
       /\ \A j \in Proxy!Connection : j # k => calls'[j] = calls[j]
  BY <1>5, <1>8, <1>9
<1>11. ASSUME NEW j \in Proxy!Connection
       PROVE  /\ Len(calls[j]) = Len(calls'[j]) + NoneGone[j]
              /\ \A i \in 1 .. Len(calls'[j]) : Kin(calls[j][i + NoneGone[j]], calls'[j][i])
  <2>1. CASE j = k
    BY <1>1, <1>2, <1>6, <1>8, <1>10, <2>1 DEF NoneGone
  <2>2. CASE j # k
    BY <1>10, <2>2, ProxyQueue DEF NoneGone, Kin
  <2> QED
    BY <2>1, <2>2
<1>12. Shrunk(NoneGone)
  BY <1>10, <1>11 DEF Shrunk, NoneGone
<1>13. \A i \in I : ~ calls'[k][i].heard
  BY <1>1, <1>3, <1>6, <1>10
<1>14. station \in [Transaction -> StationState]
  BY DEF ProxyTyped
<1>15. station' = [t \in Transaction |->
                      IF \E i \in I : LET c == calls[k][i] IN c.heard /\ c.kind # "meter" /\ c.tx = t
                        THEN Proxy!Back(station[t]) ELSE station[t]]
  BY Zenon DEF Proxy!Forgets
<1>16. ASSUME NEW t \in Transaction
       PROVE  station'[t] \in StationState /\ station'[t].number = station[t].number
  <2>1. station'[t] = Proxy!Back(station[t]) \/ station'[t] = station[t]
    BY <1>15, Zenon
  <2> QED
    BY <1>14, <2>1, BackKeeps
<1>17. station' \in [Transaction -> StationState]
  <2>1. station' = [t \in Transaction |-> station'[t]]
    BY <1>15, Zenon
  <2> QED
    BY <1>16, <2>1
<1> QED
  BY <1>12, <1>13, <1>16, <1>17

LEMMA ProxyFields ==
    ProxyTyped =>
        /\ txIdCounter \in Nat /\ pendingStartTx \in Proxy!Uuid \cup {0}
        /\ \A n \in Proxy!Number : int2uuid[n] \in Proxy!Uuid \cup {0}
        /\ \A u \in Proxy!Uuid : uuid2int[u] \in Proxy!Number \cup {0} /\ uuid2int[u] \in Nat
        /\ \A t \in Transaction : station[t].number \in Proxy!Number \cup {0} /\ station[t].number \in Nat
<1> SUFFICES ASSUME ProxyTyped
             PROVE  /\ txIdCounter \in Nat /\ pendingStartTx \in Proxy!Uuid \cup {0}
                    /\ \A n \in Proxy!Number : int2uuid[n] \in Proxy!Uuid \cup {0}
                    /\ \A u \in Proxy!Uuid : uuid2int[u] \in Proxy!Number \cup {0} /\ uuid2int[u] \in Nat
                    /\ \A t \in Transaction :
                          station[t].number \in Proxy!Number \cup {0} /\ station[t].number \in Nat
  OBVIOUS
<1>1. /\ txIdCounter \in 1 .. MaxNumbers + 1 /\ pendingStartTx \in Proxy!Uuid \cup {0}
      /\ int2uuid \in [Proxy!Number -> Proxy!Uuid \cup {0}]
      /\ uuid2int \in [Proxy!Uuid -> Proxy!Number \cup {0}]
      /\ station \in [Transaction -> StationState]
  BY DEF ProxyTyped
<1>2. txIdCounter \in Nat
  BY <1>1, ProxyAssumption
<1>3. \A t \in Transaction : station[t].number \in Proxy!Number \cup {0}
  BY <1>1 DEF StationState
<1> QED
  BY <1>1, <1>2, <1>3, ProxySets

(* The maps are kept or cleared.                                           *)
LEMMA NumbersStay ==
    ASSUME ProxyTyped, ProxyNumbers, ProxyMatch, owner' = owner, late' = late,
           txIdCounter' = txIdCounter,
           \A t \in Transaction : station'[t].number \in {station[t].number, 0},
           \/ pendingStartTx' = pendingStartTx /\ int2uuid' = int2uuid /\ uuid2int' = uuid2int
           \/ /\ pendingStartTx' = 0
              /\ int2uuid' = [n \in Proxy!Number |-> 0] /\ uuid2int' = [u \in Proxy!Uuid |-> 0]
    PROVE  ProxyNumbers' /\ ProxyMatch'
<1>1. \A n \in Proxy!Number : int2uuid'[n] # 0 => int2uuid'[n] = int2uuid[n]
  OBVIOUS
<1>2. \A u \in Proxy!Uuid : uuid2int'[u] # 0 => uuid2int'[u] = uuid2int[u]
  OBVIOUS
<1>3. ProxyNumbers'
  <2>1. \E last \in 0 .. MaxUuids : \A u \in Proxy!Uuid : owner'[u] # 0 <=> u <= last
    BY Zenon DEF ProxyNumbers
  <2>2. pendingStartTx' # 0 => owner'[pendingStartTx'] # 0
    BY DEF ProxyNumbers
  <2>3. \A n \in Proxy!Number : int2uuid'[n] # 0 => n < txIdCounter' /\ owner'[int2uuid'[n]] # 0
    BY <1>1, Zenon DEF ProxyNumbers
  <2>4. \A u \in Proxy!Uuid : uuid2int'[u] # 0 => uuid2int'[u] < txIdCounter' /\ owner'[u] # 0
    BY <1>2, Zenon DEF ProxyNumbers
  <2>5. \A t \in Transaction : station'[t].number < txIdCounter'
    <3> SUFFICES ASSUME NEW t \in Transaction PROVE station'[t].number < txIdCounter'
      OBVIOUS
    <3>1. station[t].number < txIdCounter /\ 0 < txIdCounter
      BY DEF ProxyNumbers, ProxyTyped
    <3> QED
      BY <3>1
  <2> QED
    BY <2>1, <2>2, <2>3, <2>4, <2>5 DEF ProxyNumbers
<1>4. ProxyMatch'
  <2> SUFFICES ASSUME ~late, NEW t \in Transaction, NEW u \in Proxy!Uuid, station'[t].number # 0,
                      int2uuid'[station'[t].number] = u \/ uuid2int'[u] = station'[t].number
               PROVE  owner[u] = t
    BY Zenon DEF ProxyMatch
  <2>1. station'[t].number = station[t].number /\ station[t].number \in Proxy!Number
    BY ProxyFields
  <2>2. u # 0
    BY ProxySets
  <2>3. int2uuid[station[t].number] = u \/ uuid2int[u] = station[t].number
    BY <1>1, <1>2, <2>1, <2>2
  <2> QED
    BY <2>1, <2>3, Zenon DEF ProxyMatch
<1> QED
  BY <1>3, <1>4

(* The next call of a connection is forwarded.                             *)
LEMMA ForwardsKeeps ==
    ASSUME ProxyTyped, ProxyQueues, NEW k \in Proxy!Connection, NEW i \in DOMAIN calls[k],
           Proxy!Forwards(k, i), conn' = conn, upstream' = upstream
    PROVE  /\ ProxyQueues' /\ calls' \in [Proxy!Connection -> Seq(Proxy!Call)]
           /\ \A j \in Proxy!Connection : Len(calls'[j]) = Len(calls[j])
           /\ i \in 1 .. Len(calls[k]) /\ calls[k][i].phase = "made" /\ calls[k][i].tx \in Transaction
           /\ \A j \in Proxy!Connection : \A x \in 1 .. Len(calls[j]) :
                 IF j = k /\ x = i
                   THEN /\ calls'[j][x].heard = calls[j][x].heard /\ calls'[j][x].kind = calls[j][x].kind
                        /\ calls'[j][x].tx = calls[j][x].tx /\ calls'[j][x].phase = "forwarded"
                   ELSE calls'[j][x] = calls[j][x]
<1>1. PICK q \in Seq(Proxy!Call) : q = calls[k]
  BY ProxyQueue
<1>2. PICK n \in Nat : n = Len(q)
  OBVIOUS
<1>3. DOMAIN q = 1 .. n /\ i \in 1 .. n /\ \A x \in 1 .. n : q[x] \in Proxy!Call
  BY <1>1, <1>2
<1>4. /\ q[i].phase = "made" /\ \A j \in 1 .. i - 1 : q[j].phase = "forwarded"
      /\ calls' = [calls EXCEPT ![k][i].phase = "forwarded"]
  BY <1>1 DEF Proxy!Forwards
<1>5. PICK c : c = [q[i] EXCEPT !.phase = "forwarded"]
  OBVIOUS
<1>6. /\ c \in Proxy!Call /\ c.heard = q[i].heard /\ c.kind = q[i].kind /\ c.tx = q[i].tx
      /\ c.phase = "forwarded" /\ c.tx \in Transaction
  BY <1>3, <1>5 DEF Proxy!Call
<1>7. PICK p : p = [q EXCEPT ![i] = c]
  OBVIOUS
<1>8. p \in Seq(Proxy!Call) /\ Len(p) = n /\ p[i] = c /\ \A x \in 1 .. n : x # i => p[x] = q[x]
  BY <1>2, <1>3, <1>6, <1>7
<1>9. calls \in [Proxy!Connection -> Seq(Proxy!Call)]
  BY DEF ProxyTyped
<1>10. calls' = [calls EXCEPT ![k] = p]
  BY <1>1, <1>4, <1>5, <1>7, <1>9, Zenon
<1>11. /\ calls' \in [Proxy!Connection -> Seq(Proxy!Call)] /\ calls'[k] = p
       /\ \A j \in Proxy!Connection : j # k => calls'[j] = calls[j]
  BY <1>8, <1>9, <1>10
<1>12. \A j \in Proxy!Connection : Len(calls'[j]) = Len(calls[j])
  BY <1>1, <1>2, <1>8, <1>11
<1>13. ASSUME NEW j \in Proxy!Connection, NEW x \in 1 .. Len(calls[j])
       PROVE  IF j = k /\ x = i
                THEN /\ calls'[j][x].heard = calls[j][x].heard /\ calls'[j][x].kind = calls[j][x].kind
                     /\ calls'[j][x].tx = calls[j][x].tx /\ calls'[j][x].phase = "forwarded"
                ELSE calls'[j][x] = calls[j][x]
  <2>1. CASE j = k
    BY <1>1, <1>2, <1>6, <1>8, <1>11, <1>13, <2>1
  <2>2. CASE j # k
    BY <1>11, <2>2
  <2> QED
    BY <2>1, <2>2
<1>14. ProxyQueues'
  <2> SUFFICES ASSUME NEW j \in Proxy!Connection
               PROVE  /\ conn[j] = "new" => upstream[j] = "none" /\ Len(calls'[j]) = 0
                      /\ \A x \in 1 .. Len(calls'[j]) :
                            /\ calls'[j][x].heard => x = Len(calls'[j])
                            /\ calls'[j][x].phase = "forwarded" =>
                                  \A y \in 1 .. x : calls'[j][y].phase = "forwarded"
    BY DEF ProxyQueues
  <2>1. CASE j # k
    BY <1>11, <2>1 DEF ProxyQueues
  <2>2. CASE j = k
    <3>1. conn[j] = "new" => upstream[j] = "none" /\ Len(calls'[j]) = 0
      BY <1>12 DEF ProxyQueues
    <3>2. ASSUME NEW x \in 1 .. n
          PROVE  /\ p[x].heard => x = n
                 /\ p[x].phase = "forwarded" => \A y \in 1 .. x : p[y].phase = "forwarded"
      <4>1. p[x].heard => q[x].heard
        BY <1>6, <1>8
      <4>2. q[x].heard => x = n
        BY <1>1, <1>2 DEF ProxyQueues
      <4>3. CASE x < i \/ x > i
        <5>1. q[x].phase = "forwarded" => \A y \in 1 .. x : q[y].phase = "forwarded"
          BY <1>1, <1>2 DEF ProxyQueues
        <5>2. p[x] = q[x]
          BY <1>8, <4>3
        <5>3. \A y \in 1 .. x : q[y].phase = "forwarded" => p[y].phase = "forwarded"
          BY <1>3, <1>6, <1>8
        <5> QED
          BY <4>1, <4>2, <5>1, <5>2, <5>3
      <4>4. CASE x = i
        <5>1. ASSUME NEW y \in 1 .. x
              PROVE  p[y].phase = "forwarded"
          BY <1>3, <1>4, <1>6, <1>8, <4>4, <5>1
        <5> QED
          BY <4>1, <4>2, <5>1
      <4> QED
        BY <1>3, <4>3, <4>4
    <3> QED
      BY <1>8, <1>11, <2>2, <3>1, <3>2
  <2> QED
    BY <2>1, <2>2
<1> QED
  BY <1>1, <1>2, <1>3, <1>4, <1>6, <1>11, <1>12, <1>13, <1>14

(* Calls are forgotten, answered or kept, and the session with them.       *)
LEMMA ProxyStays ==
    ASSUME ProxyInv, NEW s, Shrunk(s), owner' = owner, late' = late, txIdCounter' = txIdCounter,
           conn' \in [Proxy!Connection -> {"new", "open", "closed"}],
           upstream' \in [Proxy!Connection -> {"none", "open", "closed"}],
           \A k \in Proxy!Connection : conn'[k] = "new" => conn[k] = "new" /\ upstream'[k] = "none",
           \A k \in Proxy!Connection : \A i \in 1 .. Len(calls'[k]) :
              calls'[k][i].heard /\ (\A j \in Proxy!Connection : j > k => conn[j] = "new")
              => \A j \in Proxy!Connection : j > k => conn'[j] = "new",
           station' \in [Transaction -> StationState],
           \A t \in Transaction : station'[t].number \in {station[t].number, 0},
           \/ pendingStartTx' = pendingStartTx /\ int2uuid' = int2uuid /\ uuid2int' = uuid2int
           \/ /\ pendingStartTx' = 0
              /\ int2uuid' = [n \in Proxy!Number |-> 0] /\ uuid2int' = [u \in Proxy!Uuid |-> 0]
    PROVE  ProxyInv'
<1>1. ProxyTyped /\ ProxyQueues /\ ProxyNumbers /\ ProxyWaiting /\ ProxyMatch
  BY DEF ProxyInv
<1>2. ProxyQueues' /\ \A k \in Proxy!Connection : Len(calls'[k]) <= MaxCalls
  BY <1>1, ShrunkQueues
<1>3. pendingStartTx' # 0 => pendingStartTx' = pendingStartTx
  OBVIOUS
<1>4. ProxyWaiting'
  BY <1>1, <1>3, ShrunkWaiting
<1>5. ProxyNumbers' /\ ProxyMatch'
  BY <1>1, NumbersStay
<1>6. calls' \in [Proxy!Connection -> Seq(Proxy!Call)]
  BY DEF Shrunk
<1>7. /\ pendingStartTx' \in Proxy!Uuid \cup {0}
      /\ int2uuid' \in [Proxy!Number -> Proxy!Uuid \cup {0}]
      /\ uuid2int' \in [Proxy!Uuid -> Proxy!Number \cup {0}]
  BY <1>1 DEF ProxyTyped
<1>8. /\ txIdCounter \in 1 .. MaxNumbers + 1 /\ owner \in [Proxy!Uuid -> Transaction \cup {0}]
      /\ late \in BOOLEAN
  BY <1>1 DEF ProxyTyped
<1>9. ProxyTyped'
  BY <1>2, <1>6, <1>7, <1>8, Zenon DEF ProxyTyped
<1> QED
  BY <1>2, <1>4, <1>5, <1>9 DEF ProxyInv

LEMMA ConnectsKeeps ==
    ASSUME ProxyInv, NEW k \in Proxy!Connection, Proxy!Connects(k)
    PROVE  ProxyInv'
<1>1. ProxyTyped /\ ProxyQueues
  BY DEF ProxyInv
<1>2. /\ conn[k] = "new" /\ \A j \in 1 .. k - 1 : conn[j] # "new"
      /\ conn' = [conn EXCEPT ![k] = "open"]
      /\ IF k = 1 THEN calls' = calls /\ station' = station
                  ELSE Proxy!Forgets(k - 1, DOMAIN calls[k - 1])
      /\ upstream' = upstream /\ owner' = owner /\ late' = late /\ txIdCounter' = txIdCounter
      /\ pendingStartTx' = pendingStartTx /\ int2uuid' = int2uuid /\ uuid2int' = uuid2int
  BY Zenon DEF Proxy!Connects, Proxy!session
<1>3. conn \in [Proxy!Connection -> {"new", "open", "closed"}]
      /\ upstream \in [Proxy!Connection -> {"none", "open", "closed"}]
  BY <1>1 DEF ProxyTyped
<1>4. conn' \in [Proxy!Connection -> {"new", "open", "closed"}]
      /\ conn'[k] = "open" /\ \A j \in Proxy!Connection : j # k => conn'[j] = conn[j]
  BY <1>2, <1>3
<1>5. \A j \in Proxy!Connection : conn'[j] = "new" => conn[j] = "new" /\ upstream'[j] = "none"
  BY <1>1, <1>2, <1>4 DEF ProxyQueues
<1>6. k = 1 \/ k - 1 \in Proxy!Connection
  BY BreakerAssumption DEF Proxy!Connection
<1>7. /\ Shrunk(NoneGone) /\ station' \in [Transaction -> StationState]
      /\ \A t \in Transaction : station'[t].number = station[t].number
      /\ k # 1 => \A i \in 1 .. Len(calls'[k - 1]) : ~ calls'[k - 1][i].heard
  <2>1. CASE k = 1
    BY <1>1, <1>2, <2>1, SameShrinks DEF ProxyTyped
  <2>2. CASE k # 1
    <3>1. PICK o \in Proxy!Connection : o = k - 1
      BY <1>6, <2>2
    <3>2. Proxy!Forgets(o, DOMAIN calls[o])
      BY <1>2, <2>2, <3>1
    <3>3. /\ Shrunk(NoneGone) /\ station' \in [Transaction -> StationState]
          /\ \A t \in Transaction : station'[t].number = station[t].number
          /\ \A i \in DOMAIN calls[o] : ~ calls'[o][i].heard
      BY <1>1, <3>2, ForgetsShrinks
    <3>4. DOMAIN calls[o] = 1 .. Len(calls[o]) /\ Len(calls'[o]) = Len(calls[o])
      <4>1. PICK q \in Seq(Proxy!Call) : q = calls[o]
        BY <1>1, ProxyQueue
      <4>2. PICK m \in Nat : m = Len(calls'[o])
        BY <3>3 DEF Shrunk
      <4>3. Len(q) = m + 0
        BY <3>3, <4>1, <4>2 DEF Shrunk, NoneGone
      <4> QED
        BY <4>1, <4>2, <4>3
    <3> QED
      BY <3>1, <3>3, <3>4
  <2> QED
    BY <2>1, <2>2
<1>8. ASSUME NEW o \in Proxy!Connection, NEW i \in 1 .. Len(calls'[o]), calls'[o][i].heard,
             \A j \in Proxy!Connection : j > o => conn[j] = "new",
             NEW j \in Proxy!Connection, j > o
      PROVE  conn'[j] = "new"
  <2>1. o # k
    <3>1. PICK m \in Nat : m = Len(calls'[k])
      BY <1>7 DEF Shrunk
    <3>2. Len(calls[k]) = m + 0
      BY <1>7, <3>1 DEF Shrunk, NoneGone
    <3>3. Len(calls[k]) = 0
      BY <1>1, <1>2 DEF ProxyQueues
    <3>4. 1 .. m = {}
      BY <3>2, <3>3
    <3> QED
      BY <1>8, <3>1, <3>4
  <2>2. ~ (o > k) \/ j # k
    BY <1>8, ProxySets
  <2>3. CASE o < k
    <3>1. k # 1 /\ k - 1 \in Proxy!Connection /\ k - 1 # o
      BY <1>6, <1>7, <1>8, <2>3, ProxySets DEF Proxy!Connection
    <3>2. conn[k - 1] # "new" /\ k - 1 > o
      BY <1>2, <2>3, <3>1, ProxySets DEF Proxy!Connection
    <3> QED
      BY <1>8, <3>1, <3>2
  <2>4. CASE o > k
    BY <1>4, <1>8, <2>2, <2>4
  <2> QED
    BY <2>1, <2>3, <2>4, ProxySets
<1> QED
  BY <1>2, <1>3, <1>4, <1>5, <1>7, <1>8, ProxyStays

LEMMA QuietProxySteps ==
    ASSUME ProxyInv, NEW k \in Proxy!Connection,
           \/ Proxy!ImportResolves(k) \/ Proxy!Closes(k)
           \/ \E i \in DOMAIN calls[k] : Proxy!TimesOut(k, i)
    PROVE  ProxyInv'
<1>1. ProxyTyped /\ ProxyQueues
  BY DEF ProxyInv
<1>2. conn \in [Proxy!Connection -> {"new", "open", "closed"}]
      /\ upstream \in [Proxy!Connection -> {"none", "open", "closed"}]
  BY <1>1 DEF ProxyTyped
<1>3. station \in [Transaction -> StationState]
  BY <1>1 DEF ProxyTyped
<1>4. CASE Proxy!ImportResolves(k)
  <2>1. /\ conn[k] # "new" /\ upstream' = [upstream EXCEPT ![k] = "open"]
        /\ conn' = conn /\ calls' = calls /\ owner' = owner /\ late' = late /\ txIdCounter' = txIdCounter
        /\ pendingStartTx' = pendingStartTx /\ int2uuid' = int2uuid /\ uuid2int' = uuid2int
        /\ station' = station
    BY <1>4, Zenon DEF Proxy!ImportResolves, Proxy!session
  <2>2. /\ upstream' \in [Proxy!Connection -> {"none", "open", "closed"}]
        /\ \A j \in Proxy!Connection : conn[j] = "new" => upstream'[j] = "none"
    BY <1>1, <1>2, <2>1 DEF ProxyQueues
  <2>3. Shrunk(NoneGone)
    BY <1>1, <2>1, SameShrinks
  <2> QED
    BY <1>2, <1>3, <2>1, <2>2, <2>3, ProxyStays
<1>5. CASE Proxy!Closes(k)
  <2>1. /\ conn[k] = "open" /\ conn' = [conn EXCEPT ![k] = "closed"]
        /\ Proxy!Forgets(k, DOMAIN calls[k])
        /\ IF upstream[k] = "open" THEN upstream' = [upstream EXCEPT ![k] = "closed"] /\ Proxy!NoSession
                                   ELSE upstream' = upstream /\ UNCHANGED Proxy!session
        /\ txIdCounter' = txIdCounter /\ owner' = owner /\ late' = late
    BY <1>5, Zenon DEF Proxy!Closes
  <2>2. /\ Shrunk(NoneGone) /\ station' \in [Transaction -> StationState]
        /\ \A t \in Transaction : station'[t].number = station[t].number
    BY <1>1, <2>1, ForgetsShrinks
  <2>3. \/ pendingStartTx' = pendingStartTx /\ int2uuid' = int2uuid /\ uuid2int' = uuid2int
        \/ /\ pendingStartTx' = 0
           /\ int2uuid' = [n \in Proxy!Number |-> 0] /\ uuid2int' = [u \in Proxy!Uuid |-> 0]
    BY <2>1, Zenon DEF Proxy!NoSession, Proxy!None, Proxy!session
  <2>4. /\ conn' \in [Proxy!Connection -> {"new", "open", "closed"}]
        /\ \A j \in Proxy!Connection : (conn'[j] = "new" <=> conn[j] = "new") /\ (j # k \/ conn[j] # "new")
        /\ upstream' \in [Proxy!Connection -> {"none", "open", "closed"}]
        /\ \A j \in Proxy!Connection : j # k => upstream'[j] = upstream[j]
    BY <1>2, <2>1
  <2>5. \A j \in Proxy!Connection : conn'[j] = "new" => conn[j] = "new" /\ upstream'[j] = "none"
    BY <1>1, <2>4 DEF ProxyQueues
  <2> QED
    BY <2>1, <2>2, <2>3, <2>4, <2>5, ProxyStays
<1>6. CASE \E i \in DOMAIN calls[k] : Proxy!TimesOut(k, i)
  <2>1. PICK i \in DOMAIN calls[k] : Proxy!TimesOut(k, i)
    BY <1>6
  <2>2. /\ Proxy!Forgets(k, {i}) /\ conn' = conn /\ upstream' = upstream
        /\ owner' = owner /\ late' = late /\ txIdCounter' = txIdCounter
        /\ pendingStartTx' = pendingStartTx /\ int2uuid' = int2uuid /\ uuid2int' = uuid2int
    BY <2>1, Zenon DEF Proxy!TimesOut, Proxy!session
  <2>3. {i} \subseteq DOMAIN calls[k]
    OBVIOUS
  <2>4. /\ Shrunk(NoneGone) /\ station' \in [Transaction -> StationState]
        /\ \A t \in Transaction : station'[t].number = station[t].number
    BY <1>1, <2>2, <2>3, ForgetsShrinks
  <2>5. \A j \in Proxy!Connection : conn[j] = "new" => upstream[j] = "none"
    BY <1>1 DEF ProxyQueues
  <2> QED
    BY <1>2, <2>2, <2>4, <2>5, ProxyStays
<1> QED
  BY <1>4, <1>5, <1>6

LEMMA MakesKeeps ==
    ASSUME ProxyInv, NEW k \in Proxy!Connection, NEW t \in Transaction,
           NEW kind \in {"start", "stop", "meter"}, Proxy!Makes(kind, t, k)
    PROVE  ProxyInv'
<1>1. ProxyTyped /\ ProxyQueues /\ ProxyNumbers /\ ProxyWaiting /\ ProxyMatch
  BY DEF ProxyInv
<1>2. PICK c : c = [kind |-> kind, tx |-> t, phase |-> "made", heard |-> TRUE]
  OBVIOUS
<1>3. /\ conn[k] = "open" /\ Len(calls[k]) < MaxCalls
      /\ \A i \in DOMAIN calls[k] : ~ calls[k][i].heard
      /\ station' = CASE kind = "start" -> [station EXCEPT ![t].state = "starting"]
                      [] kind = "stop"  -> [station EXCEPT ![t].state = "stopping"]
                      [] OTHER          -> station
      /\ calls' = [calls EXCEPT ![k] = Append(@, c)]
      /\ conn' = conn /\ upstream' = upstream
      /\ owner' = owner /\ late' = late /\ txIdCounter' = txIdCounter
      /\ pendingStartTx' = pendingStartTx /\ int2uuid' = int2uuid /\ uuid2int' = uuid2int
  BY <1>2, Zenon DEF Proxy!Makes, Proxy!session
<1>4. c \in Proxy!Call /\ c.phase = "made"
  BY <1>2 DEF Proxy!Call
<1>5. PICK q \in Seq(Proxy!Call) : q = calls[k]
  BY <1>1, ProxyQueue
<1>6. PICK n \in Nat : n = Len(q)
  OBVIOUS
<1>7. PICK p : p = Append(q, c)
  OBVIOUS
<1>8. p \in Seq(Proxy!Call) /\ Len(p) = n + 1 /\ p[n + 1] = c /\ \A i \in 1 .. n : p[i] = q[i]
  BY <1>4, <1>6, <1>7
<1>9. calls \in [Proxy!Connection -> Seq(Proxy!Call)]
  BY <1>1 DEF ProxyTyped
<1>10. /\ calls' \in [Proxy!Connection -> Seq(Proxy!Call)] /\ calls'[k] = p
       /\ \A j \in Proxy!Connection : j # k => calls'[j] = calls[j]
  BY <1>3, <1>5, <1>7, <1>8, <1>9
<1>11. \A i \in 1 .. n : ~ p[i].heard
  <2>1. DOMAIN q = 1 .. n
    BY <1>5, <1>6
  <2> QED
    BY <1>3, <1>5, <1>8, <2>1
<1>12. \A j \in Proxy!Connection : Len(calls'[j]) <= MaxCalls
  <2>1. n + 1 <= MaxCalls
    BY <1>3, <1>5, <1>6, ProxyAssumption
  <2> QED
    BY <1>8, <1>10, <2>1, <1>1, ProxyQueue
<1>13. ProxyQueues'
  <2> SUFFICES ASSUME NEW j \in Proxy!Connection
               PROVE  /\ conn[j] = "new" => upstream[j] = "none" /\ Len(calls'[j]) = 0
                      /\ \A x \in 1 .. Len(calls'[j]) :
                            /\ calls'[j][x].heard => x = Len(calls'[j])
                            /\ calls'[j][x].phase = "forwarded" =>
                                  \A y \in 1 .. x : calls'[j][y].phase = "forwarded"
    BY <1>3 DEF ProxyQueues
  <2>1. CASE j # k
    BY <1>1, <1>10, <2>1 DEF ProxyQueues
  <2>2. CASE j = k
    <3>1. ASSUME NEW x \in 1 .. n + 1
          PROVE  /\ p[x].heard => x = n + 1
                 /\ p[x].phase = "forwarded" => \A y \in 1 .. x : p[y].phase = "forwarded"
      <4>1. CASE x = n + 1
        BY <1>4, <1>8, <4>1
      <4>2. CASE x # n + 1
        <5>1. x \in 1 .. n /\ \A y \in 1 .. x : y \in 1 .. n
          BY <1>6, <3>1, <4>2
        <5>2. q[x].phase = "forwarded" => \A y \in 1 .. x : q[y].phase = "forwarded"
          BY <1>1, <1>5, <1>6, <5>1 DEF ProxyQueues
        <5> QED
          BY <1>8, <1>11, <5>1, <5>2
      <4> QED
        BY <4>1, <4>2
    <3> QED
      BY <1>3, <1>8, <1>10, <2>2, <3>1
  <2> QED
    BY <2>1, <2>2
<1>14. ProxyWaiting'
  <2> SUFFICES ASSUME ~late, NEW j \in Proxy!Connection, NEW i \in 1 .. Len(calls'[j])
               PROVE  LET d == calls'[j][i] IN
                      d.heard /\ d.kind = "start" /\ d.phase = "forwarded" =>
                         /\ \A o \in Proxy!Connection : o > j => conn[o] = "new"
                         /\ pendingStartTx # 0 => owner[pendingStartTx] = d.tx
    BY <1>3, Zenon DEF ProxyWaiting, Awaited
  <2>1. CASE j # k
    BY <1>1, <1>10, <2>1 DEF ProxyWaiting, Awaited
  <2>2. CASE j = k
    <3>1. i \in 1 .. n + 1
      BY <1>8, <1>10, <2>2
    <3>2. i \in 1 .. n \/ i = n + 1
      BY <1>6, <3>1
    <3>3. ~ p[i].heard \/ p[i].phase = "made"
      BY <1>4, <1>8, <1>11, <3>2
    <3> QED
      BY <1>10, <2>2, <3>3
  <2> QED
    BY <2>1, <2>2
<1>15. station' \in [Transaction -> StationState] /\ \A x \in Transaction : station'[x].number = station[x].number
  <2>1. station \in [Transaction -> StationState]
    BY <1>1 DEF ProxyTyped
  <2>2. ASSUME NEW st \in {"starting", "stopping"}, station' = [station EXCEPT ![t].state = st]
        PROVE  station' \in [Transaction -> StationState] /\ \A x \in Transaction : station'[x].number = station[x].number
    <3>1. PICK r : r = [station[t] EXCEPT !.state = st]
      OBVIOUS
    <3>2. r \in StationState /\ r.number = station[t].number
      BY <2>1, <3>1 DEF StationState
    <3>3. station' = [station EXCEPT ![t] = r]
      BY <2>2, <3>1, Zenon
    <3> QED
      BY <2>1, <3>2, <3>3
  <2>3. \/ station' = station
        \/ station' = [station EXCEPT ![t].state = "starting"]
        \/ station' = [station EXCEPT ![t].state = "stopping"]
    BY <1>3, Zenon
  <2> QED
    BY <2>1, <2>2, <2>3
<1>16. ProxyNumbers' /\ ProxyMatch'
  BY <1>1, <1>3, <1>15, NumbersStay
<1>17. ProxyTyped'
  <2>1. /\ conn' \in [Proxy!Connection -> {"new", "open", "closed"}]
        /\ upstream' \in [Proxy!Connection -> {"none", "open", "closed"}]
        /\ pendingStartTx' \in Proxy!Uuid \cup {0}
        /\ int2uuid' \in [Proxy!Number -> Proxy!Uuid \cup {0}]
        /\ uuid2int' \in [Proxy!Uuid -> Proxy!Number \cup {0}]
        /\ txIdCounter' \in 1 .. MaxNumbers + 1 /\ owner' \in [Proxy!Uuid -> Transaction \cup {0}]
        /\ late' \in BOOLEAN
    BY <1>1, <1>3, Zenon DEF ProxyTyped
  <2> QED
    BY <1>10, <1>12, <1>15, <2>1, Zenon DEF ProxyTyped
<1> QED
  BY <1>13, <1>14, <1>16, <1>17 DEF ProxyInv

LEMMA FailsKeeps ==
    ASSUME ProxyInv, NEW k \in Proxy!Connection, Proxy!Fails(k)
    PROVE  ProxyInv'
<1>1. ProxyTyped /\ ProxyQueues
  BY DEF ProxyInv
<1>2. PICK c : c = Head(calls[k])
  OBVIOUS
<1>3. /\ calls[k] # <<>> /\ calls' = [calls EXCEPT ![k] = Tail(@)]
      /\ station' = IF c.heard /\ c.kind # "meter" THEN [station EXCEPT ![c.tx] = Proxy!Back(@)] ELSE station
      /\ conn' = conn /\ upstream' = upstream
      /\ owner' = owner /\ late' = late /\ txIdCounter' = txIdCounter
      /\ pendingStartTx' = pendingStartTx /\ int2uuid' = int2uuid /\ uuid2int' = uuid2int
  BY <1>2, Zenon DEF Proxy!Fails, Proxy!session
<1>4. /\ Shrunk([NoneGone EXCEPT ![k] = 1]) /\ c \in Proxy!Call
  BY <1>1, <1>2, <1>3, TailShrinks
<1>5. station \in [Transaction -> StationState] /\ c.tx \in Transaction
  BY <1>1, <1>4 DEF ProxyTyped, Proxy!Call
<1>6. station' \in [Transaction -> StationState] /\ \A x \in Transaction : station'[x].number = station[x].number
  <2>1. PICK r : r = Proxy!Back(station[c.tx])
    OBVIOUS
  <2>2. r \in StationState /\ r.number = station[c.tx].number
    BY <1>5, <2>1, BackKeeps
  <2>3. station' = [station EXCEPT ![c.tx] = r] \/ station' = station
    BY <1>3, <2>1, Zenon
  <2> QED
    BY <1>5, <2>2, <2>3
<1>7. /\ conn \in [Proxy!Connection -> {"new", "open", "closed"}]
      /\ upstream \in [Proxy!Connection -> {"none", "open", "closed"}]
      /\ \A j \in Proxy!Connection : conn[j] = "new" => upstream[j] = "none"
  BY <1>1 DEF ProxyTyped, ProxyQueues
<1> QED
  BY <1>3, <1>4, <1>6, <1>7, ProxyStays

LEMMA ForwardsOtherKeeps ==
    ASSUME ProxyInv, NEW k \in Proxy!Connection, NEW i \in DOMAIN calls[k], Proxy!ForwardsOther(k, i)
    PROVE  ProxyInv'
<1>1. ProxyTyped /\ ProxyQueues /\ ProxyNumbers /\ ProxyWaiting /\ ProxyMatch
  BY DEF ProxyInv
<1>2. /\ calls[k][i].kind # "start" /\ Proxy!Forwards(k, i)
      /\ conn' = conn /\ upstream' = upstream /\ station' = station
      /\ owner' = owner /\ late' = late /\ txIdCounter' = txIdCounter
      /\ pendingStartTx' = pendingStartTx /\ int2uuid' = int2uuid /\ uuid2int' = uuid2int
  BY Zenon DEF Proxy!ForwardsOther, Proxy!session
<1>3. /\ ProxyQueues' /\ calls' \in [Proxy!Connection -> Seq(Proxy!Call)]
      /\ \A j \in Proxy!Connection : Len(calls'[j]) = Len(calls[j])
      /\ \A j \in Proxy!Connection : \A x \in 1 .. Len(calls[j]) :
            IF j = k /\ x = i
              THEN /\ calls'[j][x].heard = calls[j][x].heard /\ calls'[j][x].kind = calls[j][x].kind
                   /\ calls'[j][x].tx = calls[j][x].tx /\ calls'[j][x].phase = "forwarded"
              ELSE calls'[j][x] = calls[j][x]
  BY <1>1, <1>2, ForwardsKeeps
<1>4. ProxyWaiting'
  <2> SUFFICES ASSUME ~late, NEW j \in Proxy!Connection, NEW x \in 1 .. Len(calls'[j])
               PROVE  LET d == calls'[j][x] IN
                      d.heard /\ d.kind = "start" /\ d.phase = "forwarded" =>
                         /\ \A o \in Proxy!Connection : o > j => conn[o] = "new"
                         /\ pendingStartTx # 0 => owner[pendingStartTx] = d.tx
    BY <1>2, Zenon DEF ProxyWaiting, Awaited
  <2>1. x \in 1 .. Len(calls[j])
    BY <1>3
  <2>2. CASE j = k /\ x = i
    BY <1>2, <1>3, <2>1, <2>2
  <2>3. CASE ~ (j = k /\ x = i)
    <3>1. calls'[j][x] = calls[j][x]
      BY <1>3, <2>1, <2>3
    <3> QED
      BY <1>1, <2>1, <3>1 DEF ProxyWaiting, Awaited
  <2> QED
    BY <2>2, <2>3
<1>5. ProxyNumbers' /\ ProxyMatch'
  BY <1>1, <1>2, NumbersStay
<1>6. ProxyTyped'
  <2>1. \A j \in Proxy!Connection : Len(calls'[j]) <= MaxCalls
    BY <1>1, <1>3, ProxyQueue
  <2> QED
    BY <1>1, <1>2, <1>3, <2>1, Zenon DEF ProxyTyped
<1> QED
  BY <1>3, <1>4, <1>5, <1>6 DEF ProxyInv

LEMMA ProxyCardinality == \A S : Proxy!Cardinality(S) = Cardinality(S)
  BY DEF Proxy!Cardinality, Cardinality

(* The next UUID is the one after the last that was made.                  *)
LEMMA NextUuid ==
    ASSUME ProxyNumbers
    PROVE  \E last \in 0 .. MaxUuids :
              /\ \A u \in Proxy!Uuid : owner[u] # 0 <=> u <= last
              /\ Proxy!Cardinality({v \in Proxy!Uuid : owner[v] # Proxy!None}) = last
<1>1. PICK last \in 0 .. MaxUuids : \A u \in Proxy!Uuid : owner[u] # 0 <=> u <= last
  BY Zenon DEF ProxyNumbers
<1>2. {v \in Proxy!Uuid : owner[v] # Proxy!None} = 1 .. last
  BY <1>1, ProxyAssumption DEF Proxy!Uuid, Proxy!None
<1>3. Cardinality(1 .. last) = last
  BY <1>1, ProxyAssumption, FS_Interval
<1> QED
  BY <1>1, <1>2, <1>3, ProxyCardinality

LEMMA ForwardsStartKeeps ==
    ASSUME ProxyInv, NEW k \in Proxy!Connection, NEW i \in DOMAIN calls[k], Proxy!ForwardsStart(k, i)
    PROVE  ProxyInv'
<1>1. ProxyTyped /\ ProxyQueues /\ ProxyNumbers /\ ProxyWaiting /\ ProxyMatch
  BY DEF ProxyInv
<1>2. PICK last \in 0 .. MaxUuids :
         /\ \A u \in Proxy!Uuid : owner[u] # 0 <=> u <= last
         /\ Proxy!Cardinality({v \in Proxy!Uuid : owner[v] # Proxy!None}) = last
  BY <1>1, NextUuid
<1>3. PICK u \in Proxy!Uuid :
         /\ u = Proxy!Cardinality({v \in Proxy!Uuid : owner[v] # Proxy!None}) + 1
         /\ owner' = [owner EXCEPT ![u] = calls[k][i].tx]
         /\ pendingStartTx' = u
  BY Zenon DEF Proxy!ForwardsStart
<1>4. /\ Proxy!Forwards(k, i)
      /\ late' = (late \/ \E j \in Proxy!Connection : j > k /\ conn[j] # "new")
      /\ conn' = conn /\ upstream' = upstream /\ station' = station /\ txIdCounter' = txIdCounter
      /\ int2uuid' = int2uuid /\ uuid2int' = uuid2int
  BY Zenon DEF Proxy!ForwardsStart
<1>5. /\ ProxyQueues' /\ calls' \in [Proxy!Connection -> Seq(Proxy!Call)]
      /\ \A j \in Proxy!Connection : Len(calls'[j]) = Len(calls[j])
      /\ i \in 1 .. Len(calls[k]) /\ calls[k][i].phase = "made" /\ calls[k][i].tx \in Transaction
      /\ \A j \in Proxy!Connection : \A x \in 1 .. Len(calls[j]) :
            IF j = k /\ x = i
              THEN /\ calls'[j][x].heard = calls[j][x].heard /\ calls'[j][x].kind = calls[j][x].kind
                   /\ calls'[j][x].tx = calls[j][x].tx /\ calls'[j][x].phase = "forwarded"
              ELSE calls'[j][x] = calls[j][x]
  BY <1>1, <1>4, ForwardsKeeps
<1>6. PICK tx \in Transaction : tx = calls[k][i].tx
  BY <1>5
<1>7. u = last + 1 /\ owner[u] = 0
  <2>1. u = last + 1
    BY <1>2, <1>3
  <2> QED
    BY <1>2, <2>1, ProxySets
<1>8. /\ owner \in [Proxy!Uuid -> Transaction \cup {0}]
      /\ owner' \in [Proxy!Uuid -> Transaction \cup {0}]
      /\ owner'[u] = tx /\ tx # 0 /\ \A v \in Proxy!Uuid : v # u => owner'[v] = owner[v]
  <2>1. owner \in [Proxy!Uuid -> Transaction \cup {0}]
    BY <1>1 DEF ProxyTyped
  <2>2. owner' = [owner EXCEPT ![u] = tx] /\ tx # 0
    BY <1>3, <1>6, ProxyAssumption
  <2> QED
    BY <2>1, <2>2
<1>9. \A v \in Proxy!Uuid : owner[v] # 0 => owner'[v] # 0 /\ v # u
  BY <1>7, <1>8
<1>10. ProxyNumbers'
  <2>1. \E top \in 0 .. MaxUuids : \A v \in Proxy!Uuid : owner'[v] # 0 <=> v <= top
    <3>1. u \in 0 .. MaxUuids
      BY ProxySets, ProxyAssumption
    <3>2. ASSUME NEW v \in Proxy!Uuid
          PROVE  owner'[v] # 0 <=> v <= u
      <4>1. CASE v = u
        BY <1>8, <4>1, ProxySets
      <4>2. CASE v # u
        <5>1. v <= u <=> v <= last
          BY <1>7, <4>2, ProxySets
        <5> QED
          BY <1>2, <1>8, <4>2, <5>1
      <4> QED
        BY <4>1, <4>2
    <3> QED
      BY <3>1, <3>2
  <2>2. pendingStartTx' # 0 => owner'[pendingStartTx'] # 0
    BY <1>3, <1>8
  <2>3. ASSUME NEW n \in Proxy!Number, int2uuid[n] # 0
        PROVE  n < txIdCounter /\ owner'[int2uuid[n]] # 0
    <3>1. n < txIdCounter /\ owner[int2uuid[n]] # 0
      BY <1>1, <2>3, Zenon DEF ProxyNumbers
    <3>2. int2uuid[n] \in Proxy!Uuid
      BY <1>1, <2>3, ProxyFields
    <3> QED
      BY <1>9, <3>1, <3>2
  <2>4. \A v \in Proxy!Uuid : uuid2int[v] # 0 => uuid2int[v] < txIdCounter /\ owner'[v] # 0
    BY <1>1, <1>9, Zenon DEF ProxyNumbers
  <2>5. \A t \in Transaction : station[t].number < txIdCounter
    BY <1>1, Zenon DEF ProxyNumbers
  <2> QED
    BY <1>4, <2>1, <2>2, <2>3, <2>4, <2>5, Zenon DEF ProxyNumbers
<1>11. ProxyMatch'
  <2> SUFFICES ASSUME ~late', NEW t \in Transaction, NEW v \in Proxy!Uuid, station[t].number # 0,
                      int2uuid[station[t].number] = v \/ uuid2int[v] = station[t].number
               PROVE  owner'[v] = t
    BY <1>4, Zenon DEF ProxyMatch
  <2>1. ~late
    BY <1>4
  <2>2. owner[v] = t
    BY <1>1, <2>1, Zenon DEF ProxyMatch
  <2>3. t # 0
    BY ProxyAssumption
  <2> QED
    BY <1>8, <1>9, <2>2, <2>3
<1>12. ProxyWaiting'
  <2> SUFFICES ASSUME ~late', NEW j \in Proxy!Connection, NEW x \in 1 .. Len(calls'[j]),
                      calls'[j][x].heard, calls'[j][x].kind = "start", calls'[j][x].phase = "forwarded"
               PROVE  /\ \A o \in Proxy!Connection : o > j => conn[o] = "new"
                      /\ owner'[u] = calls'[j][x].tx
    BY <1>3, <1>4, Zenon DEF ProxyWaiting, Awaited
  <2>1. ~late /\ \A o \in Proxy!Connection : o > k => conn[o] = "new"
    BY <1>4
  <2>2. x \in 1 .. Len(calls[j]) /\ Len(calls[j]) \in Nat
    BY <1>1, <1>5, ProxyQueue
  <2>3. CASE j = k /\ x = i
    BY <1>5, <1>6, <1>8, <2>1, <2>2, <2>3
  <2>4. CASE ~ (j = k /\ x = i)
    <3>1. calls'[j][x] = calls[j][x]
      BY <1>5, <2>2, <2>4
    <3>2. Awaited(j, calls[j][x])
      BY <1>1, <2>1, <2>2 DEF ProxyWaiting
    <3>3. \A o \in Proxy!Connection : o > j => conn[o] = "new"
      BY <3>1, <3>2 DEF Awaited
    <3>4. CASE j = k
      <4>1. x = Len(calls[k]) /\ \A y \in 1 .. x : calls[k][y].phase = "forwarded"
        BY <1>1, <2>2, <3>1, <3>4 DEF ProxyQueues
      <4> QED
        BY <1>5, <4>1
    <3>5. CASE j < k
      <4>1. conn[k] = "new"
        BY <3>3, <3>5, ProxySets
      <4> QED
        BY <1>1, <1>4, <4>1 DEF ProxyQueues, Proxy!Forwards
    <3>6. CASE j > k
      <4>1. conn[j] = "new"
        BY <2>1, <3>6
      <4>2. Len(calls[j]) = 0
        BY <1>1, <4>1 DEF ProxyQueues
      <4> QED
        BY <2>2, <4>2
    <3> QED
      BY <3>4, <3>5, <3>6, ProxySets
  <2> QED
    BY <2>3, <2>4
<1>13. ProxyTyped'
  <2>1. \A j \in Proxy!Connection : Len(calls'[j]) <= MaxCalls
    BY <1>1, <1>5, ProxyQueue
  <2>2. pendingStartTx' \in Proxy!Uuid \cup {0} /\ late' \in BOOLEAN
    BY <1>3, <1>4
  <2> QED
    BY <1>1, <1>4, <1>5, <1>8, <2>1, <2>2, Zenon DEF ProxyTyped
<1> QED
  BY <1>5, <1>10, <1>11, <1>12, <1>13 DEF ProxyInv

(* An answer takes a fresh number, and the UUID that waits, which is that  *)
(* of the transaction whose start is answered, if it is heard.             *)
LEMMA ProxyAnsweredKeeps ==
    ASSUME ProxyInv, NEW k \in Proxy!Connection, Proxy!Answered(k)
    PROVE  ProxyInv'
<1>1. ProxyTyped /\ ProxyQueues /\ ProxyNumbers /\ ProxyWaiting /\ ProxyMatch
  BY DEF ProxyInv
<1>2. PICK c : c = Head(calls[k])
  OBVIOUS
<1>3. PICK n : n = txIdCounter
  OBVIOUS
<1>4. /\ calls[k] # <<>> /\ c.phase = "forwarded" /\ n \in Proxy!Number /\ txIdCounter' = n + 1
      /\ IF pendingStartTx = 0
           THEN pendingStartTx' = pendingStartTx /\ int2uuid' = int2uuid /\ uuid2int' = uuid2int
           ELSE /\ int2uuid' = [int2uuid EXCEPT ![n] = pendingStartTx]
                /\ uuid2int' = [uuid2int EXCEPT ![pendingStartTx] = n]
                /\ pendingStartTx' = 0
      /\ station' \in Proxy!Informed(c, n)
      /\ calls' = [calls EXCEPT ![k] = Tail(@)]
      /\ conn' = conn /\ upstream' = upstream /\ owner' = owner /\ late' = late
  BY <1>2, <1>3, Zenon DEF Proxy!Answered, Proxy!NextNumber, Proxy!None, Proxy!session
<1>5. /\ Shrunk([NoneGone EXCEPT ![k] = 1]) /\ c \in Proxy!Call
      /\ 1 \in 1 .. Len(calls[k]) /\ c = calls[k][1]
  BY <1>1, <1>2, <1>4, TailShrinks
<1>6. n \in Nat /\ n # 0 /\ n <= MaxNumbers
  BY <1>4, ProxySets
<1>7. c.tx \in Transaction /\ station \in [Transaction -> StationState]
  BY <1>1, <1>5 DEF ProxyTyped, Proxy!Call
<1>8. /\ station' \in [Transaction -> StationState]
      /\ \A t \in Transaction :
            \/ station'[t].number \in {station[t].number, 0}
            \/ t = c.tx /\ c.heard /\ c.kind = "start" /\ station'[t].number = n
  <2>1. PICK r : r \in {[state |-> "running", number |-> n], [state |-> "none", number |-> 0],
                        Proxy!Back(station[c.tx]), station[c.tx]}
                 /\ station' = [station EXCEPT ![c.tx] = r]
                 /\ (r = [state |-> "running", number |-> n] => c.heard /\ c.kind = "start")
    <3>1. CASE ~c.heard \/ c.kind = "meter"
      <4>1. station' = station
        BY <1>4, <3>1, Zenon DEF Proxy!Informed
      <4>2. station' = [station EXCEPT ![c.tx] = station[c.tx]]
        BY <1>7, <4>1
      <4>3. station[c.tx] = [state |-> "running", number |-> n] => station[c.tx].number = n
        OBVIOUS
      <4>4. station[c.tx].number # n
        BY <1>1, <1>3, <1>7, ProxyFields DEF ProxyNumbers
      <4> QED
        BY <4>2, <4>3, <4>4
    <3>2. CASE c.heard /\ c.kind = "stop"
      <4>1. station' = [station EXCEPT ![c.tx] = [state |-> "none", number |-> 0]]
        BY <1>4, <3>2 DEF Proxy!Informed, Proxy!None
      <4>2. [state |-> "none", number |-> 0] # [state |-> "running", number |-> n]
        OBVIOUS
      <4> QED
        BY <4>1, <4>2
    <3>3. CASE c.heard /\ c.kind = "start"
      <4>1. \/ station' = [station EXCEPT ![c.tx] = [state |-> "running", number |-> n]]
            \/ station' = [station EXCEPT ![c.tx] = Proxy!Back(station[c.tx])]
        BY <1>4, <3>3 DEF Proxy!Informed
      <4> QED
        BY <3>3, <4>1
    <3> QED
      BY <1>5, <3>1, <3>2, <3>3 DEF Proxy!Call
  <2>2. /\ r \in StationState
        /\ \/ r.number \in {station[c.tx].number, 0}
           \/ c.heard /\ c.kind = "start" /\ r.number = n
    <3>1. CASE r = [state |-> "running", number |-> n]
      BY <1>4, <2>1, <3>1 DEF StationState
    <3>2. CASE r = [state |-> "none", number |-> 0]
      BY <3>2 DEF StationState
    <3>3. CASE r = Proxy!Back(station[c.tx])
      BY <1>7, <3>3, BackKeeps
    <3>4. CASE r = station[c.tx]
      BY <1>7, <3>4
    <3> QED
      BY <2>1, <3>1, <3>2, <3>3, <3>4
  <2> QED
    BY <1>7, <2>1, <2>2
<1>9. pendingStartTx' = 0 \/ pendingStartTx' = pendingStartTx
  BY <1>4
<1>10. ProxyQueues' /\ \A j \in Proxy!Connection : Len(calls'[j]) <= MaxCalls
  <2>1. \A j \in Proxy!Connection : conn[j] = "new" => upstream[j] = "none"
    BY <1>1 DEF ProxyQueues
  <2> QED
    BY <1>1, <1>4, <1>5, <2>1, ShrunkQueues
<1>11. ProxyWaiting'
  BY <1>1, <1>4, <1>5, <1>9, ShrunkWaiting
<1>12. /\ pendingStartTx \in Proxy!Uuid \cup {0}
       /\ int2uuid \in [Proxy!Number -> Proxy!Uuid \cup {0}]
       /\ uuid2int \in [Proxy!Uuid -> Proxy!Number \cup {0}]
  BY <1>1 DEF ProxyTyped
<1>13. /\ int2uuid' \in [Proxy!Number -> Proxy!Uuid \cup {0}]
       /\ uuid2int' \in [Proxy!Uuid -> Proxy!Number \cup {0}]
       /\ pendingStartTx' \in Proxy!Uuid \cup {0}
       /\ \A m \in Proxy!Number : int2uuid'[m] = int2uuid[m] \/ (m = n /\ int2uuid'[m] = pendingStartTx)
       /\ \A u \in Proxy!Uuid : uuid2int'[u] = uuid2int[u] \/ (u = pendingStartTx /\ uuid2int'[u] = n)
  BY <1>4, <1>12
<1>14. ProxyNumbers'
  <2>1. \E last \in 0 .. MaxUuids : \A u \in Proxy!Uuid : owner[u] # 0 <=> u <= last
    BY <1>1, Zenon DEF ProxyNumbers
  <2>2. pendingStartTx' # 0 => owner[pendingStartTx'] # 0
    BY <1>1, <1>9 DEF ProxyNumbers
  <2>3. ASSUME NEW m \in Proxy!Number, int2uuid'[m] # 0
        PROVE  m < n + 1 /\ owner[int2uuid'[m]] # 0
    <3>1. CASE int2uuid'[m] = int2uuid[m]
      <4>1. m < n /\ owner[int2uuid[m]] # 0
        BY <1>1, <1>3, <2>3, <3>1 DEF ProxyNumbers
      <4> QED
        BY <1>6, <3>1, <4>1, ProxySets
    <3>2. CASE m = n /\ int2uuid'[m] = pendingStartTx
      BY <1>1, <1>6, <2>3, <3>2 DEF ProxyNumbers
    <3> QED
      BY <1>13, <3>1, <3>2
  <2>4. ASSUME NEW u \in Proxy!Uuid, uuid2int'[u] # 0
        PROVE  uuid2int'[u] < n + 1 /\ owner[u] # 0
    <3>1. CASE uuid2int'[u] = uuid2int[u]
      <4>1. uuid2int[u] < n /\ owner[u] # 0 /\ uuid2int[u] \in Nat
        BY <1>1, <1>3, <2>4, <3>1, ProxyFields DEF ProxyNumbers
      <4> QED
        BY <1>6, <3>1, <4>1
    <3>2. CASE u = pendingStartTx /\ uuid2int'[u] = n
      <4>1. u # 0
        BY ProxySets
      <4> QED
        BY <1>1, <1>6, <3>2, <4>1 DEF ProxyNumbers
    <3> QED
      BY <1>13, <3>1, <3>2
  <2>5. ASSUME NEW t \in Transaction
        PROVE  station'[t].number < n + 1
    <3>1. station[t].number < n /\ station[t].number \in Nat
      BY <1>1, <1>3, ProxyFields DEF ProxyNumbers
    <3>2. station'[t].number \in {station[t].number, 0, n}
      BY <1>8
    <3> QED
      BY <1>6, <3>1, <3>2
  <2> QED
    BY <1>4, <2>1, <2>2, <2>3, <2>4, <2>5, Zenon DEF ProxyNumbers
<1>15. ProxyMatch'
  <2> SUFFICES ASSUME ~late, NEW t \in Transaction, NEW u \in Proxy!Uuid, station'[t].number # 0,
                      int2uuid'[station'[t].number] = u \/ uuid2int'[u] = station'[t].number
               PROVE  owner[u] = t
    BY <1>4, Zenon DEF ProxyMatch
  <2>1. u # 0
    BY ProxySets
  <2>2. CASE station'[t].number \in {station[t].number, 0}
    <3>1. PICK m : m = station[t].number
      OBVIOUS
    <3>2. station'[t].number = m /\ m \in Proxy!Number /\ m < n /\ m \in Nat
      BY <1>1, <1>3, <2>2, <3>1, ProxyFields DEF ProxyNumbers
    <3>3. m # n
      BY <1>6, <3>2
    <3>4. int2uuid[m] = u \/ uuid2int[u] = m
      BY <1>13, <3>2, <3>3
    <3> QED
      BY <1>1, <3>1, <3>2, <3>4 DEF ProxyMatch
  <2>3. CASE t = c.tx /\ c.heard /\ c.kind = "start" /\ station'[t].number = n
    <3>1. Awaited(k, calls[k][1])
      BY <1>1, <1>5 DEF ProxyWaiting
    <3>2. pendingStartTx # 0 => owner[pendingStartTx] = t
      BY <1>4, <1>5, <2>3, <3>1 DEF Awaited
    <3>3. int2uuid[n] # u
      <4>1. int2uuid[n] # 0 => n < n
        BY <1>1, <1>3, <1>4, Zenon DEF ProxyNumbers
      <4> QED
        BY <1>6, <2>1, <4>1
    <3>4. uuid2int[u] # n
      <4>1. uuid2int[u] # 0 => uuid2int[u] < n
        BY <1>1, <1>3, Zenon DEF ProxyNumbers
      <4> QED
        BY <1>6, <4>1
    <3>5. u = pendingStartTx
      BY <1>4, <1>13, <2>3, <3>3, <3>4
    <3> QED
      BY <2>1, <3>2, <3>5
  <2> QED
    BY <1>8, <2>2, <2>3
<1>16. ProxyTyped'
  <2>1. txIdCounter' \in 1 .. MaxNumbers + 1
    BY <1>4, <1>6, ProxyAssumption
  <2>2. calls' \in [Proxy!Connection -> Seq(Proxy!Call)]
    BY <1>5 DEF Shrunk
  <2> QED
    BY <1>1, <1>4, <1>8, <1>10, <1>13, <2>1, <2>2, Zenon DEF ProxyTyped
<1> QED
  BY <1>10, <1>11, <1>14, <1>15, <1>16 DEF ProxyInv

LEMMA ProxyStep == ProxyInv /\ [Proxy!Next]_proxyVars => ProxyInv'
<1> SUFFICES ASSUME ProxyInv, [Proxy!Next]_proxyVars PROVE ProxyInv'
  OBVIOUS
<1>1. CASE UNCHANGED proxyVars
  <2>1. /\ conn' = conn /\ upstream' = upstream /\ calls' = calls /\ pendingStartTx' = pendingStartTx
        /\ int2uuid' = int2uuid /\ uuid2int' = uuid2int /\ txIdCounter' = txIdCounter
        /\ owner' = owner /\ station' = station /\ late' = late
    BY <1>1 DEF proxyVars
  <2>2. ProxyTyped'
    BY <2>1, Zenon DEF ProxyInv, ProxyTyped
  <2>3. ProxyQueues' /\ ProxyNumbers'
    BY <2>1, Zenon DEF ProxyInv, ProxyQueues, ProxyNumbers
  <2>4. ProxyWaiting' /\ ProxyMatch'
    BY <2>1, Zenon DEF ProxyInv, ProxyWaiting, ProxyMatch, Awaited
  <2> QED
    BY <2>2, <2>3, <2>4 DEF ProxyInv
<1>2. CASE Proxy!Next
  BY <1>2, ConnectsKeeps, QuietProxySteps, ProxyAnsweredKeeps, FailsKeeps, MakesKeeps,
     ForwardsStartKeeps, ForwardsOtherKeeps, Zenon DEF Proxy!Next
<1> QED
  BY <1>1, <1>2

LEMMA ProxyInit == Proxy!Init => ProxyInv
<1> SUFFICES ASSUME Proxy!Init PROVE ProxyInv
  OBVIOUS
<1>1. /\ conn = [k \in Proxy!Connection |-> "new"] /\ upstream = [k \in Proxy!Connection |-> "none"]
      /\ calls = [k \in Proxy!Connection |-> <<>>] /\ pendingStartTx = 0
      /\ int2uuid = [n \in Proxy!Number |-> 0] /\ uuid2int = [u \in Proxy!Uuid |-> 0]
      /\ txIdCounter = 1 /\ owner = [u \in Proxy!Uuid |-> 0]
      /\ station = [t \in Transaction |-> [state |-> "none", number |-> 0]] /\ late = FALSE
  BY Zenon DEF Proxy!Init, Proxy!None
<1>2. \A k \in Proxy!Connection : Len(calls[k]) = 0 /\ 1 .. Len(calls[k]) = {}
  BY <1>1
<1>3. \A t \in Transaction : station[t] \in StationState /\ station[t].number = 0
  BY <1>1 DEF StationState
<1>4. ProxyTyped
  <2>1. calls \in [Proxy!Connection -> Seq(Proxy!Call)]
    BY <1>1
  <2>2. station \in [Transaction -> StationState]
    BY <1>1, <1>3
  <2>3. txIdCounter \in 1 .. MaxNumbers + 1
    BY <1>1, ProxyAssumption
  <2>4. \A k \in Proxy!Connection : Len(calls[k]) <= MaxCalls
    BY <1>2, ProxyAssumption
  <2>5. /\ conn \in [Proxy!Connection -> {"new", "open", "closed"}]
        /\ upstream \in [Proxy!Connection -> {"none", "open", "closed"}]
        /\ pendingStartTx \in Proxy!Uuid \cup {0}
        /\ int2uuid \in [Proxy!Number -> Proxy!Uuid \cup {0}]
        /\ uuid2int \in [Proxy!Uuid -> Proxy!Number \cup {0}]
        /\ owner \in [Proxy!Uuid -> Transaction \cup {0}] /\ late \in BOOLEAN
    BY <1>1
  <2> QED
    BY <2>1, <2>2, <2>3, <2>4, <2>5, Zenon DEF ProxyTyped
<1>5. ProxyQueues
  BY <1>1, <1>2 DEF ProxyQueues
<1>6. ProxyNumbers
  <2>1. \A u \in Proxy!Uuid : owner[u] # 0 <=> u <= 0
    BY <1>1, ProxySets
  <2>2. 0 \in 0 .. MaxUuids
    BY ProxyAssumption
  <2>3. \E last \in 0 .. MaxUuids : \A u \in Proxy!Uuid : owner[u] # 0 <=> u <= last
    BY <2>1, <2>2
  <2> QED
    BY <1>1, <1>3, <2>3 DEF ProxyNumbers
<1>7. ProxyWaiting
  BY <1>2 DEF ProxyWaiting
<1>8. ProxyMatch
  BY <1>3 DEF ProxyMatch
<1> QED
  BY <1>4, <1>5, <1>6, <1>7, <1>8 DEF ProxyInv

(* What the invariant says of a pair of identifiers in use is the          *)
(* property.                                                               *)
LEMMA ProxyNumbersMatch == ProxyInv => Proxy!NumbersMatch
<1> SUFFICES ASSUME ProxyInv PROVE Proxy!NumbersMatch
  OBVIOUS
<1>1. ProxyTyped /\ ProxyMatch
  BY DEF ProxyInv
<1>2. Proxy!TypeOK
  <2>1. ASSUME NEW k \in Proxy!Connection
        PROVE  Len(calls[k]) <= MaxCalls /\ \A i \in 1 .. Len(calls[k]) : calls[k][i] \in Proxy!Call
    <3>1. PICK q \in Seq(Proxy!Call) : q = calls[k]
      BY <1>1, ProxyQueue
    <3>2. \A i \in 1 .. Len(q) : q[i] \in Proxy!Call
      OBVIOUS
    <3> QED
      BY <1>1, <3>1, <3>2, ProxyQueue
  <2> QED
    BY <1>1, <2>1, Zenon DEF Proxy!TypeOK, Proxy!None, ProxyTyped, StationState
<1>3. ASSUME ~late, NEW t \in Transaction, NEW u \in Proxy!Uuid, station[t].number # Proxy!None,
             u \in {int2uuid[station[t].number]} \cup {v \in Proxy!Uuid : uuid2int[v] = station[t].number}
      PROVE  owner[u] = t
  <2>1. int2uuid[station[t].number] = u \/ uuid2int[u] = station[t].number
    BY <1>3, Zenon
  <2> QED
    BY <1>1, <1>3, <2>1, Zenon DEF ProxyMatch, Proxy!None
<1> QED
  BY <1>2, <1>3, Zenon DEF Proxy!NumbersMatch

-----------------------------------------------------------------------------
(* Sessions of stations *)

OneEach ==
    /\ Len(sessions) <= MaxSessions
    /\ \A i, j \in DOMAIN sessions : sessions[i].station = sessions[j].station => i = j
    /\ \A i, j \in DOMAIN sessions : i < j => sessions[i].age >= sessions[j].age
    /\ \A i \in DOMAIN sessions : clients[sessions[i].on].of = sessions[i].station

(* The session of a station that has lost none is that of its last         *)
(* connection.                                                             *)
OfLast ==
    \A c \in Store!Conn :
       clients[c].of \notin overwritten /\ (\A d \in Store!Conn : clients[d].of = clients[c].of => d <= c)
       => \E i \in DOMAIN sessions : sessions[i].station = clients[c].of /\ sessions[i].on = c

SessionsTyped ==
    /\ clients \in Seq([of : Visitor, data : SUBSET (1 .. writes), left : SUBSET (1 .. writes)])
    /\ sessions \in Seq([station : Visitor, on : Store!Conn, age : 0 .. Ttl + 1])
    /\ writes \in Nat /\ overwritten \subseteq Visitor

SessionsInv == SessionsTyped /\ OneEach /\ OfLast /\ Store!Restored

(* The fields of connections and sessions, with their types.               *)
LEMMA SessionFields ==
    ASSUME SessionsTyped
    PROVE  /\ Len(sessions) \in Nat /\ DOMAIN sessions = 1 .. Len(sessions)
           /\ Len(clients) \in Nat /\ Store!Conn = 1 .. Len(clients)
           /\ \A i \in DOMAIN sessions :
                 /\ sessions[i].station \in Visitor /\ sessions[i].on \in Store!Conn
                 /\ sessions[i].age \in Nat /\ sessions[i].age <= Ttl + 1
           /\ \A c \in Store!Conn :
                 /\ clients[c].of \in Visitor
                 /\ clients[c].data \subseteq 1 .. writes /\ clients[c].left \subseteq 1 .. writes
<1>1. PICK R : R = [station : Visitor, on : Store!Conn, age : 0 .. Ttl + 1]
  OBVIOUS
<1>2. PICK Q : Q = [of : Visitor, data : SUBSET (1 .. writes), left : SUBSET (1 .. writes)]
  OBVIOUS
<1>3. sessions \in Seq(R) /\ clients \in Seq(Q)
  BY <1>1, <1>2 DEF SessionsTyped
<1>4. /\ Len(sessions) \in Nat /\ DOMAIN sessions = 1 .. Len(sessions) /\ \A i \in DOMAIN sessions : sessions[i] \in R
      /\ Len(clients) \in Nat /\ DOMAIN clients = 1 .. Len(clients) /\ \A c \in DOMAIN clients : clients[c] \in Q
  BY <1>3
<1>5. Store!Conn = DOMAIN clients
  BY DEF Store!Conn
<1>6. \A r \in R : /\ r.station \in Visitor /\ r.on \in Store!Conn /\ r.age \in Nat /\ r.age <= Ttl + 1
  BY <1>1, SessionsAssumption
<1>7. \A q \in Q : q.of \in Visitor /\ q.data \subseteq 1 .. writes /\ q.left \subseteq 1 .. writes
  BY <1>2
<1> QED
  BY <1>4, <1>5, <1>6, <1>7

(* The first k entries of p are entries of the map, in their order.        *)
Drawn(p, at, k) ==
    /\ at \in [1 .. k -> DOMAIN sessions]
    /\ \A i, j \in 1 .. k : i < j => at[i] < at[j]
    /\ \A i \in 1 .. k : p[i] = sessions[at[i]]

(* What is drawn from the sessions in their order has one of each station. *)
LEMMA DrawnOneEach ==
    ASSUME SessionsTyped, OneEach, NEW k \in Nat, NEW p, NEW at, Drawn(p, at, k)
    PROVE  /\ \A i, j \in 1 .. k : p[i].station = p[j].station => i = j
           /\ \A i, j \in 1 .. k : i < j => p[i].age >= p[j].age
<1>1. \A i \in 1 .. k : at[i] \in DOMAIN sessions /\ at[i] \in Nat /\ p[i] = sessions[at[i]]
  BY SessionFields DEF Drawn
<1>2. ASSUME NEW i \in 1 .. k, NEW j \in 1 .. k, i < j
      PROVE  p[i].station # p[j].station /\ p[i].age >= p[j].age
  <2>1. at[i] < at[j]
    BY <1>2 DEF Drawn
  <2> QED
    BY <1>1, <2>1 DEF OneEach
<1>3. ASSUME NEW i \in 1 .. k, NEW j \in 1 .. k, p[i].station = p[j].station
      PROVE  i = j
  <2>1. ~ (i < j) /\ ~ (j < i)
    BY <1>2, <1>3
  <2> QED
    BY <2>1
<1> QED
  BY <1>2, <1>3

LEMMA SessionLength ==
    ASSUME SessionsTyped
    PROVE  Len(sessions) \in Nat /\ DOMAIN sessions = 1 .. Len(sessions)
  BY SessionFields

WithoutIs(s, k, at) ==
    /\ k <= Len(sessions)
    /\ Store!Without(s) = [i \in 1 .. k |-> sessions[at[i]]]
    /\ Drawn(Store!Without(s), at, k)
    /\ \A i \in 1 .. k : sessions[at[i]].station # s

(* Taking the session of one station away leaves the others in their       *)
(* order.                                                                  *)
LEMMA WithoutDraws ==
    ASSUME SessionsTyped, OneEach, NEW s \in Visitor
    PROVE  \E k \in Nat : \E at : WithoutIs(s, k, at)
<1>1. PICK n \in Nat : n = Len(sessions)
  BY SessionLength
<1>2. DOMAIN sessions = 1 .. n
  BY <1>1, SessionLength
<1>3. CASE s \notin Store!Kept(sessions)
  <2>1. PICK at : at = [i \in 1 .. n |-> i]
    OBVIOUS
  <2>2. Store!Without(s) = sessions
    BY <1>3 DEF Store!Without
  <2>3. sessions = [i \in 1 .. n |-> sessions[at[i]]]
    <3>1. sessions = [i \in 1 .. n |-> sessions[i]]
      BY <1>2 DEF SessionsTyped
    <3> QED
      BY <2>1, <3>1
  <2>4. Drawn(sessions, at, n)
    BY <1>2, <2>1 DEF Drawn
  <2>5. \A i \in 1 .. n : sessions[at[i]].station # s
    BY <1>2, <1>3, <2>1 DEF Store!Kept
  <2>7. n <= Len(sessions)
    BY <1>1
  <2>6. WithoutIs(s, n, at)
    BY <2>2, <2>3, <2>4, <2>5, <2>7, Zenon DEF WithoutIs
  <2> QED
    BY <2>6
<1>4. CASE s \in Store!Kept(sessions)
  <2>1. PICK gone \in 1 .. n : gone = CHOOSE i \in DOMAIN sessions : sessions[i].station = s
    <3>1. \E i \in DOMAIN sessions : sessions[i].station = s
      BY <1>4 DEF Store!Kept
    <3> QED
      BY <1>2, <3>1
  <2>2. sessions[gone].station = s
    <3>1. \E i \in DOMAIN sessions : sessions[i].station = s
      BY <1>4 DEF Store!Kept
    <3> QED
      BY <2>1, <3>1
  <2>3. PICK k \in Nat : k = n - 1
    BY <2>1
  <2>4. PICK at : at = [i \in 1 .. k |-> IF i < gone THEN i ELSE i + 1]
    OBVIOUS
  <2>5. \A i \in 1 .. k : at[i] = IF i < gone THEN i ELSE i + 1
    BY <2>4
  <2>12. gone \in Nat
    BY <2>1
  <2>6. Store!Without(s) = [i \in 1 .. k |-> sessions[at[i]]]
    <3>1. Store!Without(s) = [i \in 1 .. n - 1 |-> sessions[IF i < gone THEN i ELSE i + 1]]
      BY <1>1, <1>4, <2>1, Zenon DEF Store!Without
    <3> QED
      BY <2>3, <2>5, <3>1
  <2>7. at \in [1 .. k -> DOMAIN sessions]
    <3>1. \A i \in 1 .. k : (IF i < gone THEN i ELSE i + 1) \in 1 .. n
      BY <2>1, <2>3
    <3> QED
      BY <1>2, <2>4, <3>1
  <2>8. ASSUME NEW i \in 1 .. k, NEW j \in 1 .. k, i < j
        PROVE  at[i] < at[j]
    <3>1. at[i] = i \/ (at[i] = i + 1 /\ ~ (i < gone))
      BY <2>5
    <3>2. at[j] = j + 1 \/ (at[j] = j /\ j < gone)
      BY <2>5
    <3> QED
      BY <2>8, <2>12, <3>1, <3>2
  <2>9. Drawn(Store!Without(s), at, k)
    BY <2>6, <2>7, <2>8 DEF Drawn
  <2>10. ASSUME NEW i \in 1 .. k
         PROVE  sessions[at[i]].station # s
    <3>1. at[i] # gone
      BY <2>5, <2>12
    <3>2. at[i] \in DOMAIN sessions /\ gone \in DOMAIN sessions
      BY <1>2, <2>7
    <3> QED
      BY <2>2, <3>1, <3>2 DEF OneEach
  <2>11. WithoutIs(s, k, at)
    BY <1>1, <2>3, <2>6, <2>9, <2>10 DEF WithoutIs
  <2> QED
    BY <2>11
<1> QED
  BY <1>3, <1>4

PutIs(s, c, m, at) ==
    /\ m < MaxSessions
    /\ Store!Put(s, c) = [i \in 1 .. m + 1 |-> IF i <= m THEN sessions[at[i]]
                                               ELSE [station |-> s, on |-> c, age |-> 0]]
    /\ Drawn(Store!Put(s, c), at, m)
    /\ \A i \in 1 .. m : sessions[at[i]].station # s

(* The map after set: at most as many entries as there may be, that of the *)
(* station last, and the others drawn from the map before.                 *)
LEMMA PutDraws ==
    ASSUME SessionsTyped, OneEach, NEW s \in Visitor, NEW c
    PROVE  \E m \in Nat : \E at : PutIs(s, c, m, at)
<1>0. PICK k \in Nat : \E at : WithoutIs(s, k, at)
  BY WithoutDraws
<1>12. PICK at : WithoutIs(s, k, at)
  BY <1>0
<1>1. /\ k <= Len(sessions)
      /\ Store!Without(s) = [i \in 1 .. k |-> sessions[at[i]]]
      /\ Drawn(Store!Without(s), at, k)
      /\ \A i \in 1 .. k : sessions[at[i]].station # s
  BY <1>12 DEF WithoutIs
<1>2. PICK new : new = [station |-> s, on |-> c, age |-> 0]
  OBVIOUS
<1>3. PICK w : w = Store!Without(s)
  OBVIOUS
<1>4. PICK E : E = {sessions[at[i]] : i \in 1 .. k} \cup {new}
  OBVIOUS
<1>5. w \in Seq(E) /\ Len(w) = k /\ \A i \in 1 .. k : w[i] = sessions[at[i]]
  <2>1. w = [i \in 1 .. k |-> sessions[at[i]]]
    BY <1>1, <1>3
  <2>2. \A i \in 1 .. k : sessions[at[i]] \in E
    BY <1>4
  <2>3. w \in [1 .. k -> E]
    BY <2>1, <2>2
  <2> QED
    BY <2>1, <2>3
<1>6. PICK all : all = Append(w, new)
  OBVIOUS
<1>13. all \in Seq(E)
  BY <1>4, <1>5, <1>6
<1>7. Len(all) = k + 1 /\ all[k + 1] = new /\ \A i \in 1 .. k : all[i] = sessions[at[i]]
  BY <1>4, <1>5, <1>6
<1>8. Store!Put(s, c) = IF k + 1 > MaxSessions THEN Tail(all) ELSE all
  BY <1>2, <1>3, <1>6, <1>7 DEF Store!Put
<1>9. k <= MaxSessions /\ MaxSessions \in Nat /\ MaxSessions > 0 /\ Len(sessions) \in Nat
  BY <1>1, SessionFields, SessionsAssumption DEF OneEach
<1>10. CASE k + 1 <= MaxSessions
  <2>1. Store!Put(s, c) = all
    BY <1>8, <1>9, <1>10
  <2>2. all = [i \in 1 .. k + 1 |-> IF i <= k THEN sessions[at[i]] ELSE new]
    <3>1. all = [i \in 1 .. k + 1 |-> all[i]]
      BY <1>7, <1>13
    <3>2. \A i \in 1 .. k + 1 : all[i] = IF i <= k THEN sessions[at[i]] ELSE new
      BY <1>7
    <3> QED
      BY <3>1, <3>2
  <2>3. Drawn(all, at, k)
    BY <1>1, <1>7 DEF Drawn
  <2>4. k < MaxSessions
    BY <1>9, <1>10
  <2>5. PutIs(s, c, k, at)
    BY <1>1, <1>2, <2>1, <2>2, <2>3, <2>4 DEF PutIs
  <2> QED
    BY <2>5
<1>11. CASE k + 1 > MaxSessions
  <2>1. PICK m \in Nat : m = k - 1 /\ m < MaxSessions
    BY <1>9, <1>11
  <2>2. PICK p : p = Tail(all)
    OBVIOUS
  <2>3. Store!Put(s, c) = p
    BY <1>8, <1>11, <2>2
  <2>4. p \in Seq(E) /\ Len(p) = m + 1 /\ \A i \in 1 .. m + 1 : p[i] = all[i + 1]
    BY <1>7, <1>13, <2>1, <2>2
  <2>5. PICK sh : sh = [i \in 1 .. m |-> at[i + 1]]
    OBVIOUS
  <2>6. /\ \A i \in 1 .. m : i + 1 \in 1 .. k /\ sh[i] = at[i + 1]
        /\ at \in [1 .. k -> DOMAIN sessions] /\ \A i, j \in 1 .. k : i < j => at[i] < at[j]
    BY <1>1, <2>1, <2>5 DEF Drawn
  <2>7. sh \in [1 .. m -> DOMAIN sessions]
    BY <2>5, <2>6
  <2>8. \A i, j \in 1 .. m : i < j => sh[i] < sh[j]
    BY <2>6
  <2>9. \A i \in 1 .. m : p[i] = sessions[sh[i]] /\ sessions[sh[i]].station # s
    <3> SUFFICES ASSUME NEW i \in 1 .. m PROVE p[i] = sessions[sh[i]] /\ sessions[sh[i]].station # s
      OBVIOUS
    <3>1. i \in 1 .. m + 1 /\ i + 1 \in 1 .. k /\ sh[i] = at[i + 1]
      BY <2>6
    <3> QED
      BY <1>1, <1>7, <2>4, <3>1
  <2>10. p[m + 1] = new
    <3>1. m + 1 \in 1 .. m + 1 /\ m + 1 + 1 = k + 1
      BY <2>1
    <3> QED
      BY <1>7, <2>4, <3>1
  <2>11. p = [i \in 1 .. m + 1 |-> IF i <= m THEN sessions[sh[i]] ELSE new]
    <3>1. p = [i \in 1 .. m + 1 |-> p[i]]
      BY <2>4
    <3>2. \A i \in 1 .. m + 1 : p[i] = IF i <= m THEN sessions[sh[i]] ELSE new
      BY <2>9, <2>10
    <3> QED
      BY <3>1, <3>2
  <2>12. Drawn(p, sh, m)
    BY <2>7, <2>8, <2>9 DEF Drawn
  <2>13. PutIs(s, c, m, sh)
    BY <1>2, <2>1, <2>3, <2>9, <2>11, <2>12 DEF PutIs
  <2> QED
    BY <2>13
<1> QED
  BY <1>9, <1>10, <1>11

SessionsClients == [of : Visitor, data : SUBSET (1 .. writes), left : SUBSET (1 .. writes)]
SessionsEntries == [station : Visitor, on : Store!Conn, age : 0 .. Ttl + 1]

(* The types of sessions, with their records written out.                  *)
LEMMA TypedSessions ==
    SessionsTyped <=> /\ clients \in Seq(SessionsClients) /\ sessions \in Seq(SessionsEntries)
                      /\ writes \in Nat /\ overwritten \subseteq Visitor
  BY Zenon DEF SessionsTyped, SessionsClients, SessionsEntries

LEMMA SomeEntries ==
    ASSUME SessionsTyped
    PROVE  \A i \in DOMAIN sessions : sessions[i] \in SessionsEntries
<1>1. PICK R : R = SessionsEntries
  OBVIOUS
<1>2. sessions \in Seq(R)
  BY <1>1, TypedSessions
<1> QED
  BY <1>1, <1>2

(* A session is put into the map, for one of the connections there are now *)
(* (Connect, Message).                                                     *)
LEMMA PutKeeps ==
    ASSUME SessionsInv, NEW s \in Visitor, NEW c, sessions' = Store!Put(s, c),
           Store!Conn \subseteq Store!Conn', c \in Store!Conn', clients'[c].of = s,
           \A d \in Store!Conn : clients'[d].of = clients[d].of
    PROVE  /\ sessions' \in Seq(SessionsEntries') /\ OneEach'
           /\ \E j \in DOMAIN sessions' : sessions'[j].station = s /\ sessions'[j].on = c
           /\ \A i \in DOMAIN sessions :
                 sessions[i].station # s /\ sessions[i].station \in Store!Kept(sessions')
                 => \E j \in DOMAIN sessions' : /\ sessions'[j].station = sessions[i].station
                                                /\ sessions'[j].on = sessions[i].on
<1>1. SessionsTyped /\ OneEach
  BY DEF SessionsInv
<1>2. PICK m \in Nat : \E at : PutIs(s, c, m, at)
  BY <1>1, PutDraws
<1>3. PICK at : PutIs(s, c, m, at)
  BY <1>2
<1>4. PICK new : new = [station |-> s, on |-> c, age |-> 0]
  OBVIOUS
<1>5. /\ m < MaxSessions /\ sessions' = [i \in 1 .. m + 1 |-> IF i <= m THEN sessions[at[i]] ELSE new]
      /\ Drawn(sessions', at, m) /\ \A i \in 1 .. m : sessions[at[i]].station # s
  BY <1>3, <1>4, Zenon DEF PutIs
<1>6. /\ DOMAIN sessions' = 1 .. m + 1 /\ sessions'[m + 1] = new
      /\ \A i \in 1 .. m : sessions'[i] = sessions[at[i]] /\ at[i] \in DOMAIN sessions
  <2>1. m + 1 \in 1 .. m + 1 /\ ~ (m + 1 <= m)
    OBVIOUS
  <2>2. at \in [1 .. m -> DOMAIN sessions] /\ \A i \in 1 .. m : sessions'[i] = sessions[at[i]]
    BY <1>5 DEF Drawn
  <2> QED
    BY <1>5, <2>1, <2>2
<1>7. ASSUME NEW e \in SessionsEntries PROVE e \in SessionsEntries'
  BY <1>7 DEF SessionsEntries
<1>8. new \in SessionsEntries'
  BY <1>4, SessionsAssumption DEF SessionsEntries
<1>9. \A i \in 1 .. m + 1 : sessions'[i] \in SessionsEntries'
  <2> SUFFICES ASSUME NEW i \in 1 .. m + 1 PROVE sessions'[i] \in SessionsEntries'
    OBVIOUS
  <2>1. CASE i = m + 1
    BY <1>6, <1>8, <2>1
  <2>2. CASE i # m + 1
    <3>1. i \in 1 .. m
      BY <2>2
    <3>2. sessions[at[i]] \in SessionsEntries
      BY <1>1, <1>6, <3>1, SomeEntries
    <3> QED
      BY <1>6, <1>7, <3>1, <3>2
  <2> QED
    BY <2>1, <2>2
<1>10. sessions' \in Seq(SessionsEntries') /\ Len(sessions') = m + 1
  <2>1. PICK R : R = SessionsEntries'
    OBVIOUS
  <2>2. sessions' \in [1 .. m + 1 -> R]
    BY <1>5, <1>6, <1>9, <2>1
  <2>3. sessions' \in Seq(R) /\ Len(sessions') = m + 1
    BY <2>2
  <2> QED
    BY <2>1, <2>3
<1>11. OneEach'
  <2>1. /\ \A i, j \in 1 .. m : sessions'[i].station = sessions'[j].station => i = j
        /\ \A i, j \in 1 .. m : i < j => sessions'[i].age >= sessions'[j].age
    BY <1>1, <1>5, DrawnOneEach
  <2>2. \A i \in 1 .. m : sessions'[i].station # s /\ sessions'[i].age \in Nat
    BY <1>1, <1>5, <1>6, SessionFields
  <2>3. sessions'[m + 1].station = s /\ sessions'[m + 1].age = 0 /\ sessions'[m + 1].on = c
    BY <1>4, <1>6
  <2>4. m + 1 <= MaxSessions
    BY <1>5, SessionsAssumption
  <2>5. ASSUME NEW i \in 1 .. m + 1, NEW j \in 1 .. m + 1
        PROVE  /\ sessions'[i].station = sessions'[j].station => i = j
               /\ i < j => sessions'[i].age >= sessions'[j].age
    <3>1. (i \in 1 .. m \/ i = m + 1) /\ (j \in 1 .. m \/ j = m + 1)
      OBVIOUS
    <3>2. CASE i \in 1 .. m /\ j \in 1 .. m
      BY <2>1, <3>2
    <3>3. CASE i \in 1 .. m /\ j = m + 1
      BY <2>2, <2>3, <3>3
    <3>4. CASE i = m + 1 /\ j \in 1 .. m
      BY <2>2, <2>3, <3>4
    <3>5. CASE i = m + 1 /\ j = m + 1
      BY <3>5
    <3> QED
      BY <3>1, <3>2, <3>3, <3>4, <3>5
  <2>6. ASSUME NEW i \in 1 .. m + 1
        PROVE  clients'[sessions'[i].on].of = sessions'[i].station
    <3>1. CASE i = m + 1
      BY <2>3, <3>1
    <3>2. CASE i # m + 1
      <4>1. i \in 1 .. m /\ sessions'[i] = sessions[at[i]] /\ at[i] \in DOMAIN sessions
        BY <1>6, <3>2
      <4>2. sessions[at[i]].on \in Store!Conn /\ clients[sessions[at[i]].on].of = sessions[at[i]].station
        BY <1>1, <4>1, SessionFields DEF OneEach
      <4> QED
        BY <4>1, <4>2
    <3> QED
      BY <3>1, <3>2
  <2> QED
    BY <1>6, <1>10, <2>4, <2>5, <2>6 DEF OneEach
<1>12. \E j \in DOMAIN sessions' : sessions'[j].station = s /\ sessions'[j].on = c
  <2>1. m + 1 \in DOMAIN sessions' /\ sessions'[m + 1].station = s /\ sessions'[m + 1].on = c
    BY <1>4, <1>6
  <2> QED
    BY <2>1
<1>13. ASSUME NEW i \in DOMAIN sessions, sessions[i].station # s, sessions[i].station \in Store!Kept(sessions')
       PROVE  \E j \in DOMAIN sessions' : /\ sessions'[j].station = sessions[i].station
                                          /\ sessions'[j].on = sessions[i].on
  <2>1. PICK j \in DOMAIN sessions' : sessions'[j].station = sessions[i].station
    BY <1>13 DEF Store!Kept
  <2>2. j # m + 1
    BY <1>4, <1>6, <1>13, <2>1
  <2>3. j \in 1 .. m /\ sessions'[j] = sessions[at[j]] /\ at[j] \in DOMAIN sessions
    BY <1>6, <2>2
  <2>4. at[j] = i
    BY <1>1, <2>1, <2>3 DEF OneEach
  <2> QED
    BY <2>1, <2>3, <2>4
<1> QED
  BY <1>10, <1>11, <1>12, <1>13

(* Stations whose session is pushed out count as having lost it, so those  *)
(* that have not keep theirs.                                              *)
LEMMA OthersOfLast ==
    ASSUME SessionsInv, NEW s \in Visitor, NEW c \in Store!Conn, clients[c].of # s,
           \A i \in DOMAIN sessions :
              sessions[i].station # s /\ sessions[i].station \in Store!Kept(sessions')
              => \E j \in DOMAIN sessions' : /\ sessions'[j].station = sessions[i].station
                                             /\ sessions'[j].on = sessions[i].on,
           clients[c].of \notin overwritten,
           clients[c].of \notin Store!Kept(sessions) \ Store!Kept(sessions'),
           \A d \in Store!Conn : clients[d].of = clients[c].of => d <= c
    PROVE  \E j \in DOMAIN sessions' : sessions'[j].station = clients[c].of /\ sessions'[j].on = c
<1>1. PICK i \in DOMAIN sessions : sessions[i].station = clients[c].of /\ sessions[i].on = c
  BY DEF SessionsInv, OfLast
<1>2. sessions[i].station \in Store!Kept(sessions)
  BY DEF Store!Kept
<1>3. sessions[i].station \in Store!Kept(sessions') /\ sessions[i].station # s
  BY <1>1, <1>2
<1> QED
  BY <1>1, <1>3

LEMMA StoreMessageKeeps ==
    ASSUME SessionsInv, NEW c \in Store!Conn, Store!Message(c)
    PROVE  SessionsInv'
<1>1. SessionsTyped /\ OneEach /\ OfLast /\ Store!Restored
  BY DEF SessionsInv
<1>2. PICK s \in Visitor : s = clients[c].of
  BY <1>1, SessionFields
<1>3. /\ clients' = clients /\ writes' = writes /\ sessions' = Store!Put(s, c)
      /\ overwritten' = (IF c \in Store!Newest(s) THEN overwritten \ {s} ELSE overwritten \cup {s})
                        \cup (Store!Kept(sessions) \ Store!Kept(sessions'))
  BY <1>2 DEF Store!Message
<1>4. Store!Conn' = Store!Conn
  BY <1>3 DEF Store!Conn
<1>5. /\ sessions' \in Seq(SessionsEntries') /\ OneEach'
      /\ \E j \in DOMAIN sessions' : sessions'[j].station = s /\ sessions'[j].on = c
      /\ \A i \in DOMAIN sessions :
            sessions[i].station # s /\ sessions[i].station \in Store!Kept(sessions')
            => \E j \in DOMAIN sessions' : /\ sessions'[j].station = sessions[i].station
                                           /\ sessions'[j].on = sessions[i].on
  BY <1>2, <1>3, <1>4, PutKeeps
<1>6. SessionsTyped'
  <2>1. \A v \in Store!Kept(sessions) : v \in Visitor
    BY <1>1, SessionFields DEF Store!Kept
  <2>2. overwritten' \subseteq Visitor
    BY <1>1, <1>3, <2>1 DEF SessionsTyped
  <2>3. SessionsClients' = SessionsClients
    BY <1>3 DEF SessionsClients
  <2>4. clients \in Seq(SessionsClients) /\ writes \in Nat
    BY <1>1, TypedSessions
  <2>5. clients' \in Seq(SessionsClients') /\ writes' \in Nat
    BY <1>3, <2>3, <2>4, Zenon
  <2> QED
    BY <1>5, <2>2, <2>5, Zenon DEF SessionsTyped, SessionsClients, SessionsEntries
<1>7. OfLast'
  <2> SUFFICES ASSUME NEW d \in Store!Conn, clients[d].of \notin overwritten',
                      \A e \in Store!Conn : clients[e].of = clients[d].of => e <= d
               PROVE  \E j \in DOMAIN sessions' : sessions'[j].station = clients[d].of /\ sessions'[j].on = d
    BY <1>3, <1>4 DEF OfLast
  <2>1. CASE clients[d].of = s
    <3>1. c \in Store!Newest(s)
      BY <1>3, <2>1
    <3>2. d <= c /\ c <= d /\ c \in Nat /\ d \in Nat
      BY <1>1, <1>2, <2>1, <3>1, SessionFields DEF Store!Newest
    <3>3. c = d
      BY <3>2
    <3> QED
      BY <1>5, <2>1, <3>3
  <2>2. CASE clients[d].of # s
    <3>1. clients[d].of \notin overwritten /\ clients[d].of \notin Store!Kept(sessions) \ Store!Kept(sessions')
      BY <1>3, <2>2
    <3> QED
      BY <1>5, <2>2, <3>1, OthersOfLast
  <2> QED
    BY <2>1, <2>2
<1>8. Store!Restored'
  BY <1>1, <1>3, <1>4 DEF Store!Restored
<1> QED
  BY <1>5, <1>6, <1>7, <1>8 DEF SessionsInv

LEMMA StoreConnectKeeps ==
    ASSUME SessionsInv, NEW s \in Visitor, Store!Connect(s)
    PROVE  SessionsInv'
<1>1. SessionsTyped /\ OneEach /\ OfLast /\ Store!Restored
  BY DEF SessionsInv
<1>2. PICK c \in Nat : c = Len(clients) + 1
  BY <1>1, SessionFields
<1>3. PICK left : left = IF s \in overwritten THEN {} ELSE UNION {clients[d].data : d \in Store!Newest(s)}
  OBVIOUS
<1>4. PICK new : new = [of |-> s, data |-> Store!Found(s), left |-> left]
  OBVIOUS
<1>5. /\ clients' = Append(clients, new) /\ writes' = writes /\ sessions' = Store!Put(s, c)
      /\ overwritten' = (overwritten \ {s}) \cup (Store!Kept(sessions) \ Store!Kept(sessions'))
  BY <1>2, <1>3, <1>4 DEF Store!Connect
<1>6. /\ \A d \in Store!Conn : d \in Nat /\ clients[d].data \subseteq 1 .. writes
      /\ \A i \in DOMAIN sessions : sessions[i].on \in Store!Conn
  BY <1>1, SessionFields
<1>7. Store!Found(s) \subseteq 1 .. writes /\ left \subseteq 1 .. writes
  <2>1. Store!Found(s) \subseteq 1 .. writes
    BY <1>6 DEF Store!Found
  <2>2. left \subseteq 1 .. writes
    BY <1>3, <1>6 DEF Store!Newest
  <2> QED
    BY <2>1, <2>2
<1>8. left \subseteq Store!Found(s)
  <2> SUFFICES ASSUME NEW x \in left PROVE x \in Store!Found(s)
    OBVIOUS
  <2>1. s \notin overwritten
    BY <1>3
  <2>2. PICK d \in Store!Newest(s) : x \in clients[d].data
    BY <1>3
  <2>3. d \in Store!Conn /\ clients[d].of = s /\ \A e \in Store!Conn : clients[e].of = s => e <= d
    BY <2>2 DEF Store!Newest
  <2>4. PICK i \in DOMAIN sessions : sessions[i].station = s /\ sessions[i].on = d
    BY <1>1, <2>1, <2>3 DEF OfLast
  <2> QED
    BY <2>2, <2>4 DEF Store!Found
<1>9. new \in SessionsClients
  BY <1>4, <1>7 DEF SessionsClients
<1>10. /\ clients' \in Seq(SessionsClients) /\ Store!Conn' = 1 .. c /\ Store!Conn = 1 .. c - 1
       /\ clients'[c] = new /\ \A d \in Store!Conn : clients'[d] = clients[d]
  <2>1. PICK Q : Q = SessionsClients
    OBVIOUS
  <2>2. clients \in Seq(Q) /\ new \in Q
    BY <1>1, <1>9, <2>1, TypedSessions
  <2>3. PICK q \in Seq(Q) : q = Append(clients, new)
    <3>1. \A p \in Seq(Q), x \in Q : Append(p, x) \in Seq(Q)
      OBVIOUS
    <3> QED
      BY <2>2, <3>1
  <2>4. DOMAIN q = 1 .. c /\ q[c] = new /\ \A d \in 1 .. c - 1 : q[d] = clients[d]
    BY <1>2, <2>2, <2>3
  <2>5. Store!Conn = 1 .. c - 1
    BY <1>1, <1>2, SessionFields
  <2> QED
    BY <1>5, <2>1, <2>3, <2>4, <2>5 DEF Store!Conn
<1>11. c \in Store!Conn' /\ Store!Conn \subseteq Store!Conn' /\ clients'[c].of = s
  <2>1. c >= 1
    BY <1>1, <1>2, SessionFields
  <2> QED
    BY <1>4, <1>10, <2>1
<1>12. /\ sessions' \in Seq(SessionsEntries') /\ OneEach'
       /\ \E j \in DOMAIN sessions' : sessions'[j].station = s /\ sessions'[j].on = c
       /\ \A i \in DOMAIN sessions :
             sessions[i].station # s /\ sessions[i].station \in Store!Kept(sessions')
             => \E j \in DOMAIN sessions' : /\ sessions'[j].station = sessions[i].station
                                            /\ sessions'[j].on = sessions[i].on
  BY <1>5, <1>10, <1>11, PutKeeps
<1>13. SessionsTyped'
  <2>1. \A v \in Store!Kept(sessions) : v \in Visitor
    BY <1>1, SessionFields DEF Store!Kept
  <2>2. overwritten' \subseteq Visitor
    BY <1>1, <1>5, <2>1 DEF SessionsTyped
  <2>3. SessionsClients' = SessionsClients
    BY <1>5 DEF SessionsClients
  <2>4. writes \in Nat
    BY <1>1, TypedSessions
  <2>5. clients' \in Seq(SessionsClients') /\ writes' \in Nat
    BY <1>5, <1>10, <2>3, <2>4, Zenon
  <2> QED
    BY <1>12, <2>2, <2>5, Zenon DEF SessionsTyped, SessionsClients, SessionsEntries
<1>14. OfLast'
  <2> SUFFICES ASSUME NEW d \in Store!Conn', clients'[d].of \notin overwritten',
                      \A e \in Store!Conn' : clients'[e].of = clients'[d].of => e <= d
               PROVE  \E j \in DOMAIN sessions' : sessions'[j].station = clients'[d].of /\ sessions'[j].on = d
    BY DEF OfLast
  <2>1. CASE clients'[d].of = s
    <3>1. c <= d /\ d <= c /\ d \in Nat
      BY <1>10, <1>11, <2>1
    <3>3. c = d
      BY <3>1
    <3> QED
      BY <1>12, <2>1, <3>3
  <2>2. CASE clients'[d].of # s
    <3>1. d # c
      BY <1>11, <2>2
    <3>2. d \in Store!Conn
      BY <1>10, <3>1
    <3>3. clients'[d] = clients[d]
      BY <1>10, <3>2
    <3>4. clients[d].of \notin overwritten /\ clients[d].of \notin Store!Kept(sessions) \ Store!Kept(sessions')
      BY <1>5, <2>2, <3>3
    <3>5. \A e \in Store!Conn : clients[e].of = clients[d].of => e <= d
      BY <1>10, <1>11, <3>3
    <3> QED
      BY <1>12, <2>2, <3>2, <3>3, <3>4, <3>5, OthersOfLast
  <2> QED
    BY <2>1, <2>2
<1>15. Store!Restored'
  <2> SUFFICES ASSUME NEW d \in Store!Conn' PROVE clients'[d].left \subseteq clients'[d].data
    BY DEF Store!Restored
  <2>1. CASE d = c
    BY <1>4, <1>8, <1>10, <2>1
  <2>2. CASE d # c
    <3>1. d \in Store!Conn
      BY <1>10, <2>2
    <3> QED
      BY <1>1, <1>10, <3>1 DEF Store!Restored
  <2> QED
    BY <2>1, <2>2
<1> QED
  BY <1>12, <1>13, <1>14, <1>15 DEF SessionsInv

LEMMA WritesKeeps ==
    ASSUME SessionsInv, NEW c \in Store!Conn, Store!Writes(c)
    PROVE  SessionsInv'
<1>1. SessionsTyped /\ OneEach /\ OfLast /\ Store!Restored
  BY DEF SessionsInv
<1>2. /\ writes' = writes + 1 /\ sessions' = sessions /\ overwritten' = overwritten
      /\ clients' = [clients EXCEPT ![c].data = @ \cup {writes'}]
  BY DEF Store!Writes
<1>3. writes \in Nat /\ writes' \in Nat /\ 1 .. writes \subseteq 1 .. writes' /\ writes' \in 1 .. writes'
  BY <1>1, <1>2 DEF SessionsTyped
<1>4. /\ \A d \in Store!Conn : clients[d] \in SessionsClients
      /\ DOMAIN clients = 1 .. Len(clients) /\ Len(clients) \in Nat
  <2>1. PICK Q : Q = SessionsClients
    OBVIOUS
  <2>2. clients \in Seq(Q)
    BY <1>1, <2>1, TypedSessions
  <2> QED
    BY <2>1, <2>2 DEF Store!Conn
<1>5. /\ DOMAIN clients' = DOMAIN clients
      /\ \A d \in Store!Conn :
            clients'[d] = IF d = c THEN [clients[c] EXCEPT !.data = @ \cup {writes'}] ELSE clients[d]
  <2>1. PICK w : w = writes'
    OBVIOUS
  <2>2. clients' = [clients EXCEPT ![c].data = @ \cup {w}]
    BY <1>2, <2>1
  <2> QED
    BY <2>1, <2>2 DEF Store!Conn
<1>6. ASSUME NEW r \in SessionsClients
      PROVE  /\ r \in SessionsClients'
             /\ [r EXCEPT !.data = @ \cup {writes'}] \in SessionsClients'
             /\ [r EXCEPT !.data = @ \cup {writes'}].of = r.of
             /\ [r EXCEPT !.data = @ \cup {writes'}].left = r.left
             /\ r.data \subseteq [r EXCEPT !.data = @ \cup {writes'}].data
  <2>1. PICK A : A = 1 .. writes
    OBVIOUS
  <2>2. PICK B : B = 1 .. writes'
    OBVIOUS
  <2>3. PICK w : w = writes'
    OBVIOUS
  <2>4. r \in [of : Visitor, data : SUBSET A, left : SUBSET A]
    BY <2>1 DEF SessionsClients
  <2>5. A \subseteq B /\ w \in B
    BY <1>3, <2>1, <2>2, <2>3
  <2>6. /\ r \in [of : Visitor, data : SUBSET B, left : SUBSET B]
        /\ [r EXCEPT !.data = @ \cup {w}] \in [of : Visitor, data : SUBSET B, left : SUBSET B]
    BY <2>4, <2>5
  <2>7. SessionsClients' = [of : Visitor, data : SUBSET B, left : SUBSET B]
    BY <2>2 DEF SessionsClients
  <2>8. /\ [r EXCEPT !.data = @ \cup {w}].of = r.of
        /\ [r EXCEPT !.data = @ \cup {w}].left = r.left
        /\ r.data \subseteq [r EXCEPT !.data = @ \cup {w}].data
    BY <2>4
  <2> QED
    BY <2>3, <2>6, <2>7, <2>8
<1>7. \A d \in Store!Conn : /\ clients'[d] \in SessionsClients' /\ clients'[d].of = clients[d].of
                            /\ clients'[d].left = clients[d].left /\ clients[d].data \subseteq clients'[d].data
  BY <1>4, <1>5, <1>6
<1>8. Store!Conn' = Store!Conn
  BY <1>5 DEF Store!Conn
<1>9. SessionsTyped'
  <2>1. PICK Q : Q = SessionsClients'
    OBVIOUS
  <2>2. PICK p : p = clients'
    OBVIOUS
  <2>3. PICK n \in Nat : n = Len(clients)
    BY <1>4
  <2>4. DOMAIN p = 1 .. n /\ \A d \in 1 .. n : p[d] \in Q
    BY <1>4, <1>5, <1>7, <2>1, <2>2, <2>3 DEF Store!Conn
  <2>5. p = [d \in 1 .. n |-> p[d]]
    BY <1>2, <2>2, <2>4
  <2>6. p \in [1 .. n -> Q]
    BY <2>4, <2>5
  <2>7. p \in Seq(Q)
    BY <2>6
  <2>8. sessions \in Seq(SessionsEntries) /\ overwritten \subseteq Visitor
    BY <1>1, TypedSessions
  <2>9. SessionsEntries' = SessionsEntries
    BY <1>8 DEF SessionsEntries
  <2>10. sessions' \in Seq(SessionsEntries')
    BY <1>2, <2>8, <2>9, Zenon
  <2>11. clients' \in Seq(SessionsClients')
    BY <2>1, <2>2, <2>7
  <2>12. writes' \in Nat /\ overwritten' \subseteq Visitor
    BY <1>2, <1>3, <2>8
  <2> QED
    BY <2>10, <2>11, <2>12, Zenon DEF SessionsTyped, SessionsClients, SessionsEntries
<1>10. OneEach'
  <2>1. \A i \in DOMAIN sessions : sessions[i].on \in Store!Conn
    BY <1>1, SessionFields
  <2> QED
    BY <1>1, <1>2, <1>7, <2>1 DEF OneEach
<1>11. OfLast'
  BY <1>1, <1>2, <1>7, <1>8 DEF OfLast
<1>12. Store!Restored'
  <2>1. \A d \in Store!Conn : clients[d].left \subseteq clients[d].data
    BY <1>1 DEF Store!Restored
  <2>2. \A d \in Store!Conn' : clients'[d].left \subseteq clients'[d].data
    BY <1>7, <1>8, <2>1
  <2> QED
    BY <2>2 DEF Store!Restored
<1> QED
  BY <1>9, <1>10, <1>11, <1>12 DEF SessionsInv

LEMMA TimePassesKeeps ==
    ASSUME SessionsInv, Store!TimePasses
    PROVE  SessionsInv'
<1>1. SessionsTyped /\ OneEach /\ OfLast /\ Store!Restored
  BY DEF SessionsInv
<1>2. /\ sessions' = [i \in DOMAIN sessions |-> Store!Older(sessions[i])]
      /\ clients' = clients /\ writes' = writes /\ overwritten' = overwritten
  BY DEF Store!TimePasses
<1>3. \A i \in DOMAIN sessions : sessions[i] \in SessionsEntries
  BY <1>1, SomeEntries
<1>4. ASSUME NEW e \in SessionsEntries
      PROVE  /\ Store!Older(e) \in SessionsEntries
             /\ Store!Older(e).station = e.station /\ Store!Older(e).on = e.on
             /\ Store!Older(e).age = (IF e.age > Ttl THEN e.age ELSE e.age + 1)
             /\ e.age \in Nat
  <2>1. PICK C : C = Store!Conn
    OBVIOUS
  <2>2. e \in [station : Visitor, on : C, age : 0 .. Ttl + 1]
    BY <2>1 DEF SessionsEntries
  <2>3. PICK a \in 0 .. Ttl + 1 : a = IF e.age > Ttl THEN e.age ELSE e.age + 1
    BY <2>2, SessionsAssumption
  <2>4. Store!Older(e) = [e EXCEPT !.age = a]
    BY <2>3, Zenon DEF Store!Older
  <2>5. /\ [e EXCEPT !.age = a] \in [station : Visitor, on : C, age : 0 .. Ttl + 1]
        /\ [e EXCEPT !.age = a].station = e.station /\ [e EXCEPT !.age = a].on = e.on
        /\ [e EXCEPT !.age = a].age = a
    BY <2>2
  <2>6. e.age \in Nat
    BY <2>2, SessionsAssumption
  <2> QED
    BY <2>1, <2>3, <2>4, <2>5, <2>6 DEF SessionsEntries
<1>5. /\ DOMAIN sessions' = DOMAIN sessions
      /\ \A i \in DOMAIN sessions :
            /\ sessions'[i] \in SessionsEntries
            /\ sessions'[i].station = sessions[i].station /\ sessions'[i].on = sessions[i].on
            /\ sessions'[i].age = (IF sessions[i].age > Ttl THEN sessions[i].age ELSE sessions[i].age + 1)
            /\ sessions[i].age \in Nat
  BY <1>2, <1>3, <1>4
<1>6. Store!Conn' = Store!Conn
  BY <1>2 DEF Store!Conn
<1>7. Len(sessions) \in Nat /\ DOMAIN sessions = 1 .. Len(sessions)
  BY <1>1, SessionFields
<1>8. sessions' \in Seq(SessionsEntries') /\ Len(sessions') = Len(sessions)
  <2>1. PICK R : R = SessionsEntries
    OBVIOUS
  <2>2. PICK n \in Nat : n = Len(sessions)
    BY <1>7
  <2>3. sessions' \in [1 .. n -> R]
    BY <1>2, <1>5, <1>7, <2>1, <2>2
  <2>4. sessions' \in Seq(R) /\ Len(sessions') = n
    BY <2>3
  <2>5. SessionsEntries' = SessionsEntries
    BY <1>6 DEF SessionsEntries
  <2> QED
    BY <2>1, <2>2, <2>4, <2>5
<1>9. SessionsTyped'
  <2>1. clients \in Seq(SessionsClients) /\ writes \in Nat /\ overwritten \subseteq Visitor
    BY <1>1, TypedSessions
  <2>2. SessionsClients' = SessionsClients
    BY <1>2 DEF SessionsClients
  <2>3. clients' \in Seq(SessionsClients') /\ writes' \in Nat /\ overwritten' \subseteq Visitor
    BY <1>2, <2>1, <2>2, Zenon
  <2> QED
    BY <1>8, <2>3, Zenon DEF SessionsTyped, SessionsClients, SessionsEntries
<1>10. OneEach'
  <2>1. \A i, j \in DOMAIN sessions' : i < j => sessions'[i].age >= sessions'[j].age
    <3> SUFFICES ASSUME NEW i \in DOMAIN sessions, NEW j \in DOMAIN sessions, i < j
                 PROVE  sessions'[i].age >= sessions'[j].age
      BY <1>5
    <3>1. sessions[i].age >= sessions[j].age
      BY <1>1 DEF OneEach
    <3> QED
      BY <1>5, <3>1, SessionsAssumption
  <2>2. \A i, j \in DOMAIN sessions' : sessions'[i].station = sessions'[j].station => i = j
    BY <1>1, <1>5 DEF OneEach
  <2>3. \A i \in DOMAIN sessions' : clients'[sessions'[i].on].of = sessions'[i].station
    BY <1>1, <1>2, <1>5 DEF OneEach
  <2>4. Len(sessions') <= MaxSessions
    BY <1>1, <1>8 DEF OneEach
  <2> QED
    BY <2>1, <2>2, <2>3, <2>4 DEF OneEach
<1>11. OfLast'
  BY <1>1, <1>2, <1>5, <1>6 DEF OfLast
<1>12. Store!Restored'
  BY <1>1, <1>2, <1>6 DEF Store!Restored
<1> QED
  BY <1>9, <1>10, <1>11, <1>12 DEF SessionsInv

LEMMA StoreCardinality == \A S : Store!Cardinality(S) = Cardinality(S)
  BY DEF Store!Cardinality, Cardinality

LEMMA CollectKeeps ==
    ASSUME SessionsInv, Store!Collect
    PROVE  SessionsInv'
<1>1. SessionsTyped /\ OneEach /\ OfLast /\ Store!Restored
  BY DEF SessionsInv
<1>2. PICK young : young = {i \in DOMAIN sessions : sessions[i].age <= Ttl}
  OBVIOUS
<1>3. PICK n \in Nat : n = Len(sessions) /\ DOMAIN sessions = 1 .. n
  BY <1>1, SessionFields
<1>4. IsFiniteSet(1 .. n) /\ Cardinality(1 .. n) = n
  BY FS_Interval
<1>5. young \subseteq 1 .. n
  BY <1>2, <1>3
<1>6. PICK k \in Nat : k = Cardinality(young) /\ k <= n
  <2>1. IsFiniteSet(young) /\ Cardinality(young) <= n
    BY <1>4, <1>5, FS_Subset
  <2>2. Cardinality(young) \in Nat
    BY <2>1, FS_CardinalityType
  <2> QED
    BY <2>1, <2>2
<1>7. PICK at \in [1 .. k -> young] : /\ \A i, j \in DOMAIN at : i < j => at[i] < at[j]
                                      /\ sessions' = [i \in DOMAIN at |-> sessions[at[i]]]
  BY <1>2, <1>6, StoreCardinality DEF Store!Collect
<1>8. /\ clients' = clients /\ writes' = writes
      /\ overwritten' = overwritten \cup (Store!Kept(sessions) \ Store!Kept(sessions'))
  BY DEF Store!Collect
<1>9. /\ DOMAIN sessions' = 1 .. k
      /\ \A i \in 1 .. k : at[i] \in DOMAIN sessions /\ sessions'[i] = sessions[at[i]]
  BY <1>3, <1>5, <1>7
<1>10. Drawn(sessions', at, k)
  BY <1>3, <1>5, <1>7, <1>9 DEF Drawn
<1>11. Store!Conn' = Store!Conn
  BY <1>8 DEF Store!Conn
<1>12. sessions' \in Seq(SessionsEntries') /\ Len(sessions') = k
  <2>1. PICK R : R = SessionsEntries
    OBVIOUS
  <2>2. \A i \in 1 .. k : sessions'[i] \in R
    BY <1>1, <1>9, <2>1, SomeEntries
  <2>3. sessions' = [i \in 1 .. k |-> sessions[at[i]]]
    BY <1>7
  <2>4. sessions' \in [1 .. k -> R]
    BY <2>2, <2>3
  <2>5. sessions' \in Seq(R) /\ Len(sessions') = k
    BY <2>4
  <2>6. SessionsEntries' = SessionsEntries
    BY <1>11 DEF SessionsEntries
  <2> QED
    BY <2>1, <2>5, <2>6
<1>13. SessionsTyped'
  <2>1. \A v \in Store!Kept(sessions) : v \in Visitor
    BY <1>1, SessionFields DEF Store!Kept
  <2>2. clients \in Seq(SessionsClients) /\ writes \in Nat /\ overwritten \subseteq Visitor
    BY <1>1, TypedSessions
  <2>3. SessionsClients' = SessionsClients
    BY <1>8 DEF SessionsClients
  <2>4. clients' \in Seq(SessionsClients') /\ writes' \in Nat
    BY <1>8, <2>2, <2>3, Zenon
  <2>5. overwritten' \subseteq Visitor
    BY <1>8, <2>1, <2>2
  <2> QED
    BY <1>12, <2>4, <2>5, Zenon DEF SessionsTyped, SessionsClients, SessionsEntries
<1>14. OneEach'
  <2>1. /\ \A i, j \in 1 .. k : sessions'[i].station = sessions'[j].station => i = j
        /\ \A i, j \in 1 .. k : i < j => sessions'[i].age >= sessions'[j].age
    BY <1>1, <1>10, DrawnOneEach
  <2>2. Len(sessions') <= MaxSessions
    BY <1>1, <1>3, <1>6, <1>12, SessionsAssumption DEF OneEach
  <2>3. \A i \in 1 .. k : clients'[sessions'[i].on].of = sessions'[i].station
    BY <1>1, <1>8, <1>9 DEF OneEach
  <2> QED
    BY <1>9, <2>1, <2>2, <2>3 DEF OneEach
<1>15. OfLast'
  <2> SUFFICES ASSUME NEW d \in Store!Conn, clients[d].of \notin overwritten',
                      \A e \in Store!Conn : clients[e].of = clients[d].of => e <= d
               PROVE  \E j \in DOMAIN sessions' : sessions'[j].station = clients[d].of /\ sessions'[j].on = d
    BY <1>8, <1>11 DEF OfLast
  <2>1. PICK i \in DOMAIN sessions : sessions[i].station = clients[d].of /\ sessions[i].on = d
    BY <1>1, <1>8 DEF OfLast
  <2>2. sessions[i].station \in Store!Kept(sessions)
    BY DEF Store!Kept
  <2>3. sessions[i].station \in Store!Kept(sessions')
    BY <1>8, <2>1, <2>2
  <2>4. PICK j \in DOMAIN sessions' : sessions'[j].station = sessions[i].station
    BY <2>3 DEF Store!Kept
  <2>5. at[j] = i
    BY <1>1, <1>9, <2>4 DEF OneEach
  <2> QED
    BY <1>9, <2>1, <2>4, <2>5
<1>16. Store!Restored'
  BY <1>1, <1>8, <1>11 DEF Store!Restored
<1> QED
  BY <1>13, <1>14, <1>15, <1>16 DEF SessionsInv

LEMMA SessionsStep == SessionsInv /\ [Store!Next]_sessionVars => SessionsInv'
<1> SUFFICES ASSUME SessionsInv, [Store!Next]_sessionVars PROVE SessionsInv'
  OBVIOUS
<1>1. CASE \E s \in Visitor : Store!Connect(s)
  BY <1>1, StoreConnectKeeps
<1>2. CASE \E c \in Store!Conn : Store!Message(c)
  BY <1>2, StoreMessageKeeps
<1>3. CASE \E c \in Store!Conn : Store!Writes(c)
  BY <1>3, WritesKeeps
<1>4. CASE Store!TimePasses
  BY <1>4, TimePassesKeeps
<1>5. CASE Store!Collect
  BY <1>5, CollectKeeps
<1>6. CASE UNCHANGED sessionVars
  <2>1. clients' = clients /\ sessions' = sessions /\ writes' = writes /\ overwritten' = overwritten
    BY <1>6 DEF sessionVars
  <2> QED
    BY <2>1, Zenon DEF SessionsInv, SessionsTyped, OneEach, OfLast, Store!Restored, Store!Conn
<1> QED
  BY <1>1, <1>2, <1>3, <1>4, <1>5, <1>6, Zenon DEF Store!Next

LEMMA SessionsInit == Store!Init => SessionsInv
<1> SUFFICES ASSUME Store!Init PROVE SessionsInv
  OBVIOUS
<1>1. clients = <<>> /\ sessions = <<>> /\ writes = 0 /\ overwritten = {}
  BY DEF Store!Init
<1>2. Store!Conn = {} /\ DOMAIN sessions = {} /\ Len(sessions) = 0
  BY <1>1 DEF Store!Conn
<1>3. SessionsTyped
  <2>1. \A Q : <<>> \in Seq(Q)
    OBVIOUS
  <2>2. clients \in Seq(SessionsClients) /\ sessions \in Seq(SessionsEntries)
    BY <1>1, <2>1
  <2> QED
    BY <1>1, <2>2, TypedSessions
<1>4. OneEach
  BY <1>2, SessionsAssumption DEF OneEach
<1> QED
  BY <1>2, <1>3, <1>4 DEF SessionsInv, OfLast, Store!Restored

LEMMA SessionsAreFound == SessionsInv => Store!SessionsKept
<1> SUFFICES ASSUME SessionsInv PROVE Store!SessionsKept
  OBVIOUS
<1>1. SessionsTyped /\ OneEach /\ Store!Restored
  BY DEF SessionsInv
<1>2. Store!TypeOK
  <2>1. \A i \in DOMAIN sessions : sessions[i] \in SessionsEntries
    BY <1>1, SomeEntries
  <2>2. \A c \in Store!Conn : clients[c] \in SessionsClients
    <3>1. PICK Q : Q = SessionsClients
      OBVIOUS
    <3>2. clients \in Seq(Q)
      BY <1>1, <3>1, TypedSessions
    <3> QED
      BY <3>1, <3>2 DEF Store!Conn
  <2>3. writes \in Nat /\ overwritten \subseteq Visitor
    BY <1>1 DEF SessionsTyped
  <2> QED
    BY <2>1, <2>2, <2>3, Zenon DEF Store!TypeOK, SessionsEntries, SessionsClients
<1>3. Store!Cardinality(Store!Kept(sessions)) = Len(sessions)
  <2>1. PICK n \in Nat : n = Len(sessions) /\ DOMAIN sessions = 1 .. n
    BY <1>1, SessionFields
  <2>2. PICK f : f = [i \in 1 .. n |-> sessions[i].station]
    OBVIOUS
  <2>3. PICK K : K = Store!Kept(sessions)
    OBVIOUS
  <2>4. f \in Bijection(1 .. n, K)
    <3>1. \A x \in K : \E i \in 1 .. n : f[i] = x
      BY <2>1, <2>2, <2>3 DEF Store!Kept
    <3>2. \A i \in 1 .. n : f[i] \in K
      BY <2>1, <2>2, <2>3 DEF Store!Kept
    <3>3. \A i, j \in 1 .. n : f[i] = f[j] => i = j
      BY <1>1, <2>1, <2>2 DEF OneEach
    <3> QED
      BY <2>2, <3>1, <3>2, <3>3 DEF Bijection, Injection, Surjection, IsInjective
  <2>5. Cardinality(K) = n
    BY <2>4, FS_CountingElements DEF ExistsBijection
  <2> QED
    BY <2>1, <2>3, <2>5, StoreCardinality
<1>4. Store!LeastRecentFirst
  BY <1>1, <1>3 DEF Store!LeastRecentFirst, OneEach
<1> QED
  BY <1>1, <1>2, <1>4 DEF Store!SessionsKept

-----------------------------------------------------------------------------
(* The parts together                                                      *)

safeVars == <<part, vars, breakerVars, proxyVars, limitsVars, routesVars, engineVars, recordsVars,
              sessionVars>>

(* A step is one of the part the behaviour is of, and the others rest.     *)
LEMMA PartSteps ==
    ASSUME [NextParts]_safeVars
    PROVE  /\ part' = part
           /\ [Next]_vars
           /\ part = "breaker" => [Breaker!Next]_breakerVars
           /\ part = "proxy" => [Proxy!Next]_proxyVars
           /\ part = "limits" => [Limits!Next]_limitsVars
           /\ part = "engine" => [Engine!Next]_engineVars
           /\ part = "records" => [Records!Next]_recordsVars
           /\ part = "sessions" => [Store!Next]_sessionVars
  BY DEF NextParts, safeVars

(* Silence and nothing else ends a connection, and it does, for any        *)
(* interval and timeouts (client.ts:1786-1825,1040,1515-1516).             *)
THEOREM PeersAreAlwaysWatched == SpecParts => []PeersWatched
<1>1. InitParts => KeepAliveInv
  BY KeepAliveInit DEF InitParts
<1>2. KeepAliveInv /\ [NextParts]_safeVars => KeepAliveInv'
  BY PartSteps, KeepAliveStep
<1> QED
  BY <1>1, <1>2, PeersAreWatched, PTL DEF SpecParts, safeVars

(* A circuit opens at its threshold, counts its calls and is not closed by *)
(* an old one, for any number of calls, stations and thresholds            *)
(* (plugins/circuit-breaker.ts:103-207).                                   *)
THEOREM CircuitsAreSound == SpecParts => []BreakerSound
<1> DEFINE Inv == part = "breaker" => BreakerInv
<1>1. InitParts => Inv
  BY BreakerInit DEF InitParts
<1>2. Inv /\ [NextParts]_safeVars => Inv'
  BY PartSteps, BreakerStep
<1>3. Inv => BreakerSound
  BY DEF BreakerSound, BreakerInv
<1> QED
  BY <1>1, <1>2, <1>3, PTL DEF SpecParts, safeVars

(* A message of the station or of the CSMS never reaches another           *)
(* transaction than the one it is about, for any transactions, connections *)
(* and late answers, unless a start was forwarded late                     *)
(* (presets/core.ts:51-244).                                               *)
THEOREM NumbersAlwaysMatch == SpecParts => []NumbersMatch
<1> DEFINE Inv == part = "proxy" => ProxyInv
<1>1. InitParts => Inv
  BY ProxyInit DEF InitParts
<1>2. Inv /\ [NextParts]_safeVars => Inv'
  BY PartSteps, ProxyStep
<1>3. Inv => NumbersMatch
  BY ProxyNumbersMatch DEF NumbersMatch
<1> QED
  BY <1>1, <1>2, <1>3, PTL DEF SpecParts, safeVars

(* No burst passes more than a bucket and its refill, for any limits,      *)
(* windows and cooldowns (server.ts:850-890,1546-1558,                     *)
(* server-client.ts:76-122).                                               *)
THEOREM LimitsAlwaysHold == SpecParts => []LimitsHold
<1> DEFINE Inv == part = "limits" => LimitsInv
<1>1. InitParts => Inv
  BY LimitsInit DEF InitParts
<1>2. Inv /\ [NextParts]_safeVars => Inv'
  BY PartSteps, LimitsStep
<1>3. Inv => LimitsHold
  BY LimitsAreHeld DEF LimitsHold
<1> QED
  BY <1>1, <1>2, <1>3, PTL DEF SpecParts, safeVars

(* The simulated charge point knows its open transaction, whatever its     *)
(* sockets, timers and the operator do (cli/src/simulator/Engine.ts:       *)
(* 972-1236).                                                              *)
THEOREM TransactionsAreKept == SpecParts => []TransactionsKept
<1> DEFINE Inv == part = "engine" => EngineInv
<1>1. InitParts => Inv
  BY EngineInit DEF InitParts
<1>2. Inv /\ [NextParts]_safeVars => Inv'
  BY PartSteps, EngineStep
<1>3. Inv => TransactionsKept
  BY EngineIsKept DEF TransactionsKept
<1> QED
  BY <1>1, <1>2, <1>3, PTL DEF SpecParts, safeVars

(* What plugins remember under an identity is true of its connections, for *)
(* any number of stations and connections (plugins/connection-guard.ts:    *)
(* 75-114, plugins/metrics.ts:182-200, plugins/otel.ts:101-126,            *)
(* ocpp-ws-board store.ts:126-176).                                        *)
THEOREM RecordsAreAlwaysTrue == SpecParts => []RecordsTrue
<1> DEFINE Inv == part = "records" => RecordsInv
<1>1. InitParts => Inv
  BY RecordsInit DEF InitParts
<1>2. Inv /\ [NextParts]_safeVars => Inv'
  BY PartSteps, RecordsStep
<1>3. Inv => RecordsTrue
  BY RecordsAreTrue DEF RecordsTrue
<1> QED
  BY <1>1, <1>2, <1>3, PTL DEF SpecParts, safeVars

(* A station that connects again finds what its last connection left, for  *)
(* any number of stations, connections and writes, any limit of the map    *)
(* and any lifetime (server.ts:163-171,1325-1343,1524-1538,                *)
(* lru-map.ts:33-62).                                                      *)
THEOREM SessionsAreKept == SpecParts => []SessionsKept
<1> DEFINE Inv == part = "sessions" => SessionsInv
<1>1. InitParts => Inv
  BY SessionsInit DEF InitParts
<1>2. Inv /\ [NextParts]_safeVars => Inv'
  BY PartSteps, SessionsStep
<1>3. Inv => SessionsKept
  BY SessionsAreFound DEF SessionsKept
<1> QED
  BY <1>1, <1>2, <1>3, PTL DEF SpecParts, safeVars

=============================================================================
