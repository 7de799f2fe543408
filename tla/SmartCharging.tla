----------------------------- MODULE SmartCharging -----------------------------
(***************************************************************************)
(* The smart charge engine (packages/ocpp-smart-charge-engine/src/         *)
(* engine.ts): the sessions of a site, the settings that may change while  *)
(* it runs, and the dispatch of profiles to the chargers.                  *)
(*                                                                         *)
(* The dispatcher is a function of the application that sends a profile to *)
(* a charger.  Its promise settles when the charger has answered or the    *)
(* request has failed, and not before the charger is done with it.  Clear  *)
(* requests, which the engine sends and forgets, change nothing in it.     *)
(***************************************************************************)
EXTENDS ChargingProfiles

CONSTANTS
    Tx,             \* the transactions
    Terms,          \* what a session may ask for: records of cap, min and priority
    NoSession,      \* no session of a transaction
    Grids,          \* values of maxGridPowerKw, in hundredths of a kW
    Margins,        \* values of safetyMarginPct
    PeakPct,        \* peakPowerMultiplier of the Time-of-Use windows, in percent
    Snapshots       \* what loadSnapshot may be given

ASSUME SettingsAssumption ==
    Grids \subseteq Nat \ {0} /\ Margins \subseteq 0 .. 99 /\ PeakPct \in 0 .. 100
ASSUME TermsAssumption ==
    /\ Terms \subseteq [cap : Nat, min : Nat, priority : Nat] /\ NoSession \notin Terms
    /\ Snapshots \subseteq [Tx -> Terms \cup {NoSession}]
    /\ IsFiniteSet(Tx)

VARIABLES
    sessions,   \* the sessions map
    grid,       \* gridLimitKw
    margin,     \* safetyMarginPct
    strategy,   \* strategyFn
    windows,    \* are there timeOfUseWindows?
    peak,       \* is the present hour within one?
    auto,       \* is the timer of startAutoDispatch running?
    run,        \* the run in dispatchInFlight: "none", or how far it is
    pending,    \* dispatchPending
    sent,       \* requests to chargers under way, of this run or an earlier one
    unserved    \* was dispatch() called since the last run took its sessions?

settings == <<grid, margin, strategy, windows, peak>>
runVars  == <<run, pending, sent, unserved>>
vars     == <<sessions, settings, auto, runVars>>

\* A request to the charger of a transaction.
Requests == Tx \X {"this run", "earlier"}

Algorithm == {"EQUAL_SHARE", "PRIORITY", "TIME_OF_USE", "CUSTOM"}

TypeOK ==
    /\ sessions \in [Tx -> Terms \cup {NoSession}]
    /\ grid \in Grids /\ margin \in Margins
    /\ strategy \in Algorithm
    /\ windows \in BOOLEAN /\ peak \in BOOLEAN /\ auto \in BOOLEAN
    /\ run \in {"none", "sending", "ending"}
    /\ pending \in BOOLEAN /\ unserved \in BOOLEAN
    /\ sent \subseteq Requests

Init ==
    /\ sessions = [t \in Tx |-> NoSession]
    /\ grid \in Grids /\ margin \in Margins
    /\ windows \in BOOLEAN /\ peak = FALSE
    /\ strategy \in Algorithm \ (IF windows THEN {} ELSE {"TIME_OF_USE"})
    /\ auto = FALSE
    /\ run = "none" /\ pending = FALSE /\ sent = {} /\ unserved = FALSE

-----------------------------------------------------------------------------
(* optimize() *)

Present == {t \in Tx : sessions[t] # NoSession}

\* In parts of a hundredth of a kW.
EffectiveLimit == (grid * (100 - margin) * Parts) \div 100

\* What the strategies divide: during a peak the Time-of-Use strategy takes a
\* part of the limit.
StrategyLimit ==
    IF strategy = "TIME_OF_USE" /\ peak THEN (EffectiveLimit * PeakPct) \div 100 ELSE EffectiveLimit

Caps    == [t \in Present |-> sessions[t].cap * Parts]
Weights == [t \in Present |-> IF strategy = "PRIORITY" THEN sessions[t].priority ELSE 1]
Shares  == WaterFill(Present, Caps, Weights, StrategyLimit)

\* The profiles of a run.  What a function of the user would return is taken to
\* be equal shares.
Optimized == EnforceGridBudget([t \in Present |-> BuildProfile(sessions[t], Shares[t])], EffectiveLimit)

-----------------------------------------------------------------------------
(* Sessions *)

AddSession(t, terms) ==
    /\ sessions[t] = NoSession
    /\ sessions' = [sessions EXCEPT ![t] = terms]
    /\ UNCHANGED <<settings, auto, runVars>>

UpdateSession(t, terms) ==
    /\ sessions[t] # NoSession
    /\ sessions' = [sessions EXCEPT ![t] = terms]
    /\ UNCHANGED <<settings, auto, runVars>>

RemoveSession(t) ==
    /\ sessions[t] # NoSession
    /\ sessions' = [sessions EXCEPT ![t] = NoSession]
    /\ UNCHANGED <<settings, auto, runVars>>

\* loadSnapshot() of sessions with these terms, replacing all or merged.
LoadSnapshot(snapshot, clear) ==
    /\ sessions' = [t \in Tx |-> IF snapshot[t] # NoSession THEN snapshot[t]
                                 ELSE IF clear THEN NoSession ELSE sessions[t]]
    /\ UNCHANGED <<settings, auto, runVars>>

-----------------------------------------------------------------------------
(* Settings *)

SetGridLimit(g) ==
    /\ grid' = g
    /\ UNCHANGED <<sessions, margin, strategy, windows, peak, auto, runVars>>

SetSafetyMargin(m) ==
    /\ margin' = m
    /\ UNCHANGED <<sessions, grid, strategy, windows, peak, auto, runVars>>

\* With Time-of-Use windows in the call or not; without any it throws, and the old
\* strategy stays.  (The label in `algorithm', which only `config' shows, is set
\* before it throws.)
SetAlgorithm(a, given) ==
    /\ windows' = (windows \/ (a = "TIME_OF_USE" /\ given))
    /\ a = "TIME_OF_USE" => windows'
    /\ strategy' = a
    /\ UNCHANGED <<sessions, grid, margin, peak, auto, runVars>>

PeakBeginsOrEnds ==
    /\ peak' = ~peak
    /\ UNCHANGED <<sessions, grid, margin, strategy, windows, auto, runVars>>

StartOrStopAutoDispatch ==
    /\ auto' = ~auto
    /\ UNCHANGED <<sessions, settings, runVars>>

-----------------------------------------------------------------------------
(* dispatch() *)

\* _runDispatch up to its await: the profiles are computed and all requests sent.
\* A function of the user may throw, which ends the run.
BeginRun ==
    LET earlier == {<<r[1], "earlier">> : r \in sent}
    IN  /\ unserved' = FALSE
        /\ \/ /\ run' = IF Present = {} THEN "ending" ELSE "sending"
              /\ sent' = earlier \cup (Present \X {"this run"})
           \/ /\ strategy = "CUSTOM" /\ Present # {}
              /\ run' = "ending"
              /\ sent' = earlier

\* requests made meanwhile are forgotten
Request_Dropped ==
    IF run = "none" THEN BeginRun /\ UNCHANGED pending
    ELSE unserved' = TRUE /\ UNCHANGED <<run, pending, sent>>

\* dispatch(): a run in flight is asked for a trailing one instead.
Request ==
    IF run = "none" THEN BeginRun /\ UNCHANGED pending
    ELSE pending' = TRUE /\ unserved' = TRUE /\ UNCHANGED <<run, sent>>

Dispatch ==
    /\ Request
    /\ UNCHANGED <<sessions, settings, auto>>

AutoDispatch ==
    /\ auto /\ Present # {}
    /\ Request
    /\ UNCHANGED <<sessions, settings, auto>>

\* the run goes on when the first request has settled
Settles_First(r) ==
    /\ r \in sent
    /\ sent' = sent \ {r}
    /\ run' = IF run = "sending" THEN "ending" ELSE run
    /\ UNCHANGED <<sessions, settings, auto, pending, unserved>>

\* The promise of a dispatcher resolves, or rejects, which is reported and changes
\* nothing else.  Promise.allSettled waits for the last one.
Settles(r) ==
    /\ r \in sent
    /\ sent' = sent \ {r}
    /\ run' = IF run = "sending" /\ sent' = {} THEN "ending" ELSE run
    /\ UNCHANGED <<sessions, settings, auto, pending, unserved>>

\* The `finally' callback of the run.
EndRun ==
    /\ run = "ending"
    /\ pending' = FALSE
    /\ IF pending THEN BeginRun
                  ELSE run' = "none" /\ UNCHANGED <<sent, unserved>>
    /\ UNCHANGED <<sessions, settings, auto>>

-----------------------------------------------------------------------------
Next ==
    \/ \E t \in Tx :
          \/ RemoveSession(t)
          \/ \E terms \in Terms : AddSession(t, terms) \/ UpdateSession(t, terms)
    \/ \E snapshot \in Snapshots, clear \in BOOLEAN : LoadSnapshot(snapshot, clear)
    \/ \E g \in Grids : SetGridLimit(g)
    \/ \E m \in Margins : SetSafetyMargin(m)
    \/ \E a \in Algorithm, given \in BOOLEAN : SetAlgorithm(a, given)
    \/ PeakBeginsOrEnds \/ StartOrStopAutoDispatch
    \/ Dispatch \/ AutoDispatch \/ EndRun
    \/ \E r \in sent : Settles(r)

Spec == Init /\ [][Next]_vars

\* The promises of dispatchers settle, and `finally' callbacks run.
FairSpec ==
    /\ Spec
    /\ \A r \in Requests : WF_vars(Settles(r))
    /\ WF_vars(EndRun)

-----------------------------------------------------------------------------
\* The water-fill is fair and uses what there is: whatever caps and priorities the
\* sessions have, with priorities of zero and a limit that caps nobody or everybody
\* (strategies/utils.ts:15-24).  The code gets there in a loop that hands out power
\* up to one cap after another and gives up after n + 2 turns.
FairShare == IsFairShare(Shares, Present, Caps, Weights, StrategyLimit)

\* "total allocated power never exceeds the grid" (engine.ts:418-421), although minimum
\* rates are added on top of fair shares and values are rounded twice; nobody gets
\* more than hardware and car take; and where the minimum rates fit the grid each
\* session gets its own, but for a hundredth that rounding a second time may cost.
WithinGrid ==
    LET p == Optimized
    IN  /\ Total(Kw(p), Present) * Parts <= EffectiveLimit
        /\ \A t \in Present : p[t].kw <= sessions[t].cap
        /\ Feasible(p, EffectiveLimit) => \A t \in Present : p[t].kw >= p[t].min - 1

\* No charger is sent a profile while one of an earlier run is still under way, which
\* could reach it later (engine.ts:445-447); and every variable keeps its type.
OneRunAtATime == TypeOK /\ \A r \in sent : r[2] = "this run" /\ run # "none"

\* "state changes made during the in-flight run are still applied promptly"
\* (engine.ts:448-449): after every dispatch() a run takes the sessions and settings of
\* that moment or of a later one.
RequestsServed == unserved ~> ~unserved
=============================================================================
