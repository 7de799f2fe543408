------------------------------- MODULE Handshake -------------------------------
(***************************************************************************)
(* The authentication of one upgrade (server.ts, the second half of        *)
(* _handleUpgrade, and executeMiddlewareChain of router.ts): connection    *)
(* middlewares around an auth callback, under a timeout and on a socket    *)
(* that may go away.                                                       *)
(*                                                                         *)
(* The middlewares nest: each awaits what next() starts.  `at' is the      *)
(* innermost one that has begun, with depth + 1 for the auth check, and    *)
(* `dir' says whether it runs, has returned or has thrown; 0 is the whole  *)
(* chain.  Middlewares are taken to await next().                          *)
(***************************************************************************)
EXTENDS Naturals

CONSTANT MaxMiddlewares   \* how many middlewares a path may match

VARIABLES
    depth,      \* how many this path matches
    handler,    \* whether it has an auth callback
    timed,      \* whether handshakeTimeoutMs is above zero
    at, dir,    \* the chain
    auth,       \* the promise of the auth callback
    authCalled,
    aborted,    \* ac.signal.aborted
    socket,
    swallowed,  \* whether a middleware caught what next() threw
    outcome     \* of the upgrade

vars == <<depth, handler, timed, at, dir, auth, authCalled, aborted, socket, swallowed, outcome>>

TypeOK ==
    /\ depth \in 0 .. MaxMiddlewares /\ handler \in BOOLEAN /\ timed \in BOOLEAN
    /\ at \in 0 .. depth + 1 /\ dir \in {"in", "out", "error"}
    /\ auth \in {"none", "waiting", "accepted", "rejected", "aborted"}
    /\ authCalled \in BOOLEAN /\ aborted \in BOOLEAN /\ swallowed \in BOOLEAN
    /\ socket \in {"open", "gone"}
    /\ outcome \in {"pending", "upgraded", "refused", "destroyed"}

\* The auth check is the last function of the chain.
Reaches(i) ==
    IF i <= depth
      THEN at' = i /\ dir' = "in" /\ UNCHANGED <<auth, authCalled>>
      ELSE /\ at' = i /\ authCalled' = TRUE
           /\ IF ~handler     THEN dir' = "out"   /\ UNCHANGED auth
              ELSE IF aborted THEN dir' = "error" /\ auth' = "aborted"
              ELSE                 dir' = "in"    /\ auth' = "waiting"

Init ==
    /\ depth \in 0 .. MaxMiddlewares /\ handler \in BOOLEAN /\ timed \in BOOLEAN
    /\ depth > 0 \/ handler
    /\ aborted = FALSE /\ socket = "open" /\ swallowed = FALSE /\ outcome = "pending"
    /\ at = 1 /\ dir = "in"
    /\ auth = (IF depth = 0 THEN "waiting" ELSE "none") /\ authCalled = (depth = 0)

rest == <<depth, handler, timed>>

-----------------------------------------------------------------------------
InMiddleware == at \in 1 .. depth

CallsNext ==
    /\ InMiddleware /\ dir = "in"
    /\ Reaches(at + 1)
    /\ UNCHANGED <<rest, aborted, socket, swallowed, outcome>>

\* A middleware that returns without next(), or throws, as ctx.reject() does.
Returns ==
    /\ InMiddleware /\ dir = "in"
    /\ dir' = "out"
    /\ UNCHANGED <<rest, at, auth, authCalled, aborted, socket, swallowed, outcome>>

Throws ==
    /\ InMiddleware /\ dir \in {"in", "out"}
    /\ dir' = "error"
    /\ UNCHANGED <<rest, at, auth, authCalled, aborted, socket, swallowed, outcome>>

\* The middleware around the one that has ended goes on, after next(); it may catch what
\* next() threw.
GoesOn ==
    /\ at > 0 /\ dir # "in"
    /\ at' = at - 1
    /\ \/ UNCHANGED <<dir, swallowed>>
       \/ dir = "error" /\ at > 1 /\ dir' = "out" /\ swallowed' = TRUE
    /\ UNCHANGED <<rest, auth, authCalled, aborted, socket, outcome>>

-----------------------------------------------------------------------------
\* accept() and reject() of the auth callback, the first time it calls either; an error
\* it throws before that rejects the promise.
Accepts ==
    /\ auth = "waiting"
    /\ auth' = "accepted" /\ dir' = "out"
    /\ UNCHANGED <<rest, at, authCalled, aborted, socket, swallowed, outcome>>

Rejects ==
    /\ auth = "waiting"
    /\ auth' = "rejected" /\ dir' = "error"
    /\ UNCHANGED <<rest, at, authCalled, aborted, socket, swallowed, outcome>>

\* What the end of the chain leads to is a microtask: no timer and no socket event comes
\* in between.
NextTask == outcome = "pending" /\ at > 0

\* The abort signal, and the listener that the promise of the auth callback has on it.
Aborts ==
    /\ aborted' = TRUE
    /\ IF auth = "waiting" THEN auth' = "aborted" /\ dir' = "error" ELSE UNCHANGED <<auth, dir>>

TimesOut ==
    /\ NextTask /\ timed /\ ~aborted
    /\ Aborts
    /\ UNCHANGED <<rest, at, authCalled, socket, swallowed, outcome>>

SocketGoes ==
    /\ NextTask /\ socket = "open"
    /\ socket' = "gone"
    /\ Aborts
    /\ UNCHANGED <<rest, at, authCalled, swallowed, outcome>>

-----------------------------------------------------------------------------
Completes_Unseen == outcome' = "upgraded"

\* ws completes the upgrade on a socket that is still open.
Completes == outcome' = IF socket = "open" THEN "upgraded" ELSE "destroyed"

\* The end of the chain: an upgrade, or an answer with a status, or the end of the socket
\* when the signal is aborted.
Ends ==
    /\ at = 0 /\ outcome = "pending"
    /\ IF dir = "out" /\ authCalled THEN Completes
       ELSE outcome' = IF aborted THEN "destroyed" ELSE "refused"
    /\ UNCHANGED <<rest, at, dir, auth, authCalled, aborted, socket, swallowed>>

Next ==
    \/ CallsNext \/ Returns \/ Throws \/ GoesOn
    \/ Accepts \/ Rejects \/ TimesOut \/ SocketGoes \/ Ends

Spec == Init /\ [][Next]_vars

\* Middlewares end and the timer fires.  Nothing is assumed of the auth callback or of
\* the socket.
Fairness ==
    /\ WF_vars(CallsNext \/ Returns \/ Throws) /\ WF_vars(GoesOn)
    /\ WF_vars(TimesOut) /\ WF_vars(Ends)

FairSpec == Spec /\ Fairness

-----------------------------------------------------------------------------
\* An upgrade is completed on an open socket, once the auth callback of its path has
\* accepted it, before its timeout and not after; nothing waits for a callback whose
\* signal is aborted; and a station is told a status only when it still listens
\* (server.ts:1095-1300).  A middleware that catches the error of next() lets the upgrade
\* go on: what counts then is that the auth check was reached.
UpgradeJustified ==
    /\ TypeOK
    /\ outcome = "upgraded" =>
          /\ authCalled /\ socket = "open"
          /\ handler => auth = "accepted" \/ swallowed
          /\ swallowed \/ auth # "aborted"
    /\ outcome = "refused" => ~aborted
    /\ auth = "waiting" => ~aborted /\ outcome = "pending"

HandshakeSettled == timed => outcome # "pending"

\* With a timeout every handshake ends, whatever its auth callback does
\* (server.ts:1106-1113,1163-1176).  A middleware that never returns is not ended by it.
HandshakeEnds == <>[]HandshakeSettled
=============================================================================
