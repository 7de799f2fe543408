---------------------------- MODULE ConnectionView ----------------------------
(***************************************************************************)
(* What the rest of a client may rely on about its connection: the state   *)
(* it is in (_state) and what its current socket is good for.  Calls       *)
(* (RpcCalls) are composed with this specification; ClientConnection, the  *)
(* detailed one, implements it.                                            *)
(***************************************************************************)
CONSTANT MayReconnect     \* options.reconnect

VARIABLES
    conn,             \* _state
    link              \* the current socket: it has opened, it is closing, or neither

viewVars == <<conn, link>>

ViewInit == conn = "CLOSED" /\ link = "none"

(* connect(), or a reconnection that goes on after close().                *)
BeginsConnecting ==
    /\ conn = "CLOSED" /\ link = "none"
    /\ conn' = "CONNECTING" /\ link' = "none"

(* onOpen: the client is OPEN and its socket can be used, even when a      *)
(* close() is waiting for calls.                                           *)
Opens ==
    /\ link = "none" /\ conn \in {"CONNECTING", "CLOSING"}
    /\ conn' = "OPEN" /\ link' = "open"

(* No connection was made; a reconnection may be tried again.              *)
FailsToOpen ==
    /\ link = "none" /\ conn \in {"CONNECTING", "CLOSING"}
    /\ conn' = "CLOSED" /\ UNCHANGED link

(* The close event of a socket that had opened.  A client that is OPEN     *)
(* says so until the handlers of "disconnect" have run.                    *)
Loses ==
    /\ link # "none"
    /\ conn \in {"OPEN", "CLOSING"}
    /\ conn' = IF conn = "CLOSING" THEN "CLOSED" ELSE conn
    /\ link' = "none"

(* The end of an unexpected close: reconnect, or give up.                  *)
Disconnects ==
    /\ conn = "OPEN" /\ link = "none"
    /\ conn' \in IF MayReconnect THEN {"CONNECTING", "CLOSED"} ELSE {"CLOSED"}
    /\ UNCHANGED link

(* close(): no call is accepted from here on.  With nothing to wait for,   *)
(* the socket starts closing in the same step.                             *)
BeginsClosing ==
    /\ conn \in {"CONNECTING", "OPEN"}
    /\ conn' = "CLOSING"
    /\ link' \in {link, IF link = "open" THEN "closing" ELSE link}

(* close() has waited for what it waits for and closes the socket; a       *)
(* handshake that succeeded meanwhile has made the client OPEN again.      *)
ShutsSocket ==
    /\ conn \in {"CLOSING", "OPEN"} /\ link = "open"
    /\ link' = "closing" /\ UNCHANGED conn

(* close() with no socket to close.                                        *)
FinishesClosing ==
    /\ conn = "CLOSING" /\ link = "none"
    /\ conn' = "CLOSED" /\ UNCHANGED link

ViewNext ==
    \/ BeginsConnecting \/ Opens \/ FailsToOpen \/ Loses \/ Disconnects
    \/ BeginsClosing \/ ShutsSocket \/ FinishesClosing

ViewSpec == ViewInit /\ [][ViewNext]_viewVars
=============================================================================
