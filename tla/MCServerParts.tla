----------------------------- MODULE MCServerParts -----------------------------
(***************************************************************************)
(* The registry of a server and two parts of each of its connections, the  *)
(* pipeline of incoming calls and the backpressure queue, in one run: they *)
(* share no state, `part' says which of them a behaviour is of, and the    *)
(* others rest in an initial state.                                        *)
(*                                                                         *)
(* There are four upgrades of three stations: two race for the first       *)
(* identity.  Either all of them have an authentication to wait for, or    *)
(* none.                                                                   *)
(***************************************************************************)
EXTENDS ServerRegistry, TLC

CONSTANTS
    s1, s2, s3, s4, cp1, cp2, cp3,
    MaxMessages, MaxSockets,                \* SendBuffer
    MsgId, MaxArrivals, MaxBadMessages      \* InboundCalls

\* What the proofs about the parts ask of their constants.
ASSUME BufferAssumption == MaxMessages \in Nat /\ MaxSockets \in Nat \ {0}

ASSUME InboundAssumption == MaxArrivals \in Nat /\ MaxBadMessages \in Nat \ {0}

VARIABLES
    part,
    socket, up, sockets, congested, queue, timer, count, wire, failed,
    side, conn, chain, id, bad, reached, guards, badCount, answers

bufferVars  == <<socket, up, sockets, congested, queue, timer, count, wire, failed>>
inboundVars == <<side, conn, chain, id, bad, reached, guards, badCount, answers>>

Buffer  == INSTANCE SendBuffer
Inbound == INSTANCE InboundCalls WITH stage <- reached

MCIdOf == (s1 :> cp1) @@ (s2 :> cp1) @@ (s3 :> cp2) @@ (s4 :> cp3)

AllOrNone == {{}, Socket}

InitParts ==
    /\ part \in {"registry", "buffer", "inbound"}
    /\ Init /\ (part # "registry" => slow = {})
    /\ Buffer!Init
    /\ Inbound!Init /\ (part # "inbound" => side = "client")

NextParts ==
    \/ part = "registry" /\ Next /\ UNCHANGED <<part, bufferVars, inboundVars>>
    \/ part = "buffer" /\ Buffer!Next /\ UNCHANGED <<part, vars, inboundVars>>
    \/ part = "inbound" /\ Inbound!Next /\ UNCHANGED <<part, vars, bufferVars>>

\* Nothing is enabled of the fair actions of a part at rest.
SpecParts ==
    /\ InitParts
    /\ [][NextParts]_<<part, vars, bufferVars, inboundVars>>
    /\ Fairness /\ Buffer!Fairness /\ Inbound!Fairness

\* Messages are written in the order they were given to _safeSend, and each is in one
\* place (client.ts:1680-1767,2019-2023); stated in SendBuffer.
WrittenInOrder == part = "buffer" => Buffer!WrittenInOrder
OneFate        == part = "buffer" => Buffer!OneFate

\* No guard outlives its handler, and messages are dispatched in the order of the wire
\* (client.ts:1221-1294, server-client.ts:157-165); stated in InboundCalls.
InboundExact == part = "inbound" => Inbound!InboundExact

\* Every message that waits to go out is written or fails (client.ts:1697-1767), and every
\* one that arrives is processed to its end (server-client.ts:157-165,196-260); stated in
\* SendBuffer and InboundCalls.
MessagesEnd == Buffer!QueueEmpties /\ Inbound!EveryArrivalEnds
=============================================================================
