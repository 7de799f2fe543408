------------------------------- MODULE MCRouting -------------------------------
(* Instance of the routing, by itself. *)
EXTENDS Routing, MCPatterns

MCLanguage == [e \in RegExp |-> MCMatches]
=============================================================================
