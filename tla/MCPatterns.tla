------------------------------- MODULE MCPatterns -------------------------------
(* Patterns that share prefixes, conflict, and end in a wildcard, and all the paths of at *)
(* most three segments.                                                                   *)
EXTENDS Integers

MCParam == {":x", ":y"}
MCPattern == {<<"a">>, <<"a", ":x">>, <<":x", "b">>, <<":y", "b">>, <<"a", "*">>}
MCPath == UNION {[1 .. n -> {"a", "b"}] : n \in 0 .. 3}
MCMatches == {<<"a">>, <<"b", "b">>}
=============================================================================
