-------------------------------- MODULE Routing --------------------------------
(***************************************************************************)
(* Which routers a connection is given to by its path: the trie of string  *)
(* patterns (radix-trie.ts), the RegExp patterns and the routers without a *)
(* pattern (server.ts, router.ts), with patterns that are added late.      *)
(*                                                                         *)
(* A path is a sequence of segments in lower case.                         *)
(***************************************************************************)
EXTENDS Integers, Sequences, FiniteSets, SequencesExt

CONSTANTS
    Router,
    Param,          \* segments of patterns that name a parameter
    Pattern,        \* string patterns: sequences of literals, members of Param, and Wild
    RegExp,         \* patterns that are regular expressions
    Language,       \* the paths each of them matches
    Path,           \* the paths connections come with
    MaxPatterns     \* bound: patterns added

Wild == "*"
NoValue == "none"

VARIABLES
    patterns,       \* for each router, its patterns in order
    attached,       \* the routers the server has
    globals,        \* _globalMiddlewareRouters
    regexRouters,   \* _regexRouters
    trie,           \* the routers at each node, which is the pattern that leads to it
    fixed,          \* the nodes whose list of routers is frozen
    frozen,         \* _frozen
    taken,          \* what insert() has taken, in order
    refused         \* what it has thrown at, and why

vars == <<patterns, attached, globals, regexRouters, trie, fixed, frozen, taken, refused>>

Node == UNION {{SubSeq(p, 1, i) : i \in 0 .. Len(p)} : p \in Pattern}

TypeOK ==
    /\ patterns \in [Router -> Seq(Pattern \cup RegExp)]
    /\ attached \subseteq Router
    /\ globals \in Seq(Router) /\ regexRouters \in Seq(Router)
    /\ DOMAIN trie \subseteq Node /\ \A n \in DOMAIN trie : trie[n] \in Seq(Router)
    /\ fixed \subseteq DOMAIN trie /\ frozen \in BOOLEAN
    /\ taken \in Seq(Router \X Pattern)
    /\ refused \subseteq (Router \X Pattern) \X {"conflict", "frozen"}

Init ==
    /\ patterns = [r \in Router |-> <<>>] /\ attached = {}
    /\ globals = <<>> /\ regexRouters = <<>>
    /\ trie = [n \in {<<>>} |-> <<>>] /\ fixed = {} /\ frozen = FALSE
    /\ taken = <<>> /\ refused = {}

-----------------------------------------------------------------------------
(* RadixTrie *)

\* A wildcard consumes the rest of a pattern.
Leaf(p) == IF \E i \in 1 .. Len(p) : p[i] = Wild
             THEN SubSeq(p, 1, CHOOSE i \in 1 .. Len(p) : p[i] = Wild /\ \A j \in 1 .. i - 1 : p[j] # Wild)
             ELSE p

\* The positions at which a node has another name for its parameter.
Conflicts(t, p) == {i \in 1 .. Len(p) : p[i] \in Param /\ \E q \in DOMAIN t :
                        Len(q) = i /\ Front(q) = SubSeq(p, 1, i - 1) /\ q[i] \in Param \ {p[i]}}

\* insert() of a pattern of a router into a state t of the trie: the nodes it makes stay
\* even if it throws.
Insert(t, r, p) ==
    LET leaf  == Leaf(p)
        bad   == Conflicts(t.trie, leaf)
        last  == IF bad = {} THEN Len(leaf) ELSE (CHOOSE i \in bad : \A j \in bad : i <= j) - 1
        nodes == {SubSeq(leaf, 1, i) : i \in 0 .. last}
        grown == [n \in DOMAIN t.trie \cup nodes |-> IF n \in DOMAIN t.trie THEN t.trie[n] ELSE <<>>]
    IN IF bad = {} /\ leaf \notin fixed
         THEN [t EXCEPT !.trie = [grown EXCEPT ![leaf] = Append(@, r)],
                        !.taken = Append(@, <<r, p>>)]
         ELSE [t EXCEPT !.trie = grown, !.threw = TRUE,
                        !.refused = @ \cup {<<<<r, p>>, IF bad # {} THEN "conflict" ELSE "frozen">>}]

\* Patterns of a router are inserted one after the other, up to the first that throws.
Inserts(r, ps) ==
    FoldLeft(LAMBDA t, p : IF t.threw THEN t ELSE Insert(t, r, p),
             [trie |-> trie, taken |-> taken, refused |-> refused, threw |-> FALSE], ps)

Becomes(t) ==
    /\ trie' = t.trie /\ taken' = t.taken /\ refused' = t.refused
    /\ UNCHANGED fixed

\* Definitions with a suffix, such as this one, are slips a change to the code
\* could make: each of them breaks a property of this module.  Here a static child is the
\* only one looked at.
Children_First(t, node, s) ==
    IF Append(node, s) \in DOMAIN t THEN <<Append(node, s)>>
    ELSE SetToSeq({Append(node, x) : x \in {y \in Param : Append(node, y) \in DOMAIN t}})

\* The children that a segment leads to: the static one before that of the parameter.
Children(t, node, s) ==
    (IF Append(node, s) \in DOMAIN t THEN <<Append(node, s)>> ELSE <<>>)
    \o SetToSeq({Append(node, x) : x \in {y \in Param : Append(node, y) \in DOMAIN t}})

\* _matchRecursive: the nodes with routers that a path leads to, from a node on.
MatchFrom(path) ==
    LET from[at \in (DOMAIN trie) \X (0 .. Len(path))] ==
            LET node  == at[1]
                depth == at[2]
                wild  == Append(node, Wild)
            IN IF depth = Len(path)
                 THEN IF trie[node] # <<>> THEN <<node>> ELSE <<>>
                 ELSE FoldLeft(LAMBDA found, child : found \o from[<<child, depth + 1>>],
                               <<>>, Children(trie, node, path[depth + 1]))
                      \o (IF wild \in DOMAIN trie /\ trie[wild] # <<>> THEN <<wild>> ELSE <<>>)
    IN from

\* match(): all the routers, and the parameters of the first node.
Matched(path) == MatchFrom(path)[<< <<>>, 0>>]
TrieRouters(path) == FoldLeft(LAMBDA found, node : found \o trie[node], <<>>, Matched(path))

-----------------------------------------------------------------------------
(* The server *)

\* router.route(): the server learns of the pattern if it has the router, which is no
\* longer one for all paths.
AddPattern(r, p) ==
    /\ Len(patterns[r]) < MaxPatterns
    /\ patterns' = [patterns EXCEPT ![r] = Append(@, p)]
    /\ IF r \notin attached
         THEN UNCHANGED <<globals, regexRouters, trie, fixed, frozen, taken, refused>>
         ELSE /\ globals' = SelectSeq(globals, LAMBDA g : g # r)
              /\ IF p \in Pattern
                   THEN /\ Becomes(Inserts(r, <<p>>)) /\ frozen' = FALSE
                        /\ UNCHANGED regexRouters
                   ELSE /\ regexRouters' = IF Contains(regexRouters, r) THEN regexRouters
                                           ELSE Append(regexRouters, r)
                        /\ UNCHANGED <<trie, fixed, frozen, taken, refused>>
    /\ UNCHANGED attached

\* _registerRouter: a router of which a pattern is refused is not told of later ones, nor
\* are its RegExp patterns looked at; it is not registered again.
Register(r) ==
    LET strings == SelectSeq(patterns[r], LAMBDA p : p \in Pattern)
        regexps == SelectSeq(patterns[r], LAMBDA p : p \in RegExp)
        t       == Inserts(r, strings)
    IN /\ r \notin attached /\ \A e \in refused : e[1][1] # r
       /\ Becomes(t)
       /\ frozen' = (frozen /\ strings = <<>>)
       /\ globals' = IF patterns[r] = <<>> THEN Append(globals, r) ELSE globals
       /\ regexRouters' = IF regexps # <<>> /\ ~t.threw THEN Append(regexRouters, r) ELSE regexRouters
       /\ attached' = IF t.threw THEN attached ELSE attached \cup {r}
       /\ UNCHANGED patterns

\* A connection comes: the trie is frozen before the first match after an insertion.
Freeze ==
    /\ ~frozen /\ taken # <<>>
    /\ frozen' = TRUE /\ fixed' = DOMAIN trie
    /\ UNCHANGED <<patterns, attached, globals, regexRouters, trie, taken, refused>>

HasRegExpFor(r, path) ==
    \E i \in 1 .. Len(patterns[r]) : patterns[r][i] \in RegExp /\ path \in Language[patterns[r][i]]

\* _handleUpgrade: the routers for all paths, then those of the trie, then those with a
\* RegExp that matches.
Routers(path) ==
    globals \o TrieRouters(path)
    \o SelectSeq(regexRouters, LAMBDA r : HasRegExpFor(r, path))

Next ==
    \/ \E r \in Router : Register(r) \/ \E p \in Pattern \cup RegExp : AddPattern(r, p)
    \/ Freeze

Spec == Init /\ [][Next]_vars

-----------------------------------------------------------------------------
\* The paths of a pattern, by what its segments mean and not by way of a trie.
Fits(p, path) ==
    LET leaf == Leaf(p)
        n    == IF leaf # <<>> /\ Last(leaf) = Wild THEN Len(leaf) - 1 ELSE Len(leaf)
    IN /\ IF n < Len(leaf) THEN Len(path) > n ELSE Len(path) = n
       /\ \A i \in 1 .. n : leaf[i] \in Param \/ leaf[i] = path[i]

\* One pattern is more specific than another: where they first differ it has a literal, or
\* a parameter against a wildcard.
Rank(s) == IF s = Wild THEN 3 ELSE IF s \in Param THEN 2 ELSE 1
MoreSpecific(p, q) ==
    \E i \in 1 .. Len(p) : /\ i <= Len(q) /\ SubSeq(p, 1, i - 1) = SubSeq(q, 1, i - 1)
                           /\ Rank(p[i]) < Rank(q[i])

\* "Priority order at each segment level: static, param, wildcard; supports multiple
\* routers per pattern (all fire on match)" (radix-trie.ts:44-54): a path is given to
\* every router with a pattern that fits it and to no other, the more specific patterns
\* first, and those of one pattern in the order they were added.  Patterns may be added
\* late, after connections came, and after others were refused
\* (radix-trie.ts:78-125,137-209, server.ts:451-484,905-993).
RoutesMatch ==
    /\ TypeOK
    /\ \A path \in Path :
          LET nodes == Matched(path)
              fits  == SelectSeq(taken, LAMBDA e : Fits(e[2], path))
          IN /\ \A i, j \in 1 .. Len(nodes) : i < j => MoreSpecific(nodes[i], nodes[j])
             /\ ToSet(nodes) = {Leaf(fits[i][2]) : i \in 1 .. Len(fits)}
             /\ \A n \in ToSet(nodes) :
                   LET here == SelectSeq(fits, LAMBDA e : Leaf(e[2]) = n)
                   IN trie[n] = [i \in 1 .. Len(here) |-> here[i][1]]
             /\ Len(Routers(path)) = Len(globals) + Len(fits)
                   + Cardinality({r \in attached : HasRegExpFor(r, path)})
    /\ \A r \in attached : Contains(globals, r) <=> patterns[r] = <<>>

\* "Late insertions will automatically unfreeze" (radix-trie.ts:214): a pattern is refused
\* only for the name of a parameter.
LateRoutesTaken == \A e \in refused : e[2] = "conflict"
=============================================================================
