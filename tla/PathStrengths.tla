--------------------------- MODULE PathStrengths ---------------------------
(***************************************************************************)
(* How strongly a character is connected to the one whose page is open:    *)
(* the label its row gets.  The code decides it over simple paths with the *)
(* biconnected components of the link graph and their block-cut tree; the  *)
(* reference enumerates the simple paths.                                  *)
(*                                                                         *)
(* A link is [a, b, strength] with a # b; a graph is the sequence of its   *)
(* links, in the order the read returned them.                             *)
(***************************************************************************)
EXTENDS Naturals, Sequences, FiniteSets, FiniteSetsExt, SequencesExt

Strengths == {"raiderio", "fingerprint", "manual"}

Ends(e) == {e.a, e.b}
Across(e, v) == IF e.a = v THEN e.b ELSE e.a
VerticesOf(edges) == UNION {Ends(e) : e \in edges}

(* buildAdjacency: the edges at a vertex in the order of the links.        *)
buildAdjacency(links, v) == SelectSeq(links, LAMBDA e : v \in Ends(e))

---------------------------------------------------------------------------
(* biconnectedComponents: Tarjan's walk with a stack of edges.             *)

(* popBlockThrough: the edges above the given one, with it, are a block.   *)
popBlockThrough(s, e) ==
    LET i == CHOOSE j \in DOMAIN s.stack : s.stack[j] = e
    IN  [s EXCEPT !.blocks = Append(@, {s.stack[j] : j \in i..Len(s.stack)}),
                  !.stack = SubSeq(@, 1, i - 1)]

closesBlock(s, node, to) == s.low[to] >= s.disc[node]

RECURSIVE dfs(_, _, _, _)
dfs(s, links, node, parent) ==
    LET entered == [s EXCEPT !.disc[node] = s.counter, !.low[node] = s.counter,
                             !.counter = s.counter + 1]
        step(t, e) ==
            LET to == Across(e, node)
            IN  IF {e} = parent THEN t
                ELSE IF t.disc[to] = 0
                THEN LET u == dfs([t EXCEPT !.stack = Append(@, e)], links, to, {e})
                         v == [u EXCEPT !.low[node] = Min({@, u.low[to]})]
                     IN  IF closesBlock(v, node, to) THEN popBlockThrough(v, e) ELSE v
                ELSE IF t.disc[to] < t.disc[node]
                THEN [t EXCEPT !.stack = Append(@, e), !.low[node] = Min({@, t.disc[to]})]
                ELSE t
    IN  FoldLeft(step, entered, buildAdjacency(links, node))

biconnectedComponents(links, start) ==
    LET V == VerticesOf(ToSet(links))
        none == [v \in V |-> 0]
    IN  dfs([disc |-> none, low |-> none, counter |-> 1, stack |-> <<>>, blocks |-> <<>>],
            links, start, {}).blocks

---------------------------------------------------------------------------
(* buildBlockCutTree and the walk over it.                                 *)

isCutVertex(blocks, v) ==
    Cardinality({i \in DOMAIN blocks : v \in VerticesOf(blocks[i])}) >= 2

TreeNode(blocks, v) ==
    IF isCutVertex(blocks, v) THEN <<"vertex", v>>
    ELSE <<"block", CHOOSE i \in DOMAIN blocks :
                        v \in VerticesOf(blocks[i])
                        /\ \A j \in 1..(i - 1) : v \notin VerticesOf(blocks[j])>>

neighboursOf(blocks, n) ==
    IF n[1] = "vertex"
    THEN {<<"block", i>> : i \in {j \in DOMAIN blocks : n[2] \in VerticesOf(blocks[j])}}
    ELSE {<<"vertex", v>> : v \in {u \in VerticesOf(blocks[n[2]]) : isCutVertex(blocks, u)}}

ownHasProvider(blocks, providers, n) == n[1] = "block" /\ blocks[n[2]] \cap providers # {}

(* The nodes whose path from the root of the tree holds a provider edge,   *)
(* and all nodes reached.                                                  *)
RECURSIVE Cumulate(_, _, _, _, _)
Cumulate(blocks, providers, frontier, visited, with) ==
    IF frontier = {} THEN with
    ELSE LET next == UNION {neighboursOf(blocks, n) : n \in frontier} \ visited
             gain == {n \in next : \/ ownHasProvider(blocks, providers, n)
                                   \/ neighboursOf(blocks, n) \cap frontier \cap with # {}}
         IN  Cumulate(blocks, providers, next, visited \cup next, with \cup gain)

(* hasProviderPathFrom: every vertex reached, and whether some simple path *)
(* to it has a provider edge.                                              *)
hasProviderPathFrom(origin, links, providers) ==
    IF origin \notin VerticesOf(ToSet(links)) THEN [reached |-> {}, with |-> {}]
    ELSE LET blocks == biconnectedComponents(links, origin)
             root == TreeNode(blocks, origin)
             own  == IF ownHasProvider(blocks, providers, root) THEN {root} ELSE {}
             with == Cumulate(blocks, providers, {root}, {root}, own)
             all  == VerticesOf(UNION ToSet(blocks)) \ {origin}
         IN  [reached |-> all, with |-> {v \in all : TreeNode(blocks, v) \in with}]

pathStrengths(origin, links) ==
    LET has(s) == {e \in ToSet(links) : e.strength = s}
        rio == hasProviderPathFrom(origin,
                    SelectSeq(links, LAMBDA e : e.strength # "fingerprint"), has("raiderio"))
        all == hasProviderPathFrom(origin, links, has("raiderio") \cup has("fingerprint"))
    IN  [v \in all.reached |-> IF v \in rio.with THEN "raiderio"
                               ELSE IF v \in all.with THEN "fingerprint" ELSE "manual"]

---------------------------------------------------------------------------
(* The reference: the simple paths from a vertex, as sets of links.        *)

RECURSIVE SimplePaths(_, _, _, _)
SimplePaths(edges, at, seen, used) ==
    {<<at, used>>} \cup
    UNION {SimplePaths(edges, Across(e, at), seen \cup {Across(e, at)}, used \cup {e})
             : e \in {d \in edges : at \in Ends(d) /\ Across(d, at) \notin seen}}

StrengthByPaths(origin, edges) ==
    LET paths == SimplePaths(edges, origin, {origin}, {})
        to(v) == {p[2] : p \in {q \in paths : q[1] = v}}
        labels(p) == {e.strength : e \in p}
    IN  [v \in {p[1] : p \in paths} \ {origin} |->
            IF \E p \in to(v) : "raiderio" \in labels(p) /\ "fingerprint" \notin labels(p)
            THEN "raiderio"
            ELSE IF \E p \in to(v) : labels(p) # {"manual"} THEN "fingerprint" ELSE "manual"]

=============================================================================
