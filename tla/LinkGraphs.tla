------------------------------ MODULE LinkGraphs -----------------------------
(* The label algorithm against its reference on every small link graph, in *)
(* every order its links can be read, and on larger ones in one order.     *)
EXTENDS PathStrengths

CONSTANTS
    Chars,     \* characters, as numbers
    Origin,    \* the one whose page is open
    AnyOrder,  \* bound: links of a graph that are tried in every order
    MaxLinks   \* bound: links of a graph

StrengthAssumption == Chars \subseteq Nat /\ Origin \in Chars /\ {AnyOrder, MaxLinks} \subseteq Nat

VARIABLE links

vars == links

AllLinks == {[a |-> p[1], b |-> p[2], strength |-> s] :
                p \in {q \in Chars \X Chars : q[1] < q[2]}, s \in Strengths}

Init == links = <<>>

Before(d, e) ==
    \/ d.a < e.a
    \/ d.a = e.a /\ d.b < e.b
    \/ d.a = e.a /\ d.b = e.b /\ d.strength # e.strength
       /\ (d.strength = "fingerprint" \/ e.strength = "raiderio")

Next == /\ Len(links) < MaxLinks
        /\ \E e \in AllLinks \ ToSet(links) :
            /\ Len(links) >= AnyOrder =>
                    \A i \in DOMAIN links : \A j \in (i + 1)..Len(links) :
                        Before(links[i], links[j]) /\ Before(links[j], e)
            /\ links' = Append(links, e)

Spec == Init /\ [][Next]_vars

(* The blocks partition the edges of the origin's component, and two of    *)
(* them share at most one character (biconnectedComponents).               *)
BlocksPartition ==
    Origin \in VerticesOf(ToSet(links)) =>
        LET blocks == biconnectedComponents(links, Origin)
            reach  == DOMAIN StrengthByPaths(Origin, ToSet(links)) \cup {Origin}
        IN  /\ UNION ToSet(blocks) = {e \in ToSet(links) : Ends(e) \subseteq reach}
            /\ \A i, j \in DOMAIN blocks : i # j =>
                    /\ blocks[i] \cap blocks[j] = {}
                    /\ Cardinality(VerticesOf(blocks[i]) \cap VerticesOf(blocks[j])) <= 1

(* The label a page shows is the one its simple paths earn: never stronger *)
(* by doubling back through a character, never weaker because a provider   *)
(* link lies off the shortest path (pathStrengths).                        *)
StrengthsAreExact == pathStrengths(Origin, links) = StrengthByPaths(Origin, ToSet(links))

=============================================================================
