-------------------------- MODULE CharacterGroups --------------------------
(***************************************************************************)
(* The stored groups of characters and how they follow the links between   *)
(* them.  A publication's observation write commits links and then, in     *)
(* transactions of their own, recomputes the groups it touched; a reviewer *)
(* edits manual links and recomputes nothing; an hourly maintenance pass   *)
(* walks all groups by id, and a retried pass may overlap the first.       *)
(*                                                                         *)
(* Every recompute holds the groups lock, but writers of links do not take *)
(* it: a recompute reads the links round by round while they change.       *)
(* Characters and group ids are numbers, ordered as their uuids are.       *)
(***************************************************************************)
EXTENDS Naturals, Sequences, FiniteSets, FiniteSetsExt, SequencesExt

CONSTANTS
    Chars,      \* character ids
    Unborn,     \* of these, the ones not discovered at first
    GroupIds,   \* uuids a new group may get
    Writers,    \* discovery handlers that write observations
    Passes,     \* maintenance passes, the retried one included
    Edits,      \* which edits happen
    MaxEdits    \* bound: edits of the links

GroupsAssumption ==
    /\ Chars \subseteq Nat \ {0} /\ IsFiniteSet(Chars) /\ Unborn \subseteq Chars
    /\ Chars \subseteq GroupIds /\ GroupIds \subseteq Nat \ {0} /\ IsFiniteSet(GroupIds)
    /\ Edits \subseteq {"write", "manual", "unmanual", "birth", "rebuild"}
    /\ MaxEdits \in Nat

VARIABLES
    born,      \* rows of characters
    observed,  \* <<observer, other>> pairs of observed links
    manual,    \* <<maker, target>> pairs of manual links, undiscovered targets too
    member,    \* the group of each character, or NoGroup
    groups,    \* ids of stored groups, oldest first
    maint,     \* the maintenance row: cursor and the running cycle
    tx,        \* the transaction that holds the groups lock
    todo,      \* each writer: the seeds it still has to recompute
    pass,      \* each pass
    owed,      \* what no recompute or completed cycle covers, as the audit dates it
    edits

vars == <<born, observed, manual, member, groups, maint, tx, todo, pass, owed, edits>>

NoGroup == 0
NoCycle == 0
NoTx == [by |-> "none"]
Unset == 7        \* a pass that has not looked at the maintenance row

---------------------------------------------------------------------------
(* Links, components and heirs.                                            *)

(* COUNTING_LINKS_FROM: observed links and resolved manual ones.           *)
Counting == {{p[1], p[2]} : p \in {q \in observed \cup manual :
                                     q[1] \in born /\ q[2] \in born /\ q[1] # q[2]}}

LinksFrom(S) == {e \in Counting : e \cap S # {}}

(* The classes the links of a set of nodes join it into.                   *)
Components(nodes, links) ==
    LET f[n \in 0..Cardinality(nodes)] ==
            IF n = 0 THEN {{x} : x \in nodes}
            ELSE LET parts == f[n - 1]
                 IN  {UNION {q \in parts : q = p \/ \E e \in links : e \cap p # {} /\ e \cap q # {}}
                        : p \in parts}
    IN  f[Cardinality(nodes)]

GroupOf(g) == {c \in Chars : member[c] = g}

(* The age of a group: its place in creation order.                        *)
Age(g) == CHOOSE i \in DOMAIN groups : groups[i] = g

(* The part with the lowest member inherits, whatever its size.            *)
HeirLowest(g, parts) ==
    CHOOSE p \in parts : Min(GroupOf(g)) \in p

(* The part that inherits a group: it holds most of its members, the one   *)
(* with the lowest on a tie.                                               *)
HeirOf(g, parts) ==
    CHOOSE p \in parts :
        /\ p \cap GroupOf(g) # {}
        /\ \A q \in parts \ {p} :
            LET a == Cardinality(p \cap GroupOf(g))
                b == Cardinality(q \cap GroupOf(g))
            IN  a > b \/ (a = b /\ Min(p \cap GroupOf(g)) < Min(q \cap GroupOf(g)))

(* The group a part keeps: the oldest it is heir to, NoGroup for a new one.*)
Keeps(p, parts) ==
    LET held == {member[c] : c \in UNION parts} \ {NoGroup}
        mine == {g \in held : HeirOf(g, parts) = p}
    IN  IF mine = {} THEN NoGroup ELSE CHOOSE g \in mine : \A h \in mine : Age(g) <= Age(h)

---------------------------------------------------------------------------
(* One recompute: its rounds and its end.                                  *)

OpenTx(by, kind, seed, joins) ==
    [by |-> by, kind |-> kind, nodes |-> {seed}, links |-> {}, frontier |-> {seed},
     joins |-> joins, wrote |-> {}, made |-> {}, hand |-> FALSE, touched |-> FALSE]

(* The walk follows links but not the members of a visited group.          *)
RoundLinksOnly ==
    /\ tx # NoTx /\ tx.frontier # {}
    /\ LET seen == LinksFrom(tx.frontier)
           next == UNION seen \ tx.nodes
       IN  tx' = [tx EXCEPT !.links = @ \cup seen, !.nodes = @ \cup next, !.frontier = next]
    /\ UNCHANGED <<born, observed, manual, member, groups, maint, todo, pass, owed, edits>>

(* One round of the walk: the links of the frontier, and every other       *)
(* member of its stored groups.                                            *)
Round ==
    /\ tx # NoTx /\ tx.frontier # {}
    /\ LET seen  == LinksFrom(tx.frontier)
           mates == {c \in Chars : \E d \in tx.frontier :
                        member[c] = member[d] /\ member[d] # NoGroup}
           next  == (UNION seen \cup mates) \ tx.nodes
       IN  tx' = [tx EXCEPT !.links = @ \cup seen, !.nodes = @ \cup next, !.frontier = next]
    /\ UNCHANGED <<born, observed, manual, member, groups, maint, todo, pass, owed, edits>>

(* What the recompute stores: every part in the group it keeps or a new    *)
(* one, the groups nobody keeps deleted.                                   *)
Assigned ==
    LET parts == Components(tx.nodes, tx.links)
        kept  == [p \in parts |-> Keeps(p, parts)]
        held  == {member[c] : c \in tx.nodes} \ {NoGroup}
        gone  == held \ {kept[p] : p \in parts}
        new   == {p \in parts : kept[p] = NoGroup}
        used  == {groups[i] : i \in DOMAIN groups}
    IN  \E id \in [new -> GroupIds \ used] :
        /\ \A p, q \in new : id[p] = id[q] => p = q
        /\ member' = [c \in Chars |->
                IF c \notin tx.nodes THEN member[c]
                ELSE LET p == CHOOSE q \in parts : c \in q
                     IN  IF p \in new THEN id[p] ELSE kept[p]]
        /\ groups' = SelectSeq(groups, LAMBDA g : g \notin gone)
                       \o SetToSeq({id[p] : p \in new})

(* The stamp of the recompute: a write since its start is not covered.     *)
Stamped(o) == [o EXCEPT !.stamp = (@ \ tx.nodes) \cup (tx.nodes \cap tx.wrote)]

(* A cycle started by this transaction covers nothing written since.       *)
Joined(o) ==
    IF tx.joins /\ maint.cycle = NoCycle
    THEN [o EXCEPT !.after = tx.wrote, !.bornAfter = tx.made, !.manualAfter = tx.hand,
                   !.clean = ~tx.touched]
    ELSE o

NextCycle(m) == IF m.cycle # NoCycle THEN m
                ELSE [m EXCEPT !.cycle = (m.count % 3) + 1, !.count = (m.count % 3) + 1]

---------------------------------------------------------------------------
(* A discovery handler: writeObservations, then recomputeGroupsOf.         *)

EmptyTodo(w) == todo[w] = {} /\ (tx = NoTx \/ tx.by # w)

(* changedCharacterIds: the observer and both ends of every changed link.  *)
SeedsOf(o, add, cut) == {o} \cup UNION {{p[1], p[2]} : p \in add \cup cut}

(* The edit counts against a transaction that is open while it commits.    *)
Noted(o, made, hand) ==
    /\ owed' = [owed EXCEPT !.stamp = @ \cup o, !.cycle = @ \cup o, !.after = @ \cup o,
                            !.born = @ \cup made, !.bornAfter = @ \cup made,
                            !.manual = @ \/ hand, !.manualAfter = @ \/ hand,
                            !.clean = FALSE]
    /\ tx' = IF tx = NoTx THEN tx
             ELSE [tx EXCEPT !.wrote = @ \cup o, !.made = @ \cup made, !.hand = @ \/ hand,
                             !.touched = TRUE]

Write(w) ==
    /\ "write" \in Edits /\ EmptyTodo(w) /\ edits < MaxEdits
    /\ \E o \in born :
        LET held == {p \in observed : p[1] = o}
            free == {<<o, c>> : c \in born \ {o}} \ held
        IN  \E add \in SUBSET free, cut \in SUBSET held :
            /\ Cardinality(add) + Cardinality(cut) \in 1..2
            /\ observed' = (observed \cup add) \ cut
            /\ todo' = [todo EXCEPT ![w] = SeedsOf(o, add, cut)]
            /\ Noted({o}, {}, FALSE)
    /\ edits' = edits + 1
    /\ UNCHANGED <<born, manual, member, groups, maint, pass>>

(* recomputeGroupsOf: one transaction per seed no earlier one visited.     *)
SeedOpens(w) ==
    /\ tx = NoTx /\ todo[w] # {}
    /\ tx' = OpenTx(w, "seed", Min(todo[w]), FALSE)
    /\ UNCHANGED <<born, observed, manual, member, groups, maint, todo, pass, owed, edits>>

SeedCloses(w) ==
    /\ tx # NoTx /\ tx.by = w /\ tx.frontier = {}
    /\ Assigned
    /\ todo' = [todo EXCEPT ![w] = @ \ tx.nodes]
    /\ owed' = Stamped(owed)
    /\ tx' = NoTx
    /\ UNCHANGED <<born, observed, manual, maint, pass, edits>>

(* A lock timeout, an aborted job or a dead worker: the recompute is lost. *)
Loses(w) ==
    /\ todo[w] # {}
    /\ todo' = [todo EXCEPT ![w] = {}]
    /\ tx' = IF tx.by = w THEN NoTx ELSE tx
    /\ UNCHANGED <<born, observed, manual, member, groups, maint, pass, owed, edits>>

---------------------------------------------------------------------------
(* Edits that recompute nothing.                                           *)

ManualAdd ==
    /\ "manual" \in Edits /\ edits < MaxEdits
    /\ \E a \in born, b \in Chars : a # b /\ <<a, b>> \notin manual
                                    /\ manual' = manual \cup {<<a, b>>}
    /\ Noted({}, {}, TRUE)
    /\ edits' = edits + 1
    /\ UNCHANGED <<born, observed, member, groups, maint, todo, pass>>

ManualRemove ==
    /\ "unmanual" \in Edits /\ edits < MaxEdits
    /\ \E p \in manual : manual' = manual \ {p}
    /\ Noted({}, {}, FALSE)
    /\ edits' = edits + 1
    /\ UNCHANGED <<born, observed, member, groups, maint, todo, pass>>

Birth ==
    /\ "birth" \in Edits
    /\ \E c \in Chars \ born : born' = born \cup {c} /\ Noted({}, {c}, FALSE)
    /\ UNCHANGED <<observed, manual, member, groups, maint, todo, pass, edits>>

(* The operator's rebuild excludes every writer and every recompute.  The  *)
(* links it re-derives are the stored ones here; every group gets its      *)
(* lowest member's id.                                                     *)
Rebuild ==
    /\ "rebuild" \in Edits /\ tx = NoTx /\ edits < MaxEdits
    /\ LET parts == Components(born, Counting)
       IN  /\ member' = [c \in Chars |->
                IF c \in born THEN Min(CHOOSE p \in parts : c \in p) ELSE NoGroup]
           /\ groups' = SetToSeq({Min(p) : p \in parts})
    /\ edits' = edits + 1
    /\ owed' = [owed EXCEPT !.stamp = {}]
    /\ UNCHANGED <<born, observed, manual, maint, tx, todo, pass>>

---------------------------------------------------------------------------
(* The maintenance pass: drain the ungrouped, then walk the groups by id.  *)

Ungrouped == {c \in born : member[c] = NoGroup}

(* The first step of a pass notes the cycle it found running.              *)
NoteInherited(p) ==
    [pass EXCEPT ![p].inherited = IF @ = Unset THEN maint.cycle ELSE @]

StartPass(p) ==
    /\ pass[p].st = "idle"
    /\ pass' = [pass EXCEPT ![p].st = "drain"]
    /\ UNCHANGED <<born, observed, manual, member, groups, maint, tx, todo, owed, edits>>

PassOpens(p, kind, seed) ==
    /\ tx' = OpenTx(p, kind, seed, TRUE)
    /\ UNCHANGED <<born, observed, manual, member, groups, maint, todo, pass, owed, edits>>

DrainOpens(p) ==
    /\ tx = NoTx /\ pass[p].st = "drain" /\ Ungrouped # {}
    /\ PassOpens(p, "drain", Min(Ungrouped))

(* No character is ungrouped: the joined cycle is committed all the same.  *)
DrainEnds(p) ==
    /\ tx = NoTx /\ pass[p].st = "drain" /\ Ungrouped = {}
    /\ pass' = [NoteInherited(p) EXCEPT ![p].st = "walk"]
    /\ maint' = NextCycle(maint)
    /\ owed' = IF maint.cycle = NoCycle
               THEN [owed EXCEPT !.after = {}, !.bornAfter = {}, !.manualAfter = FALSE,
                                 !.clean = TRUE]
               ELSE owed
    /\ UNCHANGED <<born, observed, manual, member, groups, tx, todo, edits>>

Ahead == {groups[i] : i \in {j \in DOMAIN groups : groups[j] > maint.cursor}}

WalkOpens(p) ==
    /\ tx = NoTx /\ pass[p].st = "walk"
    /\ IF Ahead # {}
       THEN PassOpens(p, "group", Min(GroupOf(Min(Ahead))))
       ELSE Ungrouped # {} /\ PassOpens(p, "late", Min(Ungrouped))

PassCloses(p) ==
    /\ tx # NoTx /\ tx.by = p /\ tx.frontier = {}
    /\ Assigned
    /\ pass' = NoteInherited(p)
    /\ maint' = IF tx.kind = "group" THEN [NextCycle(maint) EXCEPT !.cursor = Min(Ahead)]
                ELSE NextCycle(maint)
    /\ owed' = Stamped(Joined(owed))
    /\ tx' = NoTx
    /\ UNCHANGED <<born, observed, manual, todo, edits>>

(* A pass carries on only past a cycle that was running when it began.     *)
StopsAt(p, ended) == ended # pass[p].inherited

(* Past the last group with nobody ungrouped: the cycle ends, and a pass   *)
(* that joined no running cycle has started and ended one in one step.     *)
CycleEnds(p) ==
    /\ tx = NoTx /\ pass[p].st = "walk" /\ Ahead = {} /\ Ungrouped = {}
    /\ LET m == NextCycle(maint)
           j == NoteInherited(p)
       IN  /\ maint' = [m EXCEPT !.cycle = NoCycle, !.cursor = NoGroup]
           /\ pass' = IF StopsAt(p, m.cycle) THEN [j EXCEPT ![p].st = "done"] ELSE j
           /\ owed' = IF maint.cycle = NoCycle
                      THEN [owed EXCEPT !.cycle = {}, !.born = {}, !.manual = FALSE]
                      ELSE [owed EXCEPT !.cycle = owed.after, !.born = owed.bornAfter,
                                        !.manual = owed.manualAfter]
    /\ UNCHANGED <<born, observed, manual, member, groups, tx, todo, edits>>

(* The budget runs out, or the pass dies with its transaction.             *)
PassStops(p) ==
    /\ pass[p].st \in {"drain", "walk"}
    /\ pass' = [pass EXCEPT ![p].st = "done"]
    /\ tx' = IF tx.by = p THEN NoTx ELSE tx
    /\ UNCHANGED <<born, observed, manual, member, groups, maint, todo, owed, edits>>

---------------------------------------------------------------------------
Init ==
    /\ born = Chars \ Unborn
    /\ observed = {} /\ manual = {}
    /\ member = [c \in Chars |-> IF c \in born THEN c ELSE NoGroup]
    /\ groups = SetToSeq(born)
    /\ maint = [cursor |-> NoGroup, cycle |-> NoCycle, count |-> 0]
    /\ tx = NoTx
    /\ todo = [w \in Writers |-> {}]
    /\ pass = [p \in Passes |-> [st |-> "idle", inherited |-> Unset]]
    /\ owed = [stamp |-> {}, cycle |-> {}, after |-> {}, born |-> {}, bornAfter |-> {},
               manual |-> FALSE, manualAfter |-> FALSE, clean |-> TRUE]
    /\ edits = 0

PassStep(p) ==
    StartPass(p) \/ DrainOpens(p) \/ DrainEnds(p) \/ WalkOpens(p) \/ PassCloses(p) \/ CycleEnds(p)

Next ==
    \/ Round
    \/ \E w \in Writers : Write(w) \/ SeedOpens(w) \/ SeedCloses(w) \/ Loses(w)
    \/ ManualAdd \/ ManualRemove \/ Birth \/ Rebuild
    \/ \E p \in Passes : PassStep(p) \/ PassStops(p)

Spec == Init /\ [][Next]_vars

---------------------------------------------------------------------------
(* Properties.                                                             *)

Partition == Components(born, Counting)
Stored == {GroupOf(groups[i]) : i \in DOMAIN groups}

(* Every stored group has members and its id once, every membership names  *)
(* a stored group, and a cursor exists only inside a cycle (the check      *)
(* constraint of character_groups_maintenance).                            *)
TypeOK ==
    /\ born \subseteq Chars /\ observed \cup manual \subseteq Chars \X Chars
    /\ member \in [Chars -> GroupIds \cup {NoGroup}]
    /\ \A i, j \in DOMAIN groups : groups[i] = groups[j] => i = j
    /\ {} \notin Stored
    /\ {member[c] : c \in Chars} \ {NoGroup} = {groups[i] : i \in DOMAIN groups}
    /\ maint.cursor # NoGroup => maint.cycle # NoCycle
    /\ edits \in 0..MaxEdits

(* Characters whose links and groups overlap, as auditDrift clusters them, *)
(* and whether the stored groups differ there from the recomputed ones.    *)
Clusters == Components(born, Counting \cup Stored)

Drifts(k) == ~(k \in Partition /\ k \in Stored)

(* What the replay accepts as not yet due: a member's write later than its *)
(* group's recompute, a new character, a manual link across groups, none   *)
(* of them covered by a completed cycle that began later.                  *)
Pending(k) ==
    \/ \E c \in k : member[c] # NoGroup /\ c \in owed.stamp \cap owed.cycle
    \/ \E c \in k \cap Ungrouped : c \in owed.born
    \/ owed.manual /\ \E p \in manual :
            p[1] \in k /\ p[2] \in k /\ (member[p[1]] # member[p[2]] \/ p[1] \in Ungrouped)

(* Where the stored groups differ from the links, the audit finds a write, *)
(* a birth or a manual change it may still be waiting on: no interleaving  *)
(* of writers, lost recomputes and overlapping passes leaves a drift that  *)
(* nothing is known to owe.                                                *)
DriftIsPending == \A k \in Clusters : Drifts(k) => Pending(k)

(* A maintenance cycle that began after the last edit ends with the stored *)
(* groups equal to the components of the links, whatever recomputes were   *)
(* lost before it, removed manual links included.                          *)
CycleCovers ==
    maint.cycle # NoCycle /\ maint'.cycle = NoCycle /\ owed.clean => Partition = Stored

(* A group keeps its id as long as one part of it holds most of it: a      *)
(* recompute moves no majority to another id unless an older group takes   *)
(* it in.                                                                  *)
MajorityKeepsId ==
    \A i \in DOMAIN groups :
        LET g == GroupOf(groups[i])
        IN  tx # NoTx /\ tx' = NoTx /\ member' # member =>
            \A S \in SUBSET g :
                (2 * Cardinality(S) > Cardinality(g) /\ \E c \in S : \A d \in Chars :
                        (d \in g /\ member'[d] = member'[c]) <=> d \in S)
                => \A c \in S : \/ member'[c] = groups[i]
                                \/ \E j \in 1..(i - 1) : member'[c] = groups[j]

(* Fairness: advisory locks are granted in turn, so a transaction that     *)
(* asks for the groups lock again and again gets it; one that has it goes  *)
(* on.  Nothing forces an edit, a lost recompute or a spent budget.        *)
Fairness ==
    /\ WF_vars(Round)
    /\ \A p \in Passes : SF_vars(PassStep(p))
    /\ \A w \in Writers : SF_vars(SeedOpens(w) \/ SeedCloses(w))

FairSpec == Spec /\ Fairness

=============================================================================
