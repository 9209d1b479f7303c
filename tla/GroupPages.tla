----------------------------- MODULE GroupPages ----------------------------
(***************************************************************************)
(* Who is on a character's page.  Today's page is read from the latest     *)
(* snapshot of the character, or from another root's that declares it, and *)
(* from its manual connections with their own snapshots; the group page is *)
(* read from the counting links of its group.  The replay compares them    *)
(* page by page before the group page takes over.                          *)
(*                                                                         *)
(* A publication writes its observations in the same step here (see        *)
(* ConnectionWrites for when it does not).  A page is a set of rows; their *)
(* order and the display cap are left out.                                 *)
(***************************************************************************)
EXTENDS PathStrengths, TLC

CONSTANTS
    Keys,        \* characters
    Edits,       \* which edits happen
    Sources,     \* how a publication finds its members
    Codes,       \* limitation codes of publications, "none" for a complete one
    PendingIds,  \* whether a Warcraft Logs id may be known for an undiscovered key
    Keeps,       \* whether a publication's write may keep, or retract, older links
    MaxEdits     \* bound: edits

PagesAssumption ==
    /\ IsFiniteSet(Keys) /\ PendingIds \in BOOLEAN /\ MaxEdits \in Nat
    /\ Sources \subseteq {"raiderio", "fingerprint"}
    /\ Keeps \subseteq BOOLEAN /\ Codes \subseteq {"none", "limited"}
    /\ Edits \subseteq {"publish", "manual", "remove", "exclude", "suppress", "resolve", "recompute"}

VARIABLES
    known,       \* characters with a row
    snap,        \* the latest snapshot of every root
    order,       \* roots in the order of their latest publications
    observed,    \* observed links
    manual,      \* manual connections, oldest first
    exclusions,  \* <<root, character>> exclusions of discovered characters
    suppressed,
    wcl,         \* the recorded Warcraft Logs ids, NoId for none
    groupOf,     \* the stored groups, a set of sets
    answered,    \* the last exclusion request that was answered "updated"
    edits

vars == <<known, snap, order, observed, manual, exclusions, suppressed, wcl, groupOf,
          answered, edits>>

NoId == 0
NoSnapshot == [st |-> "none", code |-> "none", members |-> <<>>]
NoAnswer == [kind |-> "none"]

Link(a, b, s) == [a |-> a, b |-> b, strength |-> s]

---------------------------------------------------------------------------
(* Reads of the stores.                                                    *)

(* getCurrent: nothing for a suppressed root, no suppressed member.        *)
Current(r) ==
    IF snap[r].st = "none" \/ r \in suppressed THEN NoSnapshot
    ELSE [snap[r] EXCEPT !.members =
            [c \in DOMAIN snap[r].members \ suppressed |-> snap[r].members[c]]]

(* getCurrentDeclaringCharacter and borrowSnapshot: the newest snapshot    *)
(* that declares the character, with the character as its root.            *)
Declaring(k) ==
    {r \in known \ (suppressed \cup {k}) :
        k \in DOMAIN snap[r].members /\ snap[r].members[k] = "raiderio"}

Borrowed(k) ==
    IF Declaring(k) = {} \/ k \in suppressed THEN NoSnapshot
    ELSE LET at(r) == CHOOSE i \in DOMAIN order : order[i] = r
             from  == CHOOSE r \in Declaring(k) : \A q \in Declaring(k) : at(q) <= at(r)
             c     == Current(from)
         IN  [c EXCEPT !.members = [x \in DOMAIN c.members \cup {from} |->
                IF x = from THEN "raiderio" ELSE IF x = k THEN "input" ELSE c.members[x]]]

ManualOf(r) == SelectSeq(manual, LAMBDA m : m.maker = r /\ m.target \notin suppressed)

(* The counting links: observed ones and manual ones between known         *)
(* characters.                                                             *)
Links == observed \cup {Link(m.maker, m.target, "manual") :
                          m \in {n \in ToSet(manual) : n.target \in known}}

Identity(c, cand) == {d \in cand : d = c \/ (wcl[c] # NoId /\ wcl[d] = wcl[c])}

---------------------------------------------------------------------------
(* legacyResolveSubjects: today's page.                                    *)

(* Rows admitted in turn: a key that was seen keeps its first label.       *)
Admit(rows, new) ==
    [c \in DOMAIN rows \cup DOMAIN new |-> IF c \in DOMAIN rows THEN rows[c] ELSE new[c]]

TodayRows(k) ==
    LET own  == Current(k)
        base == IF own.st # "none" THEN own ELSE Borrowed(k)
        add(rows, m) ==
            LET itself == [c \in {m.target} |-> "manual"]
                theirs == IF m.target \in known THEN Current(m.target).members ELSE <<>>
            IN  Admit(Admit(rows, itself), theirs)
    IN  IF base.st = "none" THEN <<>>
        ELSE FoldLeft(add, Admit([c \in {k} |-> "input"], base.members), ManualOf(k))

TodayExclusions(k) ==
    {x \in Keys : <<k, x>> \in exclusions}
    \cup {m.target : m \in {n \in ToSet(ManualOf(k)) : n.excluded}}

(* The keys of today's excluded rows.                                      *)
TodayHidden(k) ==
    LET shown == DOMAIN TodayRows(k)
    IN  {c \in shown : LET I == Identity(c, shown)
                       IN  k \notin I /\ I \cap TodayExclusions(k) # {}}

TodayLimitation(k) ==
    LET own == Current(k) IN IF own.st # "none" THEN own.code ELSE Borrowed(k).code

---------------------------------------------------------------------------
(* resolveGroupSubjects: the group page.                                   *)

(* Links whose first end is in the group are walked.                       *)
pageMembersOneEnd(o, groups) ==
    IF o \in suppressed \/ ~\E g \in groups : o \in g THEN {o} \ suppressed
    ELSE LET group == CHOOSE g \in groups : o \in g
             usable == {e \in Links : e.a \in group /\ Ends(e) \cap suppressed = {}}
             f[n \in 0..Cardinality(Keys)] ==
                IF n = 0 THEN {o}
                ELSE LET got == f[n - 1]
                     IN  got \cup UNION {Ends(e) : e \in {d \in usable : Ends(d) \cap got # {}}}
         IN  f[Cardinality(Keys)]

(* Reach within the group, never through a suppressed character.           *)
pageMembers(o, groups) ==
    IF o \in suppressed \/ ~\E g \in groups : o \in g THEN {o} \ suppressed
    ELSE LET group == CHOOSE g \in groups : o \in g
             usable == {e \in Links : Ends(e) \subseteq group \ suppressed}
             f[n \in 0..Cardinality(Keys)] ==
                IF n = 0 THEN {o}
                ELSE LET got == f[n - 1]
                     IN  got \cup UNION {Ends(e) : e \in {d \in usable : Ends(d) \cap got # {}}}
         IN  f[Cardinality(Keys)]

(* The manual targets of page members that have no row yet.                *)
Undiscovered(members) ==
    {m \in ToSet(manual) : m.maker \in members /\ m.target \notin known \cup suppressed}

(* The label of a row does not depend on the order (LinkGraphs).      *)
InSomeOrder(edges) == FoldSet(LAMBDA e, s : Append(s, e), <<>>, edges)

GroupRows(o, groups) ==
    LET members == pageMembers(o, groups)
    IN  [c \in {o} |-> "input"]
        @@ pathStrengths(o, InSomeOrder({e \in Links : Ends(e) \subseteq members}))
        @@ [c \in members |-> "fingerprint"]
        @@ [c \in {m.target : m \in Undiscovered(members)} |-> "manual"]

GroupKeys(o, groups) ==
    LET members == pageMembers(o, groups)
    IN  members \cup {m.target : m \in Undiscovered(members)}

SelfExclusion(maker, target) == wcl[maker] # NoId /\ wcl[maker] = wcl[target]

GroupExclusions(o, members) ==
    ({m.target : m \in {n \in ToSet(manual) :
        n.excluded /\ n.maker \in members /\ ~SelfExclusion(n.maker, n.target)}}
     \cup {x[2] : x \in {y \in exclusions :
        y[1] \in members /\ y[2] \in known /\ ~SelfExclusion(y[1], y[2])}}) \ {o}

(* Ids are read for members only, so an undiscovered key is a row of its   *)
(* own.                                                                    *)
GroupIdentity(c, rows) == IF c \in known THEN Identity(c, rows \cap known) ELSE {c}

GroupHidden(o, groups) ==
    LET rows == GroupKeys(o, groups)
        cut  == GroupExclusions(o, pageMembers(o, groups))
    IN  {c \in rows : LET I == GroupIdentity(c, rows) IN o \notin I /\ I \cap cut # {}}

GroupLimitations(o, groups) ==
    {Current(c).code : c \in pageMembers(o, groups)} \ {"none"}

(* withRecomputedGroups: the components of the links.                      *)
Recomputed ==
    LET links == Links
        f[n \in 0..Cardinality(Keys)] ==
            IF n = 0 THEN {{x} : x \in known}
            ELSE LET parts == f[n - 1]
                 IN  {UNION {q \in parts : q = p \/ \E e \in links :
                                Ends(e) \cap p # {} /\ Ends(e) \cap q # {}} : p \in parts}
    IN  f[Cardinality(Keys)]

---------------------------------------------------------------------------
(* Edits.                                                                  *)

Edit(e) == e \in Edits /\ edits < MaxEdits /\ edits' = edits + 1 /\ answered' = NoAnswer

(* A discovery run publishes; its write adds the links of the members and  *)
(* keeps or retracts earlier ones of this root.                            *)
Publish ==
    /\ Edit("publish")
    /\ \E r \in Keys \ suppressed, M \in SUBSET Keys, code \in Codes, keep \in Keeps :
        /\ r \notin M
        /\ \E src \in [M -> Sources] :
            LET mine == {Link(r, c, src[c]) : c \in M}
                old  == {e \in observed : e.a = r}
            IN  /\ snap' = [snap EXCEPT ![r] = [st |-> IF code = "none" THEN "complete" ELSE "partial",
                                                code |-> code, members |-> src]]
                /\ observed' = IF keep THEN observed \cup mine ELSE (observed \ old) \cup mine
                /\ known' = known \cup M \cup {r}
                /\ order' = Append(SelectSeq(order, LAMBDA q : q # r), r)
    /\ UNCHANGED <<manual, exclusions, suppressed, wcl, groupOf>>

addConnectedCharacter ==
    /\ Edit("manual")
    /\ \E r \in known, t \in Keys \ suppressed :
        /\ r # t /\ ~\E m \in ToSet(manual) : m.maker = r /\ m.target = t
        /\ manual' = Append(manual, [maker |-> r, target |-> t, excluded |-> FALSE])
    /\ UNCHANGED <<known, snap, order, observed, exclusions, suppressed, wcl, groupOf>>

removeConnectedCharacter ==
    /\ Edit("remove")
    /\ \E i \in DOMAIN manual : manual' = RemoveAt(manual, i)
    /\ UNCHANGED <<known, snap, order, observed, exclusions, suppressed, wcl, groupOf>>

isConnectedToDossier(r, t) ==
    \/ t = r
    \/ t \in DOMAIN Current(r).members
    \/ \E m \in ToSet(ManualOf(r)) : t = m.target \/ t \in DOMAIN Current(m.target).members

(* The other names on the target's row.                                    *)
sharedIdentityKeys(r, t) ==
    {k \in Keys \ {r, t} : wcl[t] # NoId /\ wcl[k] = wcl[t] /\ isConnectedToDossier(r, k)}

(* Each name of the row: its manual connection is marked, or else a row of *)
(* dossier_character_exclusions is written or deleted.  The action of a    *)
(* page's row, so it is answered when the name changes.                    *)
setConnectedCharacterExclusion ==
    /\ "exclude" \in Edits /\ edits < MaxEdits /\ edits' = edits + 1
    /\ \E r \in known, t \in Keys, on \in BOOLEAN :
        LET byHand == {m.target : m \in {n \in ToSet(manual) : n.maker = r}}
            names  == {t} \cup sharedIdentityKeys(r, t)
            found  == {k \in names \ byHand : isConnectedToDossier(r, k)}
            rows   == {<<r, k>> : k \in found}
        IN  /\ t \in byHand \/ (t \in found /\ (on => <<r, t>> \notin exclusions))
            /\ manual' = [i \in DOMAIN manual |->
                    IF manual[i].maker = r /\ manual[i].target \in names
                    THEN [manual[i] EXCEPT !.excluded = on] ELSE manual[i]]
            /\ exclusions' = IF on THEN exclusions \cup rows ELSE exclusions \ rows
            /\ answered' = [kind |-> "updated", root |-> r, target |-> t, excluded |-> on]
    /\ UNCHANGED <<known, snap, order, observed, suppressed, wcl, groupOf>>

Suppress ==
    /\ Edit("suppress")
    /\ \E c \in Keys \ suppressed : suppressed' = suppressed \cup {c}
    /\ UNCHANGED <<known, snap, order, observed, manual, exclusions, wcl, groupOf>>

(* An evidence run records the id a key resolved to.                       *)
Resolve ==
    /\ Edit("resolve")
    /\ \E c \in Keys : /\ wcl[c] = NoId /\ (c \in known \/ PendingIds)
                       /\ wcl' = [wcl EXCEPT ![c] = 1]
    /\ UNCHANGED <<known, snap, order, observed, manual, exclusions, suppressed, groupOf>>

(* The stored groups follow the links late (see CharacterGroups).          *)
Recompute ==
    /\ "recompute" \in Edits /\ groupOf # Recomputed
    /\ groupOf' = Recomputed /\ answered' = NoAnswer
    /\ UNCHANGED <<known, snap, order, observed, manual, exclusions, suppressed, wcl, edits>>

Init ==
    /\ known = {} /\ snap = [k \in Keys |-> NoSnapshot] /\ order = <<>> /\ observed = {}
    /\ manual = <<>> /\ exclusions = {} /\ suppressed = {} /\ wcl = [k \in Keys |-> NoId]
    /\ groupOf = {} /\ answered = NoAnswer /\ edits = 0

Next ==
    \/ Publish \/ addConnectedCharacter \/ removeConnectedCharacter
    \/ setConnectedCharacterExclusion \/ Suppress \/ Resolve \/ Recompute

Spec == Init /\ [][Next]_vars

---------------------------------------------------------------------------
(* Properties: the failures comparePages reports, and what the pages of    *)
(* one group have in common.                                               *)

Rank == [input |-> 4, raiderio |-> 3, fingerprint |-> 2, manual |-> 1]

Pages == {k \in known \ suppressed : DOMAIN TodayRows(k) # {}}

(* No suppressed character is on any page or in any of its limitations,    *)
(* and a page never loses the character it is about.                       *)
TypeOK ==
    /\ known \subseteq Keys /\ \A m \in ToSet(manual) : m.maker \in known
    /\ \A k \in Pages :
        /\ (DOMAIN TodayRows(k) \cup GroupKeys(k, groupOf)) \cap suppressed = {}
        /\ k \in DOMAIN TodayRows(k) \ TodayHidden(k)
        /\ k \in GroupKeys(k, groupOf) \ GroupHidden(k, groupOf)

(* comparePages "removed", "label_weakened" and "limitation_missing": the  *)
(* group page shows every key today's page shows, with a label at least as *)
(* strong, and tells every limitation today's page tells.                  *)
GroupPageKeepsToday ==
    LET groups == Recomputed IN \A k \in Pages :
        LET today == TodayRows(k)
            next  == GroupRows(k, groups)
        IN  /\ DOMAIN today \subseteq DOMAIN next
            /\ \A c \in DOMAIN today \ Identity(k, DOMAIN today) : Rank[next[c]] >= Rank[today[c]]
            /\ TodayLimitation(k) \in GroupLimitations(k, groups) \cup {"none"}

(* comparePages "exclusion_lost": a key whose row is excluded today is on  *)
(* an excluded row of the group page, unless it is the opened character.   *)
HiddenStaysHidden ==
    LET groups == Recomputed IN \A k \in Pages :
        TodayHidden(k) \subseteq GroupHidden(k, groups) \cup Identity(k, Keys)

(* All characters of a page have the same page, even while the stored      *)
(* groups lag behind the links.                                            *)
PagesAgree ==
    \A k \in known \ suppressed : \A c \in pageMembers(k, groupOf) :
        pageMembers(c, groupOf) = pageMembers(k, groupOf)

(* Exclusions are shared: a character hidden on one page of a group is     *)
(* hidden on all of them but the pages of its own names.                   *)
ExclusionShared ==
    \A k \in known \ suppressed : \A c \in pageMembers(k, groupOf) :
        \A x \in GroupHidden(k, groupOf) \cap known :
            x \in GroupHidden(c, groupOf) \/ c \in Identity(x, known)

(* A row's Include is effective: once it is answered, the row is shown.    *)
IncludeShows ==
    answered.kind = "updated" /\ ~answered.excluded
        => answered.target \notin TodayHidden(answered.root)

=============================================================================
