--------------------------- MODULE ApplicantLinks --------------------------
(***************************************************************************)
(* Linking an application's members to its root.  A pass decides members   *)
(* in one transaction that locks the application, so that a second worker  *)
(* skips it and takes another; but the groups are read, and each link is   *)
(* added, on other connections: between the two another worker may add its *)
(* own, and what is added stays when the pass is rolled back.  The         *)
(* hourly cleanup closes stale applications with one statement: what it    *)
(* counts is what was committed when it began, what it updates is the row  *)
(* as the pass left it.                                                    *)
(***************************************************************************)
EXTENDS Naturals, FiniteSets, FiniteSetsExt

CONSTANTS
    Chars,       \* characters
    Apps,        \* applications
    Root,        \* each application's root
    Members,     \* each application's other characters
    Given,       \* links that exist, sets of two characters
    Broken,      \* applications whose processing throws
    Barred,      \* suppressed characters, those of another region or excluded
    Faults,      \* whether another error or a stop may cut a pass short
    Workers,     \* workers whose passes may overlap
    Cleans,      \* whether the hourly cleanup runs
    Stale        \* applications the cleanup may find stale

LinksAssumption ==
    /\ IsFiniteSet(Chars) /\ IsFiniteSet(Workers) /\ Cleans \in BOOLEAN /\ Faults \in BOOLEAN
    /\ Stale \subseteq Apps /\ Broken \subseteq Apps
    /\ \A a \in Apps : Root[a] \in Chars /\ Members[a] \subseteq Chars

VARIABLES
    app,      \* rows: settled, closed, undecided members, outcome counts, turn
    links,    \* links that count for groups
    exists,   \* characters with a row
    pass,     \* each worker's pass: its application and what it has decided
    raced,    \* history: a link was added after others than the groups were read
    cleanup   \* the cleanup's statement: the count it took of an application

vars == <<app, links, exists, pass, raced, cleanup>>

NoPass == [at |-> "none"]
NoCleanup == [at |-> "none"]
Outcomes == {"linked", "suppressed", "skipped_cross_group", "expired"}

---------------------------------------------------------------------------
(* Groups.                                                                 *)

Around(S, edges) == S \cup UNION {e \in edges : e \cap S # {}}

Component(x, edges) ==
    LET reach[k \in 0 .. Cardinality(Chars)] ==
            IF k = 0 THEN {x} ELSE LET prev == reach[k - 1] IN Around(prev, edges)
    IN  reach[Cardinality(Chars)]

Shared(x, edges) == Cardinality(Component(x, edges)) > 1

(* countingComponents: two groups that both have others.                   *)
Crosses(r, m) == m \notin Component(r, links) /\ Shared(r, links) /\ Shared(m, links)

---------------------------------------------------------------------------
(* The pass.                                                               *)

settleApplicantApplications ==
    /\ \E a \in Apps : ~app[a].settled /\ app' = [app EXCEPT ![a].settled = TRUE]
    /\ UNCHANGED <<links, exists, pass, raced, cleanup>>

Create ==
    /\ \E x \in Chars \ exists : exists' = exists \cup {x}
    /\ UNCHANGED <<app, links, pass, raced, cleanup>>

Locked(a) == \E w \in Workers : pass[w] # NoPass /\ pass[w].on = a
Ready(a) == app[a].settled /\ ~app[a].closed /\ ~Locked(a)

(* Outside the savepoint: the application goes to the back.                *)
Bumped(a) ==
    [b \in Apps |-> [app[b] EXCEPT !.turn =
        IF b = a THEN Cardinality(Apps) ELSE Cardinality({c \in Apps \ {a} : app[c].turn < app[b].turn})]]

(* linkApplicantApplications with a batch of one: the first application no *)
(* other worker has locked.                                                *)
linkApplicantApplications(w) ==
    /\ pass[w] = NoPass
    /\ \E a \in Apps :
        /\ Ready(a) /\ \A b \in Apps : Ready(b) => app[a].turn <= app[b].turn
        /\ pass' = [pass EXCEPT ![w] = [at |-> "linking", on |-> a, todo |-> app[a].undecided,
                       waits |-> {}, counts |-> [o \in Outcomes |-> 0], adds |-> {}, seen |-> {}]]
    /\ UNCHANGED <<app, links, exists, raced, cleanup>>

Linking(w) == pass[w].at = "linking" /\ pass[w].on \notin Broken
RootOn(w) == Root[pass[w].on]

Decided(w, m, outcome) ==
    [pass[w] EXCEPT !.at = "linking", !.todo = @ \ {m}, !.counts[outcome] = @ + 1,
                    !.adds = {}, !.seen = {}]

(* A suppressed root, or seven days since settlement, decides them all.    *)
CloseWhole(w) ==
    /\ Linking(w) /\ pass[w].todo = app[pass[w].on].undecided
    /\ RootOn(w) \in Barred \/ pass[w].on \in Stale
    /\ LET outcome == IF RootOn(w) \in Barred THEN "suppressed" ELSE "expired" IN
       pass' = [pass EXCEPT ![w] = [pass[w] EXCEPT !.todo = {},
                                       !.counts[outcome] = Cardinality(pass[w].todo)]]
    /\ UNCHANGED <<app, links, exists, raced, cleanup>>

(* linkApplication, one member: it waits, or the groups decide...          *)
linkApplication(w) ==
    /\ Linking(w) /\ RootOn(w) \notin Barred
    /\ \E m \in pass[w].todo :
        pass' = [pass EXCEPT ![w] =
            IF ~({m, RootOn(w)} \subseteq exists)
            THEN [pass[w] EXCEPT !.todo = @ \ {m}, !.waits = @ \cup {m}]
            ELSE IF m \in Barred THEN Decided(w, m, "suppressed")
            ELSE IF Crosses(RootOn(w), m) THEN Decided(w, m, "skipped_cross_group")
            ELSE [pass[w] EXCEPT !.at = "adding", !.adds = {m}, !.seen = links]]
    /\ UNCHANGED <<app, links, exists, raced, cleanup>>

(* ... and manualConnections.add commits, whatever was linked since.       *)
AddLink(w) ==
    /\ pass[w].at = "adding"
    /\ \E m \in pass[w].adds :
        /\ links' = links \cup {{RootOn(w), m}}
        /\ pass' = [pass EXCEPT ![w] = Decided(w, m, "linked")]
    /\ raced' = (raced \/ links # pass[w].seen)
    /\ UNCHANGED <<app, exists, cleanup>>

Added(row, counts) == [row EXCEPT !.counts = [o \in Outcomes |-> @[o] + counts[o]]]

(* The pass commits; an application with no one waiting is closed.         *)
CommitPass(w) ==
    /\ Linking(w) /\ pass[w].todo = {}
    /\ LET a == pass[w].on IN
       app' = [Bumped(a) EXCEPT ![a] = [Added(@, pass[w].counts) EXCEPT
                   !.undecided = pass[w].waits, !.closed = (pass[w].waits = {})]]
    /\ pass' = [pass EXCEPT ![w] = NoPass]
    /\ UNCHANGED <<links, exists, raced, cleanup>>

(* It throws: back to the savepoint, and only the turn is committed.       *)
FailApplication(w) ==
    /\ pass[w] # NoPass /\ (pass[w].on \in Broken \/ Faults)
    /\ app' = Bumped(pass[w].on) /\ pass' = [pass EXCEPT ![w] = NoPass]
    /\ UNCHANGED <<links, exists, raced, cleanup>>

(* The worker stops: everything but the added links is rolled back.        *)
CrashPass(w) ==
    /\ pass[w] # NoPass /\ Faults
    /\ pass' = [pass EXCEPT ![w] = NoPass]
    /\ UNCHANGED <<app, links, exists, raced, cleanup>>

---------------------------------------------------------------------------
(* closeStaleApplicantApplications                                         *)

BeginCleanup ==
    /\ Cleans /\ cleanup = NoCleanup
    /\ \E a \in Stale : /\ ~app[a].closed
                        /\ cleanup' = [at |-> "update", on |-> a, count |-> Cardinality(app[a].undecided)]
    /\ UNCHANGED <<app, links, exists, pass, raced>>

(* The update waits for the row's lock and looks at the row again.         *)
CloseStale ==
    /\ cleanup.at = "update"
    /\ ~Locked(cleanup.on)
    /\ app' = IF app[cleanup.on].closed THEN app
              ELSE [app EXCEPT ![cleanup.on] = [@ EXCEPT !.closed = TRUE, !.undecided = {},
                                                        !.counts["expired"] = @ + cleanup.count]]
    /\ cleanup' = NoCleanup
    /\ UNCHANGED <<links, exists, pass, raced>>

Init ==
    /\ app = [a \in Apps |-> [settled |-> FALSE, closed |-> FALSE, undecided |-> Members[a],
                              counts |-> [o \in Outcomes |-> 0], turn |-> 0]]
    /\ links = Given /\ exists = {} /\ raced = FALSE
    /\ pass = [w \in Workers |-> NoPass] /\ cleanup = NoCleanup

PassStep(w) ==
    linkApplication(w) \/ AddLink(w) \/ CloseWhole(w) \/ CommitPass(w) \/ FailApplication(w)

Next ==
    \/ settleApplicantApplications \/ Create
    \/ \E w \in Workers : linkApplicantApplications(w) \/ PassStep(w) \/ CrashPass(w)
    \/ BeginCleanup \/ CloseStale

Fairness ==
    /\ WF_vars(settleApplicantApplications) /\ WF_vars(Create)
    /\ \A w \in Workers : WF_vars(linkApplicantApplications(w)) /\ WF_vars(PassStep(w))

Spec == Init /\ [][Next]_vars
LiveSpec == Spec /\ Fairness

---------------------------------------------------------------------------
(* Properties.                                                             *)

(* No application joins two groups that both had others, though every link *)
(* changes what the next member of the pass, or its retry, is judged by:   *)
(* unless a link was added between the reading of the groups and the link  *)
(* that rests on it, which only another worker can do.                     *)
GroupsStayApart ==
    ~raced => \A x, y \in Chars :
        Shared(x, Given) /\ Shared(y, Given) /\ y \notin Component(x, Given)
            => y \notin Component(x, links)

Total(a) == FoldSet(LAMBDA o, sum : sum + app[a].counts[o], 0, Outcomes)

(* Each member of a closed application is counted under one outcome,       *)
(* through failed and repeated passes.                                     *)
OutcomesAddUp ==
    \A a \in Apps : Total(a) + Cardinality(app[a].undecided) = Cardinality(Members[a])

(* The links of an application that was decided before it expired are all  *)
(* counted as linked, also those whose pass was rolled back: the retry     *)
(* neither skips nor loses them.                                           *)
LinkIsCounted ==
    \A a \in Apps : app[a].closed /\ app[a].counts["expired"] = 0 =>
        Cardinality({m \in Members[a] : {Root[a], m} \in links \ Given}) <= app[a].counts["linked"]

(* An application that always throws does not keep the others from their   *)
(* turn.                                                                   *)
Closed(a) == app[a].closed

=============================================================================
