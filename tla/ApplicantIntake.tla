-------------------------- MODULE ApplicantIntake --------------------------
(***************************************************************************)
(* The applicant sheet's intake: a poll compares how often each identity   *)
(* occurs in the sheet with the stored counts, admits each rise as an      *)
(* intent or defers it, and records the response a root's intent came from *)
(* as an application.  Rows are told apart by their form serial alone.     *)
(*                                                                         *)
(* One tick runs at a time, so a poll's read and its transaction are one   *)
(* step.  A row is its serial and its identities in cell order.            *)
(***************************************************************************)
EXTENDS Naturals, FiniteSets, SequencesExt

CONSTANTS
    Ids,         \* applicant identities
    Numeric,     \* the Warcraft Logs ids among them, resolved at intake
    Forms,       \* identity lists a response may hold
    Edits,       \* which of "delete" and "parser" happen to the sheet
    BacklogLimit,
    HiddenLimit, \* suppressed occurrences of an identity one poll settles (1000)
    LinkCap,     \* identities of a response that may be linked
    MaxRows,     \* bound: responses
    MaxPolls     \* bound: polls

IntakeAssumption ==
    /\ IsFiniteSet(Ids) /\ Numeric \subseteq Ids /\ Edits \subseteq {"delete", "parser"}
    /\ BacklogLimit \in Nat /\ HiddenLimit \in Nat /\ LinkCap \in Nat /\ MaxRows \in Nat /\ MaxPolls \in Nat

VARIABLES
    sheet,     \* the responses
    rows,      \* serials given so far
    source,    \* applicant_source_state: ready, mark (0 is NULL), parser changed
    counts,    \* applicant_source_counts: recorded count, deferred occurrences
    intents,   \* applicant_source_intents
    apps,      \* applicant_source_applications and their members
    barred,    \* <<identity, poll>> of deferred occurrences that were suppressed
    polls,     \* polls made
    alerts,    \* responses announced
    absorbed,  \* occurrences a baseline took without an intent
    given      \* history: occurrences ever submitted

vars == <<sheet, rows, source, counts, intents, apps, barred, polls, alerts, absorbed, given>>

Orders == {o \in [1 .. Cardinality(Ids) -> Ids] : \A i, j \in DOMAIN o : o[i] = o[j] => i = j}

Larger(a, b) == IF a > b THEN a ELSE b
Less(a, b) == IF a > b THEN a - b ELSE 0

Occurs(x) == Cardinality({i \in DOMAIN sheet : x \in Range(sheet[i].ids)})
NewestSerial == FoldLeft(LAMBDA top, row : Larger(top, row.serial), 0, sheet)

Submit ==
    /\ rows < MaxRows
    /\ \E ids \in Forms : sheet' = Append(sheet, [serial |-> rows + 1, ids |-> ids])
    /\ rows' = rows + 1
    /\ given' = [x \in Ids |-> given[x] + (IF x \in Range(Last(sheet').ids) THEN 1 ELSE 0)]
    /\ UNCHANGED <<source, counts, intents, apps, barred, polls, alerts, absorbed>>

DeleteRow ==
    /\ "delete" \in Edits
    /\ \E i \in DOMAIN sheet : sheet' = RemoveAt(sheet, i)
    /\ UNCHANGED <<rows, source, counts, intents, apps, barred, polls, alerts, absorbed, given>>

ChangeParser ==
    /\ "parser" \in Edits /\ source.ready /\ ~source.reparse
    /\ source' = [source EXCEPT !.reparse = TRUE]
    /\ UNCHANGED <<sheet, rows, counts, intents, apps, barred, polls, alerts, absorbed, given>>

---------------------------------------------------------------------------
(* The poll.                                                               *)

(* chooseApplicationRow: the newest response above the mark the occurrence *)
(* carries and above the root's newest application.                        *)
Candidates(x, mark, known) ==
    LET floor == FoldSet(LAMBDA a, top : Larger(top, a.serial), mark, {a \in known : a.root = x})
    IN  {i \in DOMAIN sheet : sheet[i].ids[1] = x /\ sheet[i].serial > floor}

chooseApplicationRow(x, mark, known) ==
    LET among == Candidates(x, mark, known)
    IN  CHOOSE i \in among : \A j \in among : sheet[j].serial <= sheet[i].serial

(* A member's intent is the earliest one observed since the root was seen. *)
MemberIntent(x, at, made) ==
    LET since == {i \in DOMAIN made : made[i].id = x /\ made[i].at >= at}
    IN  IF since = {} THEN 0 ELSE CHOOSE i \in since : \A j \in since : i <= j

recordApplication(acc, x, o) ==
    IF source.reparse \/ o.mark = 0 \/ Candidates(x, o.mark, acc.apps) = {} THEN acc
    ELSE LET row == sheet[chooseApplicationRow(x, o.mark, acc.apps)]
             app == [root |-> x, intent |-> Len(acc.intents), serial |-> row.serial, mark |-> o.mark,
                     members |-> IF Len(row.ids) > LinkCap THEN <<>>
                                 ELSE [k \in 1 .. Len(row.ids) - 1 |->
                                        [id |-> row.ids[k + 1],
                                         intent |-> MemberIntent(row.ids[k + 1], o.at, acc.intents)]]]
         IN  IF Len(row.ids) < 2 THEN acc ELSE [acc EXCEPT !.apps = @ \cup {app}]

(* Members that wait for an intent of this identity get the one inserted.  *)
Tied(known, x, n) ==
    {[a EXCEPT !.members = [k \in DOMAIN a.members |->
        IF a.members[k] = [id |-> x, intent |-> 0] THEN [id |-> x, intent |-> n] ELSE a.members[k]]]
     : a \in known}

Pending(made) == Cardinality({i \in DOMAIN made : made[i].st = "pending"})

(* One occurrence: admitted, settled as suppressed, or left for later.     *)
Admit(acc, x, o, held, now) ==
    LET suppressed == <<x, o.at>> \in now
    IN  IF \/ x \in held
           \/ suppressed /\ acc.hidden >= HiddenLimit
           \/ ~suppressed /\ Pending(acc.intents) >= BacklogLimit
        THEN [acc EXCEPT !.left = Append(@, o)]
        ELSE LET made == Append(acc.intents,
                            [id |-> x, at |-> o.at, st |-> IF suppressed THEN "suppressed" ELSE "pending"])
             IN  recordApplication([acc EXCEPT !.intents = made, !.apps = Tied(@, x, Len(made)),
                                               !.taken = @ + 1,
                                               !.hidden = IF suppressed THEN @ + 1 ELSE @], x, o)

Shift(x) == IF source.reparse THEN Less(Occurs(x), counts[x].n + Len(counts[x].deferred)) ELSE 0

Occurrences(x) ==
    LET before == counts[x].n + Shift(x)
        rise   == Less(Occurs(x), before)
        kept   == SubSeq(counts[x].deferred, 1, IF rise < Len(counts[x].deferred) THEN rise
                                                ELSE Len(counts[x].deferred))
    IN  kept \o [k \in 1 .. rise - Len(kept) |-> [at |-> polls + 1, mark |-> source.mark]]

Fresh(x) == \E i \in DOMAIN Occurrences(x) : Occurrences(x)[i].at = polls + 1

(* Deferred occurrences are counted as recorded.                           *)
ReconcileAll(acc, x, held, now) ==
    LET done == FoldLeft(LAMBDA a, o : Admit(a, x, o, held, now),
                         [acc EXCEPT !.left = <<>>, !.taken = 0, !.hidden = 0], Occurrences(x))
    IN  [done EXCEPT !.counts[x] = [n |-> Occurs(x), deferred |-> <<>>]]

(* reconcileApplicantCounts, one identity of the loop.                     *)
Reconcile(acc, x, held, now) ==
    LET done   == FoldLeft(LAMBDA a, o : Admit(a, x, o, held, now),
                           [acc EXCEPT !.left = <<>>, !.taken = 0, !.hidden = 0], Occurrences(x))
        before == counts[x].n + Shift(x)
    IN  [done EXCEPT !.counts[x] =
            [n |-> IF Occurs(x) < before THEN Occurs(x) ELSE before + done.taken,
             deferred |-> done.left]]

Risen(made) == {x \in Ids : ~source.reparse /\ Occurs(x) > counts[x].n + Len(counts[x].deferred)}

(* One alert per response that is first seen, admitted or deferred.        *)
Announced(made) ==
    {sheet[i].serial : i \in {j \in DOMAIN sheet :
        sheet[j].serial > source.mark /\ Range(sheet[j].ids) \cap Risen(made) # {}}}

Baseline ==
    /\ ~source.ready
    /\ source' = [ready |-> TRUE, mark |-> NewestSerial, reparse |-> FALSE]
    /\ counts' = [x \in Ids |-> [n |-> Occurs(x), deferred |-> <<>>]]
    /\ absorbed' = [x \in Ids |-> Occurs(x)]
    /\ UNCHANGED <<sheet, rows, intents, apps, barred, polls, alerts, given>>

Poll ==
    /\ source.ready /\ polls < MaxPolls
    /\ \E order \in Orders, held \in SUBSET Numeric,
          sup \in SUBSET {x \in Ids : Fresh(x)} :
        LET now  == barred \cup (sup \X {polls + 1})
            done == FoldLeft(LAMBDA acc, x : Reconcile(acc, x, held, now),
                             [intents |-> intents, apps |-> apps, counts |-> counts,
                              left |-> <<>>, taken |-> 0, hidden |-> 0], order)
        IN  /\ intents' = done.intents /\ apps' = done.apps /\ counts' = done.counts
            /\ barred' = {p \in now : \E i \in DOMAIN done.counts[p[1]].deferred :
                                        done.counts[p[1]].deferred[i].at = p[2]}
            /\ absorbed' = [x \in Ids |-> absorbed[x] + Shift(x)]
            /\ alerts' = IF source.reparse \/ source.mark = 0 THEN alerts
                         ELSE alerts \cup Announced(done.intents)
            /\ source' = [source EXCEPT !.mark = Larger(@, NewestSerial), !.reparse = FALSE]
            /\ polls' = polls + 1
    /\ UNCHANGED <<sheet, rows, given>>

(* The drain settles an intent.                                            *)
Settle ==
    /\ \E i \in DOMAIN intents : intents[i].st = "pending" /\ intents' = [intents EXCEPT ![i].st = "done"]
    /\ UNCHANGED <<sheet, rows, source, counts, apps, barred, polls, alerts, absorbed, given>>

Init ==
    /\ sheet = <<>> /\ rows = 0 /\ polls = 0
    /\ source = [ready |-> FALSE, mark |-> 0, reparse |-> FALSE]
    /\ counts = [x \in Ids |-> [n |-> 0, deferred |-> <<>>]]
    /\ intents = <<>> /\ apps = {} /\ barred = {} /\ alerts = {}
    /\ absorbed = [x \in Ids |-> 0] /\ given = absorbed

Next == Submit \/ DeleteRow \/ ChangeParser \/ Baseline \/ Poll \/ Settle

Spec == Init /\ [][Next]_vars

---------------------------------------------------------------------------
(* Properties.                                                             *)

IntentsOf(x) == Cardinality({i \in DOMAIN intents : intents[i].id = x})

(* While responses are only added, every occurrence ever counted has one   *)
(* intent or was absorbed by a baseline, through any number of deferrals,  *)
(* refusals for a full backlog and parser changes: none is lost, none is   *)
(* admitted twice.                                                         *)
EveryOccurrenceOnce ==
    "delete" \notin Edits => \A x \in Ids : counts[x].n = absorbed[x] + IntentsOf(x)

(* When rows are removed too, counts fall and rise again: still nothing is *)
(* admitted that was not submitted anew, so no response counts twice.      *)
NoneTwice == \A x \in Ids : absorbed[x] + IntentsOf(x) <= given[x]

(* After a poll the counts and the deferred occurrences together are what  *)
(* the sheet holds, whatever was added or removed before it.               *)
PollCoversSheet ==
    polls' > polls => \A x \in Ids : counts'[x].n + Len(counts'[x].deferred) = Occurs(x)

(* A response is announced by the poll that first sees it, even when every *)
(* link of it was deferred, as long as no row disappeared.                 *)
AnnouncedWhenSeen ==
    polls' > polls /\ source.mark > 0 /\ ~source.reparse /\ "delete" \notin Edits =>
        \A i \in DOMAIN sheet : sheet[i].serial > source.mark => sheet[i].serial \in alerts'

(* A new parser starts nothing: what it admits was deferred before it.     *)
ReparseAdmitsDeferred ==
    polls' > polls /\ source.reparse =>
        \A i \in DOMAIN intents' \ DOMAIN intents : intents'[i].at <= polls

(* The undecided intents never outgrow the backlog limit.                  *)
BacklogBounded == Pending(intents) <= BacklogLimit

(* No response becomes two applications, and none older than the root's    *)
(* first sighting becomes one.                                             *)
OneApplicationPerResponse ==
    /\ \A a, b \in apps : a.serial = b.serial => a = b
    /\ \A a \in apps : a.serial > a.mark /\ intents[a.intent].id = a.root

(* A member is tied to an intent observed at or after its response.        *)
MemberIntentInTime ==
    \A a \in apps : \A k \in DOMAIN a.members :
        a.members[k].intent # 0 => intents[a.members[k].intent].at >= intents[a.intent].at

=============================================================================
