--------------------------- MODULE RosterPresence --------------------------
(***************************************************************************)
(* Finding a renamed raider in old rosters.  A pass resolves the profiles  *)
(* its encounters name: stored answers first, then physical reads by a few *)
(* workers.  A read is reserved in the repository and its answer saved     *)
(* under the reservation's token, for all passes to share; only a saved    *)
(* answer is proof.                                                        *)
(*                                                                         *)
(* Times are kept as ticks left, so that time has no bound.  A worker has  *)
(* one reservation at a time, so its name stands for the token.            *)
(***************************************************************************)
EXTENDS Naturals, FiniteSets, SequencesExt

CONSTANTS
    Locators,    \* historic profiles, numbered
    Real,        \* the character each resolves to, "gone" for none
    Broken,      \* those the provider always fails for
    Passes,      \* passes that may overlap
    Subject,     \* the character each pass looks for
    Workers,     \* ROSTER_PROFILE_RESOLUTION_CONCURRENCY
    MaxReads,    \* MAX_ROSTER_PROFILE_RESOLUTIONS
    Lease,       \* ticks a reservation lasts
    Lifetime,    \* ticks an answer is used
    Faults       \* whether passes crash and storage fails

Definitive(a) == a \notin {"none", "rate_limited"}

PresenceAssumption ==
    /\ \A l \in Locators : Definitive(Real[l])
    /\ Locators \subseteq Nat /\ IsFiniteSet(Locators) /\ Broken \subseteq Locators
    /\ IsFiniteSet(Passes) /\ {Workers, MaxReads, Lease, Lifetime} \subseteq Nat /\ Faults \in BOOLEAN

VARIABLES
    row,     \* each locator's row: token, lease, cooldown, answer, ticks it is used
    tried,   \* locators by their last attempt, oldest first, without those never tried
    pass,    \* each pass
    proved   \* locators whose character was saved at some time

vars == <<row, tried, pass, proved>>

Idle == [at |-> "idle"]
Crew == 1 .. Workers

NoPass == [at |-> "new", queue |-> <<>>, answers |-> [l \in Locators |-> "none"], reads |-> 0, made |-> 0,
           stopped |-> FALSE, crew |-> [w \in Crew |-> Idle], verdict |-> "none"]

Judge(p, a) == IF a = Subject[p] THEN "present" ELSE IF a = "gone" THEN "unknown" ELSE "absent"

(* Those tried longest ago first, those never tried before all.            *)
Queue(S) ==
    SetToSortSeq(S \ Range(tried), <) \o SelectSeq(tried, LAMBDA l : l \in S)

load(p) ==
    /\ pass[p].at = "new"
    /\ LET known == {l \in Locators : Definitive(row[l].answer) /\ row[l].used > 0}
           cool  == {l \in Locators \ known : row[l].cooldown > 0}
       IN  pass' = [pass EXCEPT ![p] =
                [pass[p] EXCEPT !.at = "reading", !.queue = Queue(Locators \ (known \cup cool)),
                          !.answers = [l \in Locators |-> IF l \in known THEN Judge(p, row[l].answer)
                                                          ELSE IF l \in cool THEN "unknown" ELSE "none"]]]
    /\ UNCHANGED <<row, tried, proved>>

Take(p, w) ==
    /\ pass[p].at = "reading" /\ pass[p].crew[w].at = "idle"
    /\ ~pass[p].stopped /\ pass[p].queue # <<>> /\ pass[p].reads < MaxReads
    /\ pass' = [pass EXCEPT ![p] = [pass[p] EXCEPT !.queue = Tail(@), !.reads = @ + 1,
                    !.crew[w] = [at |-> "reserve", on |-> Head(pass[p].queue)]]]
    /\ UNCHANGED <<row, tried, proved>>

Free(l) ==
    /\ ~row[l].just /\ row[l].lease = 0 /\ row[l].cooldown = 0
    /\ ~(Definitive(row[l].answer) /\ row[l].used > 0)

GoesOn(p) == ~pass[p].stopped

(* reserve, and what the worker does with the token.                       *)
reserve(p, w) ==
    /\ pass[p].at = "reading" /\ pass[p].crew[w].at = "reserve"
    /\ LET l == pass[p].crew[w].on
       IN  \/ /\ ~Free(l)
              /\ pass' = [pass EXCEPT ![p] = [pass[p] EXCEPT !.crew[w] = Idle, !.reads = @ - 1,
                                                       !.answers[l] = "unknown"]]
              /\ UNCHANGED <<row, tried>>
           \/ /\ Free(l)
              /\ row' = [row EXCEPT ![l] = [row[l] EXCEPT !.token = <<p, w>>, !.lease = Lease, !.just = TRUE]]
              /\ tried' = Append(SelectSeq(tried, LAMBDA x : x # l), l)
              /\ pass' = [pass EXCEPT ![p] =
                    IF GoesOn(p) THEN [pass[p] EXCEPT !.crew[w] = [at |-> "read", on |-> l], !.made = @ + 1]
                    ELSE [pass[p] EXCEPT !.crew[w] = Idle, !.answers[l] = "unknown"]]
    /\ UNCHANGED proved

(* resolveRosterProfile: a transient failure stops the pass.               *)
resolve(p, w) ==
    /\ pass[p].at = "reading" /\ pass[p].crew[w].at = "read"
    /\ \E a \in IF pass[p].crew[w].on \in Broken THEN {"rate_limited"}
                ELSE {Real[pass[p].crew[w].on]} \cup (IF Faults THEN {"rate_limited"} ELSE {}) :
        pass' = [pass EXCEPT ![p] = [pass[p] EXCEPT !.stopped = @ \/ a = "rate_limited",
                    !.crew[w] = [at |-> "answer", on |-> pass[p].crew[w].on, a |-> a]]]
    /\ UNCHANGED <<row, tried, proved>>

Accepted(l, t) == row[l].token = t

(* An answer that could not be saved is used all the same.                 *)
ReadAnyway(p, l, t, a) == IF a = "rate_limited" THEN "unknown" ELSE Judge(p, a)

Proof(p, l, t, a) == IF Accepted(l, t) /\ a # "rate_limited" THEN Judge(p, a) ELSE "unknown"

(* A late answer may extend the cooldown, nothing else.                    *)
answer(p, w) ==
    /\ pass[p].at = "reading" /\ pass[p].crew[w].at = "answer"
    /\ LET job == pass[p].crew[w]
           l   == job.on
       IN  /\ \E wait \in IF job.a = "rate_limited" THEN {0, 1} ELSE {0} :
                row' = [row EXCEPT ![l] =
                    [(IF Accepted(l, <<p, w>>)
                      THEN [row[l] EXCEPT !.answer = job.a, !.used = IF Definitive(job.a) THEN Lifetime ELSE 0,
                                     !.token = <<>>, !.lease = 0]
                      ELSE row[l])
                     EXCEPT !.cooldown = IF wait > @ THEN wait ELSE @]]
           /\ proved' = IF Accepted(l, <<p, w>>) /\ Definitive(job.a) THEN proved \cup {l} ELSE proved
           /\ pass' = [pass EXCEPT ![p] = [pass[p] EXCEPT !.crew[w] = Idle,
                                                    !.answers[l] = Proof(p, l, <<p, w>>, job.a)]]
    /\ UNCHANGED tried

(* Presence of the encounter that names all locators.                      *)
Verdict(p, answers) ==
    IF \E l \in Locators : answers[l] = "present" THEN "present"
    ELSE IF \A l \in Locators : answers[l] = "absent" THEN "absent" ELSE "unknown"

finish(p) ==
    /\ pass[p].at = "reading" /\ \A w \in Crew : pass[p].crew[w].at = "idle"
    /\ pass[p].stopped \/ pass[p].queue = <<>> \/ pass[p].reads >= MaxReads
    /\ pass' = [pass EXCEPT ![p] = [NoPass EXCEPT !.at = "done", !.answers = pass[p].answers,
                                                  !.verdict = Verdict(p, pass[p].answers)]]
    /\ UNCHANGED <<row, tried, proved>>

(* Storage fails: every answer of the pass is unknown.                     *)
StorageFails(p) ==
    /\ Faults /\ pass[p].at = "reading" /\ \A w \in Crew : pass[p].crew[w].at # "read"
    /\ pass' = [pass EXCEPT ![p] = [NoPass EXCEPT !.at = "done", !.verdict = "unknown"]]
    /\ UNCHANGED <<row, tried, proved>>

(* The next run of the character; or the worker stopped and it is retried. *)
Again(p) ==
    /\ pass[p].at = "done" \/ (Faults /\ pass[p].at = "reading")
    /\ pass' = [pass EXCEPT ![p] = NoPass]
    /\ UNCHANGED <<row, tried, proved>>

Less1(n) == IF n > 0 THEN n - 1 ELSE 0

Tick ==
    /\ row' = [l \in Locators |-> [row[l] EXCEPT !.lease = Less1(@), !.cooldown = Less1(@),
                                                 !.used = Less1(@), !.just = FALSE]]
    /\ UNCHANGED <<tried, pass, proved>>

Init ==
    /\ row = [l \in Locators |-> [token |-> <<>>, lease |-> 0, cooldown |-> 0, answer |-> "none",
                                  used |-> 0, just |-> FALSE]]
    /\ tried = <<>> /\ proved = {}
    /\ pass = [p \in Passes |-> NoPass]

Work(p) == load(p) \/ finish(p) \/ (\E w \in Crew : Take(p, w) \/ reserve(p, w) \/ resolve(p, w) \/ answer(p, w))

Next == (\E p \in Passes : Work(p) \/ Again(p) \/ StorageFails(p)) \/ Tick

Spec == Init /\ [][Next]_vars

(* Passes go on and the character is collected again.                      *)
LiveSpec == Spec /\ WF_vars(Tick) /\ \A p \in Passes : WF_vars(Work(p)) /\ WF_vars(Again(p))

---------------------------------------------------------------------------
(* Properties.                                                             *)

Reading(p, w) == pass[p].crew[w].at = "read"

(* A read is never begun while the provider's wait runs, nor by a pass     *)
(* that was already told to wait, though both were looked at before the    *)
(* reservation.                                                            *)
CooldownKept ==
    \A p \in Passes, w \in Crew :
        ~Reading(p, w) /\ pass'[p].crew[w].at = "read" => row[pass'[p].crew[w].on].cooldown = 0

StoppedReadsNothing ==
    \A p \in Passes, w \in Crew : ~Reading(p, w) /\ pass'[p].crew[w].at = "read" => ~pass[p].stopped

(* A saved answer stands for its lifetime, whatever late answer arrives.   *)
AnswerStands ==
    \A l \in Locators : Definitive(row[l].answer) /\ row[l].used > 0
        => row'[l].answer = row[l].answer

(* Presence and absence are said of saved answers only, and truly.         *)
VerdictIsProof ==
    \A p \in Passes : /\ \A l \in Locators : pass[p].answers[l] \in {"present", "absent"} => l \in proved
                      /\ pass[p].verdict = "present" => \E l \in Locators : Real[l] = Subject[p]
                      /\ pass[p].verdict = "absent" => \A l \in Locators : Real[l] # Subject[p]

(* A pass makes no more reads than allowed, its workers together.          *)
ReadsBounded ==
    \A p \in Passes : pass[p].made <= MaxReads

(* Profiles the provider never answers for do not keep the others from     *)
(* being resolved.                                                         *)
Resolved(l) == l \in proved

=============================================================================
