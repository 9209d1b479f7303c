-------------------------- MODULE FingerprintSweep --------------------------
(***************************************************************************)
(* The fingerprint sweep of one character: how a discovery run waits for   *)
(* the shared Blizzard budget, sweeps, publishes, and continues its roster *)
(* in further cycles, over at-least-once deliveries.                       *)
(*                                                                         *)
(*   - admissions: database/src/fingerprint-sweeps.ts;                     *)
(*   - fenced deliveries: database/src/fingerprint-delivery.ts;            *)
(*   - the sweep block of application/src/discovery-job-handler.ts;        *)
(*   - the admission queue, its dispatcher and the recovery a worker does  *)
(*     when it starts: apps/worker/src/runtime.ts.                         *)
(*                                                                         *)
(* Whether the budget has room is a free choice here (SweepBudget has the  *)
(* arithmetic), and so is being behind another character's admission.      *)
(* Every fenced transaction holds the root lock and the fingerprint lock,  *)
(* so each is one step.                                                    *)
(***************************************************************************)
EXTENDS JobQueue, Sequences, FiniteSets

CONSTANTS MaxRuns,        \* bound: discovery runs of the character
          MaxAdmissions,  \* bound: rows of fingerprint_sweep_admissions
          MaxCursor,      \* candidates of the roster
          MaxFailures,    \* MAX_CONTINUATION_NON_PROGRESS_CYCLES; 5 in the code
          MaxFaults       \* bound: faults and lapses of time in a behaviour

SweepAssumption ==
  /\ MaxRuns \in Nat \ {0} /\ MaxAdmissions \in Nat
  /\ MaxCursor \in Nat /\ MaxFailures \in Nat \ {0}
  /\ MaxFaults \in Nat

ASSUME SweepBounds == SweepAssumption

RunIds  == 1..MaxRuns
NoRun   == 0
NoRow   == 0
Unswept == 0     \* resume_after IS NULL

VARIABLES
  run,      \* discovery_runs of the character
  root,     \* its fingerprint_sweep_states row
  adm,      \* fingerprint_sweep_admissions and _reservations, by queue_order
  jobs,     \* pgboss.job of queue discover-character
  aq,       \* pgboss.job of queue fingerprint-admission, one per run
  disp,     \* the admission handler and the dispatch it makes
  boot,     \* the recovery of a worker that starts
  exec,     \* deliveries being executed by a worker
  faults    \* how many faults there have been

vars == <<run, root, adm, jobs, aq, disp, boot, exec, faults>>

-----------------------------------------------------------------------------
(* Rows and records *)

ActiveStatus == {"queued", "running", "retrying"}

RunRow ==
  [status  : ActiveStatus \cup {"absent", "complete", "failed"},
   attempt : Nat,
   aged    : BOOLEAN,                        \* past maxJobLifetimeMs
   cause   : {"none", "lifetime", "other"}]  \* history: why it failed

RootRow ==
  [cursor   : 0..MaxCursor,           \* resume_after: the last candidate swept
   owner    : RunIds \cup {NoRun},    \* the run of resume_snapshot_id
   failures : 0..MaxFailures,         \* continuation_failures
   recent   : BOOLEAN]                \* last_published_at within the cadence

AdmissionRow ==
  [run        : RunIds,
   kind       : {"ordinary", "continuation"},                    \* dispatch_kind
   status     : {"waiting", "admitted", "not_due", "released", "finished"},
   consumed   : BOOLEAN,
   base       : Nat,                                             \* attempt_base
   job        : JobIds \cup {NoJob},                             \* execution_job_id
   att        : 0..MaxAttempts,                                  \* execution_attempt
   dispatched : BOOLEAN,
   res        : {"none", "held", "lapsed", "released"},          \* its reservation
   when       : {"now", "later", "due"},    \* requested_at: at once, or in the future
   late       : BOOLEAN]                    \* last_published_at > cadence_cutoff

ExecSteps == {"accept", "claim", "admit", "waiting", "notDue", "sweep", "release",
              "noProgress", "requeue", "enqueue", "retry", "fail", "unexpected",
              "return", "throw"}

(* (job, att) stands for the delivery's execution_token: each accepts or   *)
(* binds an admission at most once.                                        *)
Execution ==
  [job : JobIds, att : 1..MaxAttempts, run : RunIds, pc : ExecSteps,
   adm      : 0..MaxAdmissions,   \* the admission its fence names, if any
   base     : Nat,
   cont     : BOOLEAN,            \* runs as a continuation
   res      : 0..MaxAdmissions,   \* the admission whose reservation it holds
   live     : BOOLEAN,            \* that one had time left when the sweep began
   seen     : 0..MaxCursor,       \* resumeAfter it sweeps from
   next     : ExecSteps,          \* where it goes on once released
   attached : BOOLEAN]            \* false once its job was handed to a retry

TypeOK ==
  /\ run \in [RunIds -> RunRow]
  /\ root \in RootRow
  /\ Len(adm) <= MaxAdmissions /\ \A a \in DOMAIN adm : adm[a] \in AdmissionRow
  /\ jobs \in [JobIds -> Job(RunIds \X (0..MaxAdmissions))]
  /\ aq \in [RunIds -> {"none", "queued", "active"}]
  /\ disp \in [pc : {"idle", "admit", "send", "mark"},
               run : RunIds, adm : 0..MaxAdmissions, attached : BOOLEAN]
  /\ boot \in {"idle", "terminal", "waiting", "dispatch"}
  /\ \A e \in exec : e \in Execution
  /\ faults \in 0..MaxFaults

Init ==
  /\ run = [r \in RunIds |-> [status |-> "absent", attempt |-> 0, aged |-> FALSE,
                              cause |-> "none"]]
  /\ root = [cursor |-> Unswept, owner |-> NoRun, failures |-> 0, recent |-> FALSE]
  /\ adm = << >>
  /\ jobs = [j \in JobIds |-> NeverSent(<<1, NoRow>>)]
  /\ aq = [r \in RunIds |-> "none"]
  /\ disp = [pc |-> "idle", run |-> 1, adm |-> NoRow, attached |-> FALSE]
  /\ boot = "idle"
  /\ exec = {}
  /\ faults = 0

-----------------------------------------------------------------------------
(* What the queries read and the statements write *)

Active(r)    == run[r].status \in ActiveStatus
Rows(ad, r)  == {a \in DOMAIN ad : ad[a].run = r}
Newest(a)    == \A b \in Rows(adm, adm[a].run) : b <= a
Owned(r)     == root.cursor # Unswept /\ root.owner = r
Waiting(r)   == {a \in Rows(adm, r) : adm[a].status = "waiting" /\ ~adm[a].consumed}
Unreleased(ad, a) == ad[a].res \in {"held", "lapsed"}

First(S) == CHOOSE a \in S : \A b \in S : a <= b
Last(S)  == CHOOSE a \in S : \A b \in S : b <= a

NewRow(r, kind, when, late) ==
  [run |-> r, kind |-> kind, status |-> "waiting", consumed |-> FALSE,
   base |-> run[r].attempt, job |-> NoJob, att |-> 0, dispatched |-> FALSE,
   res |-> "none", when |-> when, late |-> late]

ReleaseRes(res) == IF res = "none" THEN "none" ELSE "released"

GivenUp(row) == [row EXCEPT !.consumed = TRUE, !.res = ReleaseRes(row.res)]

ConsumeAll(ad, r) ==
  [a \in DOMAIN ad |-> IF ad[a].run = r THEN [ad[a] EXCEPT !.consumed = TRUE]
                                        ELSE ad[a]]

(* admitFingerprintWaitingRun: a is the head of the queue.  A row whose    *)
(* requested_at was set in the future may come after later ones, and a row *)
(* past its cadence is only considered for its own continuation.           *)
Eligible(ad, b) ==
  ad[b].status = "waiting" /\ ~ad[b].consumed /\ ad[b].when # "later" /\ ~ad[b].late

CanAdmit(ad, a, bypass) ==
  /\ ad[a].when # "later"
  /\ bypass \/ ~ad[a].late
  /\ \A b \in DOMAIN ad : b < a /\ Eligible(ad, b) => ad[b].when = "due"

Granted(ad, a) ==
  [ad EXCEPT ![a] = [@ EXCEPT !.status = "admitted", !.dispatched = FALSE, !.res = "held"]]

(* requeueContinuations for run r: a waiting row for a chain with a cursor *)
(* and no live admission; the run's other rows are consumed.               *)
LiveRow(row) ==
  \/ row.status = "waiting" /\ ~row.consumed
  \/ row.status = "admitted" /\ row.res = "held"

Bare(ad, r) == Owned(r) /\ \A a \in Rows(ad, r) : ~LiveRow(ad[a])

Requeued(ad, r, when) ==
  IF Bare(ad, r)
  THEN Append(ConsumeAll(ad, r), NewRow(r, "continuation", when, FALSE))
  ELSE ad

RoomFor(ad, r) == Bare(ad, r) => Len(ad) < MaxAdmissions

(* finishFingerprintSweep, published, by the holder of reservation a: the  *)
(* row is finished and consumed, the cursor stored, and when the roster    *)
(* goes on a continuation row is queued unless the run has a waiting or    *)
(* admitted one.  Every row still waiting is now past its cadence.         *)
Finished(a, cursor) ==
  LET r  == adm[a].run
      ad == [b \in DOMAIN adm |->
               IF b = a THEN [adm[b] EXCEPT !.status = "finished", !.consumed = TRUE,
                                            !.res = "released"]
               ELSE [adm[b] EXCEPT !.late = @ \/ adm[b].status = "waiting"]]
  IN IF cursor # Unswept
        /\ \A b \in Rows(ad, r) : ad[b].status \notin {"waiting", "admitted"}
     THEN Append(ad, NewRow(r, "continuation", "now", TRUE))
     ELSE ad

StoredCursor(r, cursor, advanced) ==
  [cursor |-> cursor, owner |-> IF cursor = Unswept THEN NoRun ELSE r,
   failures |-> IF advanced THEN 0 ELSE root.failures, recent |-> TRUE]

-----------------------------------------------------------------------------
(* Fenced writes *)

(* A mutant of Valid: owning the cursor is enough, whatever the cycle.     *)
ValidAnyCycle(e) ==
  IF e.adm = NoRow
  THEN run[e.run].attempt <= e.att
  ELSE adm[e.adm].kind = "continuation" => Owned(e.run)

(* lockAndCheck; and for a delivery without an admission, no later attempt *)
(* has claimed the run.                                                    *)
Valid(e) ==
  IF e.adm = NoRow
  THEN run[e.run].attempt <= e.att
  ELSE LET a == adm[e.adm] IN
       /\ a.job = e.job /\ a.att = e.att /\ ~a.consumed /\ Newest(e.adm)
       /\ a.kind = "continuation" => Owned(e.run)

(* A mutant of Retired: the reservation stays as it is.                    *)
RetiredKeepsReservation(e, rn, rt, ad) ==
  IF e.adm # NoRow /\ rn[e.run].status = "failed"
  THEN [ad EXCEPT ![e.adm].consumed = TRUE]
  ELSE ad

(* The commit hook of fencedPool: an admission whose run has ended, or     *)
(* whose chain has failed too often, is consumed, and a consumed one gives *)
(* its reservation back.                                                   *)
Retired(e, rn, rt, ad) ==
  LET a    == ad[e.adm]
      over == \/ a.consumed
              \/ rn[e.run].status = "failed"
              \/ rn[e.run].status = "complete" /\ a.kind = "ordinary"
              \/ a.kind = "continuation" /\ rt.failures >= MaxFailures
  IN IF e.adm # NoRow /\ a.job = e.job /\ a.att = e.att /\ over
     THEN [ad EXCEPT ![e.adm] = GivenUp(@)]
     ELSE ad

(* The state of an execution that has ended is forgotten, and so is the    *)
(* whole of one whose job was handed to a retry.                           *)
Ended(e) == [e EXCEPT !.adm = NoRow, !.base = 0, !.cont = FALSE, !.res = NoRow,
                      !.live = FALSE, !.seen = Unswept, !.next = "return"]

Become(e, f) ==
  exec' = (exec \ {e}) \cup
            (IF f.pc \notin {"return", "throw"} THEN {f}
             ELSE IF f.attached THEN {Ended(f)} ELSE {})
Go(e, step)  == Become(e, [e EXCEPT !.pc = step])

(* A committed write of e, which goes on as f.                             *)
Commit(e, f, rn, rt, ad) ==
  /\ Valid(e)
  /\ run' = rn /\ root' = rt /\ adm' = Retired(f, rn, rt, ad)
  /\ Become(e, f)
  /\ UNCHANGED <<jobs, aq, disp, boot>>

Move(e, f) == Become(e, f) /\ UNCHANGED <<run, root, adm, jobs, aq, disp, boot>>

WritingSteps == {"admit", "notDue", "sweep", "release", "noProgress", "requeue",
                 "retry", "fail"}

(* StaleFingerprintDeliveryError, which execute and executeOriginal        *)
(* swallow.                                                                *)
Stale(e) ==
  /\ e.pc \in WritingSteps \/ (e.pc = "unexpected" /\ Active(e.run))
  /\ ~Valid(e)
  /\ Move(e, [e EXCEPT !.pc = "return"])

-----------------------------------------------------------------------------
(* A delivery: execute() of the handler, up to the sweep *)

(* execute()'s transaction: the delivery takes the admission, and for an   *)
(* ordinary one the run, or for a continuation finds its run owning the    *)
(* cursor.                                                                 *)
Acceptable(e) ==
  LET a == adm[e.adm] IN
  /\ ~a.consumed /\ a.status # "waiting" /\ Newest(e.adm)
  /\ a.job \in {NoJob, e.job} /\ a.att < e.att
  /\ IF a.kind = "ordinary"
     THEN Active(e.run) /\ run[e.run].attempt < a.base + e.att
     ELSE Owned(e.run)

(* A job is delivered.  boundAdmission: an admission this job has executed *)
(* goes before the one its payload names.                                  *)
Fetch(j) ==
  LET r     == jobs[j].key[1]
      bound == {a \in Rows(adm, r) : adm[a].job = j /\ ~adm[a].consumed /\ Newest(a)}
      e     == [job |-> j, att |-> jobs[j].attempt, run |-> r, pc |-> "accept",
                adm |-> IF bound # {} THEN Last(bound) ELSE jobs[j].key[2],
                base |-> 0, cont |-> FALSE, res |-> NoRow, live |-> FALSE, seen |-> Unswept,
                next |-> "return", attached |-> TRUE]
  IN /\ jobs[j].state \in {"created", "retry"}
     /\ jobs' = Deliver(jobs, j)
     /\ exec' = exec \cup {e}
     /\ UNCHANGED <<run, root, adm, aq, disp, boot>>

(* A continuation then reads the cursor it resumes from.                   *)
Accept(e) ==
  LET a == adm[e.adm]
      c == a.kind = "continuation"
  IN /\ e.pc = "accept" /\ e.adm # NoRow
     /\ IF Acceptable(e)
        THEN /\ adm' = [adm EXCEPT ![e.adm] = [@ EXCEPT !.job = e.job, !.att = e.att,
                                                      !.dispatched = TRUE]]
             /\ run' = IF c THEN run
                       ELSE [run EXCEPT ![e.run].status = "running",
                                        ![e.run].attempt = a.base + e.att]
             /\ Become(e, [e EXCEPT !.pc = "admit", !.base = a.base, !.cont = c,
                                    !.seen = IF c THEN root.cursor ELSE Unswept])
        ELSE Go(e, "return") /\ UNCHANGED <<adm, run>>
     /\ UNCHANGED <<root, jobs, aq, disp, boot>>

(* isIdentifiedRun: a delivery without an admission, of a run that has one *)
(* by now, does nothing.                                                   *)
Identify(e) ==
  /\ e.pc = "accept" /\ e.adm = NoRow
  /\ Move(e, [e EXCEPT !.pc = IF Rows(adm, e.run) # {} THEN "return" ELSE "claim"])

(* runs.claim of a delivery without an admission.                          *)
Claim(e) ==
  /\ e.pc = "claim"
  /\ IF Active(e.run) /\ run[e.run].attempt < e.att
     THEN /\ run' = [run EXCEPT ![e.run].status = "running", ![e.run].attempt = e.att]
          /\ Go(e, "admit")
     ELSE Go(e, "return") /\ UNCHANGED run
  /\ UNCHANGED <<root, adm, jobs, aq, disp, boot>>

(* An ordinary delivery at "admit" is calling discoverCharacter: its       *)
(* answer is a snapshot (requestAdmission follows, unless the run is past  *)
(* its lifetime) or a failure (FailRun, MarkRetrying); or something throws.*)
Throws(e) ==
  /\ e.pc \in {"admit", "notDue"}
  /\ Move(e, [e EXCEPT !.pc = "unexpected"])

AskAdmission(e) == e.pc = "admit" /\ (e.cont \/ ~run[e.run].aged)

-----------------------------------------------------------------------------
(* requestAdmission, in the delivery's fenced transaction *)

(* bindAdmission: an admission granted inside the transaction stays with   *)
(* the delivery that asked for it.                                         *)
Bind(e, ad) ==
  LET r == e.run
      a == Last(Rows(ad, r))
  IN IF /\ ad[a].status = "admitted" /\ ~ad[a].consumed
        /\ ad[a].job = NoJob /\ ~ad[a].dispatched
     THEN [adm |-> [ad EXCEPT ![a] = [@ EXCEPT !.job = e.job, !.att = e.att,
                                             !.base = e.base, !.dispatched = TRUE]],
           row |-> a]
     ELSE [adm |-> ad, row |-> e.adm]

HeldRows(r) ==
  {a \in Rows(adm, r) : adm[a].status = "admitted" /\ Unreleased(adm, a)}

NotDueNow(e) == ~e.cont /\ root.recent

(* The run already has a reservation, even one past its hour.              *)
AdmitExisting(e) ==
  LET a == Last(HeldRows(e.run))
      b == Bind(e, adm)
  IN /\ AskAdmission(e) /\ HeldRows(e.run) # {}
     /\ Commit(e, [e EXCEPT !.pc = "sweep", !.res = a, !.live = adm[a].res = "held",
                         !.adm = b.row],
               run, root, b.adm)

AdmitNotDue(e) ==
  /\ AskAdmission(e) /\ HeldRows(e.run) = {} /\ NotDueNow(e)
  /\ Commit(e, [e EXCEPT !.pc = "notDue"], run, root,
            [a \in DOMAIN adm |->
               IF a \in Waiting(e.run) THEN [adm[a] EXCEPT !.status = "not_due"]
                                       ELSE adm[a]])

(* The run's waiting row, or a new one that consumes the others.           *)
Queued(e) ==
  LET late == e.cont /\ root.recent IN
  IF Waiting(e.run) # {}
  THEN [adm |-> [adm EXCEPT ![First(Waiting(e.run))].late = late],
        row |-> First(Waiting(e.run))]
  ELSE [adm |-> Append(ConsumeAll(adm, e.run),
                       NewRow(e.run, IF e.cont THEN "continuation" ELSE "ordinary",
                              "now", late)),
        row |-> Len(adm) + 1]

CanQueue(e) ==
  /\ AskAdmission(e) /\ HeldRows(e.run) = {} /\ ~NotDueNow(e)
  /\ Waiting(e.run) # {} \/ Len(adm) < MaxAdmissions

AdmitNow(e) ==
  LET q == Queued(e)
      b == Bind(e, Granted(q.adm, q.row))
  IN /\ CanQueue(e) /\ CanAdmit(q.adm, q.row, e.cont)
     /\ Commit(e, [e EXCEPT !.pc = "sweep", !.res = q.row, !.live = TRUE, !.adm = b.row],
               run, root, b.adm)

(* No room yet: an ordinary run goes back to `queued'.  One that is        *)
(* retrying is not put back: the transaction throws.                       *)
AdmitLater(e) ==
  /\ CanQueue(e)
  /\ IF e.cont
     THEN Commit(e, [e EXCEPT !.pc = "waiting"], run, root, Queued(e).adm)
     ELSE IF run[e.run].status \in {"running", "queued"}
     THEN Commit(e, [e EXCEPT !.pc = "waiting"],
                 [run EXCEPT ![e.run].status = "queued"],
                 root, Queued(e).adm)
     ELSE Valid(e) /\ Move(e, [e EXCEPT !.pc = "unexpected"])

(* enqueueFingerprintAdmission: a send for a run whose admission job has   *)
(* not ended creates nothing.                                              *)
SendAdmission(r) == aq' = [aq EXCEPT ![r] = IF @ = "none" THEN "queued" ELSE @]

EnqueueAdmission(e) ==
  /\ e.pc \in {"waiting", "enqueue"}
  /\ SendAdmission(e.run) /\ Go(e, "return")
  /\ UNCHANGED <<run, root, adm, jobs, disp, boot>>

(* The send throws.  After a publication or a requeue the error path finds *)
(* a complete run and no admission of its own, and returns.                *)
EnqueueFails(e) ==
  /\ e.pc \in {"waiting", "enqueue"}
  /\ Move(e, [e EXCEPT !.pc = IF e.pc = "waiting" THEN "unexpected" ELSE "return"])

(* A sweep that is not due: the run completes with the snapshot the live   *)
(* chain is extending, or publishes what Raider.IO knows.  Neither touches *)
(* the cursor.                                                             *)
CompleteNotDue(e) ==
  /\ e.pc = "notDue"
  /\ IF Active(e.run)
     THEN Commit(e, [e EXCEPT !.pc = "return"],
                 [run EXCEPT ![e.run].status = "complete"], root, adm)
     ELSE Valid(e) /\ Move(e, [e EXCEPT !.pc = "unexpected"])

-----------------------------------------------------------------------------
(* The sweep and what follows it *)

(* The first cycle publishes its snapshot with the cursor the roster was   *)
(* left at; Unswept when it was exhausted, or capped before the first      *)
(* candidate.  A sweep begins with a request, which recordRequest refuses  *)
(* for a reservation past its hour, so such a sweep publishes nothing.     *)
PublishFirst(e) ==
  /\ e.pc = "sweep" /\ ~e.cont /\ Active(e.run) /\ ~run[e.run].aged
  /\ e.live /\ Unreleased(adm, e.res)
  /\ \E cursor \in 0..MaxCursor, advanced \in BOOLEAN :
       /\ cursor # Unswept => advanced
       /\ Len(Finished(e.res, cursor)) <= MaxAdmissions
       /\ Commit(e, [e EXCEPT !.pc = IF cursor = Unswept THEN "return" ELSE "enqueue"],
                 [run EXCEPT ![e.run].status = "complete"],
                 StoredCursor(e.run, cursor, advanced), Finished(e.res, cursor))

(* A later cycle amends that snapshot, past the cursor it resumed from.    *)
(* The fence has checked that its run owns the cursor.                     *)
PublishNext(e) ==
  /\ e.pc = "sweep" /\ e.cont /\ e.live /\ Unreleased(adm, e.res)
  /\ \E cursor \in {Unswept} \cup (e.seen + 1)..MaxCursor :
       /\ Len(Finished(e.res, cursor)) <= MaxAdmissions
       /\ Commit(e, [e EXCEPT !.pc = IF cursor = Unswept THEN "return" ELSE "enqueue"],
                 run, StoredCursor(e.run, cursor, TRUE), Finished(e.res, cursor))

ReleaseThen(e, next) == Move(e, [e EXCEPT !.pc = "release", !.next = next])

(* Otherwise the reservation is released first: the sweep failed or, for a *)
(* continuation, moved no further; the run is past its lifetime; or the    *)
(* reservation is, and recordRequest throws.                               *)
SweepEnds(e) ==
  /\ e.pc = "sweep"
  /\ \/ ~e.cont /\ ~run[e.run].aged /\ ReleaseThen(e, "retry")
     \/ ~e.cont /\ run[e.run].aged /\ ReleaseThen(e, "fail")
     \/ e.cont /\ ReleaseThen(e, "noProgress")
     \/ adm[e.res].res # "held" /\ ReleaseThen(e, "unexpected")

(* Something throws in the sweep, or it is aborted.                        *)
SweepThrows(e) ==
  /\ e.pc = "sweep"
  /\ ReleaseThen(e, "unexpected") \/ ReleaseThen(e, "throw")

(* releaseReservation.                                                     *)
Release(e) ==
  /\ e.pc = "release" /\ Unreleased(adm, e.res)
  /\ Commit(e, [e EXCEPT !.pc = e.next], run, root,
            [adm EXCEPT ![e.res] = [@ EXCEPT !.res = "released", !.status = "released"]])

(* Of a reservation already released, or a release that fails, the handler *)
(* makes an error that the outer catch treats as unexpected.               *)
ReleaseThrows(e) ==
  e.pc = "release" /\ Valid(e) /\ Move(e, [e EXCEPT !.pc = "unexpected"])

ReleaseRefused(e) ==
  e.pc = "release" /\ ~Unreleased(adm, e.res) /\ ReleaseThrows(e)

(* continueWithoutProgress: count the failure, and unless the chain has    *)
(* used up its cycles queue the next one for later.                        *)
RecordFailure(e) ==
  LET rt == [root EXCEPT !.failures = @ + 1] IN
  /\ e.pc = "noProgress"
  /\ Commit(e, [e EXCEPT !.pc = IF rt.failures >= MaxFailures THEN "return"
                                                              ELSE "requeue"],
            run, rt, adm)

Requeue(e) ==
  LET ad == [a \in DOMAIN adm |->
               IF a \in HeldRows(e.run)
               THEN [adm[a] EXCEPT !.status = "released", !.res = "released"]
               ELSE adm[a]]
  IN /\ e.pc = "requeue" /\ RoomFor(ad, e.run)
     /\ Commit(e, [e EXCEPT !.pc = "enqueue"], run, root, Requeued(ad, e.run, "later"))

Discovering(e) == e.pc = "admit" /\ ~e.cont

(* retrySchedule and markRetrying.                                         *)
MarkRetrying(e) ==
  /\ e.pc \in {"retry", "unexpected"} \/ Discovering(e)
  /\ Active(e.run)
  /\ e.att < MaxAttempts /\ ~run[e.run].aged
  /\ Commit(e, [e EXCEPT !.pc = "throw"],
            [run EXCEPT ![e.run].status = "retrying", ![e.run].attempt = e.base + e.att],
            root, adm)

(* runs.fail: refused for good, past the lifetime, or no retry left.       *)
FailRun(e) ==
  /\ e.pc \in {"retry", "fail", "unexpected"} \/ Discovering(e)
  /\ Active(e.run)
  /\ e.pc = "unexpected" => e.att = MaxAttempts \/ run[e.run].aged
  /\ Commit(e, [e EXCEPT !.pc = IF e.pc = "unexpected" THEN "throw" ELSE "return"],
            [run EXCEPT ![e.run].status = "failed",
                        ![e.run].cause = IF run[e.run].aged THEN "lifetime"
                                                            ELSE "other"],
            root, adm)

(* A write to a run that is not active throws; the catch then finds what   *)
(* became of the run.                                                      *)
RunEnded(e) ==
  /\ ~Active(e.run)
  /\ \/ /\ e.pc \in {"retry", "fail"} \/ Discovering(e)
        /\ Valid(e) /\ Move(e, [e EXCEPT !.pc = "unexpected"])
     \/ /\ e.pc = "unexpected"
        /\ Move(e, [e EXCEPT !.pc = IF run[e.run].status = "failed" THEN "throw"
                                    ELSE IF e.cont THEN "noProgress" ELSE "return"])

(* pg-boss completes or fails the job, unless it had expired.              *)
Settle(e) ==
  /\ e.pc \in {"return", "throw"}
  /\ jobs' = IF e.pc = "return" THEN Complete(jobs, e.job) ELSE FailJob(jobs, e.job)
  /\ exec' = exec \ {e}
  /\ UNCHANGED <<run, root, adm, aq, disp, boot>>

(* The delivery is aborted before or between its writes, or a query of its *)
(* error path fails.                                                       *)
Abort(e) ==
  /\ e.pc \notin {"sweep", "release", "waiting", "enqueue", "return", "throw"}
  /\ Move(e, [e EXCEPT !.pc = "throw"])

WorkerDies(e) ==
  /\ exec' = exec \ {e}
  /\ UNCHANGED <<run, root, adm, jobs, aq, disp, boot>>

(* The job runs past expireInSeconds while its execution, if there still   *)
(* is one, goes on.                                                        *)
Expire(j) ==
  /\ jobs[j].state = "active"
  /\ jobs' = FailJob(jobs, j)
  /\ exec' = {IF e.job = j THEN [e EXCEPT !.attached = FALSE] ELSE e :
                e \in {f \in exec : f.job # j \/ f.pc \notin {"return", "throw"}}}
  /\ UNCHANGED <<run, root, adm, aq, disp, boot>>

-----------------------------------------------------------------------------
(* The admission queue and its dispatcher *)

NoDispatch == [pc |-> "idle", run |-> 1, adm |-> NoRow, attached |-> FALSE]

StartAdmission(r) ==
  /\ aq[r] = "queued" /\ disp.pc = "idle"
  /\ aq' = [aq EXCEPT ![r] = "active"]
  /\ disp' = [pc |-> "admit", run |-> r, adm |-> NoRow, attached |-> TRUE]
  /\ UNCHANGED <<run, root, adm, jobs, boot, exec>>

(* The handler ends, or throws and its job is retried for ever.            *)
EndAdmission(state) ==
  /\ disp' = NoDispatch
  /\ aq' = IF disp.attached THEN [aq EXCEPT ![disp.run] = state] ELSE aq

DispatchTo(step) == disp' = [disp EXCEPT !.pc = step] /\ UNCHANGED aq

(* A row is still owed its dispatch while its run is active, or its chain  *)
(* is the live one.                                                        *)
Owed(r) ==
  {a \in Rows(adm, r) :
     /\ ~adm[a].consumed
     /\ Active(r) \/ (adm[a].kind = "continuation" /\ run[r].status = "complete"
                        /\ Owned(r))}

(* admitWaiting                                                            *)
AdmitWaiting ==
  LET r == disp.run
      a == First(Waiting(r))
  IN /\ disp.pc = "admit"
     /\ IF Waiting(r) = {}
        THEN /\ IF Owed(r) # {} /\ adm[Last(Owed(r))].status \in {"not_due", "admitted"}
                THEN DispatchTo("send")
                ELSE EndAdmission("none")
             /\ UNCHANGED adm
        ELSE IF ~Owned(r) /\ adm[a].late
        THEN adm' = [adm EXCEPT ![a].status = "not_due"] /\ DispatchTo("send")
        ELSE CanAdmit(adm, a, Owned(r)) /\ adm' = Granted(adm, a)
               /\ DispatchTo("send")
     /\ UNCHANGED <<run, root, jobs, boot, exec>>

(* No room: the handler throws, asking to be retried later.                *)
AdmitWaits ==
  /\ disp.pc = "admit" /\ Waiting(disp.run) # {}
  /\ Owned(disp.run) \/ ~adm[First(Waiting(disp.run))].late
  /\ EndAdmission("queued")
  /\ UNCHANGED <<run, root, adm, jobs, boot, exec>>

(* descriptor(): what there is to send, if it is the newest row and not    *)
(* yet executed.  It is sent under the admission's own singleton key.      *)
SendDelivery ==
  LET r    == disp.run
      todo == {a \in Rows(adm, r) :
                 /\ ~adm[a].consumed /\ adm[a].status \in {"admitted", "not_due"}
                 /\ adm[a].job = NoJob /\ Newest(a)
                 /\ Active(r) \/ adm[a].kind = "continuation"}
      key  == <<r, Last(todo)>>
  IN /\ disp.pc = "send"
     /\ IF todo = {} THEN EndAdmission("none") /\ UNCHANGED jobs
        ELSE /\ CanSend(jobs, key) /\ jobs' = Send(jobs, key)
             /\ disp' = [disp EXCEPT !.pc = "mark", !.adm = Last(todo)]
             /\ UNCHANGED aq
     /\ UNCHANGED <<run, root, adm, boot, exec>>

MarkDispatched ==
  /\ disp.pc = "mark"
  /\ adm' = IF adm[disp.adm].consumed THEN adm
            ELSE [adm EXCEPT ![disp.adm].dispatched = TRUE]
  /\ EndAdmission("none")
  /\ UNCHANGED <<run, root, jobs, boot, exec>>

(* A query or the send throws, the worker dies, or the handler outlives    *)
(* its job's five minutes.                                                 *)
DispatchFails ==
  /\ disp.pc # "idle"
  /\ EndAdmission("queued")
  /\ boot' = "idle"
  /\ UNCHANGED <<run, root, adm, jobs, exec>>

AdmissionExpires ==
  /\ disp.attached
  /\ disp' = [disp EXCEPT !.attached = FALSE]
  /\ aq' = [aq EXCEPT ![disp.run] = "queued"]
  /\ UNCHANGED <<run, root, adm, jobs, boot, exec>>

-----------------------------------------------------------------------------
(* A worker starts: recoverTerminal, then drainFingerprintBacklog *)

BootStart ==
  /\ boot = "idle" /\ boot' = "terminal"
  /\ UNCHANGED <<run, root, adm, jobs, aq, disp, exec>>

(* An admission bound to a job that has ended for good.                    *)
Terminal(a) ==
  /\ adm[a].job # NoJob /\ ~adm[a].consumed /\ Newest(a)
  /\ jobs[adm[a].job].state \notin LiveJobStates

(* It is retired with its reservation: an ordinary one fails its run, a    *)
(* continuation counts a failure and is queued again.                      *)
RecoverTerminal(a) ==
  LET r   == adm[a].run
      ad  == [adm EXCEPT ![a] = [GivenUp(@) EXCEPT !.status = "released"]]
      rt  == IF adm[a].kind = "continuation" /\ root.owner = r
             THEN [root EXCEPT !.failures = @ + 1] ELSE root
      again == adm[a].kind = "continuation" /\ root.owner = r
                 /\ rt.failures < MaxFailures
  IN /\ boot = "terminal" /\ Terminal(a)
     /\ again => RoomFor(ad, r)
     /\ adm' = IF again THEN Requeued(ad, r, "later") ELSE ad
     /\ root' = rt
     /\ run' = IF adm[a].kind = "ordinary" /\ Active(r)
               THEN [run EXCEPT ![r].status = "failed", ![r].cause = "other"] ELSE run
     /\ UNCHANGED <<jobs, aq, disp, boot, exec>>

(* recoverStrandedContinuations: a chain with a cursor, no live admission  *)
(* and cycles left is queued again.                                        *)
RecoverStranded ==
  LET r == root.owner IN
  /\ boot = "terminal" /\ \A a \in DOMAIN adm : ~Terminal(a)
  /\ IF r # NoRun /\ Bare(adm, r) /\ root.failures < MaxFailures
        /\ Len(adm) < MaxAdmissions
     THEN adm' = Requeued(adm, r, "now") /\ SendAdmission(r)
     ELSE UNCHANGED <<adm, aq>>
  /\ boot' = "waiting"
  /\ UNCHANGED <<run, root, jobs, disp, exec>>

(* listWaiting: every waiting run gets its admission job back.             *)
RedriveWaiting ==
  /\ boot = "waiting" /\ boot' = "dispatch"
  /\ aq' = [r \in RunIds |-> IF Waiting(r) # {} /\ aq[r] = "none" THEN "queued"
                                                                  ELSE aq[r]]
  /\ UNCHANGED <<run, root, adm, jobs, disp, exec>>

(* listAdmittedUndispatched, and a dispatch of each.                       *)
Undispatched ==
  {r \in RunIds : \E a \in Rows(adm, r) :
     /\ adm[a].status \in {"admitted", "not_due"} /\ ~adm[a].dispatched
     /\ ~adm[a].consumed /\ adm[a].job = NoJob /\ Newest(a)
     /\ Active(r) \/ adm[a].kind = "continuation"}

BootDispatch ==
  /\ boot = "dispatch" /\ disp.pc = "idle"
  /\ IF Undispatched = {}
     THEN boot' = "idle" /\ UNCHANGED disp
     ELSE /\ \E r \in Undispatched :
               disp' = [pc |-> "send", run |-> r, adm |-> NoRow, attached |-> FALSE]
          /\ UNCHANGED boot
  /\ UNCHANGED <<run, root, adm, jobs, aq, exec>>

BootDies ==
  /\ boot # "idle" /\ boot' = "idle"
  /\ UNCHANGED <<run, root, adm, jobs, aq, disp, exec>>

-----------------------------------------------------------------------------
(* Searches and time *)

(* A search reserves and enqueues the character's next run                 *)
(* (SearchAdmission has the steps); one is active at a time.               *)
StartRun(r) ==
  /\ run[r].status = "absent"
  /\ \A s \in RunIds : s # r => ~Active(s)
  /\ \A s \in RunIds : s < r => run[s].status # "absent"
  /\ CanSend(jobs, <<r, NoRow>>)
  /\ run' = [run EXCEPT ![r].status = "queued"]
  /\ jobs' = Send(jobs, <<r, NoRow>>)
  /\ UNCHANGED <<root, adm, aq, disp, boot, exec>>

(* recoverPendingSearches sends a queued run without a known job again.    *)
SendPending(r) ==
  /\ run[r].status = "queued" /\ UnusedJobs(jobs) # {}
  /\ LiveJobs(jobs, <<r, NoRow>>) = {}
  /\ jobs' = Send(jobs, <<r, NoRow>>)
  /\ UNCHANGED <<run, root, adm, aq, disp, boot, exec>>

(* cancel(), after an enqueue that reported failure: any queued run, one   *)
(* that is waiting for admission too.                                      *)
Cancel(r) ==
  /\ run[r].status = "queued"
  /\ run' = [run EXCEPT ![r].status = "failed", ![r].cause = "other"]
  /\ UNCHANGED <<root, adm, jobs, aq, disp, boot, exec>>

RunAges(r) ==
  /\ Active(r) /\ ~run[r].aged
  /\ run' = [run EXCEPT ![r].aged = TRUE]
  /\ UNCHANGED <<root, adm, jobs, aq, disp, boot, exec>>

CadencePasses ==
  /\ root.recent /\ root' = [root EXCEPT !.recent = FALSE]
  /\ UNCHANGED <<run, adm, jobs, aq, disp, boot, exec>>

(* A requested_at in the future is reached; a reservation's hour ends.     *)
BecomesDue(a) ==
  /\ adm[a].when = "later"
  /\ adm' = [adm EXCEPT ![a].when = "due"]
  /\ UNCHANGED <<run, root, jobs, aq, disp, boot, exec>>

Lapse(a) ==
  /\ adm[a].res = "held"
  /\ adm' = [adm EXCEPT ![a].res = "lapsed"]
  /\ UNCHANGED <<run, root, jobs, aq, disp, boot, exec>>

-----------------------------------------------------------------------------
DeliveryStep(e) ==
  \/ Accept(e) \/ Identify(e) \/ Claim(e)
  \/ AdmitExisting(e) \/ AdmitNotDue(e) \/ AdmitNow(e) \/ AdmitLater(e)
  \/ EnqueueAdmission(e) \/ CompleteNotDue(e)
  \/ PublishFirst(e) \/ PublishNext(e) \/ SweepEnds(e)
  \/ Release(e) \/ ReleaseRefused(e)
  \/ RecordFailure(e) \/ Requeue(e) \/ MarkRetrying(e) \/ FailRun(e)
  \/ RunEnded(e) \/ Stale(e) \/ Settle(e)

DispatchStep == AdmitWaiting \/ AdmitWaits \/ SendDelivery \/ MarkDispatched

BootStep ==
  \/ \E a \in DOMAIN adm : RecoverTerminal(a)
  \/ RecoverStranded \/ RedriveWaiting \/ BootDispatch

Fault ==
  \/ \E e \in exec : \/ Throws(e) \/ EnqueueFails(e) \/ SweepThrows(e)
                     \/ ReleaseThrows(e) \/ Abort(e) \/ WorkerDies(e)
  \/ \E j \in JobIds : Expire(j)
  \/ DispatchFails \/ AdmissionExpires \/ BootDies
  \/ \E r \in RunIds : Cancel(r) \/ RunAges(r) \/ SendPending(r)
  \/ \E a \in DOMAIN adm : Lapse(a)

(* An active job without an execution is always retried in the end.        *)
Reclaim(j) == Expire(j) /\ \A e \in exec : e.job # j

Step ==
  \/ \E j \in JobIds : Fetch(j) \/ Reclaim(j)
  \/ \E e \in exec : DeliveryStep(e)
  \/ \E r \in RunIds : StartAdmission(r) \/ StartRun(r)
  \/ DispatchStep
  \/ BootStart \/ BootStep
  \/ CadencePasses
  \/ \E a \in DOMAIN adm : BecomesDue(a)

Next ==
  \/ Step /\ UNCHANGED faults
  \/ faults < MaxFaults /\ Fault /\ faults' = faults + 1

Spec == Init /\ [][Next]_vars

-----------------------------------------------------------------------------
(* Properties *)

(* A consumed admission never keeps budget from others until its hour      *)
(* ends: whoever consumed it also gave its reservation back.               *)
ConsumedHoldsNothing ==
  \A a \in DOMAIN adm : adm[a].consumed => adm[a].res # "held"

(* A run never has two admissions in play, whichever of a delivery, the    *)
(* dispatcher, a deferral and a restarting worker queued the later one.    *)
OneLiveAdmission ==
  \A r \in RunIds : Cardinality({a \in Rows(adm, r) : ~adm[a].consumed}) <= 1

(* A consumed sweep holds no part of the hour's budget and a run has one   *)
(* live admission (fingerprint-sweeps.ts, fingerprint-delivery.ts).        *)
SweepsHeld == ConsumedHoldsNothing /\ OneLiveAdmission

(* The cursor of a chain only moves forward until its roster is exhausted  *)
(* or another run takes the character over: a late execution of an earlier *)
(* cycle never amends the snapshot again from where that cycle stood.      *)
CursorAdvances ==
  root'.owner = root.owner => root'.cursor >= root.cursor

(* Only a cycle of the run that owns the cursor, or the first publication  *)
(* of a run, moves the cursor or passes it on: a cycle of a chain another  *)
(* search has taken over neither takes it back nor ends the new chain.     *)
SupersededMovesNothing ==
  root'.cursor # root.cursor \/ root'.owner # root.owner
    => \E e \in exec \ exec' :
         e.pc = "sweep" /\ (Active(e.run) \/ e.run = root.owner)

(* A chain that gave up stays given up: while its run owns the cursor no   *)
(* continuation of it is queued again.                                     *)
Continuations(ad, r) == {a \in Rows(ad, r) : ad[a].kind = "continuation"}

GivenUpStaysGivenUp ==
  root.owner # NoRun /\ root.failures >= MaxFailures /\ root'.owner = root.owner
    => Continuations(adm', root.owner) \subseteq Continuations(adm, root.owner)

(* A sweep's cursor only advances, a cycle given up stays given up, and a  *)
(* worker that was superseded moves nothing (fingerprint-sweeps.ts).       *)
SweepSteps ==
  [][CursorAdvances /\ SupersededMovesNothing /\ GivenUpStaysGivenUp]_vars

-----------------------------------------------------------------------------
(* What the documents say and the code does not do *)

(* The resumption plan: a delivery without an admission of its own cannot  *)
(* borrow the reservation of a newer one.                                  *)
SweepsOnOwnReservation ==
  \A e \in exec : e.pc \in {"sweep", "release"} => e.res = e.adm

(* The comment on MAX_CONTINUATION_NON_PROGRESS_CYCLES: the next sweep of  *)
(* a character whose chain gave up resumes where that chain stopped.       *)
NextSweepResumes ==
  \A e \in exec :
    /\ e.pc = "sweep" /\ e.run # root.owner
    /\ root.cursor # Unswept /\ root.failures >= MaxFailures
    => e.seen = root.cursor

(* The fingerprint design: waiting for capacity does not fail a search.    *)
(* An admission still `admitted' was never swept with to the end, and one  *)
(* with a base was granted to a run that had been put back to wait.        *)
WaitingNeverFails ==
  \A a \in DOMAIN adm :
    run[adm[a].run].cause = "lifetime"
      => ~(adm[a].status = "admitted" /\ adm[a].base > 0 /\ adm[a].att = 1)

=============================================================================
