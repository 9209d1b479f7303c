--------------------------- MODULE SearchAdmission ---------------------------
(***************************************************************************)
(* A character search from the web request to its settled discovery run:   *)
(*                                                                         *)
(*   - create() of application/src/search-service.ts, one step per await,  *)
(*     with its reservation transaction (database/src/discovery-runs.ts);  *)
(*   - the uncharged connected-character visit, which creates or joins a   *)
(*     run without the root lock;                                          *)
(*   - recoverPendingSearches, the hourly pass that dispatches runs left   *)
(*     without a job;                                                      *)
(*   - the worker's deliveries of the run's job, with retries, expiry and  *)
(*     the attempt fence of database/src/fingerprint-delivery.ts.          *)
(*                                                                         *)
(* The worker here is the one of a deployment without a Blizzard gateway   *)
(* (discovery-job-handler.ts skips the sweep block).  The fingerprint      *)
(* sweep, its budget and its continuation chains are module                *)
(* FingerprintSweep.                                                       *)
(***************************************************************************)
EXTENDS JobQueue, FiniteSets, TLC

CONSTANTS Roots,        \* searched characters
          Callers,      \* rate-limit buckets (hashed callers)
          Requests,     \* create() calls; each runs once
          Visitors,     \* scheduleConnectedCharacterSweep() calls; each runs once
          MaxRuns,      \* bound: how many discovery runs are ever created
          SearchLimit,  \* searches per hour and caller
          Free          \* the holder of a lock nobody holds

ASSUME SearchAssumption ==
  /\ IsFiniteSet(Roots) /\ Roots # {}
  /\ IsFiniteSet(Callers) /\ Callers # {}
  /\ MaxRuns \in Nat \ {0}
  /\ SearchLimit \in Nat \ {0}
  /\ Free \notin Requests

(* Calls that create runs differ in nothing but their names.               *)
RequestSymmetry == Permutations(Requests)

RunIds == 1..MaxRuns
NoRun  == 0

VARIABLES
  run,         \* discovery_runs: RunIds -> RunRow, with its rate_limit_events row
  jobs,        \* pgboss.job of queue discover-character
  snap,        \* current snapshot of a root: "none", "stale" or "fresh"
  suppressed,  \* suppressed_characters
  negative,    \* negative_character_cache
  allowance,   \* rate_limit_events of a caller's search bucket without a run
  rootLock,    \* advisory lock root:<key>, while a reservation holds it
  bucketLock,  \* advisory lock bucket:<hash>, while a reservation holds it
  req,         \* the create() calls
  visit,       \* the connected-character visits
  pass,        \* the recoverPendingSearches pass
  exec,        \* deliveries being executed by a worker
  refunded,    \* history: runs whose charge cancel() gave back
  finisher     \* history: the attempt whose execution ended a run (0: none)

vars == <<run, jobs, snap, suppressed, negative, allowance, rootLock,
          bucketLock, req, visit, pass, exec, refunded, finisher>>

-----------------------------------------------------------------------------
(* Rows and records *)

ActiveStatus   == {"queued", "running", "retrying"}
TerminalStatus == {"complete", "failed"}

RunRow ==
  [status  : ActiveStatus \cup TerminalStatus \cup {"absent"},
   root    : Roots,
   attempt : 0..MaxAttempts,
   job     : JobIds \cup {NoJob},          \* queue_job_id
   charge  : {"none", "live", "expired"},  \* its rate_limit_events row
   payer   : Callers,                      \* the bucket of that row
   aged    : BOOLEAN]                      \* past maxJobLifetimeMs

RequestSteps == {"idle", "check", "lookup", "putNegative", "reserve", "insert",
                 "enqueue", "cancel", "mark", "done"}

Request == [pc : RequestSteps, caller : Callers, root : Roots,
            run : RunIds \cup {NoRun}, job : JobIds \cup {NoJob}]

Visit == [pc : {"idle", "enqueue", "done"}, run : RunIds \cup {NoRun}]

Pass == [pc : {"idle", "enqueue", "mark"}, todo : SUBSET RunIds,
         job : JobIds \cup {NoJob}]

ExecSteps == {"claim", "discover", "unexpected", "return", "throw"}

(* attached is false once the queue has given the job to a later attempt   *)
(* (expiry) while this execution still runs.                               *)
Execution == [job : JobIds, attempt : 1..MaxAttempts, pc : ExecSteps,
              attached : BOOLEAN]

TypeOK ==
  /\ run \in [RunIds -> RunRow]
  /\ jobs \in [JobIds -> Job(RunIds)]
  /\ snap \in [Roots -> {"none", "stale", "fresh"}]
  /\ suppressed \in SUBSET Roots
  /\ negative \in SUBSET Roots
  /\ allowance \in [Callers -> 0..SearchLimit]
  /\ rootLock \in [Roots -> Requests \cup {Free}]
  /\ bucketLock \in [Callers -> Requests \cup {Free}]
  /\ req \in [Requests -> Request]
  /\ visit \in [Visitors -> Visit]
  /\ pass \in Pass
  /\ exec \in SUBSET Execution
  /\ refunded \in SUBSET RunIds
  /\ finisher \in [RunIds -> 0..MaxAttempts]

AnyRoot   == CHOOSE k \in Roots : TRUE
AnyCaller == CHOOSE c \in Callers : TRUE

Init ==
  /\ run = [r \in RunIds |->
       [status |-> "absent", root |-> AnyRoot, attempt |-> 0, job |-> NoJob,
        charge |-> "none", payer |-> AnyCaller, aged |-> FALSE]]
  /\ jobs = [j \in JobIds |-> NeverSent(1)]
  /\ snap = [k \in Roots |-> "none"]
  /\ suppressed = {}
  /\ negative = {}
  /\ allowance = [c \in Callers |-> 0]
  /\ rootLock = [k \in Roots |-> Free]
  /\ bucketLock = [c \in Callers |-> Free]
  /\ req = [q \in Requests |->
       [pc |-> "idle", caller |-> AnyCaller, root |-> AnyRoot,
        run |-> NoRun, job |-> NoJob]]
  /\ visit = [v \in Visitors |-> [pc |-> "idle", run |-> NoRun]]
  /\ pass = [pc |-> "idle", todo |-> {}, job |-> NoJob]
  /\ exec = {}
  /\ refunded = {}
  /\ finisher = [r \in RunIds |-> 0]

-----------------------------------------------------------------------------
(* What the queries read *)

Active(r)     == run[r].status \in ActiveStatus
ActiveRuns(k) == {r \in RunIds : Active(r) /\ run[r].root = k}
UnusedRuns    == {r \in RunIds : run[r].status = "absent"}
NextRun       == CHOOSE r \in UnusedRuns : TRUE

ChargedRuns(c) == {r \in RunIds : run[r].charge = "live" /\ run[r].payer = c}
Usage(c)       == Cardinality(ChargedRuns(c)) + allowance[c]

RootFree(k) == rootLock[k] = Free

Pending == {r \in RunIds : run[r].status = "queued" /\ run[r].job = NoJob}

-----------------------------------------------------------------------------
(* create(): the checks before the reservation.  An early answer is read   *)
(* only; its charge goes to the caller's separate read bucket and is left  *)
(* out.                                                                    *)

Goto(q, step) == req' = [req EXCEPT ![q].pc = step]

(* The request is over: answered, failed, or its process is gone.          *)
Finish(q) ==
  req' = [req EXCEPT ![q].pc = "done", ![q].run = NoRun, ![q].job = NoJob]

Start(q) ==
  /\ req[q].pc = "idle"
  /\ \E c \in Callers, k \in Roots :
       req' = [req EXCEPT ![q].pc = "check", ![q].caller = c, ![q].root = k]
  /\ UNCHANGED <<run, jobs, snap, suppressed, negative, allowance, rootLock,
                 bucketLock, visit, pass, exec, refunded, finisher>>

(* suppressions.isActive, snapshots.getCurrent, negativeCache.find: three  *)
(* reads, each of which can only end the request early.  The negative      *)
(* cache is asked only when there is no snapshot at all.                   *)
Check(q) ==
  LET k == req[q].root IN
  /\ req[q].pc = "check"
  /\ IF \/ k \in suppressed
        \/ snap[k] = "fresh"
        \/ snap[k] = "none" /\ k \in negative
     THEN Finish(q)
     ELSE Goto(q, "lookup")
  /\ UNCHANGED <<run, jobs, snap, suppressed, negative, allowance, rootLock,
                 bucketLock, visit, pass, exec, refunded, finisher>>

(* Raider.IO has the character, has it not, or does not answer.            *)
ReadRootCharacter(q) ==
  /\ req[q].pc = "lookup"
  /\ Goto(q, "reserve") \/ Goto(q, "putNegative") \/ Finish(q)
  /\ UNCHANGED <<run, jobs, snap, suppressed, negative, allowance, rootLock,
                 bucketLock, visit, pass, exec, refunded, finisher>>

(* A mutant of PutNegative: the write without the root lock.               *)
PutNegativeUnlocked(q) ==
  /\ req[q].pc = "putNegative"
  /\ negative' = negative \cup {req[q].root}
  /\ Finish(q)
  /\ UNCHANGED <<run, jobs, snap, suppressed, allowance, rootLock,
                 bucketLock, visit, pass, exec, refunded, finisher>>

PutNegative(q) ==
  /\ req[q].pc = "putNegative"
  /\ RootFree(req[q].root)
  /\ negative' = negative \cup {req[q].root}
  /\ Finish(q)
  /\ UNCHANGED <<run, jobs, snap, suppressed, allowance, rootLock,
                 bucketLock, visit, pass, exec, refunded, finisher>>

-----------------------------------------------------------------------------
(* searchReservations.reserve: one transaction under the bucket's and the  *)
(* root's advisory locks.  It is two steps because createOrReuse, cancel   *)
(* and the clock do not take those locks and may run in between.           *)

(* Nothing to reserve: the root is suppressed, fresh or known missing, an  *)
(* active run is joined without a charge, or the caller is at the limit.   *)
NothingToReserve(c, k) ==
  \/ k \in suppressed
  \/ snap[k] = "fresh"
  \/ k \in negative
  \/ ActiveRuns(k) # {}
  \/ Usage(c) >= SearchLimit

ReserveCheck(q) ==
  LET c == req[q].caller
      k == req[q].root
  IN
  /\ req[q].pc = "reserve" /\ RootFree(k) /\ bucketLock[c] = Free
  /\ IF NothingToReserve(c, k)
     THEN Finish(q) /\ UNCHANGED <<rootLock, bucketLock>>
     ELSE /\ Goto(q, "insert")
          /\ rootLock' = [rootLock EXCEPT ![k] = q]
          /\ bucketLock' = [bucketLock EXCEPT ![c] = q]
  /\ UNCHANGED <<run, jobs, snap, suppressed, negative, allowance, visit, pass,
                 exec, refunded, finisher>>

Unlock(q) ==
  /\ rootLock' = [rootLock EXCEPT ![req[q].root] = Free]
  /\ bucketLock' = [bucketLock EXCEPT ![req[q].caller] = Free]

(* A mutant of ReserveInsert: an insert no unique index refuses.           *)
ReserveInsertNoIndex(q) ==
  LET c == req[q].caller
      k == req[q].root
      r == NextRun
  IN
  /\ req[q].pc = "insert" /\ UnusedRuns # {}
  /\ run' = [run EXCEPT ![r].status = "queued", ![r].root = k,
                        ![r].charge = "live", ![r].payer = c]
  /\ req' = [req EXCEPT ![q].pc = "enqueue", ![q].run = r]
  /\ Unlock(q)
  /\ UNCHANGED <<jobs, snap, suppressed, negative, allowance, visit,
                 pass, exec, refunded, finisher>>

(* The insert meets the unique index on active roots: a run a visit        *)
(* created since the check makes it throw, and the transaction rolls back. *)
ReserveInsert(q) ==
  LET c == req[q].caller
      k == req[q].root
      r == NextRun
  IN
  /\ req[q].pc = "insert"
  /\ IF ActiveRuns(k) # {}
     THEN /\ Finish(q)
          /\ UNCHANGED run
     ELSE /\ UnusedRuns # {}
          /\ run' = [run EXCEPT ![r].status = "queued", ![r].root = k,
                                ![r].charge = "live", ![r].payer = c]
          /\ req' = [req EXCEPT ![q].pc = "enqueue", ![q].run = r]
  /\ Unlock(q)
  /\ UNCHANGED <<jobs, snap, suppressed, negative, allowance, visit,
                 pass, exec, refunded, finisher>>

-----------------------------------------------------------------------------
(* After the reservation: dispatch, and the refund when dispatch throws.   *)

Enqueue(q) ==
  LET r == req[q].run IN
  /\ req[q].pc = "enqueue" /\ CanSend(jobs, r)
  /\ jobs' = Send(jobs, r)
  /\ req' = [req EXCEPT ![q].pc = "mark", ![q].job = SentJob(jobs, r)]
  /\ UNCHANGED <<run, snap, suppressed, negative, allowance, rootLock,
                 bucketLock, visit, pass, exec, refunded, finisher>>

(* enqueue() throws: before the send reached the queue, or after.          *)
EnqueueThrows(q) ==
  LET r == req[q].run IN
  /\ req[q].pc = "enqueue"
  /\ \/ UNCHANGED jobs
     \/ CanSend(jobs, r) /\ jobs' = Send(jobs, r)
  /\ Goto(q, "cancel")
  /\ UNCHANGED <<run, snap, suppressed, negative, allowance, rootLock,
                 bucketLock, visit, pass, exec, refunded, finisher>>

(* A mutant of Cancel: the UPDATE without AND status = 'queued'.           *)
CancelAnyStatus(q) ==
  LET r == req[q].run IN
  /\ req[q].pc = "cancel" /\ run[r].charge # "none"
  /\ run' = [run EXCEPT ![r].status = "failed", ![r].charge = "none"]
  /\ refunded' = refunded \cup {r}
  /\ Finish(q)
  /\ UNCHANGED <<jobs, snap, suppressed, negative, allowance, rootLock,
                 bucketLock, visit, pass, exec, finisher>>

(* cancel(): one transaction; it throws, changing nothing, when the run is *)
(* no longer queued or its charge row is gone.                             *)
Cancel(q) ==
  LET r == req[q].run IN
  /\ req[q].pc = "cancel"
  /\ IF run[r].status = "queued" /\ run[r].charge # "none"
     THEN /\ run' = [run EXCEPT ![r].status = "failed",
                                ![r].charge = "none"]
          /\ refunded' = refunded \cup {r}
          /\ Finish(q)
     ELSE /\ Finish(q)
          /\ UNCHANGED <<run, refunded>>
  /\ UNCHANGED <<jobs, snap, suppressed, negative, allowance, rootLock,
                 bucketLock, visit, pass, exec, finisher>>

(* markEnqueued's guarded UPDATE: a run keeps the first job id it got.     *)
CanMark(r, j) == run[r].job \in {NoJob, j}

(* A refused or failed mark is swallowed: the answer is the job either way.*)
MarkEnqueued(q) ==
  LET r == req[q].run
      j == req[q].job
  IN
  /\ req[q].pc = "mark"
  /\ \/ CanMark(r, j) /\ run' = [run EXCEPT ![r].job = j]
     \/ UNCHANGED run
  /\ Finish(q)
  /\ UNCHANGED <<jobs, snap, suppressed, negative, allowance, rootLock,
                 bucketLock, visit, pass, exec, refunded, finisher>>

(* The web process dies: an open transaction rolls back.                   *)
RequestDies(q) ==
  /\ req[q].pc \notin {"idle", "done"}
  /\ Finish(q)
  /\ IF req[q].pc = "insert" THEN Unlock(q) ELSE UNCHANGED <<rootLock, bucketLock>>
  /\ UNCHANGED <<run, jobs, snap, suppressed, negative, allowance,
                 visit, pass, exec, refunded, finisher>>

(* A mutant of AuthorizeSearchAllowance: without the bucket lock.          *)
AuthorizeUnlocked(c) ==
  /\ Usage(c) < SearchLimit
  /\ allowance' = [allowance EXCEPT ![c] = @ + 1]
  /\ UNCHANGED <<run, jobs, snap, suppressed, negative, rootLock,
                 bucketLock, req, visit, pass, exec, refunded, finisher>>

(* authorizeSearchAllowance: a refresh charges the same search bucket,     *)
(* under the same bucket lock, without a run.                              *)
AuthorizeSearchAllowance(c) ==
  /\ bucketLock[c] = Free
  /\ Usage(c) < SearchLimit
  /\ allowance' = [allowance EXCEPT ![c] = @ + 1]
  /\ UNCHANGED <<run, jobs, snap, suppressed, negative, rootLock,
                 bucketLock, req, visit, pass, exec, refunded, finisher>>

-----------------------------------------------------------------------------
(* scheduleConnectedCharacterSweep: createOrReuse, then enqueue.  No lock, *)
(* no charge, and no markEnqueued.  A throw or a crash after the create    *)
(* leaves a queued run with no job.                                        *)

VisitCreateOrReuse(v) ==
  /\ visit[v].pc = "idle"
  /\ \E k \in Roots :
       IF ActiveRuns(k) # {}
       THEN /\ \E r \in ActiveRuns(k) :
                 visit' = [visit EXCEPT ![v] = [pc |-> "enqueue", run |-> r]]
            /\ UNCHANGED run
       ELSE /\ UnusedRuns # {}
            /\ run' = [run EXCEPT ![NextRun].status = "queued",
                                  ![NextRun].root = k]
            /\ visit' = [visit EXCEPT ![v] = [pc |-> "enqueue", run |-> NextRun]]
  /\ UNCHANGED <<jobs, snap, suppressed, negative, allowance, rootLock,
                 bucketLock, req, pass, exec, refunded, finisher>>

VisitEnqueue(v) ==
  /\ visit[v].pc = "enqueue"
  /\ \/ CanSend(jobs, visit[v].run) /\ jobs' = Send(jobs, visit[v].run)
     \/ UNCHANGED jobs
  /\ visit' = [visit EXCEPT ![v] = [pc |-> "done", run |-> NoRun]]
  /\ UNCHANGED <<run, snap, suppressed, negative, allowance, rootLock,
                 bucketLock, req, pass, exec, refunded, finisher>>

-----------------------------------------------------------------------------
(* recoverPendingSearches: at worker start and hourly.                     *)

(* A mutant of PassList: only runs somebody is still charged for.          *)
PassListCharged ==
  /\ pass.pc = "idle" /\ {r \in Pending : run[r].charge = "live"} # {}
  /\ pass' = [pc |-> "enqueue", job |-> NoJob,
              todo |-> {r \in Pending : run[r].charge = "live"}]
  /\ UNCHANGED <<run, jobs, snap, suppressed, negative, allowance, rootLock,
                 bucketLock, req, visit, exec, refunded, finisher>>

PassList ==
  /\ pass.pc = "idle" /\ Pending # {}
  /\ pass' = [pc |-> "enqueue", todo |-> Pending, job |-> NoJob]
  /\ UNCHANGED <<run, jobs, snap, suppressed, negative, allowance,
                 rootLock, bucketLock, req, visit, exec, refunded, finisher>>

(* The rows come in created_at order; here, in any fixed order.            *)
PassRun == CHOOSE r \in pass.todo : TRUE

PassEnqueue ==
  /\ pass.pc = "enqueue" /\ pass.todo # {} /\ CanSend(jobs, PassRun)
  /\ jobs' = Send(jobs, PassRun)
  /\ pass' = [pass EXCEPT !.pc = "mark", !.job = SentJob(jobs, PassRun)]
  /\ UNCHANGED <<run, snap, suppressed, negative, allowance, rootLock,
                 bucketLock, req, visit, exec, refunded, finisher>>

(* A mark refused because the run already has another job ends the pass.   *)
PassMark ==
  /\ pass.pc = "mark"
  /\ IF CanMark(PassRun, pass.job)
     THEN /\ run' = [run EXCEPT ![PassRun].job = pass.job]
          /\ pass' = [pc |-> IF pass.todo = {PassRun} THEN "idle"
                                                       ELSE "enqueue",
                      todo |-> pass.todo \ {PassRun}, job |-> NoJob]
     ELSE /\ pass' = [pc |-> "idle", todo |-> {}, job |-> NoJob]
          /\ UNCHANGED run
  /\ UNCHANGED <<jobs, snap, suppressed, negative, allowance, rootLock,
                 bucketLock, req, visit, exec, refunded, finisher>>

(* A query or a send of the pass throws, or the worker dies.               *)
PassAborts ==
  /\ pass.pc # "idle"
  /\ pass' = [pc |-> "idle", todo |-> {}, job |-> NoJob]
  /\ UNCHANGED <<run, jobs, snap, suppressed, negative, allowance,
                 rootLock, bucketLock, req, visit, exec, refunded, finisher>>

-----------------------------------------------------------------------------
(* The worker: deliveries of a run's job.                                  *)

RunOf(e) == jobs[e.job].key

Step(e, step) == exec' = (exec \ {e}) \cup {[e EXCEPT !.pc = step]}

Fetch(j) ==
  /\ jobs[j].state \in {"created", "retry"}
  /\ jobs' = Deliver(jobs, j)
  /\ exec' = exec \cup {[job |-> j, attempt |-> jobs[j].attempt,
                         pc |-> "claim", attached |-> TRUE]}
  /\ UNCHANGED <<run, snap, suppressed, negative, allowance, rootLock,
                 bucketLock, req, visit, pass, refunded, finisher>>

(* Every write of a delivery runs under the root lock.                     *)
CanWrite(e) == RootFree(run[RunOf(e)].root)

(* Mutants of Claim: only a queued run, or a run of any status.            *)
ClaimQueuedOnly(e) ==
  LET r == RunOf(e) IN
  /\ e.pc = "claim" /\ CanWrite(e)
  /\ IF run[r].status = "queued" /\ run[r].attempt < e.attempt
     THEN /\ run' = [run EXCEPT ![r].status = "running",
                                ![r].attempt = e.attempt]
          /\ Step(e, "discover")
     ELSE /\ Step(e, "return")
          /\ UNCHANGED run
  /\ UNCHANGED <<jobs, snap, suppressed, negative, allowance, rootLock,
                 bucketLock, req, visit, pass, refunded, finisher>>

ClaimAnyStatus(e) ==
  LET r == RunOf(e) IN
  /\ e.pc = "claim" /\ CanWrite(e)
  /\ IF run[r].attempt < e.attempt
     THEN /\ run' = [run EXCEPT ![r].status = "running",
                                ![r].attempt = e.attempt]
          /\ Step(e, "discover")
     ELSE /\ Step(e, "return")
          /\ UNCHANGED run
  /\ UNCHANGED <<jobs, snap, suppressed, negative, allowance, rootLock,
                 bucketLock, req, visit, pass, refunded, finisher>>

(* claim(id, attempt): active and not yet claimed at this attempt or later.*)
Claim(e) ==
  LET r == RunOf(e) IN
  /\ e.pc = "claim" /\ CanWrite(e)
  /\ IF Active(r) /\ run[r].attempt < e.attempt
     THEN /\ run' = [run EXCEPT ![r].status = "running",
                                ![r].attempt = e.attempt]
          /\ Step(e, "discover")
     ELSE /\ Step(e, "return")
          /\ UNCHANGED run
  /\ UNCHANGED <<jobs, snap, suppressed, negative, allowance, rootLock,
                 bucketLock, req, visit, pass, refunded, finisher>>

(* A mutant of Fenced: the fence reads nothing.                            *)
FencedOff(e) == FALSE

(* fencedPool's check for an original delivery: a later attempt has        *)
(* claimed the run.                                                        *)
Fenced(e) == run[RunOf(e)].attempt > e.attempt

(* retrySchedule: no retry after the last attempt or past the lifetime.    *)
NoRetryLeft(e) == e.attempt = MaxAttempts \/ run[RunOf(e)].aged

WriteAllowed(e) == ~Fenced(e) /\ Active(RunOf(e))

(* A fenced write is Stale, which executeOriginal swallows.  A write to a  *)
(* run that is no longer active throws, and the handler's catch then       *)
(* returns for a complete run and rethrows for a failed one.               *)
WriteRefused(e) ==
  /\ e.pc \in {"discover", "unexpected"} /\ CanWrite(e) /\ ~WriteAllowed(e)
  /\ Step(e, IF ~Fenced(e) /\ run[RunOf(e)].status = "failed" THEN "throw"
                                                              ELSE "return")
  /\ UNCHANGED <<run, jobs, snap, suppressed, negative, allowance, rootLock,
                 bucketLock, req, visit, pass, refunded, finisher>>

EndRun(e, status) ==
  /\ run' = [run EXCEPT ![RunOf(e)].status = status]
  /\ finisher' = [finisher EXCEPT ![RunOf(e)] = e.attempt]

(* discoverCharacter has answered, within the run's lifetime.  What it     *)
(* returned decides the one transaction that follows, so the provider's    *)
(* answer and that transaction are one step; an abort or an expiry in      *)
(* between is one before it.                                               *)
Discovered(e) ==
  /\ e.pc = "discover" /\ ~run[RunOf(e)].aged
  /\ CanWrite(e) /\ WriteAllowed(e)

(* snapshots.create; the reload of a suppressed root's snapshot finds      *)
(* nothing and rolls the publication back.                                 *)
Publish(e) ==
  /\ Discovered(e)
  /\ IF run[RunOf(e)].root \in suppressed
     THEN /\ Step(e, "unexpected")
          /\ UNCHANGED <<run, snap, finisher>>
     ELSE /\ snap' = [snap EXCEPT ![run[RunOf(e)].root] = "fresh"]
          /\ EndRun(e, "complete") /\ Step(e, "return")
  /\ UNCHANGED <<jobs, suppressed, negative, allowance, rootLock, bucketLock,
                 req, visit, pass, refunded>>

(* Anything else the handler calls throws: a linked-evidence request, say. *)
UnexpectedError(e) ==
  /\ e.pc = "discover"
  /\ Step(e, "unexpected")
  /\ UNCHANGED <<run, jobs, snap, suppressed, negative, allowance, rootLock,
                 bucketLock, req, visit, pass, refunded, finisher>>

(* negativeCache.putAndFailRun: both writes or neither.                    *)
PutAndFailRun(e) ==
  /\ Discovered(e)
  /\ negative' = negative \cup {run[RunOf(e)].root}
  /\ EndRun(e, "failed") /\ Step(e, "return")
  /\ UNCHANGED <<jobs, snap, suppressed, allowance, rootLock, bucketLock, req,
                 visit, pass, refunded>>

(* runs.fail: a refusal that is not retryable, a run past its lifetime, or *)
(* a failure with no retry left.  An unexpected error is thrown on.        *)
FailRun(e) ==
  /\ e.pc \in {"discover", "unexpected"} /\ CanWrite(e) /\ WriteAllowed(e)
  /\ e.pc = "unexpected" => NoRetryLeft(e)
  /\ EndRun(e, "failed")
  /\ Step(e, IF e.pc = "unexpected" THEN "throw" ELSE "return")
  /\ UNCHANGED <<jobs, snap, suppressed, negative, allowance, rootLock,
                 bucketLock, req, visit, pass, refunded>>

(* markRetrying, and a retryable error for the queue.                      *)
MarkRetrying(e) ==
  /\ e.pc \in {"discover", "unexpected"} /\ CanWrite(e) /\ WriteAllowed(e)
  /\ ~NoRetryLeft(e)
  /\ run' = [run EXCEPT ![RunOf(e)].status = "retrying",
                        ![RunOf(e)].attempt = e.attempt]
  /\ Step(e, "throw")
  /\ UNCHANGED <<jobs, snap, suppressed, negative, allowance, rootLock,
                 bucketLock, req, visit, pass, refunded, finisher>>

(* The handler is aborted (shutdown, job signal) or a query of its error   *)
(* path throws: the delivery ends with the run left as it is.              *)
Abort(e) ==
  /\ e.pc \notin {"return", "throw"}
  /\ Step(e, "throw")
  /\ UNCHANGED <<run, jobs, snap, suppressed, negative, allowance,
                 rootLock, bucketLock, req, visit, pass, refunded, finisher>>

(* pg-boss completes or fails the job, unless it had expired.              *)
Settle(e) ==
  /\ e.pc \in {"return", "throw"}
  /\ jobs' = IF ~e.attached THEN jobs
             ELSE IF e.pc = "return" THEN Complete(jobs, e.job)
             ELSE FailJob(jobs, e.job)
  /\ exec' = exec \ {e}
  /\ UNCHANGED <<run, snap, suppressed, negative, allowance, rootLock,
                 bucketLock, req, visit, pass, refunded, finisher>>

WorkerDies(e) ==
  /\ exec' = exec \ {e}
  /\ UNCHANGED <<run, jobs, snap, suppressed, negative, allowance,
                 rootLock, bucketLock, req, visit, pass, refunded, finisher>>

(* The job runs past expireInSeconds: the queue retries it while its       *)
(* execution, if there still is one, goes on.                              *)
Expire(j) ==
  /\ jobs[j].state = "active"
  /\ jobs' = FailJob(jobs, j)
  /\ exec' = {IF e.job = j THEN [e EXCEPT !.attached = FALSE] ELSE e : e \in exec}
  /\ UNCHANGED <<run, snap, suppressed, negative, allowance, rootLock,
                 bucketLock, req, visit, pass, refunded, finisher>>

-----------------------------------------------------------------------------
(* Time and operators *)

Suppress(k) ==
  /\ RootFree(k) /\ k \notin suppressed
  /\ suppressed' = suppressed \cup {k}
  /\ UNCHANGED <<run, jobs, snap, negative, allowance, rootLock,
                 bucketLock, req, visit, pass, exec, refunded, finisher>>

(* What was true for a while stops being: a suppression, a negative entry, *)
(* a snapshot's freshness, a charge, or a run's lifetime.                  *)
SuppressionExpires(k) ==
  /\ suppressed' = suppressed \ {k}
  /\ UNCHANGED <<run, jobs, snap, negative, allowance, rootLock,
                 bucketLock, req, visit, pass, exec, refunded, finisher>>

NegativeExpires(k) ==
  /\ negative' = negative \ {k}
  /\ UNCHANGED <<run, jobs, snap, suppressed, allowance, rootLock,
                 bucketLock, req, visit, pass, exec, refunded, finisher>>

SnapshotAges(k) ==
  /\ snap[k] = "fresh"
  /\ snap' = [snap EXCEPT ![k] = "stale"]
  /\ UNCHANGED <<run, jobs, suppressed, negative, allowance, rootLock,
                 bucketLock, req, visit, pass, exec, refunded, finisher>>

(* A charge expires after an hour and rateLimits.cleanupExpired deletes it.*)
ChargeExpires(r) ==
  /\ \/ run[r].charge = "live" /\ run' = [run EXCEPT ![r].charge = "expired"]
     \/ run[r].charge = "expired" /\ run' = [run EXCEPT ![r].charge = "none"]
  /\ UNCHANGED <<jobs, snap, suppressed, negative, allowance, rootLock,
                 bucketLock, req, visit, pass, exec, refunded, finisher>>

AllowanceExpires(c) ==
  /\ allowance[c] > 0
  /\ allowance' = [allowance EXCEPT ![c] = @ - 1]
  /\ UNCHANGED <<run, jobs, snap, suppressed, negative, rootLock,
                 bucketLock, req, visit, pass, exec, refunded, finisher>>

RunAges(r) ==
  /\ Active(r) /\ ~run[r].aged
  /\ run' = [run EXCEPT ![r].aged = TRUE]
  /\ UNCHANGED <<jobs, snap, suppressed, negative, allowance, rootLock,
                 bucketLock, req, visit, pass, exec, refunded, finisher>>

-----------------------------------------------------------------------------
RequestStep(q) ==
  \/ Check(q) \/ ReadRootCharacter(q) \/ PutNegative(q)
  \/ ReserveCheck(q) \/ ReserveInsert(q)
  \/ Enqueue(q) \/ EnqueueThrows(q) \/ Cancel(q) \/ MarkEnqueued(q)

ExecutionStep(e) ==
  \/ Claim(e) \/ Publish(e) \/ PutAndFailRun(e) \/ FailRun(e)
  \/ MarkRetrying(e) \/ WriteRefused(e) \/ UnexpectedError(e) \/ Settle(e)

Clock ==
  \/ \E k \in Roots : \/ SuppressionExpires(k) \/ NegativeExpires(k)
                      \/ SnapshotAges(k)
  \/ \E r \in RunIds : ChargeExpires(r) \/ RunAges(r)
  \/ \E c \in Callers : AllowanceExpires(c)

Next ==
  \/ \E q \in Requests : Start(q) \/ RequestStep(q) \/ RequestDies(q)
  \/ \E c \in Callers : AuthorizeSearchAllowance(c)
  \/ \E v \in Visitors : VisitCreateOrReuse(v) \/ VisitEnqueue(v)
  \/ PassList \/ PassEnqueue \/ PassMark \/ PassAborts
  \/ \E j \in JobIds : Fetch(j) \/ Expire(j)
  \/ \E e \in exec : ExecutionStep(e) \/ Abort(e) \/ WorkerDies(e)
  \/ \E k \in Roots : Suppress(k)
  \/ Clock

Spec == Init /\ [][Next]_vars

(* The event loop runs a request's next step; the queue fetches and        *)
(* expires; the hourly pass is scheduled for ever and is not aborted every *)
(* single time.  Nothing is assumed of callers, visits or the clock.       *)
Fairness ==
  /\ \A q \in Requests : WF_vars(RequestStep(q))
  /\ \A v \in Visitors : WF_vars(VisitEnqueue(v))
  /\ WF_vars(PassList) /\ SF_vars(PassEnqueue) /\ SF_vars(PassMark)
  /\ \A j \in JobIds : WF_vars(Fetch(j)) /\ WF_vars(Expire(j))
  /\ WF_vars(\E e \in exec : ExecutionStep(e))

FairSpec == Spec /\ Fairness

-----------------------------------------------------------------------------
(* Properties *)

(* A root has at most one active discovery run, although reserve() and     *)
(* createOrReuse() create them under different locks                       *)
(* (discovery_runs_one_active_root_idx).                                   *)
OneActiveRunPerRoot ==
  \A k \in Roots : \A r, s \in ActiveRuns(k) : r = s

(* A caller never holds more live search charges than the hourly limit,    *)
(* whether searches or refreshes spent them (reserve and                   *)
(* rateLimits.reserve share the bucket lock).                              *)
ChargesWithinLimit == \A c \in Callers : Usage(c) <= SearchLimit

(* A refunded run has ended, publishes nothing and holds no charge: cancel *)
(* and a delivery of a job whose send was reported failed never both win.  *)
RefundedRunNeverRuns ==
  \A r \in refunded : /\ run[r].status = "failed" /\ run[r].attempt = 0
                       /\ run[r].charge = "none" /\ finisher[r] = 0

(* The delivery that ends a run is the latest one to have claimed it: an   *)
(* execution that outlived its job's expiry writes nothing over a newer    *)
(* attempt.                                                                *)
EndedByLatestAttempt ==
  \A r \in RunIds : finisher[r] # 0 => finisher[r] = run[r].attempt

JobsOf(r)  == {j \in JobIds : jobs[j].state # "none" /\ jobs[j].key = r}

(* Some job of the run used up every attempt, and no other is live.        *)
AttemptsExhausted(r) ==
  LiveJobs(jobs, r) = {} /\ \E j \in JobsOf(r) : jobs[j].state = "failed"

(* reserve() never starts a charged run for a root that is at that moment  *)
(* suppressed, freshly searched or known not to exist: every writer of     *)
(* those facts takes the root lock the reservation holds.                  *)
NoNeedlessCharge ==
  [][\A r \in RunIds :
       run[r].charge = "none" /\ run'[r].charge = "live" =>
         /\ run'[r].root \notin suppressed /\ run'[r].root \notin negative
         /\ snap[run'[r].root] # "fresh"]_vars

(* A run that ended stays as it ended, whatever executions, passes or      *)
(* requests are still about it.                                            *)
TerminalIsFinal ==
  [][\A r \in RunIds : run[r].status \in TerminalStatus =>
        run'[r].status = run[r].status /\ run'[r].attempt = run[r].attempt]_vars

(* A queued run with no job, left by a crash between the reservation and   *)
(* the send, is dispatched or ends (while the bound MaxJobs leaves a job). *)
PendingIsDispatched ==
  \A r \in RunIds :
    (r \in Pending /\ LiveJobs(jobs, r) = {} /\ UnusedJobs(jobs) # {})
      ~> (r \notin Pending \/ LiveJobs(jobs, r) # {})

(* Every active run ends, unless the worker was lost or aborted on each of *)
(* a job's attempts up to the last.                                        *)
RunSettles ==
  \A r \in RunIds : Active(r) ~> (~Active(r) \/ AttemptsExhausted(r))

-----------------------------------------------------------------------------
(* The inductive strengthening the proofs use *)

(* An execution past its claim found the run claimed at its own attempt or *)
(* a later one, and its job exists.                                        *)
ExecutionsClaimed ==
  \A e \in exec :
    /\ jobs[e.job].state # "none"
    /\ e.pc \in {"discover", "unexpected"} => e.attempt <= run[RunOf(e)].attempt

(* Only an ended run has a finisher; a queued run was never claimed; what  *)
(* does not exist yet has no history.                                      *)
HistoryMatches ==
  \A r \in RunIds :
    /\ finisher[r] # 0 => run[r].status \in TerminalStatus
    /\ run[r].status \in {"queued", "absent"} => run[r].attempt = 0
    /\ run[r].status = "absent" => run[r].charge = "none"

(* A reservation between its check and its insert holds both locks and has *)
(* room in its bucket.                                                     *)
ReservationsLocked ==
  \A q \in Requests :
    req[q].pc = "insert" => /\ rootLock[req[q].root] = q
                            /\ bucketLock[req[q].caller] = q
                            /\ Usage(req[q].caller) < SearchLimit

IInv ==
  /\ TypeOK /\ ExecutionsClaimed /\ HistoryMatches /\ ReservationsLocked
  /\ OneActiveRunPerRoot /\ ChargesWithinLimit /\ RefundedRunNeverRuns
  /\ EndedByLatestAttempt

=============================================================================
