---------------------------- MODULE EvidenceRuns ----------------------------
(***************************************************************************)
(* The evidence collections of one character: who reserves a run, how it   *)
(* reaches the queue, how a worker's attempts carry it out, and how a run  *)
(* that nobody works on any more is settled.                               *)
(*                                                                         *)
(*   - database/src/evidence/repository.ts: the run rows, the stage, the   *)
(*     alias recollection request and the terminal-tier marks;             *)
(*   - application/src/applicant-evidence-job-handler.ts: one attempt;     *)
(*   - application/src/refresh-character.ts, start-applicant-collection.ts,*)
(*     search-character-tier.ts, resume-waiting-evidence.ts: the clients;  *)
(*   - application/src/recover-abandoned-evidence-runs.ts and the          *)
(*     five-minute sweep of apps/worker/src/runtime.ts.                    *)
(*                                                                         *)
(* Every repository method is one statement or one transaction, so it is   *)
(* one step; what is read before an await is kept in the process's record  *)
(* and used later.  Evidence itself is abstracted to the generation of the *)
(* historic aliases a scan read (EvidenceHistory has what is merged).      *)
(***************************************************************************)
EXTENDS JobQueue, FiniteSets

CONSTANTS Requesters,   \* web requests and the sheet watcher
          MaxRuns,      \* bound: rows of character_evidence_runs
          MaxEdits,     \* bound: edits of the historic aliases, and rebuilds
          MaxPresses,   \* bound: explicit tier searches
          MaxFaults     \* bound: errors, crashes and expiries

ASSUME EvidenceAssumption ==
  /\ MaxRuns \in Nat \ {0} /\ MaxEdits \in Nat /\ MaxPresses \in Nat
  /\ MaxFaults \in Nat /\ "resume" \notin Requesters

RunIds  == 1..MaxRuns
NoRun   == 0
Gens    == 0..MaxEdits          \* the alias list after so many edits
NoGen   == MaxEdits + 1
Clients == Requesters \cup {"resume"}

VARIABLES
  run,       \* character_evidence_runs of the character, in creation order
  jobs,      \* pgboss.job of queue collect-character-evidence
  stage,     \* character_evidence_collections
  aliasGen,  \* character_historic_aliases
  pending,   \* character_alias_recollections holds a request
  scan,      \* generation behind the stored scan state of the published rows
  marks,     \* generation behind the `kills' rows of character_terminal_tiers
  client,    \* the clients between their reservation and markEnqueued
  sweep,     \* recoverAbandonedEvidenceRuns
  exec,      \* the attempts being executed
  budget     \* what is left of the bounds

vars == <<run, jobs, stage, aliasGen, pending, scan, marks, client, sweep, exec, budget>>

-----------------------------------------------------------------------------
(* Rows and records *)

ActiveStatus    == {"queued", "running"}        \* `retrying' is never written
PublishedStatus == {"complete", "partial"}

RunRow ==
  [status  : ActiveStatus \cup PublishedStatus \cup {"absent", "failed"},
   mode    : {"full", "tier"},
   attempt : 0..MaxAttempts,
   job     : JobIds \cup {NoJob},           \* queue_job_id
   started : BOOLEAN,                       \* started_at IS NOT NULL
   age     : {"new", "old", "over"},  \* active: under 15 minutes (if unstarted), 8 hours, over
   retry   : {"none", "waiting", "due"},    \* retry_after_at
   recent  : BOOLEAN,   \* full: within the freshness window; tier: within 24 hours
   cooling : BOOLEAN,                       \* failed within 30 minutes
   walk    : {"none", "capped", "done"}]    \* ranked_backfill_attempted, _cursor

(* What an attempt found: everything; kills, but not every parse; or a     *)
(* scan that stopped short, from which no tier is concluded.               *)
Outcomes == {"complete", "parseShort", "scanShort"}
NoOutcome == "none"

Collection == [gen : Gens \cup {NoGen}, out : Outcomes \cup {NoOutcome}]
NotStaged  == [gen |-> NoGen, out |-> NoOutcome]

ExecSteps == {"claim", "staged", "admit", "collect", "publish", "mark", "stop"}
Errors    == {"cancelled", "transient", "deterministic", "unclassified"}

Execution ==
  [job : JobIds, run : RunIds, att : 1..MaxAttempts, pc : ExecSteps,
   attached : BOOLEAN,        \* false once the queue has given up on it
   began    : BOOLEAN,        \* collectionBegan
   found    : Collection]

SweepSteps == {"idle", "judge", "stage", "publish", "mark", "release"}

TypeOK ==
  /\ run \in [RunIds -> RunRow]
  /\ jobs \in [JobIds -> Job(RunIds)]
  /\ stage \in [RunIds -> Collection]
  /\ aliasGen \in Gens /\ pending \in BOOLEAN
  /\ scan \in Gens \cup {NoGen} /\ marks \in Gens \cup {NoGen}
  /\ client \in [Clients -> [pc : {"idle", "enqueue", "mark"},
                             run : RunIds \cup {NoRun}, job : JobIds \cup {NoJob}]]
  /\ sweep \in [pc : SweepSteps, run : RunIds \cup {NoRun}, late : BOOLEAN,
                job : JobIds \cup {NoJob}, found : Collection]
  /\ \A e \in exec : e \in Execution
  /\ budget \in [presses : 0..MaxPresses, faults : 0..MaxFaults]

Idle  == [pc |-> "idle", run |-> NoRun, job |-> NoJob]
Swept == [pc |-> "idle", run |-> NoRun, late |-> FALSE, job |-> NoJob, found |-> NotStaged]

NewRun(mode) ==
  [status |-> "queued", mode |-> mode, attempt |-> 0, job |-> NoJob,
   started |-> FALSE, age |-> "new", retry |-> "none", recent |-> mode = "tier",
   cooling |-> FALSE, walk |-> "none"]

Init ==
  /\ run = [r \in RunIds |-> [NewRun("full") EXCEPT !.status = "absent"]]
  /\ jobs = [j \in JobIds |-> NeverSent(1)]
  /\ stage = [r \in RunIds |-> NotStaged]
  /\ aliasGen = 0 /\ pending = FALSE /\ scan = NoGen /\ marks = NoGen
  /\ client = [q \in Clients |-> Idle]
  /\ sweep = Swept
  /\ exec = {}
  /\ budget = [presses |-> MaxPresses, faults |-> MaxFaults]

-----------------------------------------------------------------------------
(* What the queries read *)

Active(r)    == run[r].status \in ActiveStatus
Published(r) == run[r].status \in PublishedStatus
NoneActive   == \A r \in RunIds : ~Active(r)
ActiveRun    == IF NoneActive THEN NoRun ELSE CHOOSE r \in RunIds : Active(r)

Unreserved == {r \in RunIds : run[r].status = "absent"}
NextRun    == CHOOSE r \in Unreserved : \A s \in Unreserved : r <= s

(* Runs publish one at a time, so the newest publication is the newest row.*)
Latest(mode) ==
  LET S == {r \in RunIds : Published(r) /\ run[r].mode = mode}
  IN  IF S = {} THEN NoRun ELSE CHOOSE r \in S : \A s \in S : s <= r

(* rankedContinuations: the newest published tier search left a cursor,    *)
(* its retry time has come, and no later search of the tier failed within  *)
(* 30 minutes.                                                             *)
ContinuationDue ==
  LET l == Latest("tier")
  IN  /\ l # NoRun
      /\ run[l].status = "partial" /\ run[l].walk = "capped" /\ run[l].retry = "due"
      /\ \A r \in RunIds : r > l /\ run[r].mode = "tier" => ~run[r].cooling

(* isEvidenceFresh on the newest full publication.  A refresh passes its   *)
(* own instant as the cutoff, so nothing is fresh to it.                   *)
Fresh(kind) ==
  LET l == Latest("full")
  IN  /\ kind # "refresh" /\ ~pending /\ ~ContinuationDue
      /\ l # NoRun /\ run[l].recent /\ run[l].retry # "due"

(* listResumable, for this character.                                      *)
Resumable ==
  /\ NoneActive
  /\ \/ pending
     \/ ContinuationDue
     \/ Latest("full") # NoRun /\ run[Latest("full")].retry = "due"

-----------------------------------------------------------------------------
(* Clients: reserve, enqueue, markEnqueued *)

(* A mutant of Invalidated: the reservation does not clear again.          *)
InvalidatedNot(g) == g

(* invalidateHistoricAliasKillScan.                                        *)
Invalidated(g) == NoGen

Promise(q, r) == client' = [client EXCEPT ![q] = [pc |-> "enqueue", run |-> r, job |-> NoJob]]

(* reserveEvidence.  Only the sheet watcher and a tier search put a joined *)
(* run that has no job on the queue themselves; a fresh or joined answer   *)
(* ends every other client's part.                                         *)
Reserve(q, kind) ==
  /\ client[q].pc = "idle"
  /\ kind = "resume" <=> q = "resume"
  /\ kind = "resume" => Resumable
  /\ NoneActive /\ ~Fresh(kind) /\ Unreserved # {}
  /\ run' = [run EXCEPT ![NextRun] = NewRun(IF ContinuationDue THEN "tier" ELSE "full")]
  /\ scan' = IF pending THEN Invalidated(scan) ELSE scan
  /\ marks' = IF pending THEN Invalidated(marks) ELSE marks
  /\ pending' = FALSE
  /\ Promise(q, NextRun)
  /\ UNCHANGED <<jobs, stage, aliasGen, sweep, exec, budget>>

Join(q) ==
  /\ q \in Requesters /\ client[q].pc = "idle"
  /\ \E r \in RunIds :
       /\ run[r].status = "queued" /\ run[r].job = NoJob
       /\ Promise(q, r)
  /\ UNCHANGED <<run, jobs, stage, aliasGen, pending, scan, marks, sweep, exec, budget>>

(* reserveTierSearch: one run at a time whatever its mode, one search of a *)
(* tier in 24 hours whatever became of it, and only over stored evidence.  *)
ReserveTierSearch(q) ==
  /\ q \in Requesters /\ client[q].pc = "idle" /\ budget.presses > 0
  /\ NoneActive /\ Unreserved # {}
  /\ \A r \in RunIds : run[r].status # "absent" /\ run[r].mode = "tier" => ~run[r].recent
  /\ \E r \in RunIds : Published(r)
  /\ run' = [run EXCEPT ![NextRun] = NewRun("tier")]
  /\ Promise(q, NextRun)
  /\ budget' = [budget EXCEPT !.presses = @ - 1]
  /\ UNCHANGED <<jobs, stage, aliasGen, pending, scan, marks, sweep, exec>>

Enqueue(q) ==
  /\ client[q].pc = "enqueue" /\ CanSend(jobs, client[q].run)
  /\ jobs' = Send(jobs, client[q].run)
  /\ client' = [client EXCEPT ![q].pc = "mark", ![q].job = SentJob(jobs, client[q].run)]
  /\ UNCHANGED <<run, stage, aliasGen, pending, scan, marks, sweep, exec, budget>>

(* The send throws (it does at the bound MaxJobs), or the process ends.    *)
EnqueueFails(q) ==
  /\ client[q].pc \in {"enqueue", "mark"}
  /\ CanSend(jobs, client[q].run) => budget.faults > 0
  /\ client' = [client EXCEPT ![q] = Idle]
  /\ budget' = IF CanSend(jobs, client[q].run) THEN [budget EXCEPT !.faults = @ - 1]
                                               ELSE budget
  /\ UNCHANGED <<run, jobs, stage, aliasGen, pending, scan, marks, sweep, exec>>

(* markEnqueued throws when the run is no longer queued or names another   *)
(* job; nothing is stored then.                                            *)
MarkEnqueued(q) ==
  LET r == client[q].run
  IN  /\ client[q].pc = "mark"
      /\ run' = IF run[r].status = "queued" /\ run[r].job \in {NoJob, client[q].job}
                THEN [run EXCEPT ![r].job = client[q].job] ELSE run
      /\ client' = [client EXCEPT ![q] = Idle]
      /\ UNCHANGED <<jobs, stage, aliasGen, pending, scan, marks, sweep, exec, budget>>

(* addHistoricAlias, removeHistoricAlias.                                  *)
EditAlias ==
  /\ aliasGen < MaxEdits
  /\ aliasGen' = aliasGen + 1
  /\ scan' = Invalidated(scan) /\ marks' = Invalidated(marks)
  /\ pending' = TRUE
  /\ UNCHANGED <<run, jobs, stage, client, sweep, exec, budget>>

(* clearTerminalTiers: the rebuild's first step; its reservation follows.  *)
Rebuild ==
  /\ marks # NoGen
  /\ marks' = NoGen
  /\ UNCHANGED <<run, jobs, stage, aliasGen, pending, scan, client, sweep, exec, budget>>

-----------------------------------------------------------------------------
(* One attempt: applicant-evidence-job-handler.ts *)

Keep(e, f) == exec' = (exec \ {e}) \cup {f}

(* The handler returned or threw.  A delivery the queue has given up on no *)
(* longer settles anything.                                                *)
Ends(e, Settle(_, _)) ==
  /\ exec' = exec \ {e}
  /\ jobs' = IF e.attached THEN Settle(jobs, e.job) ELSE jobs

Returns(e) == Ends(e, Complete)
Throws(e)  == Ends(e, FailJob)

(* evidenceRetryDecision.  dear: the cost veto applies, because the spend  *)
(* is above EVIDENCE_RETRY_COST_CEILING or could not be read.              *)
Retries(e, err, dear) ==
  \/ err = "cancelled"
  \/ /\ e.att < MaxAttempts /\ ~dear
     /\ err = "transient" \/ (err = "unclassified" /\ e.att = 1)

(* The catch block: rethrow for the queue's retry, or publish what there is.*)
Caught(e, err, dear) ==
  IF Retries(e, err, dear)
  THEN Throws(e)
  ELSE Keep(e, [e EXCEPT !.pc = "stop"]) /\ UNCHANGED jobs

StartAttempt(j) ==
  /\ jobs[j].state \in {"created", "retry"}
  /\ \A e \in exec : ~e.attached                 \* localConcurrency 1
  /\ jobs' = Deliver(jobs, j)
  /\ exec' = exec \cup {[job |-> j, run |-> jobs[j].key, att |-> jobs[j].attempt,
                         pc |-> "claim", attached |-> TRUE, began |-> FALSE,
                         found |-> NotStaged]}
  /\ UNCHANGED <<run, stage, aliasGen, pending, scan, marks, client, sweep, budget>>

(* claim: the update's WHERE clause.                                       *)
Claimable(r, att) == Active(r) /\ run[r].attempt < att

Claim(e) ==
  /\ e.pc = "claim"
  /\ IF Claimable(e.run, e.att)
     THEN /\ run' = [run EXCEPT ![e.run] =
                       [run[e.run] EXCEPT
                          !.status = "running", !.attempt = e.att, !.started = TRUE,
                          !.age = IF run[e.run].started THEN @ ELSE "new"]]
          /\ Keep(e, [e EXCEPT !.pc = "staged"])
          /\ UNCHANGED jobs
     ELSE Returns(e) /\ UNCHANGED run
  /\ UNCHANGED <<stage, aliasGen, pending, scan, marks, client, sweep, budget>>

Failed(r) == [run[r] EXCEPT !.status = "failed", !.age = "new", !.cooling = run[r].mode = "tier"]

(* The character was suppressed meanwhile.                                 *)
Suppressed(e) ==
  /\ e.pc = "staged" /\ Active(e.run) /\ budget.faults > 0
  /\ run' = [run EXCEPT ![e.run] = Failed(e.run)]
  /\ Returns(e)
  /\ budget' = [budget EXCEPT !.faults = @ - 1]
  /\ UNCHANGED <<stage, aliasGen, pending, scan, marks, client, sweep>>

(* republishStaged reads the stage before the admission gate.              *)
ReadStage(e) ==
  /\ e.pc = "staged"
  /\ Keep(e, [e EXCEPT !.found = stage[e.run],
                       !.pc = IF stage[e.run] = NotStaged THEN "admit" ELSE "publish"])
  /\ UNCHANGED <<run, jobs, stage, aliasGen, pending, scan, marks, client, sweep, budget>>

(* admitOrRefuse lets the run in, and the reads before the scan follow;    *)
(* the aliases are the last of them.                                       *)
Begin(e) ==
  /\ e.pc = "admit"
  /\ Keep(e, [e EXCEPT !.pc = "collect", !.began = TRUE, !.found.gen = aliasGen])
  /\ UNCHANGED <<run, jobs, stage, aliasGen, pending, scan, marks, client, sweep, budget>>

(* admitOrRefuse: a refusal on the last attempt fails the run itself, and  *)
(* every refusal is rethrown for the queue.  fail throws on a run that has *)
(* settled, which is then what the catch block sees.                       *)
Refuse(e) ==
  /\ e.pc = "admit"
  /\ IF e.att < MaxAttempts
     THEN Throws(e) /\ UNCHANGED run
     ELSE IF Active(e.run)
     THEN Throws(e) /\ run' = [run EXCEPT ![e.run] = Failed(e.run)]
     ELSE Caught(e, "deterministic", FALSE) /\ UNCHANGED run
  /\ UNCHANGED <<stage, aliasGen, pending, scan, marks, client, sweep, budget>>

(* The scan ends, and stageAndPublish stages what it found.                *)
StageCollection(e) ==
  /\ e.pc = "collect"
  /\ IF Active(e.run)
     THEN \E out \in Outcomes :
            LET found == [e.found EXCEPT !.out = out]
            IN  /\ stage' = [stage EXCEPT ![e.run] = found]
                /\ Keep(e, [e EXCEPT !.pc = "publish", !.found = found])
                /\ UNCHANGED jobs
     ELSE Caught(e, "deterministic", FALSE) /\ UNCHANGED stage
  /\ UNCHANGED <<run, aliasGen, pending, scan, marks, client, sweep, budget>>

(* publish, as the run row shows it.  A tier search that read everything   *)
(* finished its ranked walk; one whose parses fell short capped it and     *)
(* kept the cursor; one that stopped on a limitation names no cursor.      *)
PublishedRow(r, out) ==
  [run[r] EXCEPT
     !.status = IF out = "complete" THEN "complete" ELSE "partial",
     !.age    = "new",
     !.retry  = IF out = "complete" THEN "none" ELSE "waiting",
     !.recent = IF run[r].mode = "full" THEN TRUE ELSE @,
     !.walk   = IF run[r].mode = "full" \/ out \in {"scanShort", NoOutcome} THEN "none"
                ELSE IF out = "complete" THEN "done" ELSE "capped"]

(* The publication's transaction deletes the stage.                        *)
StageAfter(r) == [stage EXCEPT ![r] = NotStaged]

Stores(r, found) ==
  /\ run' = [run EXCEPT ![r] = PublishedRow(r, found.out)]
  /\ stage' = StageAfter(r)
  /\ scan' = IF run[r].mode = "full" /\ found # NotStaged THEN found.gen ELSE scan

Publish(e) ==
  /\ e.pc = "publish"
  /\ IF Active(e.run)
     THEN /\ Stores(e.run, e.found)
          /\ Keep(e, [e EXCEPT !.pc = "mark"])
          /\ UNCHANGED jobs
     ELSE Caught(e, "deterministic", FALSE) /\ UNCHANGED <<run, stage, scan>>
  /\ UNCHANGED <<aliasGen, pending, marks, client, sweep, budget>>

(* terminalTiersFrom, terminalTiersFromStage: what a full run that scanned *)
(* the whole history concludes.  Nothing ties the write to the run.        *)
Marked(r, found) ==
  IF run[r].mode = "full" /\ found.out # "scanShort" THEN found.gen ELSE marks

Mark(e) ==
  /\ e.pc = "mark"
  /\ marks' = Marked(e.run, e.found)
  /\ Returns(e)
  /\ UNCHANGED <<run, stage, aliasGen, pending, scan, client, sweep, budget>>

(* An await of the attempt rejects.                                        *)
Error(e) ==
  /\ e.pc \notin {"stop", "claim"} /\ budget.faults > 0
  /\ budget' = [budget EXCEPT !.faults = @ - 1]
  /\ \E err \in Errors, dear \in BOOLEAN : (dear => e.began) /\ Caught(e, err, dear)
  /\ UNCHANGED <<run, stage, aliasGen, pending, scan, marks, client, sweep>>

(* publishStopped: an empty partial with a retry time, else fail.          *)
StopPublishes(e) ==
  /\ e.pc = "stop" /\ Active(e.run)
  /\ Stores(e.run, NotStaged)
  /\ Returns(e)
  /\ UNCHANGED <<aliasGen, pending, marks, client, sweep, budget>>

StopFails(e) ==
  /\ e.pc = "stop"
  /\ IF Active(e.run)
     THEN /\ budget.faults > 0 /\ budget' = [budget EXCEPT !.faults = @ - 1]
          /\ run' = [run EXCEPT ![e.run] = Failed(e.run)]
          /\ Returns(e)
     ELSE Throws(e) /\ UNCHANGED <<run, budget>>
  /\ UNCHANGED <<stage, aliasGen, pending, scan, marks, client, sweep>>

(* The queue gives up on a delivery; its handler may still be running.     *)
Expire(j) ==
  /\ jobs[j].state = "active"
  /\ \/ \A e \in exec : e.job = j => ~e.attached
     \/ budget.faults > 0
  /\ budget' = IF \E e \in exec : e.job = j /\ e.attached
               THEN [budget EXCEPT !.faults = @ - 1] ELSE budget
  /\ jobs' = FailJob(jobs, j)
  /\ exec' = {IF e.job = j THEN [e EXCEPT !.attached = FALSE] ELSE e : e \in exec}
  /\ UNCHANGED <<run, stage, aliasGen, pending, scan, marks, client, sweep>>

(* The worker process dies, its attempts and its sweep with it.            *)
WorkerDies ==
  /\ budget.faults > 0
  /\ exec # {} \/ sweep.pc # "idle" \/ client["resume"].pc # "idle"
  /\ exec' = {} /\ sweep' = Swept /\ client' = [client EXCEPT !["resume"] = Idle]
  /\ budget' = [budget EXCEPT !.faults = @ - 1]
  /\ UNCHANGED <<run, jobs, stage, aliasGen, pending, scan, marks>>

-----------------------------------------------------------------------------
(* The recovery pass of the five-minute sweep *)

(* listActive.                                                             *)
SweepList ==
  /\ sweep.pc = "idle" /\ client["resume"].pc = "idle" /\ ~NoneActive
  /\ LET r == ActiveRun
     IN  sweep' = [Swept EXCEPT !.pc = "judge", !.run = r, !.job = run[r].job,
                     !.late = run[r].age = "over" \/
                              (run[r].job = NoJob /\ ~run[r].started /\ run[r].age # "new")]
  /\ UNCHANGED <<run, jobs, stage, aliasGen, pending, scan, marks, client, exec, budget>>

(* A mutant of Abandoned: an unenqueued run is abandoned by its start only.*)
AbandonedNoOrphan(r) == sweep.job # NoJob /\ jobs[sweep.job].state \in {"completed", "failed"}

(* settledEvidenceJobIds, then which of the listed runs are abandoned.     *)
Abandoned(r) ==
  \/ sweep.late
  \/ sweep.job # NoJob /\ jobs[sweep.job].state \in {"completed", "failed"}

SweepJudge ==
  /\ sweep.pc = "judge"
  /\ sweep' = IF Abandoned(sweep.run) THEN [sweep EXCEPT !.pc = "stage"] ELSE Swept
  /\ UNCHANGED <<run, jobs, stage, aliasGen, pending, scan, marks, client, exec, budget>>

SweepStage ==
  /\ sweep.pc = "stage"
  /\ sweep' = [sweep EXCEPT !.found = stage[sweep.run],
                            !.pc = IF stage[sweep.run] = NotStaged THEN "release" ELSE "publish"]
  /\ UNCHANGED <<run, jobs, stage, aliasGen, pending, scan, marks, client, exec, budget>>

SweepPublish ==
  /\ sweep.pc = "publish"
  /\ IF Active(sweep.run)
     THEN Stores(sweep.run, sweep.found) /\ sweep' = [sweep EXCEPT !.pc = "mark"]
     ELSE sweep' = [sweep EXCEPT !.pc = "release"] /\ UNCHANGED <<run, stage, scan>>
  /\ UNCHANGED <<jobs, aliasGen, pending, marks, client, exec, budget>>

SweepMark ==
  /\ sweep.pc = "mark"
  /\ marks' = Marked(sweep.run, sweep.found)
  /\ sweep' = Swept
  /\ UNCHANGED <<run, jobs, stage, aliasGen, pending, scan, client, exec, budget>>

(* A mutant of Released: the batch is not guarded on the active statuses.  *)
ReleasedAlways(r) == Failed(r)

(* releaseAbandoned's guard loses the race to a publication.               *)
Released(r) == IF Active(r) THEN Failed(r) ELSE run[r]

SweepRelease ==
  /\ sweep.pc = "release"
  /\ run' = [run EXCEPT ![sweep.run] = Released(sweep.run)]
  /\ sweep' = Swept
  /\ UNCHANGED <<jobs, stage, aliasGen, pending, scan, marks, client, exec, budget>>

SweepStep == SweepJudge \/ SweepStage \/ SweepPublish \/ SweepMark \/ SweepRelease

(* clearSettledCollectionStages, in the hourly maintenance.                *)
ClearStages ==
  /\ \E r \in RunIds : stage[r] # NotStaged /\ ~Active(r)
  /\ stage' = [r \in RunIds |-> IF Active(r) THEN stage[r] ELSE NotStaged]
  /\ UNCHANGED <<run, jobs, aliasGen, pending, scan, marks, client, sweep, exec, budget>>

-----------------------------------------------------------------------------
(* The clock *)

Ages(r) ==
  /\ Active(r) /\ run[r].age # "over"
  /\ run' = [run EXCEPT ![r].age = IF @ = "new" /\ ~run[r].started THEN "old" ELSE "over"]
  /\ UNCHANGED <<jobs, stage, aliasGen, pending, scan, marks, client, sweep, exec, budget>>

FallsDue(r) ==
  /\ run[r].retry = "waiting"
  /\ run' = [run EXCEPT ![r].retry = "due"]
  /\ UNCHANGED <<jobs, stage, aliasGen, pending, scan, marks, client, sweep, exec, budget>>

Lapses(r) ==
  /\ run[r].recent \/ run[r].cooling
  /\ run' = [run EXCEPT ![r].recent = FALSE, ![r].cooling = FALSE]
  /\ UNCHANGED <<jobs, stage, aliasGen, pending, scan, marks, client, sweep, exec, budget>>

CoolsDown(r) ==
  /\ run[r].cooling
  /\ run' = [run EXCEPT ![r].cooling = FALSE]
  /\ UNCHANGED <<jobs, stage, aliasGen, pending, scan, marks, client, sweep, exec, budget>>

-----------------------------------------------------------------------------
ClientStep(q) ==
  \/ \E kind \in {"read", "refresh", "resume"} : Reserve(q, kind)
  \/ Join(q) \/ ReserveTierSearch(q)
  \/ Enqueue(q) \/ EnqueueFails(q) \/ MarkEnqueued(q)

ExecStep(e) ==
  \/ Claim(e) \/ Suppressed(e) \/ ReadStage(e) \/ Begin(e) \/ Refuse(e)
  \/ StageCollection(e) \/ Publish(e) \/ Mark(e) \/ Error(e)
  \/ StopPublishes(e) \/ StopFails(e)

Next ==
  \/ \E q \in Clients : ClientStep(q)
  \/ EditAlias \/ Rebuild
  \/ \E j \in JobIds : StartAttempt(j) \/ Expire(j)
  \/ \E e \in exec : ExecStep(e)
  \/ WorkerDies
  \/ SweepList \/ SweepStep \/ ClearStages
  \/ \E r \in RunIds : Ages(r) \/ FallsDue(r) \/ Lapses(r) \/ CoolsDown(r)

(* A character whose first collection was published some time ago.         *)
CollectedInit ==
  /\ run = [r \in RunIds |->
              IF r = 1 THEN [NewRun("full") EXCEPT !.status = "complete", !.attempt = 1,
                                                   !.started = TRUE]
                       ELSE [NewRun("full") EXCEPT !.status = "absent"]]
  /\ jobs = [j \in JobIds |-> NeverSent(1)]
  /\ stage = [r \in RunIds |-> NotStaged]
  /\ aliasGen = 0 /\ pending = FALSE /\ scan = 0 /\ marks = 0
  /\ client = [q \in Clients |-> Idle]
  /\ sweep = Swept
  /\ exec = {}
  /\ budget = [presses |-> MaxPresses, faults |-> MaxFaults]

Spec == Init /\ [][Next]_vars

(* The sweep is scheduled every five minutes and runs to its end, the      *)
(* resume pass in the same handler included, and a run keeps ageing.       *)
(* Nothing is assumed of the other clients, of the queue, or of an attempt.*)
Fairness ==
  /\ WF_vars(SweepList) /\ WF_vars(SweepStep)
  /\ WF_vars(Enqueue("resume") \/ EnqueueFails("resume") \/ MarkEnqueued("resume"))
  /\ \A r \in RunIds : WF_vars(Ages(r))

FairSpec == Spec /\ Fairness

-----------------------------------------------------------------------------
(* Properties *)

(* Whoever reserves, enqueues, claims, expires, publishes or recovers, the *)
(* character has one slot that each run takes once and settles once: a     *)
(* late attempt, a republished stage or a release never settles a run a    *)
(* second time (publish, fail, claim and releaseAbandoned are guarded on   *)
(* the active statuses).  And the slot is always given back, by the sweep  *)
(* if by nobody else (recoverAbandonedEvidenceRuns).                       *)
Slot ==
  INSTANCE CollectionSlot WITH
    Collections <- RunIds,
    slot   <- ActiveRun,
    result <- [r \in RunIds |-> IF Published(r) THEN "published"
                                ELSE IF run[r].status = "failed" THEN "failed" ELSE "none"]

SlotRefined == Slot!SlotSpec

(* The steps of that specification alone, where a behaviour starts with a  *)
(* character that has been collected before, and tier searches, their      *)
(* continuations and ordinary collections compete for the slot.            *)
SlotStep == Slot!SlotNext \/ Slot!slotVars' = Slot!slotVars

(* A stage never outlives the publication it fed, or a later attempt would *)
(* republish it over newer evidence (publish's last statement), whichever  *)
(* of the overlapping attempts and the recovery staged and published.      *)
PublishedHasNoStage == \A r \in RunIds : Published(r) => stage[r] = NotStaged

(* Once no recollection is asked for, the stored scan cursor and clean-scan*)
(* stamp come from the aliases as they are now: a run that read the old    *)
(* aliases and published after the edit is undone at the reservation that  *)
(* consumes the request (reserveEvidence).                                 *)
ScanFollowsAliases == ~pending => scan \in {NoGen, aliasGen}

(* Doc: the same of the terminal `kills' marks (the comments of            *)
(* invalidateHistoricAliasKillScan and reserveEvidence).                   *)
MarksFollowAliases == ~pending => marks \in {NoGen, aliasGen}

(* Doc: the reservation that consumes the request is the one that will     *)
(* re-read the aliases (reserveEvidence), so it is a full run.             *)
AliasRequestReachesAFullRun ==
  pending /\ ~pending' => \E r \in RunIds : ~Active(r) /\ run'[r].status = "queued"
                                            /\ run'[r].mode = "full"

(* Doc: a capped ranked walk continues automatically: while the newest     *)
(* published search of the tier is not capped, no earlier cursor is left   *)
(* behind unfinished (rankedContinuations, listResumable).                 *)
WalkIsRemembered ==
  \A r \in RunIds : run[r].walk = "capped" =>
    \A l \in {Latest("tier")} \ {r} : run[l].walk # "none"

(* Doc: a staged collection has been paid for, and a publication that      *)
(* fails is retried from the stage: what is published of a staged run is   *)
(* what was staged (stageAndPublish).                                      *)
StagedCollectionIsPublished ==
  \A r \in RunIds : Active(r) /\ stage[r].out = "complete"
    /\ run'[r].status \in PublishedStatus => run'[r].status = "complete"

(* A stage never outlives the publication it fed, and once no recollection *)
(* is asked for the stored scan comes from the aliases of today            *)
(* (repository.ts: publish, reserveEvidence).                              *)
RunsKeepStageAndScan == PublishedHasNoStage /\ ScanFollowsAliases

(* Whoever reserves, publishes, expires or recovers, each step takes the   *)
(* character's slot, settles its collection, or leaves both                *)
(* (recover-abandoned-evidence-runs.ts, repository.ts).                    *)
SlotIsKept == [][SlotStep]_vars

=============================================================================
