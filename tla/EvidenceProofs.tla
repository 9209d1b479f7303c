------------------------- MODULE EvidenceProofs -------------------------
(***************************************************************************)
(* Proofs about EvidenceRuns, for every number of clients, runs, jobs,     *)
(* attempts, edits, presses and faults: the slot specification is          *)
(* implemented, a publication leaves no stage behind, and the stored scan  *)
(* follows the aliases; and about the EvidencePhases of one run, for every *)
(* number of overlapping attempts and failed writes.                       *)
(***************************************************************************)
EXTENDS EvidenceRuns, EvidencePhases, WellFoundedInduction, TLAPS

(* boss.send keeps the job table well formed, names a job of it, changes   *)
(* no job that was ever sent, and creates at most one, for the key.        *)
LEMMA SendType ==
  ASSUME NEW K, NEW q \in [JobIds -> Job(K)], NEW key \in K, CanSend(q, key)
  PROVE  /\ Send(q, key) \in [JobIds -> Job(K)]
         /\ SentJob(q, key) \in JobIds
         /\ \A j \in JobIds : Send(q, key)[j] = q[j]
                              \/ (q[j].state = "none" /\ Send(q, key)[j].key = key)
<1>1. 1 \in 1..MaxAttempts
  BY JobQueueAssumption
<1>2. LiveJobs(q, key) = {} => NextJob(q) \in UnusedJobs(q)
  BY DEF CanSend, NextJob
<1>3. SentJob(q, key) \in JobIds
  BY <1>2 DEF SentJob, LiveJobs, UnusedJobs
<1>4. Send(q, key) \in [JobIds -> Job(K)]
  BY <1>1, <1>2 DEF Send, Job, JobStates, LiveJobStates, UnusedJobs
<1>5. \A j \in JobIds : Send(q, key)[j] = q[j]
                        \/ (q[j].state = "none" /\ Send(q, key)[j].key = key)
  <2>1. CASE LiveJobs(q, key) # {}
    BY <2>1 DEF Send
  <2>2. CASE LiveJobs(q, key) = {}
    <3>1. NextJob(q) \in JobIds /\ q[NextJob(q)].state = "none"
      BY <2>2, <1>2 DEF UnusedJobs
    <3>2. Send(q, key) = [q EXCEPT ![NextJob(q)] =
                            [state |-> "created", key |-> key, attempt |-> 1]]
      BY <2>2 DEF Send
    <3> QED BY <3>1, <3>2
  <2> QED BY <2>1, <2>2
<1> QED BY <1>3, <1>4, <1>5

(* Table p holds the same jobs as q, for the same keys.                    *)
SameKeys(p, q) ==
  \A i \in JobIds : p[i].key = q[i].key /\ (q[i].state # "none" <=> p[i].state # "none")

(* Retrying, failing, delivering and completing a job keep the table well  *)
(* formed, its keys, and which jobs were ever sent.                        *)
LEMMA JobStepType ==
  ASSUME NEW K, NEW q \in [JobIds -> Job(K)], NEW j \in JobIds, q[j].state # "none"
  PROVE  /\ FailJob(q, j) \in [JobIds -> Job(K)] /\ SameKeys(FailJob(q, j), q)
         /\ Deliver(q, j) \in [JobIds -> Job(K)] /\ SameKeys(Deliver(q, j), q)
         /\ Complete(q, j) \in [JobIds -> Job(K)] /\ SameKeys(Complete(q, j), q)
<1>1. FailJob(q, j) \in [JobIds -> Job(K)] /\ SameKeys(FailJob(q, j), q)
  <2>1. q[j].attempt \in 1..MaxAttempts /\ MaxAttempts \in Nat
    BY JobQueueAssumption DEF Job
  <2>2. FailJob(q, j) \in [JobIds -> Job(K)]
    <3>1. CASE q[j].attempt < MaxAttempts
      <4>1. [q[j] EXCEPT !.state = "retry", !.attempt = q[j].attempt + 1] \in Job(K)
        <5>1. q[j].attempt + 1 \in 1..MaxAttempts
          BY <2>1, <3>1
        <5>2. "retry" \in JobStates /\ q[j] \in Job(K)
          BY DEF JobStates, LiveJobStates
        <5> QED BY <5>1, <5>2 DEF Job
      <4>2. FailJob(q, j) = [q EXCEPT ![j] =
                [q[j] EXCEPT !.state = "retry", !.attempt = q[j].attempt + 1]]
        BY <3>1 DEF FailJob, Job
      <4> QED BY <4>1, <4>2
    <3>2. CASE ~(q[j].attempt < MaxAttempts)
      BY <3>2 DEF FailJob, Job, JobStates
    <3> QED BY <3>1, <3>2
  <2>3. /\ FailJob(q, j)[j].key = q[j].key /\ FailJob(q, j)[j].state # "none"
        /\ \A i \in JobIds \ {j} : FailJob(q, j)[i] = q[i]
    BY <2>1 DEF FailJob, Job
  <2>4. SameKeys(FailJob(q, j), q)
    BY <2>3 DEF SameKeys
  <2> QED BY <2>2, <2>4
<1>2. Deliver(q, j) \in [JobIds -> Job(K)] /\ SameKeys(Deliver(q, j), q)
  BY DEF Deliver, SameKeys, Job, JobStates, LiveJobStates
<1>3. Complete(q, j) \in [JobIds -> Job(K)] /\ SameKeys(Complete(q, j), q)
  BY DEF Complete, SameKeys, Job, JobStates, LiveJobStates
<1> QED BY <1>1, <1>2, <1>3

-----------------------------------------------------------------------------
(* The inductive invariant *)

Sent(j)   == jobs[j].state # "none"
Exists(r) == run[r].status # "absent"

(* Whoever works on a run works on one that was reserved.                  *)
ClientsAreSure == \A q \in Clients : client[q].pc # "idle" =>
                    client[q].run \in RunIds /\ Exists(client[q].run)

JobsAreSure == \A j \in JobIds : Sent(j) => Exists(jobs[j].key)

ExecsAreSure == \A e \in exec : Sent(e.job) /\ jobs[e.job].key = e.run

SweepIsSure == sweep.pc # "idle" => sweep.run \in RunIds /\ Exists(sweep.run)

HasTarget == ClientsAreSure /\ JobsAreSure /\ ExecsAreSure /\ SweepIsSure

(* The unique index on the character's active runs.                        *)
OneActive == \A r, s \in RunIds : Active(r) /\ Active(s) => r = s

(* PublishedHasNoStage, and the stage of a run yet to be reserved.         *)
StagesAreSettled ==
  \A r \in RunIds : run[r].status = "absent" \/ Published(r) => stage[r] = NotStaged

(* ScanFollowsAliases, and what may still be published: the stage, the     *)
(* attempts and the sweep hold of an active run what today's aliases gave. *)
Current(g) == g \in {NoGen, aliasGen}

ScanIsCurrent    == Current(scan)
StagesAreCurrent == \A r \in RunIds : Active(r) => Current(stage[r].gen)
ExecsAreCurrent  == \A e \in exec : Active(e.run) => Current(e.found.gen)
SweepIsCurrent   == sweep.pc # "idle" /\ Active(sweep.run) => Current(sweep.found.gen)

GensAreCurrent ==
  ~pending => ScanIsCurrent /\ StagesAreCurrent /\ ExecsAreCurrent /\ SweepIsCurrent

TypeInv == TypeOK /\ HasTarget

IInv == TypeInv /\ OneActive /\ StagesAreSettled /\ GensAreCurrent

-----------------------------------------------------------------------------
(* Type correctness *)

(* The row an INSERT takes exists and was not there before.                *)
LEMMA NextRunType == Unreserved # {} => NextRun \in RunIds /\ run[NextRun].status = "absent"
<1> SUFFICES ASSUME Unreserved # {}
             PROVE  NextRun \in RunIds /\ run[NextRun].status = "absent"
  OBVIOUS
<1>1. \E r \in Unreserved : \A s \in Unreserved : r <= s
  <2>1. Unreserved \in SUBSET Nat /\ Unreserved # {}
    BY EvidenceAssumption DEF Unreserved, RunIds
  <2>2. PICK r \in Unreserved : \A s \in Unreserved : ~(<<s, r>> \in OpToRel(<, Nat))
    BY <2>1, NatLessThanWellFounded, WFMin
  <2>3. \A s \in Unreserved : s \in Nat /\ <<s, r>> \in Nat \X Nat
    BY <2>1
  <2>4. \A s \in Unreserved : s < r => <<s, r>> \in OpToRel(<, Nat)
    BY <2>3, Zenon DEF OpToRel
  <2>5. \A s \in Unreserved : r <= s
    <3>1. \A s \in Unreserved : ~(s < r)
      BY <2>2, <2>4, Zenon
    <3> QED BY <2>1, <3>1
  <2> QED BY <2>5
<1> QED BY <1>1 DEF NextRun, Unreserved

(* What a statement writes is a row again.                                 *)
LEMMA RunRowUpdates ==
  ASSUME TypeOK, NEW r \in RunIds
  PROVE  /\ Failed(r) \in RunRow
         /\ \A out \in Outcomes \cup {NoOutcome} : PublishedRow(r, out) \in RunRow
         /\ \A j \in JobIds \cup {NoJob} : [run[r] EXCEPT !.job = j] \in RunRow
         /\ \A a \in {"new", "old", "over"} : [run[r] EXCEPT !.age = a] \in RunRow
         /\ \A n \in 0..MaxAttempts, a \in {"new", "old", "over"} :
              [run[r] EXCEPT !.status = "running", !.attempt = n, !.started = TRUE,
                             !.age = a] \in RunRow
         /\ [run[r] EXCEPT !.retry = "due"] \in RunRow
         /\ [run[r] EXCEPT !.recent = FALSE, !.cooling = FALSE] \in RunRow
         /\ [run[r] EXCEPT !.cooling = FALSE] \in RunRow
<1>0. run[r] \in RunRow
  BY DEF TypeOK
<1>1. Failed(r) \in RunRow
  BY <1>0 DEF Failed, RunRow, ActiveStatus, PublishedStatus
<1>2. ASSUME NEW out \in Outcomes \cup {NoOutcome}
      PROVE  PublishedRow(r, out) \in RunRow
  BY <1>0 DEF PublishedRow, RunRow, ActiveStatus, PublishedStatus
<1>3. ASSUME NEW j \in JobIds \cup {NoJob}
      PROVE  [run[r] EXCEPT !.job = j] \in RunRow
  BY <1>0 DEF RunRow
<1>4. ASSUME NEW a \in {"new", "old", "over"}
      PROVE  [run[r] EXCEPT !.age = a] \in RunRow
  BY <1>0 DEF RunRow
<1>5. ASSUME NEW n \in 0..MaxAttempts, NEW a \in {"new", "old", "over"}
      PROVE  [run[r] EXCEPT !.status = "running", !.attempt = n, !.started = TRUE,
                            !.age = a] \in RunRow
  BY <1>0 DEF RunRow, ActiveStatus
<1>6. [run[r] EXCEPT !.retry = "due"] \in RunRow
  BY <1>0 DEF RunRow
<1>7. [run[r] EXCEPT !.recent = FALSE, !.cooling = FALSE] \in RunRow
  BY <1>0 DEF RunRow
<1>8. [run[r] EXCEPT !.cooling = FALSE] \in RunRow
  BY <1>0 DEF RunRow
<1> QED BY <1>1, <1>2, <1>3, <1>4, <1>5, <1>6, <1>7, <1>8

(* A reservation's row, and the collections there are.                     *)
LEMMA NewRunType == \A mode \in {"full", "tier"} : NewRun(mode) \in RunRow
BY JobQueueAssumption DEF NewRun, RunRow, ActiveStatus, NoJob

LEMMA CollectionTypes ==
  /\ NotStaged \in Collection
  /\ \A c \in Collection : /\ c.gen \in Gens \cup {NoGen}
                           /\ c.out \in Outcomes \cup {NoOutcome}
                           /\ \A out \in Outcomes : [c EXCEPT !.out = out] \in Collection
BY DEF NotStaged, Collection

(* An attempt stays one of the same run and job, whatever it goes on to.   *)
LEMMA ExecutionUpdates ==
  ASSUME NEW x \in Execution
  PROVE  /\ \A p \in ExecSteps : [x EXCEPT !.pc = p] \in Execution
         /\ \A p \in ExecSteps, c \in Collection :
              [x EXCEPT !.found = c, !.pc = p] \in Execution
         /\ \A p \in ExecSteps, c \in Collection :
              [x EXCEPT !.pc = p, !.found = c] \in Execution
         /\ \A g \in Gens :
              [x EXCEPT !.pc = "collect", !.began = TRUE, !.found.gen = g] \in Execution
         /\ [x EXCEPT !.attached = FALSE] \in Execution
<1>1. ASSUME NEW p \in ExecSteps
      PROVE  [x EXCEPT !.pc = p] \in Execution
  BY DEF Execution
<1>2. ASSUME NEW p \in ExecSteps, NEW c \in Collection
      PROVE  /\ [x EXCEPT !.found = c, !.pc = p] \in Execution
             /\ [x EXCEPT !.pc = p, !.found = c] \in Execution
  BY DEF Execution
<1>3. ASSUME NEW g \in Gens
      PROVE  [x EXCEPT !.pc = "collect", !.began = TRUE, !.found.gen = g] \in Execution
  <2>1. [x.found EXCEPT !.gen = g] \in Collection
    BY DEF Execution, Collection
  <2>2. [x EXCEPT !.pc = "collect", !.began = TRUE, !.found.gen = g]
          = [x EXCEPT !.pc = "collect", !.began = TRUE, !.found = [x.found EXCEPT !.gen = g]]
    BY DEF Execution
  <2>3. "collect" \in ExecSteps
    BY DEF ExecSteps
  <2> QED BY <2>1, <2>2, <2>3 DEF Execution
<1>4. [x EXCEPT !.attached = FALSE] \in Execution
  BY DEF Execution
<1> QED BY <1>1, <1>2, <1>3, <1>4

(* What an attempt's end, and the queue's retry of it, do to the queue.    *)
JobsKept == jobs' \in [JobIds -> Job(RunIds)] /\ SameKeys(jobs', jobs)

(* No attempt appears, or changes its run, its job or what it holds.       *)
ExecsKept ==
  \A x \in exec' : /\ x \in Execution
                   /\ \E e \in exec : x.job = e.job /\ x.run = e.run

FoundsKept == \A x \in exec' : \E e \in exec : x.run = e.run /\ x.found = e.found

(* An attempt's parts.                                                     *)
LEMMA ExecutionType ==
  ASSUME TypeInv, NEW e \in exec
  PROVE  /\ e \in Execution /\ e.run \in RunIds /\ e.job \in JobIds
         /\ e.att \in 0..MaxAttempts /\ e.found \in Collection
         /\ jobs[e.job].state # "none" /\ jobs[e.job].key = e.run
         /\ Exists(e.run)
<1>1. e \in Execution
  BY DEF TypeInv, TypeOK
<1>2. /\ e.run \in RunIds /\ e.job \in JobIds
      /\ e.att \in 0..MaxAttempts /\ e.found \in Collection
  BY <1>1, JobQueueAssumption DEF Execution
<1>3. jobs[e.job].state # "none" /\ jobs[e.job].key = e.run
  BY DEF TypeInv, HasTarget, ExecsAreSure, Sent
<1>4. Exists(e.run)
  BY <1>2, <1>3 DEF TypeInv, HasTarget, JobsAreSure, Sent
<1> QED BY <1>1, <1>2, <1>3, <1>4

LEMMA SameJobs == ASSUME TypeInv, UNCHANGED jobs PROVE JobsKept
BY DEF JobsKept, SameKeys, TypeInv, TypeOK

(* The attempt is over: it is gone, and the queue at most retries it.      *)
LEMMA AttemptEnds ==
  ASSUME TypeInv, NEW e \in exec, Returns(e) \/ Throws(e)
  PROVE  JobsKept /\ ExecsKept /\ FoundsKept
<1>1. /\ e.job \in JobIds /\ jobs[e.job].state # "none"
      /\ jobs \in [JobIds -> Job(RunIds)]
  BY ExecutionType DEF TypeInv, TypeOK
<1>2. /\ exec' = exec \ {e}
      /\ jobs' = jobs \/ jobs' = Complete(jobs, e.job) \/ jobs' = FailJob(jobs, e.job)
  <2>1. CASE Returns(e)
    BY <2>1 DEF Returns, Ends
  <2>2. CASE Throws(e)
    BY <2>2 DEF Throws, Ends
  <2> QED BY <2>1, <2>2
<1>3. JobsKept
  <2>1. CASE jobs' = jobs
    BY <2>1, SameJobs
  <2>2. CASE jobs' = Complete(jobs, e.job) \/ jobs' = FailJob(jobs, e.job)
    BY <1>1, <2>2, JobStepType DEF JobsKept
  <2> QED BY <1>2, <2>1, <2>2
<1>4. ExecsKept /\ FoundsKept
  BY <1>2 DEF ExecsKept, FoundsKept, TypeInv, TypeOK
<1> QED BY <1>3, <1>4

(* The attempt goes on.                                                    *)
LEMMA AttemptGoesOn ==
  ASSUME TypeInv, NEW e \in exec, NEW f \in Execution, f.job = e.job, f.run = e.run,
         Keep(e, f), UNCHANGED jobs
  PROVE  /\ JobsKept /\ ExecsKept
         /\ f.found = e.found => FoundsKept
<1>1. JobsKept
  BY SameJobs
<1>2. exec' = (exec \ {e}) \cup {f}
  BY DEF Keep
<1>3. ExecsKept
  BY <1>2 DEF ExecsKept, TypeInv, TypeOK
<1>4. f.found = e.found => FoundsKept
  BY <1>2 DEF FoundsKept
<1> QED BY <1>1, <1>3, <1>4

(* A new program counter is all that changes.                              *)
LEMMA Goes ==
  ASSUME TypeInv, NEW e \in exec, NEW p \in ExecSteps,
         Keep(e, [e EXCEPT !.pc = p]), UNCHANGED jobs
  PROVE  JobsKept /\ ExecsKept /\ FoundsKept
<1> DEFINE f == [e EXCEPT !.pc = p]
<1>1. e \in Execution
  BY ExecutionType
<1>2. f \in Execution /\ f.job = e.job /\ f.run = e.run /\ f.found = e.found
  BY <1>1, ExecutionUpdates DEF Execution
<1>3. Keep(e, f)
  OBVIOUS
<1> HIDE DEF f
<1> QED BY <1>2, <1>3, AttemptGoesOn

LEMMA CaughtKeeps ==
  ASSUME TypeInv, NEW e \in exec, NEW err, NEW dear, Caught(e, err, dear)
  PROVE  JobsKept /\ ExecsKept /\ FoundsKept
<1>1. \/ Throws(e)
      \/ Keep(e, [e EXCEPT !.pc = "stop"]) /\ UNCHANGED jobs
  BY Zenon DEF Caught
<1>2. "stop" \in ExecSteps
  BY DEF ExecSteps
<1> QED BY <1>1, <1>2, AttemptEnds, Goes

-----------------------------------------------------------------------------
(* What a step does to the runs' statuses *)

(* Nothing that matters to the slot.                                       *)
SameStatus(r) ==
  run'[r].status = run[r].status \/ (Active(r) /\ run'[r].status \in ActiveStatus)

Takes(r)   == NoneActive /\ run[r].status = "absent" /\ run'[r].status = "queued"
Settles(r) == Active(r) /\ run'[r].status \in PublishedStatus \cup {"failed"}

(* At most one run is reserved or settled.                                 *)
StatusStep ==
  \/ \A r \in RunIds : SameStatus(r)
  \/ \E r \in RunIds : /\ Takes(r) \/ Settles(r)
                       /\ \A s \in RunIds \ {r} : run'[s].status = run[s].status

(* Every statement writes one row, and either leaves its status or moves   *)
(* it one of three ways.                                                   *)
LEMMA OneRowChanges ==
  ASSUME TypeInv, NEW r \in RunIds, NEW row \in RunRow, run' = [run EXCEPT ![r] = row],
         \/ row.status = run[r].status
         \/ Active(r) /\ row.status \in ActiveStatus \cup PublishedStatus \cup {"failed"}
         \/ NoneActive /\ run[r].status = "absent" /\ row.status = "queued"
  PROVE  run' \in [RunIds -> RunRow] /\ StatusStep
<1>1. run \in [RunIds -> RunRow]
  BY DEF TypeInv, TypeOK
<1>2. run' \in [RunIds -> RunRow]
  BY <1>1
<1>3. run'[r] = row /\ \A s \in RunIds \ {r} : run'[s] = run[s]
  BY <1>1
<1>4. CASE row.status = run[r].status
  <2>1. \A s \in RunIds : SameStatus(s)
    BY <1>3, <1>4 DEF SameStatus
  <2> QED BY <1>2, <2>1, Zenon DEF StatusStep
<1>5. CASE Active(r) /\ row.status \in ActiveStatus
  <2>1. \A s \in RunIds : SameStatus(s)
    BY <1>3, <1>5 DEF SameStatus
  <2> QED BY <1>2, <2>1, Zenon DEF StatusStep
<1>6. CASE Active(r) /\ row.status \in PublishedStatus \cup {"failed"}
  <2>1. Settles(r) /\ \A s \in RunIds \ {r} : run'[s].status = run[s].status
    BY <1>3, <1>6 DEF Settles
  <2> QED BY <1>2, <2>1, Zenon DEF StatusStep
<1>7. CASE NoneActive /\ run[r].status = "absent" /\ row.status = "queued"
  <2>1. Takes(r) /\ \A s \in RunIds \ {r} : run'[s].status = run[s].status
    BY <1>3, <1>7 DEF Takes
  <2> QED BY <1>2, <2>1, Zenon DEF StatusStep
<1> QED BY <1>2, <1>4, <1>5, <1>6, <1>7

LEMMA SameRuns == ASSUME TypeInv, UNCHANGED run PROVE run' \in [RunIds -> RunRow] /\ StatusStep
<1>1. run' \in [RunIds -> RunRow]
  BY DEF TypeInv, TypeOK
<1>2. \A r \in RunIds : SameStatus(r)
  BY DEF SameStatus
<1> QED BY <1>1, <1>2, Zenon DEF StatusStep

(* A run that settles: published or failed.                                *)
LEMMA RunSettles ==
  ASSUME TypeInv, NEW r \in RunIds, Active(r)
  PROVE  /\ run' = [run EXCEPT ![r] = Failed(r)] =>
              run' \in [RunIds -> RunRow] /\ StatusStep
         /\ \A out \in Outcomes \cup {NoOutcome} :
              run' = [run EXCEPT ![r] = PublishedRow(r, out)] =>
                run' \in [RunIds -> RunRow] /\ StatusStep
<1>1. run[r] \in RunRow
  BY DEF TypeInv, TypeOK
<1>2. Failed(r) \in RunRow /\ Failed(r).status = "failed"
  <2>1. Failed(r) \in RunRow
    BY RunRowUpdates DEF TypeInv
  <2>2. Failed(r).status = "failed"
    BY <1>1 DEF Failed, RunRow
  <2> QED BY <2>1, <2>2
<1>3. ASSUME NEW out \in Outcomes \cup {NoOutcome}
      PROVE  /\ PublishedRow(r, out) \in RunRow
             /\ PublishedRow(r, out).status \in PublishedStatus
  <2>1. PublishedRow(r, out) \in RunRow
    BY RunRowUpdates DEF TypeInv
  <2>2. PublishedRow(r, out).status \in PublishedStatus
    BY <1>1 DEF PublishedRow, PublishedStatus, RunRow
  <2> QED BY <2>1, <2>2
<1>4. ASSUME NEW row \in RunRow, row.status \in PublishedStatus \cup {"failed"},
             run' = [run EXCEPT ![r] = row]
      PROVE  run' \in [RunIds -> RunRow] /\ StatusStep
  BY <1>4, OneRowChanges
<1> QED BY <1>2, <1>3, <1>4, Zenon

-----------------------------------------------------------------------------
(* Every action keeps the types and moves at most one run's status *)

(* A client at work has a run; its record is one of the clients' records.  *)
ClientRow == [pc : {"idle", "enqueue", "mark"}, run : RunIds \cup {NoRun}, job : JobIds \cup {NoJob}]

LEMMA ClientType ==
  ASSUME TypeInv, NEW q \in Clients
  PROVE  /\ client[q] \in ClientRow
         /\ client[q].job \in JobIds \cup {NoJob}
         /\ client[q].pc # "idle" => client[q].run \in RunIds /\ Exists(client[q].run)
BY DEF TypeInv, TypeOK, ClientRow, HasTarget, ClientsAreSure

LEMMA ClientUpdates ==
  ASSUME TypeInv, NEW q \in Clients
  PROVE  /\ [client EXCEPT ![q] = Idle] \in [Clients -> ClientRow]
         /\ \A r \in RunIds : Promise(q, r) => client' \in [Clients -> ClientRow]
         /\ \A j \in JobIds :
              [client EXCEPT ![q].pc = "mark", ![q].job = j] \in [Clients -> ClientRow]
<1>1. client \in [Clients -> ClientRow]
  BY DEF TypeInv, TypeOK, ClientRow
<1>2. Idle \in ClientRow
  BY DEF Idle, ClientRow
<1>3. \A r \in RunIds : [pc |-> "enqueue", run |-> r, job |-> NoJob] \in ClientRow
  BY DEF ClientRow
<1>4. \A j \in JobIds : [client[q] EXCEPT !.pc = "mark", !.job = j] \in ClientRow
  BY <1>1 DEF ClientRow
<1>5. \A r \in RunIds : Promise(q, r) => client' \in [Clients -> ClientRow]
  BY <1>1, <1>3 DEF Promise
<1>6. \A j \in JobIds :
         [client EXCEPT ![q].pc = "mark", ![q].job = j]
           = [client EXCEPT ![q] = [client[q] EXCEPT !.pc = "mark", !.job = j]]
  BY <1>1 DEF ClientRow
<1> QED BY <1>1, <1>2, <1>4, <1>5, <1>6

(* A reservation inserts the next row.                                     *)
LEMMA RunIsReserved ==
  ASSUME TypeInv, NoneActive, Unreserved # {}, NEW mode \in {"full", "tier"},
         run' = [run EXCEPT ![NextRun] = NewRun(mode)]
  PROVE  run' \in [RunIds -> RunRow] /\ StatusStep
<1>1. NextRun \in RunIds /\ run[NextRun].status = "absent"
  BY NextRunType
<1>2. NewRun(mode) \in RunRow
  BY NewRunType
<1>3. NewRun(mode).status = "queued"
  BY DEF NewRun
<1> QED BY <1>1, <1>2, <1>3, OneRowChanges, Zenon

LEMMA ClientStepType ==
  ASSUME TypeInv, NEW q \in Clients, ClientStep(q)
  PROVE  TypeOK' /\ StatusStep
<1>0. ClientRow = [pc : {"idle", "enqueue", "mark"},
                   run : RunIds \cup {NoRun}, job : JobIds \cup {NoJob}]
  BY DEF ClientRow
<1>1. ASSUME NEW kind, Reserve(q, kind)
      PROVE  TypeOK' /\ StatusStep
  <2>1. PICK mode \in {"full", "tier"} : run' = [run EXCEPT ![NextRun] = NewRun(mode)]
    BY <1>1 DEF Reserve
  <2>2. NoneActive /\ Unreserved # {} /\ Promise(q, NextRun)
    BY <1>1 DEF Reserve
  <2>3. run' \in [RunIds -> RunRow] /\ StatusStep
    BY <2>1, <2>2, RunIsReserved
  <2>4. client' \in [Clients -> ClientRow]
    BY <2>2, NextRunType, ClientUpdates
  <2>5. scan' \in Gens \cup {NoGen} /\ marks' \in Gens \cup {NoGen}
    BY <1>1 DEF Reserve, Invalidated, TypeInv, TypeOK
  <2> QED BY <1>0, <1>1, <2>3, <2>4, <2>5 DEF Reserve, TypeInv, TypeOK
<1>2. ASSUME Join(q)
      PROVE  TypeOK' /\ StatusStep
  <2>1. client' \in [Clients -> ClientRow]
    BY <1>2, ClientUpdates DEF Join
  <2>2. run' \in [RunIds -> RunRow] /\ StatusStep
    BY <1>2, SameRuns DEF Join
  <2> QED BY <1>0, <1>2, <2>1, <2>2 DEF Join, TypeInv, TypeOK
<1>3. ASSUME ReserveTierSearch(q)
      PROVE  TypeOK' /\ StatusStep
  <2>1. /\ run' = [run EXCEPT ![NextRun] = NewRun("tier")]
        /\ NoneActive /\ Unreserved # {} /\ Promise(q, NextRun)
    BY <1>3 DEF ReserveTierSearch
  <2>2. run' \in [RunIds -> RunRow] /\ StatusStep
    BY <2>1, RunIsReserved
  <2>3. client' \in [Clients -> ClientRow]
    BY <2>1, NextRunType, ClientUpdates
  <2>4. budget' \in [presses : 0..MaxPresses, faults : 0..MaxFaults]
    BY <1>3, EvidenceAssumption DEF ReserveTierSearch, TypeInv, TypeOK
  <2> QED BY <1>0, <1>3, <2>2, <2>3, <2>4 DEF ReserveTierSearch, TypeInv, TypeOK
<1>4. ASSUME Enqueue(q)
      PROVE  TypeOK' /\ StatusStep
  <2>1. client[q].run \in RunIds
    BY <1>4, ClientType DEF Enqueue
  <2>2. /\ Send(jobs, client[q].run) \in [JobIds -> Job(RunIds)]
        /\ SentJob(jobs, client[q].run) \in JobIds
    BY <1>4, <2>1, SendType DEF Enqueue, TypeInv, TypeOK
  <2>3. client' \in [Clients -> ClientRow]
    BY <1>4, <2>2, ClientUpdates DEF Enqueue
  <2>4. run' \in [RunIds -> RunRow] /\ StatusStep
    BY <1>4, SameRuns DEF Enqueue
  <2> QED BY <1>0, <1>4, <2>2, <2>3, <2>4 DEF Enqueue, TypeInv, TypeOK
<1>5. ASSUME EnqueueFails(q)
      PROVE  TypeOK' /\ StatusStep
  <2>1. client' \in [Clients -> ClientRow]
    BY <1>5, ClientUpdates DEF EnqueueFails
  <2>2. run' \in [RunIds -> RunRow] /\ StatusStep
    BY <1>5, SameRuns DEF EnqueueFails
  <2>3. budget' \in [presses : 0..MaxPresses, faults : 0..MaxFaults]
    BY <1>5, EvidenceAssumption DEF EnqueueFails, TypeInv, TypeOK
  <2> QED BY <1>0, <1>5, <2>1, <2>2, <2>3 DEF EnqueueFails, TypeInv, TypeOK
<1>6. ASSUME MarkEnqueued(q)
      PROVE  TypeOK' /\ StatusStep
  <2>1. client[q].run \in RunIds /\ client[q].job \in JobIds \cup {NoJob}
    BY <1>6, ClientType DEF MarkEnqueued
  <2>2. client' \in [Clients -> ClientRow]
    BY <1>6, ClientUpdates DEF MarkEnqueued
  <2>3. run' \in [RunIds -> RunRow] /\ StatusStep
    <3> DEFINE row == [run[client[q].run] EXCEPT !.job = client[q].job]
    <3>1. run \in [RunIds -> RunRow]
      BY DEF TypeInv, TypeOK
    <3>2. row \in RunRow
      BY <2>1, RunRowUpdates DEF TypeInv
    <3>3. row.status = run[client[q].run].status
      BY <2>1, <3>1 DEF RunRow
    <3>4. UNCHANGED run \/ run' = [run EXCEPT ![client[q].run] = row]
      BY <1>6, <2>1, <3>1 DEF MarkEnqueued
    <3> HIDE DEF row
    <3> QED BY <2>1, <3>2, <3>3, <3>4, SameRuns, OneRowChanges
  <2> QED BY <1>0, <1>6, <2>2, <2>3 DEF MarkEnqueued, TypeInv, TypeOK
<1> QED BY <1>1, <1>2, <1>3, <1>4, <1>5, <1>6 DEF ClientStep

(* The queue, the attempts and the runs are all an attempt's step touches, *)
(* but for a stage, the stored scan, the marks and the fault budget.       *)
LEMMA TypeFromParts ==
  ASSUME TypeInv, JobsKept, ExecsKept, run' \in [RunIds -> RunRow],
         stage' \in [RunIds -> Collection], UNCHANGED <<aliasGen, pending, client, sweep>>,
         scan' \in Gens \cup {NoGen}, marks' \in Gens \cup {NoGen},
         budget' \in [presses : 0..MaxPresses, faults : 0..MaxFaults]
  PROVE  TypeOK'
<1>1. jobs' \in [JobIds -> Job(RunIds)] /\ \A x \in exec' : x \in Execution
  BY DEF JobsKept, ExecsKept
<1> QED BY <1>1 DEF TypeInv, TypeOK

(* The types of what most steps leave alone.                               *)
LEMMA TypesNow ==
  ASSUME TypeInv
  PROVE  /\ run \in [RunIds -> RunRow] /\ stage \in [RunIds -> Collection]
         /\ scan \in Gens \cup {NoGen} /\ marks \in Gens \cup {NoGen} /\ aliasGen \in Gens
         /\ budget \in [presses : 0..MaxPresses, faults : 0..MaxFaults]
         /\ budget.faults > 0 => [budget EXCEPT !.faults = @ - 1]
                                    \in [presses : 0..MaxPresses, faults : 0..MaxFaults]
BY EvidenceAssumption DEF TypeInv, TypeOK

(* publish.                                                                *)
LEMMA StoresType ==
  ASSUME TypeInv, NEW r \in RunIds, Active(r), NEW found \in Collection, Stores(r, found)
  PROVE  /\ run' \in [RunIds -> RunRow] /\ StatusStep
         /\ stage' \in [RunIds -> Collection] /\ scan' \in Gens \cup {NoGen}
<1>1. found.out \in Outcomes \cup {NoOutcome} /\ found.gen \in Gens \cup {NoGen}
  BY CollectionTypes
<1>2. run' \in [RunIds -> RunRow] /\ StatusStep
  BY <1>1, RunSettles DEF Stores
<1>3. stage' \in [RunIds -> Collection] /\ scan' \in Gens \cup {NoGen}
  BY <1>1, TypesNow, CollectionTypes DEF Stores, StageAfter
<1> QED BY <1>2, <1>3

LEMMA MarkedType ==
  ASSUME TypeInv, NEW r \in RunIds, NEW found \in Collection
  PROVE  Marked(r, found) \in Gens \cup {NoGen}
BY TypesNow, CollectionTypes DEF Marked

LEMMA ExecStepType ==
  ASSUME TypeInv, NEW e \in exec, ExecStep(e)
  PROVE  TypeOK' /\ StatusStep /\ JobsKept /\ ExecsKept
<1>0. /\ e \in Execution /\ e.run \in RunIds /\ e.job \in JobIds
      /\ e.att \in 0..MaxAttempts /\ e.found \in Collection
  BY ExecutionType
<1>pc. {"claim", "staged", "admit", "collect", "publish", "mark", "stop"} = ExecSteps
  BY DEF ExecSteps
<1>1. ASSUME Claim(e)
      PROVE  TypeOK' /\ StatusStep /\ JobsKept /\ ExecsKept
  <2>1. CASE Claimable(e.run, e.att)
    <3> DEFINE row == [run[e.run] EXCEPT
                         !.status = "running", !.attempt = e.att, !.started = TRUE,
                         !.age = IF run[e.run].started THEN run[e.run].age ELSE "new"]
    <3>1. run[e.run] \in RunRow
      BY <1>0, TypesNow
    <3>2. row \in RunRow
      <4>1. (IF run[e.run].started THEN run[e.run].age ELSE "new") \in {"new", "old", "over"}
        BY <3>1 DEF RunRow
      <4> QED BY <1>0, <4>1, RunRowUpdates DEF TypeInv
    <3>3. row.status \in ActiveStatus
      BY <3>1 DEF RunRow, ActiveStatus
    <3>4. run' = [run EXCEPT ![e.run] = row]
      BY <1>1, <2>1 DEF Claim
    <3>5. Active(e.run)
      BY <2>1 DEF Claimable
    <3> HIDE DEF row
    <3>6. run' \in [RunIds -> RunRow] /\ StatusStep
      BY <1>0, <3>2, <3>3, <3>4, <3>5, OneRowChanges
    <3>7. JobsKept /\ ExecsKept
      BY <1>1, <1>pc, <2>1, Goes DEF Claim
    <3> QED BY <1>1, <3>6, <3>7, TypeFromParts, TypesNow DEF Claim
  <2>2. CASE ~Claimable(e.run, e.att)
    <3>1. Returns(e) /\ UNCHANGED run
      BY <1>1, <2>2 DEF Claim
    <3> QED BY <1>1, <3>1, AttemptEnds, SameRuns, TypeFromParts, TypesNow DEF Claim
  <2> QED BY <2>1, <2>2
<1>2. ASSUME Suppressed(e)
      PROVE  TypeOK' /\ StatusStep /\ JobsKept /\ ExecsKept
  <2>1. run' \in [RunIds -> RunRow] /\ StatusStep
    BY <1>0, <1>2, RunSettles DEF Suppressed
  <2>2. JobsKept /\ ExecsKept
    BY <1>2, AttemptEnds DEF Suppressed
  <2> QED BY <1>2, <2>1, <2>2, TypeFromParts, TypesNow DEF Suppressed
<1>3. ASSUME ReadStage(e)
      PROVE  TypeOK' /\ StatusStep /\ JobsKept /\ ExecsKept
  <2> DEFINE f == [e EXCEPT !.found = stage[e.run],
                            !.pc = IF stage[e.run] = NotStaged THEN "admit" ELSE "publish"]
  <2>1. stage[e.run] \in Collection
    BY <1>0, TypesNow
  <2>2. f \in Execution /\ f.job = e.job /\ f.run = e.run
    <3>1. (IF stage[e.run] = NotStaged THEN "admit" ELSE "publish") \in ExecSteps
      BY <1>pc
    <3>2. f \in Execution
      BY <1>0, <2>1, <3>1, ExecutionUpdates
    <3> QED BY <1>0, <3>2 DEF Execution
  <2>3. Keep(e, f) /\ UNCHANGED jobs
    BY <1>3, Zenon DEF ReadStage
  <2> HIDE DEF f
  <2>4. JobsKept /\ ExecsKept
    BY <2>2, <2>3, AttemptGoesOn
  <2>5. run' \in [RunIds -> RunRow] /\ StatusStep
    BY <1>3, SameRuns DEF ReadStage
  <2> QED BY <1>3, <2>4, <2>5, TypeFromParts, TypesNow DEF ReadStage
<1>4. ASSUME Begin(e)
      PROVE  TypeOK' /\ StatusStep /\ JobsKept /\ ExecsKept
  <2> DEFINE f == [e EXCEPT !.pc = "collect", !.began = TRUE, !.found.gen = aliasGen]
  <2>1. f \in Execution
    BY <1>0, TypesNow, ExecutionUpdates
  <2>2. f.job = e.job /\ f.run = e.run
    BY <1>0 DEF Execution
  <2>3. Keep(e, f) /\ UNCHANGED jobs
    BY <1>4, Zenon DEF Begin
  <2> HIDE DEF f
  <2>4. JobsKept /\ ExecsKept
    BY <2>1, <2>2, <2>3, AttemptGoesOn
  <2>5. run' \in [RunIds -> RunRow] /\ StatusStep
    BY <1>4, SameRuns DEF Begin
  <2> QED BY <1>4, <2>4, <2>5, TypeFromParts, TypesNow DEF Begin
<1>5. ASSUME Refuse(e)
      PROVE  TypeOK' /\ StatusStep /\ JobsKept /\ ExecsKept
  <2>1. \/ Throws(e) /\ UNCHANGED run
        \/ Throws(e) /\ Active(e.run) /\ run' = [run EXCEPT ![e.run] = Failed(e.run)]
        \/ Caught(e, "deterministic", FALSE) /\ UNCHANGED run
    BY <1>5 DEF Refuse
  <2>2. run' \in [RunIds -> RunRow] /\ StatusStep
    BY <1>0, <2>1, RunSettles, SameRuns
  <2>3. JobsKept /\ ExecsKept
    BY <2>1, AttemptEnds, CaughtKeeps
  <2> QED BY <1>5, <2>2, <2>3, TypeFromParts, TypesNow DEF Refuse
<1>6. ASSUME StageCollection(e)
      PROVE  TypeOK' /\ StatusStep /\ JobsKept /\ ExecsKept
  <2>1. run' \in [RunIds -> RunRow] /\ StatusStep
    BY <1>6, SameRuns DEF StageCollection
  <2>2. CASE Active(e.run)
    <3>1. PICK out \in Outcomes :
            /\ stage' = [stage EXCEPT ![e.run] = [e.found EXCEPT !.out = out]]
            /\ Keep(e, [e EXCEPT !.pc = "publish", !.found = [e.found EXCEPT !.out = out]])
            /\ UNCHANGED jobs
      BY <1>6, <2>2 DEF StageCollection
    <3> DEFINE found == [e.found EXCEPT !.out = out]
    <3> DEFINE f == [e EXCEPT !.pc = "publish", !.found = found]
    <3>2. found \in Collection
      BY <1>0, CollectionTypes
    <3>3. f \in Execution /\ f.job = e.job /\ f.run = e.run
      <4>1. f \in Execution
        BY <1>0, <1>pc, <3>2, ExecutionUpdates
      <4> QED BY <1>0, <4>1 DEF Execution
    <3>4. Keep(e, f) /\ UNCHANGED jobs /\ stage' = [stage EXCEPT ![e.run] = found]
      BY <3>1, Zenon
    <3> HIDE DEF f, found
    <3>5. JobsKept /\ ExecsKept
      BY <3>3, <3>4, AttemptGoesOn
    <3>6. stage' \in [RunIds -> Collection]
      BY <3>2, <3>4, TypesNow
    <3> QED BY <1>6, <2>1, <3>5, <3>6, TypeFromParts, TypesNow DEF StageCollection
  <2>3. CASE ~Active(e.run)
    <3>1. JobsKept /\ ExecsKept /\ UNCHANGED stage
      BY <1>6, <2>3, CaughtKeeps DEF StageCollection
    <3> QED BY <1>6, <2>1, <3>1, TypeFromParts, TypesNow DEF StageCollection
  <2> QED BY <2>2, <2>3
<1>7. ASSUME Publish(e)
      PROVE  TypeOK' /\ StatusStep /\ JobsKept /\ ExecsKept
  <2>1. CASE Active(e.run)
    <3>1. /\ run' \in [RunIds -> RunRow] /\ StatusStep
          /\ stage' \in [RunIds -> Collection] /\ scan' \in Gens \cup {NoGen}
      BY <1>0, <1>7, <2>1, StoresType DEF Publish
    <3>2. JobsKept /\ ExecsKept
      BY <1>7, <1>pc, <2>1, Goes DEF Publish
    <3> QED BY <1>7, <3>1, <3>2, TypeFromParts, TypesNow DEF Publish
  <2>2. CASE ~Active(e.run)
    <3>1. JobsKept /\ ExecsKept /\ UNCHANGED <<run, stage, scan>>
      BY <1>7, <2>2, CaughtKeeps DEF Publish
    <3> QED BY <1>7, <3>1, SameRuns, TypeFromParts, TypesNow DEF Publish
  <2> QED BY <2>1, <2>2
<1>8. ASSUME Mark(e)
      PROVE  TypeOK' /\ StatusStep /\ JobsKept /\ ExecsKept
  <2>1. JobsKept /\ ExecsKept /\ run' \in [RunIds -> RunRow] /\ StatusStep
    BY <1>8, AttemptEnds, SameRuns DEF Mark
  <2>2. marks' \in Gens \cup {NoGen}
    BY <1>0, <1>8, MarkedType DEF Mark
  <2> QED BY <1>8, <2>1, <2>2, TypeFromParts, TypesNow DEF Mark
<1>9. ASSUME Error(e)
      PROVE  TypeOK' /\ StatusStep /\ JobsKept /\ ExecsKept
  <2>1. \E err \in Errors, dear \in BOOLEAN : Caught(e, err, dear)
    BY <1>9, Zenon DEF Error
  <2>2. JobsKept /\ ExecsKept
    BY <2>1, CaughtKeeps
  <2> QED BY <1>9, <2>2, SameRuns, TypeFromParts, TypesNow DEF Error
<1>10. ASSUME StopPublishes(e)
       PROVE  TypeOK' /\ StatusStep /\ JobsKept /\ ExecsKept
  <2>1. /\ run' \in [RunIds -> RunRow] /\ StatusStep
        /\ stage' \in [RunIds -> Collection] /\ scan' \in Gens \cup {NoGen}
    BY <1>0, <1>10, StoresType, CollectionTypes DEF StopPublishes
  <2>2. JobsKept /\ ExecsKept
    BY <1>10, AttemptEnds DEF StopPublishes
  <2> QED BY <1>10, <2>1, <2>2, TypeFromParts, TypesNow DEF StopPublishes
<1>11. ASSUME StopFails(e)
       PROVE  TypeOK' /\ StatusStep /\ JobsKept /\ ExecsKept
  <2>1. run' \in [RunIds -> RunRow] /\ StatusStep
    BY <1>0, <1>11, RunSettles, SameRuns DEF StopFails
  <2>2. JobsKept /\ ExecsKept
    BY <1>11, AttemptEnds DEF StopFails
  <2>3. budget' \in [presses : 0..MaxPresses, faults : 0..MaxFaults]
    BY <1>11, TypesNow DEF StopFails
  <2> QED BY <1>11, <2>1, <2>2, <2>3, TypeFromParts, TypesNow DEF StopFails
<1> QED
  BY <1>1, <1>2, <1>3, <1>4, <1>5, <1>6, <1>7, <1>8, <1>9, <1>10, <1>11 DEF ExecStep

(* The queue's own steps: a delivery and an expiry.                        *)
LEMMA QueueStepType ==
  ASSUME TypeInv, NEW j \in JobIds, StartAttempt(j) \/ Expire(j)
  PROVE  /\ TypeOK' /\ StatusStep /\ JobsKept
         /\ \A x \in exec' : /\ x \in Execution
                             /\ \/ x.job = j /\ Sent(j) /\ jobs[j].key = x.run
                                \/ \E e \in exec : x.job = e.job /\ x.run = e.run
<1> DEFINE Goal == /\ TypeOK' /\ StatusStep /\ JobsKept
                   /\ \A x \in exec' : /\ x \in Execution
                             /\ \/ x.job = j /\ Sent(j) /\ jobs[j].key = x.run
                                \/ \E e \in exec : x.job = e.job /\ x.run = e.run
<1>0. jobs \in [JobIds -> Job(RunIds)]
  BY DEF TypeInv, TypeOK
<1>1. ASSUME StartAttempt(j) PROVE Goal
  <2> DEFINE x == [job |-> j, run |-> jobs[j].key, att |-> jobs[j].attempt,
                   pc |-> "claim", attached |-> TRUE, began |-> FALSE, found |-> NotStaged]
  <2>1. Sent(j)
    BY <1>1 DEF StartAttempt, Sent
  <2>2. JobsKept
    BY <1>0, <1>1, <2>1, JobStepType DEF StartAttempt, JobsKept, Sent
  <2>3. x \in Execution
    BY <1>0, CollectionTypes DEF Job, Execution, ExecSteps
  <2>4. x.job = j /\ x.run = jobs[j].key
    OBVIOUS
  <2>5. exec' = exec \cup {x}
    BY <1>1, Zenon DEF StartAttempt
  <2> HIDE DEF x
  <2>6. \A y \in exec' : /\ y \in Execution
                         /\ \/ y.job = j /\ Sent(j) /\ jobs[j].key = y.run
                            \/ \E e \in exec : y.job = e.job /\ y.run = e.run
    BY <2>1, <2>3, <2>4, <2>5 DEF TypeInv, TypeOK
  <2>7. run' \in [RunIds -> RunRow] /\ StatusStep
    BY <1>1, SameRuns DEF StartAttempt
  <2>8. jobs' \in [JobIds -> Job(RunIds)] /\ \A y \in exec' : y \in Execution
    BY <2>2, <2>6 DEF JobsKept
  <2>9. TypeOK'
    BY <1>1, <2>7, <2>8 DEF StartAttempt, TypeInv, TypeOK
  <2> QED BY <2>2, <2>6, <2>7, <2>9
<1>2. ASSUME Expire(j) PROVE Goal
  <2>1. Sent(j)
    BY <1>2 DEF Expire, Sent
  <2>2. JobsKept
    BY <1>0, <1>2, <2>1, JobStepType DEF Expire, JobsKept, Sent
  <2>3. \A e \in exec : [e EXCEPT !.attached = FALSE] \in Execution
    BY ExecutionType, ExecutionUpdates
  <2>4. \A e \in exec : /\ e \in Execution
                        /\ [e EXCEPT !.attached = FALSE].job = e.job
                        /\ [e EXCEPT !.attached = FALSE].run = e.run
    BY DEF TypeInv, TypeOK, Execution
  <2>5. \A y \in exec' : \E e \in exec : y = e \/ y = [e EXCEPT !.attached = FALSE]
    BY <1>2 DEF Expire
  <2>6. \A y \in exec' : y \in Execution /\ \E e \in exec : y.job = e.job /\ y.run = e.run
    BY <2>3, <2>4, <2>5
  <2>7. run' \in [RunIds -> RunRow] /\ StatusStep
    BY <1>2, SameRuns DEF Expire
  <2>8. budget' \in [presses : 0..MaxPresses, faults : 0..MaxFaults]
    BY <1>2, TypesNow DEF Expire
  <2>9. jobs' \in [JobIds -> Job(RunIds)] /\ \A y \in exec' : y \in Execution
    BY <2>2, <2>6 DEF JobsKept
  <2>10. TypeOK'
    BY <1>2, <2>7, <2>8, <2>9 DEF Expire, TypeInv, TypeOK
  <2> QED BY <2>2, <2>6, <2>7, <2>10
<1> QED BY <1>1, <1>2

(* The sweep's record.                                                     *)
SweepRow == [pc : SweepSteps, run : RunIds \cup {NoRun}, late : BOOLEAN,
             job : JobIds \cup {NoJob}, found : Collection]

LEMMA SweepType ==
  ASSUME TypeInv
  PROVE  /\ sweep \in SweepRow /\ Swept \in SweepRow /\ sweep.found \in Collection
         /\ sweep.pc # "idle" => sweep.run \in RunIds /\ Exists(sweep.run)
         /\ \A p \in SweepSteps : [sweep EXCEPT !.pc = p] \in SweepRow
         /\ \A p \in SweepSteps, c \in Collection :
              [sweep EXCEPT !.found = c, !.pc = p] \in SweepRow
         /\ \A r \in RunIds, j \in JobIds \cup {NoJob}, late \in BOOLEAN :
              [Swept EXCEPT !.pc = "judge", !.run = r, !.job = j, !.late = late] \in SweepRow
<1>1. sweep \in SweepRow /\ Swept \in SweepRow
  BY CollectionTypes DEF TypeInv, TypeOK, SweepRow, Swept, SweepSteps
<1>2. sweep.pc # "idle" => sweep.run \in RunIds /\ Exists(sweep.run)
  BY DEF TypeInv, HasTarget, SweepIsSure
<1>3. "judge" \in SweepSteps
  BY DEF SweepSteps
<1>4. \A r \in RunIds, j \in JobIds \cup {NoJob}, late \in BOOLEAN :
        [Swept EXCEPT !.pc = "judge", !.run = r, !.job = j, !.late = late] \in SweepRow
  BY <1>1, <1>3 DEF SweepRow
<1>5. /\ \A p \in SweepSteps : [sweep EXCEPT !.pc = p] \in SweepRow
      /\ \A p \in SweepSteps, c \in Collection :
           [sweep EXCEPT !.found = c, !.pc = p] \in SweepRow
  BY <1>1 DEF SweepRow
<1> QED BY <1>1, <1>2, <1>4, <1>5 DEF SweepRow

LEMMA ActiveRunType == ~NoneActive => ActiveRun \in RunIds /\ Active(ActiveRun)
BY DEF NoneActive, ActiveRun

LEMMA SweepStepType ==
  ASSUME TypeInv, SweepList \/ SweepStep
  PROVE  TypeOK' /\ StatusStep
<1>0. SweepRow = [pc : SweepSteps, run : RunIds \cup {NoRun}, late : BOOLEAN,
                  job : JobIds \cup {NoJob}, found : Collection]
  BY DEF SweepRow
<1>pc. SweepSteps = {"idle", "judge", "stage", "publish", "mark", "release"}
  BY DEF SweepSteps
<1>1. ASSUME SweepList
      PROVE  TypeOK' /\ StatusStep
  <2>1. ActiveRun \in RunIds /\ run[ActiveRun] \in RunRow
    BY <1>1, ActiveRunType, TypesNow DEF SweepList
  <2>2. run[ActiveRun].job \in JobIds \cup {NoJob} /\ run[ActiveRun].started \in BOOLEAN
    BY <2>1 DEF RunRow
  <2>3. sweep' = [Swept EXCEPT !.pc = "judge", !.run = ActiveRun, !.job = run[ActiveRun].job,
          !.late = run[ActiveRun].age = "over" \/
            (run[ActiveRun].job = NoJob /\ ~run[ActiveRun].started /\ run[ActiveRun].age # "new")]
    BY <1>1 DEF SweepList
  <2>4. sweep' \in SweepRow
    BY <2>1, <2>2, <2>3, SweepType
  <2>5. run' \in [RunIds -> RunRow] /\ StatusStep
    BY <1>1, SameRuns DEF SweepList
  <2> QED BY <1>0, <1>1, <2>4, <2>5 DEF SweepList, TypeInv, TypeOK
<1>2. ASSUME SweepJudge
      PROVE  TypeOK' /\ StatusStep
  <2>1. sweep' \in SweepRow
    BY <1>2, <1>pc, SweepType DEF SweepJudge
  <2>2. run' \in [RunIds -> RunRow] /\ StatusStep
    BY <1>2, SameRuns DEF SweepJudge
  <2> QED BY <1>0, <1>2, <2>1, <2>2 DEF SweepJudge, TypeInv, TypeOK
<1>3. ASSUME SweepStage
      PROVE  TypeOK' /\ StatusStep
  <2>1. sweep.run \in RunIds /\ stage[sweep.run] \in Collection
    BY <1>3, SweepType, TypesNow DEF SweepStage
  <2>2. (IF stage[sweep.run] = NotStaged THEN "release" ELSE "publish") \in SweepSteps
    BY <1>pc
  <2>3. sweep' \in SweepRow
    BY <1>3, <2>1, <2>2, SweepType DEF SweepStage
  <2>4. run' \in [RunIds -> RunRow] /\ StatusStep
    BY <1>3, SameRuns DEF SweepStage
  <2> QED BY <1>0, <1>3, <2>3, <2>4 DEF SweepStage, TypeInv, TypeOK
<1>4. ASSUME SweepPublish
      PROVE  TypeOK' /\ StatusStep
  <2>1. sweep' \in SweepRow
    BY <1>4, <1>pc, SweepType DEF SweepPublish
  <2>2. sweep.run \in RunIds /\ sweep.found \in Collection
    BY <1>4, SweepType DEF SweepPublish
  <2>3. /\ run' \in [RunIds -> RunRow] /\ StatusStep
        /\ stage' \in [RunIds -> Collection] /\ scan' \in Gens \cup {NoGen}
    <3>1. CASE Active(sweep.run)
      BY <1>4, <2>2, <3>1, StoresType DEF SweepPublish
    <3>2. CASE ~Active(sweep.run)
      BY <1>4, <3>2, SameRuns, TypesNow DEF SweepPublish
    <3> QED BY <3>1, <3>2
  <2> QED BY <1>0, <1>4, <2>1, <2>3 DEF SweepPublish, TypeInv, TypeOK
<1>5. ASSUME SweepMark
      PROVE  TypeOK' /\ StatusStep
  <2>1. sweep' \in SweepRow /\ marks' \in Gens \cup {NoGen}
    BY <1>5, SweepType, MarkedType DEF SweepMark
  <2>2. run' \in [RunIds -> RunRow] /\ StatusStep
    BY <1>5, SameRuns DEF SweepMark
  <2> QED BY <1>0, <1>5, <2>1, <2>2 DEF SweepMark, TypeInv, TypeOK
<1>6. ASSUME SweepRelease
      PROVE  TypeOK' /\ StatusStep
  <2>1. sweep' \in SweepRow /\ sweep.run \in RunIds
    BY <1>6, SweepType DEF SweepRelease
  <2>2. run' \in [RunIds -> RunRow] /\ StatusStep
    <3>1. CASE Active(sweep.run)
      BY <1>6, <2>1, <3>1, RunSettles DEF SweepRelease, Released
    <3>2. CASE ~Active(sweep.run)
      <4>1. run' = run
        BY <1>6, <2>1, <3>2, TypesNow DEF SweepRelease, Released
      <4> QED BY <4>1, SameRuns
    <3> QED BY <3>1, <3>2
  <2> QED BY <1>0, <1>6, <2>1, <2>2 DEF SweepRelease, TypeInv, TypeOK
<1> QED BY <1>1, <1>2, <1>3, <1>4, <1>5, <1>6 DEF SweepStep

(* The clock writes no status.                                             *)
ClockStep(r) == Ages(r) \/ FallsDue(r) \/ Lapses(r) \/ CoolsDown(r)

LEMMA ClockStepType ==
  ASSUME TypeInv, NEW r \in RunIds, ClockStep(r)
  PROVE  TypeOK' /\ StatusStep
<1>1. run[r] \in RunRow /\ run \in [RunIds -> RunRow]
  BY TypesNow
<1>2. UNCHANGED <<jobs, stage, aliasGen, pending, scan, marks, client, sweep, exec, budget>>
  BY DEF ClockStep, Ages, FallsDue, Lapses, CoolsDown
<1>3. \E row \in RunRow : run' = [run EXCEPT ![r] = row] /\ row.status = run[r].status
  <2>1. CASE Ages(r)
    <3> DEFINE a == IF run[r].age = "new" /\ ~run[r].started THEN "old" ELSE "over"
    <3>1. a \in {"new", "old", "over"}
      OBVIOUS
    <3>2. run' = [run EXCEPT ![r] = [run[r] EXCEPT !.age = a]]
      BY <1>1, <2>1 DEF Ages
    <3> HIDE DEF a
    <3>3. [run[r] EXCEPT !.age = a] \in RunRow
      BY <3>1, RunRowUpdates DEF TypeInv
    <3>4. [run[r] EXCEPT !.age = a].status = run[r].status
      BY <1>1 DEF RunRow
    <3> QED BY <3>2, <3>3, <3>4
  <2>2. CASE FallsDue(r)
    <3>1. run' = [run EXCEPT ![r] = [run[r] EXCEPT !.retry = "due"]]
      BY <1>1, <2>2 DEF FallsDue
    <3>2. [run[r] EXCEPT !.retry = "due"] \in RunRow
      BY RunRowUpdates DEF TypeInv
    <3>3. [run[r] EXCEPT !.retry = "due"].status = run[r].status
      BY <1>1 DEF RunRow
    <3> QED BY <3>1, <3>2, <3>3
  <2>3. CASE Lapses(r)
    <3>1. run' = [run EXCEPT ![r] = [run[r] EXCEPT !.recent = FALSE, !.cooling = FALSE]]
      BY <1>1, <2>3 DEF Lapses, RunRow
    <3>2. [run[r] EXCEPT !.recent = FALSE, !.cooling = FALSE] \in RunRow
      BY RunRowUpdates DEF TypeInv
    <3>3. [run[r] EXCEPT !.recent = FALSE, !.cooling = FALSE].status = run[r].status
      BY <1>1 DEF RunRow
    <3> QED BY <3>1, <3>2, <3>3
  <2>4. CASE CoolsDown(r)
    <3>1. run' = [run EXCEPT ![r] = [run[r] EXCEPT !.cooling = FALSE]]
      BY <1>1, <2>4 DEF CoolsDown
    <3>2. [run[r] EXCEPT !.cooling = FALSE] \in RunRow
      BY RunRowUpdates DEF TypeInv
    <3>3. [run[r] EXCEPT !.cooling = FALSE].status = run[r].status
      BY <1>1 DEF RunRow
    <3> QED BY <3>1, <3>2, <3>3
  <2> QED BY <2>1, <2>2, <2>3, <2>4 DEF ClockStep
<1>4. run' \in [RunIds -> RunRow] /\ StatusStep
  BY <1>3, OneRowChanges
<1> QED BY <1>2, <1>4 DEF TypeInv, TypeOK

(* The edits, the rebuild, the maintenance and a worker's death.           *)
LEMMA OtherStepType ==
  ASSUME TypeInv, EditAlias \/ Rebuild \/ ClearStages \/ WorkerDies
  PROVE  TypeOK' /\ StatusStep
<1>1. UNCHANGED run
  BY DEF EditAlias, Rebuild, ClearStages, WorkerDies
<1>2. run' \in [RunIds -> RunRow] /\ StatusStep
  BY <1>1, SameRuns
<1>3. CASE EditAlias
  <2>1. aliasGen' \in Gens
    BY <1>3, EvidenceAssumption DEF EditAlias, TypeInv, TypeOK, Gens
  <2> QED BY <1>2, <1>3, <2>1 DEF EditAlias, Invalidated, TypeInv, TypeOK
<1>4. CASE Rebuild
  BY <1>2, <1>4 DEF Rebuild, TypeInv, TypeOK
<1>5. CASE ClearStages
  <2>1. stage' \in [RunIds -> Collection]
    BY <1>5, TypesNow, CollectionTypes DEF ClearStages
  <2> QED BY <1>2, <1>5, <2>1 DEF ClearStages, TypeInv, TypeOK
<1>6. CASE WorkerDies
  <2>1. "resume" \in Clients
    BY DEF Clients
  <2>2. client' \in [Clients -> ClientRow] /\ sweep' \in SweepRow
    BY <1>6, <2>1, ClientUpdates, SweepType DEF WorkerDies
  <2>3. budget' \in [presses : 0..MaxPresses, faults : 0..MaxFaults]
    BY <1>6, TypesNow DEF WorkerDies
  <2> QED BY <1>2, <1>6, <2>2, <2>3 DEF WorkerDies, TypeInv, TypeOK, ClientRow, SweepRow
<1> QED BY <1>3, <1>4, <1>5, <1>6

(* Every step, and a stutter.                                              *)
LEMMA StepTypeOK ==
  ASSUME TypeInv, [Next]_vars
  PROVE  TypeOK' /\ StatusStep
<1>1. CASE UNCHANGED vars
  <2>1. run' \in [RunIds -> RunRow] /\ StatusStep
    BY <1>1, SameRuns DEF vars
  <2> QED BY <1>1, <2>1 DEF vars, TypeInv, TypeOK
<1>2. CASE Next
  BY <1>2, ClientStepType, ExecStepType, QueueStepType, SweepStepType, ClockStepType,
     OtherStepType DEF Next, ClockStep
<1> QED BY <1>1, <1>2

-----------------------------------------------------------------------------
(* One active run at a time *)

LEMMA StepOneActive ==
  ASSUME OneActive, StatusStep
  PROVE  OneActive'
<1> SUFFICES ASSUME NEW r \in RunIds, NEW s \in RunIds, Active(r)', Active(s)'
             PROVE  r = s
  BY DEF OneActive
<1>1. CASE \A k \in RunIds : SameStatus(k)
  BY <1>1 DEF SameStatus, OneActive, Active
<1>2. ASSUME NEW k \in RunIds, Takes(k) \/ Settles(k),
             \A i \in RunIds \ {k} : run'[i].status = run[i].status
      PROVE  r = s
  <2>1. CASE Takes(k)
    BY <1>2, <2>1 DEF Takes, NoneActive, Active
  <2>2. CASE Settles(k)
    <3>1. ~Active(k)'
      BY <2>2 DEF Settles, Active, ActiveStatus, PublishedStatus
    <3> QED BY <1>2, <3>1 DEF OneActive, Active
  <2> QED BY <1>2, <2>1, <2>2
<1> QED BY <1>1, <1>2 DEF StatusStep

(* No row is deleted.                                                      *)
LEMMA StepExists ==
  ASSUME StatusStep
  PROVE  \A r \in RunIds : Exists(r) => Exists(r)'
<1> SUFFICES ASSUME NEW r \in RunIds, Exists(r)
             PROVE  Exists(r)'
  OBVIOUS
<1>1. CASE \A k \in RunIds : SameStatus(k)
  BY <1>1 DEF SameStatus, Exists, ActiveStatus
<1>2. ASSUME NEW k \in RunIds, Takes(k) \/ Settles(k),
             \A i \in RunIds \ {k} : run'[i].status = run[i].status
      PROVE  Exists(r)'
  BY <1>2 DEF Takes, Settles, Exists, PublishedStatus
<1> QED BY <1>1, <1>2 DEF StatusStep

(* Whoever works on a run goes on working on one that was reserved: the    *)
(* records of the clients and of the sweep are made for rows that exist,   *)
(* a job is sent for a client's run, and an attempt is about a job's.      *)
LEMMA StepTargets ==
  ASSUME TypeInv, [Next]_vars
  PROVE  HasTarget'
<1>0. StatusStep
  BY StepTypeOK
<1>1. \A r \in RunIds : Exists(r) => Exists(r)'
  BY <1>0, StepExists
<1>now. /\ \A q \in Clients : client[q].pc # "idle" =>
              client[q].run \in RunIds /\ Exists(client[q].run)
        /\ \A j \in JobIds : Sent(j) => Exists(jobs[j].key)
        /\ \A e \in exec : /\ Sent(e.job) /\ jobs[e.job].key = e.run
                           /\ e.job \in JobIds /\ e.run \in RunIds
        /\ sweep.pc # "idle" => sweep.run \in RunIds /\ Exists(sweep.run)
  BY ExecutionType DEF TypeInv, HasTarget, ClientsAreSure, JobsAreSure, ExecsAreSure, SweepIsSure
<1>jobs. jobs \in [JobIds -> Job(RunIds)] /\ \A j \in JobIds : jobs[j].key \in RunIds
  BY DEF TypeInv, TypeOK, Job
<1>client. client \in [Clients -> ClientRow]
  BY DEF TypeInv, TypeOK, ClientRow
<1>2. UNCHANGED client => ClientsAreSure'
  BY <1>1, <1>now DEF ClientsAreSure, Exists
<1>3. JobsKept => JobsAreSure'
  BY <1>1, <1>now, <1>jobs DEF JobsKept, SameKeys, JobsAreSure, Sent, Exists
<1>4. JobsKept /\ ExecsKept => ExecsAreSure'
  BY <1>now DEF JobsKept, SameKeys, ExecsKept, ExecsAreSure, Sent
<1>5. UNCHANGED sweep => SweepIsSure'
  BY <1>1, <1>now DEF SweepIsSure, Exists
<1>6. UNCHANGED <<jobs, exec>> => JobsKept /\ ExecsKept
  BY SameJobs DEF ExecsKept, TypeInv, TypeOK
<1>7. ASSUME NEW q \in Clients, NEW rec, client' = [client EXCEPT ![q] = rec],
             rec.pc # "idle" => rec.run \in RunIds /\ run'[rec.run].status # "absent"
      PROVE  ClientsAreSure'
  <2>1. client'[q] = rec /\ \A p \in Clients \ {q} : client'[p] = client[p]
    BY <1>7, <1>client
  <2>2. \A p \in Clients \ {q} : client[p].pc # "idle" =>
          client[p].run \in RunIds /\ run'[client[p].run].status # "absent"
    BY <1>1, <1>now DEF Exists
  <2> QED BY <1>7, <2>1, <2>2 DEF ClientsAreSure, Exists
<1>8. ASSUME NEW q \in Clients, ClientStep(q)
      PROVE  HasTarget'
  <2>0. UNCHANGED <<sweep, exec>> /\ SweepIsSure'
    BY <1>5, <1>8 DEF ClientStep, Reserve, Join, ReserveTierSearch, Enqueue, EnqueueFails,
                      MarkEnqueued
  <2>1. ASSUME NEW r \in RunIds, Promise(q, r), run'[r].status # "absent", UNCHANGED jobs
        PROVE  HasTarget'
    <3>1. ClientsAreSure'
      BY <1>7, <2>1 DEF Promise
    <3> QED BY <1>3, <1>4, <1>6, <2>0, <2>1, <3>1 DEF HasTarget
  <2>2. ASSUME client' = [client EXCEPT ![q] = Idle], UNCHANGED jobs
        PROVE  HasTarget'
    <3>1. ClientsAreSure'
      BY <1>7, <2>2 DEF Idle
    <3> QED BY <1>3, <1>4, <1>6, <2>0, <2>2, <3>1 DEF HasTarget
  <2>3. ASSUME Promise(q, NextRun), UNCHANGED jobs, Unreserved # {},
               NEW mode, run' = [run EXCEPT ![NextRun] = NewRun(mode)]
        PROVE  HasTarget'
    <3>1. NextRun \in RunIds /\ run'[NextRun].status = "queued"
      BY <2>3, NextRunType, TypesNow DEF NewRun
    <3> QED BY <2>1, <2>3, <3>1
  <2>4. CASE \E kind \in {"read", "refresh", "resume"} : Reserve(q, kind)
    <3>1. \E mode : run' = [run EXCEPT ![NextRun] = NewRun(mode)]
      BY <2>4 DEF Reserve
    <3>2. Promise(q, NextRun) /\ UNCHANGED jobs /\ Unreserved # {}
      BY <2>4 DEF Reserve
    <3> QED BY <2>3, <3>1, <3>2
  <2>5. CASE Join(q)
    <3>1. UNCHANGED <<run, jobs>> /\ \E r \in RunIds : run[r].status = "queued" /\ Promise(q, r)
      BY <2>5 DEF Join
    <3> QED BY <2>1, <3>1
  <2>6. CASE ReserveTierSearch(q)
    BY <2>3, <2>6 DEF ReserveTierSearch
  <2>7. CASE Enqueue(q)
    <3>1. /\ CanSend(jobs, client[q].run) /\ jobs' = Send(jobs, client[q].run)
          /\ client[q].run \in RunIds /\ Exists(client[q].run)
      BY <1>now, <2>7 DEF Enqueue
    <3>2. \A j \in JobIds : \/ jobs'[j] = jobs[j]
                            \/ ~Sent(j) /\ jobs'[j].key = client[q].run
      BY <1>jobs, <3>1, SendType DEF Sent
    <3>3. ClientsAreSure'
      <4> DEFINE rec == [client[q] EXCEPT !.pc = "mark", !.job = SentJob(jobs, client[q].run)]
      <4>1. client' = [client EXCEPT ![q] = rec]
        BY <1>client, <2>7 DEF Enqueue, ClientRow
      <4>2. rec.run = client[q].run
        BY <1>client DEF ClientRow
      <4> HIDE DEF rec
      <4>3. run'[rec.run].status # "absent" /\ rec.run \in RunIds
        BY <1>1, <3>1, <4>2 DEF Exists
      <4> QED BY <1>7, <4>1, <4>3
    <3>4. JobsAreSure'
      <4>1. \A j \in JobIds : jobs'[j].state # "none" => run'[jobs'[j].key].status # "absent"
        BY <1>1, <1>now, <1>jobs, <3>1, <3>2 DEF Sent, Exists
      <4> QED BY <4>1 DEF JobsAreSure, Sent, Exists
    <3>5. ExecsAreSure'
      BY <1>now, <2>0, <3>2 DEF ExecsAreSure, Sent
    <3> QED BY <2>0, <3>3, <3>4, <3>5 DEF HasTarget
  <2>8. CASE EnqueueFails(q) \/ MarkEnqueued(q)
    BY <2>2, <2>8 DEF EnqueueFails, MarkEnqueued
  <2> QED BY <1>8, <2>4, <2>5, <2>6, <2>7, <2>8 DEF ClientStep
<1>9. ASSUME NEW e \in exec, ExecStep(e)
      PROVE  HasTarget'
  <2>1. JobsKept /\ ExecsKept
    BY <1>9, ExecStepType
  <2>2. UNCHANGED <<client, sweep>>
    BY <1>9 DEF ExecStep, Claim, Suppressed, ReadStage, Begin, Refuse, StageCollection,
                Publish, Mark, Error, StopPublishes, StopFails
  <2> QED BY <1>2, <1>3, <1>4, <1>5, <2>1, <2>2 DEF HasTarget
<1>10. ASSUME NEW j \in JobIds, StartAttempt(j) \/ Expire(j)
       PROVE  HasTarget'
  <2>1. /\ JobsKept
        /\ \A x \in exec' : \/ x.job = j /\ Sent(j) /\ jobs[j].key = x.run
                            \/ \E e \in exec : x.job = e.job /\ x.run = e.run
    BY <1>10, QueueStepType
  <2>2. UNCHANGED <<client, sweep>>
    BY <1>10 DEF StartAttempt, Expire
  <2>3. ExecsAreSure'
    BY <1>now, <2>1 DEF JobsKept, SameKeys, ExecsAreSure, Sent
  <2> QED BY <1>2, <1>3, <1>5, <2>1, <2>2, <2>3 DEF HasTarget
<1>11. CASE WorkerDies
  <2>1. UNCHANGED jobs /\ exec' = {} /\ sweep'.pc = "idle"
    BY <1>11 DEF WorkerDies, Swept
  <2>2. ClientsAreSure'
    <3>1. "resume" \in Clients /\ client' = [client EXCEPT !["resume"] = Idle]
      BY <1>11 DEF WorkerDies, Clients
    <3> QED BY <1>7, <3>1 DEF Idle
  <2>3. JobsAreSure'
    BY <1>3, <2>1, SameJobs
  <2> QED BY <2>1, <2>2, <2>3 DEF HasTarget, ExecsAreSure, SweepIsSure
<1>12. CASE SweepList \/ SweepStep
  <2>1. UNCHANGED <<client, jobs, exec>>
    BY <1>12 DEF SweepList, SweepStep, SweepJudge, SweepStage, SweepPublish, SweepMark,
                 SweepRelease
  <2>2. \/ sweep'.pc = "idle"
        \/ sweep'.run = sweep.run /\ sweep.pc # "idle"
        \/ sweep'.run \in RunIds /\ Exists(sweep'.run) /\ UNCHANGED run
    <3>0. sweep \in SweepRow
      BY SweepType
    <3>1. CASE SweepList
      <4>1. ActiveRun \in RunIds /\ Exists(ActiveRun) /\ UNCHANGED run
        BY <3>1, ActiveRunType DEF SweepList, Active, ActiveStatus, Exists
      <4>2. sweep'.run = ActiveRun
        BY <3>1 DEF SweepList, Swept
      <4> QED BY <4>1, <4>2
    <3>2. CASE SweepJudge
      BY <3>0, <3>2 DEF SweepJudge, SweepRow, Swept
    <3>3. CASE SweepStage
      BY <3>0, <3>3 DEF SweepStage, SweepRow
    <3>4. CASE SweepPublish
      BY <3>0, <3>4 DEF SweepPublish, SweepRow
    <3>5. CASE SweepMark \/ SweepRelease
      BY <3>5 DEF SweepMark, SweepRelease, Swept
    <3> QED BY <1>12, <3>1, <3>2, <3>3, <3>4, <3>5 DEF SweepStep
  <2>3. SweepIsSure'
    BY <1>1, <1>now, <2>2 DEF SweepIsSure, Exists
  <2> QED BY <1>2, <1>3, <1>4, <1>6, <2>1, <2>3 DEF HasTarget
<1>13. CASE \/ EditAlias \/ Rebuild \/ ClearStages \/ UNCHANGED vars
            \/ \E r \in RunIds : ClockStep(r)
  <2>1. UNCHANGED <<client, jobs, exec, sweep>>
    BY <1>13 DEF EditAlias, Rebuild, ClearStages, vars, ClockStep, Ages, FallsDue, Lapses,
                 CoolsDown
  <2> QED BY <1>2, <1>3, <1>4, <1>5, <1>6, <2>1 DEF HasTarget
<1> QED BY <1>8, <1>9, <1>10, <1>11, <1>12, <1>13 DEF Next, ClockStep

-----------------------------------------------------------------------------
(* Who takes the slot, who publishes, and who writes a stage *)

NoneTaken     == \A r \in RunIds : Active(r)' => Active(r)
NonePublished == \A r \in RunIds : Published(r)' => Published(r)

Reserves ==
  \E q \in Clients : \/ \E kind \in {"read", "refresh", "resume"} : Reserve(q, kind)
                     \/ ReserveTierSearch(q)

Publishes == \E r \in RunIds, found \in Collection : Active(r) /\ Stores(r, found)

(* A row that is written becomes active, or published, only if it says so. *)
LEMMA RowWritten ==
  ASSUME TypeInv, NEW r \in RunIds, NEW row, run' = [run EXCEPT ![r] = row]
  PROVE  /\ (row.status \in ActiveStatus => Active(r)) => NoneTaken
         /\ (row.status \in PublishedStatus => Published(r)) => NonePublished
<1>1. run'[r] = row /\ \A s \in RunIds \ {r} : run'[s] = run[s]
  BY TypesNow
<1> QED BY <1>1 DEF NoneTaken, NonePublished, Active, Published

LEMMA RowFails ==
  ASSUME TypeInv, NEW r \in RunIds, run' = [run EXCEPT ![r] = Failed(r)]
  PROVE  NoneTaken /\ NonePublished
<1>1. Failed(r).status = "failed"
  BY TypesNow DEF Failed, RunRow
<1>2. "failed" \notin ActiveStatus /\ "failed" \notin PublishedStatus
  BY DEF ActiveStatus, PublishedStatus
<1> QED BY <1>1, <1>2, RowWritten

LEMMA RowPublished ==
  ASSUME TypeInv, NEW r \in RunIds, NEW found \in Collection, Stores(r, found)
  PROVE  NoneTaken
<1>1. PublishedRow(r, found.out).status \notin ActiveStatus
  BY TypesNow DEF PublishedRow, RunRow, ActiveStatus
<1> QED BY <1>1, RowWritten DEF Stores

LEMMA RunsKept == UNCHANGED run => NoneTaken /\ NonePublished
BY DEF NoneTaken, NonePublished, Active, Published

LEMMA ExecStepWrites ==
  ASSUME TypeInv, NEW e \in exec, ExecStep(e)
  PROVE  NoneTaken /\ (NonePublished \/ Publishes)
<1>0. e.run \in RunIds /\ e.found \in Collection /\ NotStaged \in Collection
  BY ExecutionType, CollectionTypes
<1>1. CASE Claim(e)
  <2>1. CASE Claimable(e.run, e.att)
    <3> DEFINE row == [run[e.run] EXCEPT
                         !.status = "running", !.attempt = e.att, !.started = TRUE,
                         !.age = IF run[e.run].started THEN run[e.run].age ELSE "new"]
    <3>1. Active(e.run)
      BY <2>1 DEF Claimable
    <3>2. row.status = "running"
      BY <1>0, TypesNow DEF RunRow
    <3>3. run' = [run EXCEPT ![e.run] = row]
      BY <1>1, <2>1 DEF Claim
    <3>4. "running" \notin PublishedStatus
      BY DEF PublishedStatus
    <3> HIDE DEF row
    <3> QED BY <1>0, <3>1, <3>2, <3>3, <3>4, RowWritten
  <2>2. CASE ~Claimable(e.run, e.att)
    BY <1>1, <2>2, RunsKept DEF Claim
  <2> QED BY <2>1, <2>2
<1>2. CASE Suppressed(e)
  BY <1>0, <1>2, RowFails DEF Suppressed
<1>3. CASE Refuse(e)
  <2>1. UNCHANGED run \/ run' = [run EXCEPT ![e.run] = Failed(e.run)]
    BY <1>3 DEF Refuse
  <2> QED BY <1>0, <2>1, RunsKept, RowFails
<1>4. CASE Publish(e)
  <2>1. UNCHANGED run \/ (Active(e.run) /\ Stores(e.run, e.found))
    BY <1>4 DEF Publish
  <2> QED BY <1>0, <2>1, RunsKept, RowPublished DEF Publishes
<1>5. CASE StopPublishes(e)
  <2>1. Active(e.run) /\ Stores(e.run, NotStaged)
    BY <1>5 DEF StopPublishes
  <2> QED BY <1>0, <2>1, RowPublished DEF Publishes
<1>6. CASE StopFails(e)
  <2>1. UNCHANGED run \/ run' = [run EXCEPT ![e.run] = Failed(e.run)]
    BY <1>6 DEF StopFails
  <2> QED BY <1>0, <2>1, RunsKept, RowFails
<1>7. CASE ReadStage(e) \/ Begin(e) \/ StageCollection(e) \/ Mark(e) \/ Error(e)
  BY <1>7, RunsKept DEF ReadStage, Begin, StageCollection, Mark, Error
<1> QED BY <1>1, <1>2, <1>3, <1>4, <1>5, <1>6, <1>7 DEF ExecStep

LEMMA StepWrites ==
  ASSUME TypeInv, [Next]_vars
  PROVE  /\ NoneTaken \/ Reserves
         /\ NonePublished \/ Publishes
<1>1. ASSUME Reserves
      PROVE  NonePublished
  <2>1. /\ Unreserved # {}
        /\ \E mode : run' = [run EXCEPT ![NextRun] = NewRun(mode)]
    BY <1>1 DEF Reserves, Reserve, ReserveTierSearch
  <2>2. NextRun \in RunIds /\ \A mode : NewRun(mode).status \notin PublishedStatus
    BY <2>1, NextRunType DEF NewRun, PublishedStatus
  <2> QED BY <2>1, <2>2, RowWritten
<1>2. ASSUME NEW q \in Clients, Join(q) \/ Enqueue(q) \/ EnqueueFails(q)
      PROVE  NoneTaken /\ NonePublished
  BY <1>2, RunsKept DEF Join, Enqueue, EnqueueFails
<1>3. ASSUME NEW q \in Clients, MarkEnqueued(q)
      PROVE  NoneTaken /\ NonePublished
  <2> DEFINE row == [run[client[q].run] EXCEPT !.job = client[q].job]
  <2>1. client[q].run \in RunIds
    BY <1>3, ClientType DEF MarkEnqueued
  <2>2. row.status = run[client[q].run].status
    BY <2>1, TypesNow DEF RunRow
  <2>3. UNCHANGED run \/ run' = [run EXCEPT ![client[q].run] = row]
    BY <1>3, <2>1, TypesNow DEF MarkEnqueued
  <2> HIDE DEF row
  <2> QED BY <2>1, <2>2, <2>3, RunsKept, RowWritten DEF Active, Published
<1>4. ASSUME SweepPublish
      PROVE  NoneTaken /\ (NonePublished \/ Publishes)
  <2>1. sweep.run \in RunIds /\ sweep.found \in Collection
    BY <1>4, SweepType DEF SweepPublish
  <2>2. UNCHANGED run \/ (Active(sweep.run) /\ Stores(sweep.run, sweep.found))
    BY <1>4 DEF SweepPublish
  <2> QED BY <2>1, <2>2, RunsKept, RowPublished DEF Publishes
<1>5. ASSUME SweepRelease
      PROVE  NoneTaken /\ NonePublished
  <2>1. sweep.run \in RunIds
    BY <1>5, SweepType DEF SweepRelease
  <2>2. UNCHANGED run \/ run' = [run EXCEPT ![sweep.run] = Failed(sweep.run)]
    BY <1>5, <2>1, TypesNow DEF SweepRelease, Released
  <2> QED BY <2>1, <2>2, RunsKept, RowFails
<1>6. ASSUME NEW r \in RunIds, ClockStep(r)
      PROVE  NoneTaken /\ NonePublished
  <2>1. run'[r].status = run[r].status /\ \A s \in RunIds \ {r} : run'[s] = run[s]
    BY <1>6, TypesNow DEF ClockStep, Ages, FallsDue, Lapses, CoolsDown, RunRow
  <2> QED BY <2>1 DEF NoneTaken, NonePublished, Active, Published
<1>7. ASSUME NEW j \in JobIds, StartAttempt(j) \/ Expire(j)
      PROVE  NoneTaken /\ NonePublished
  BY <1>7, RunsKept DEF StartAttempt, Expire
<1>8. CASE \/ EditAlias \/ Rebuild \/ WorkerDies \/ SweepList \/ SweepJudge \/ SweepStage
           \/ SweepMark \/ ClearStages \/ UNCHANGED vars
  BY <1>8, RunsKept DEF EditAlias, Rebuild, WorkerDies, SweepList, SweepJudge, SweepStage,
                        SweepMark, ClearStages, vars
<1>9. CASE \E q \in Clients : ClientStep(q)
  BY <1>1, <1>2, <1>3, <1>9 DEF ClientStep, Reserves
<1> QED BY <1>4, <1>5, <1>6, <1>7, <1>8, <1>9, ExecStepWrites DEF Next, SweepStep, ClockStep

(* A stage is cleared, or written for an active run while no row is.       *)
LEMMA StageWrites ==
  ASSUME TypeInv, [Next]_vars, NEW r \in RunIds
  PROVE  \/ stage'[r] = stage[r] \/ stage'[r] = NotStaged
         \/ Active(r) /\ UNCHANGED run
<1>0. stage \in [RunIds -> Collection]
  BY TypesNow
<1>1. ASSUME NEW k \in RunIds, NEW found, Stores(k, found)
      PROVE  stage'[r] = stage[r] \/ stage'[r] = NotStaged
  BY <1>0, <1>1 DEF Stores, StageAfter
<1>2. ASSUME NEW e \in exec, StageCollection(e)
      PROVE  \/ stage'[r] = stage[r] \/ stage'[r] = NotStaged
             \/ Active(r) /\ UNCHANGED run
  <2>1. CASE Active(e.run)
    <3>1. PICK found : stage' = [stage EXCEPT ![e.run] = found]
      BY <1>2, <2>1 DEF StageCollection
    <3>2. r # e.run => stage'[r] = stage[r]
      BY <1>0, <3>1
    <3> QED BY <1>2, <2>1, <3>2 DEF StageCollection
  <2>2. CASE ~Active(e.run)
    BY <1>2, <2>2 DEF StageCollection
  <2> QED BY <2>1, <2>2
<1>3. ASSUME NEW e \in exec, ExecStep(e)
      PROVE  \/ stage'[r] = stage[r] \/ stage'[r] = NotStaged
             \/ Active(r) /\ UNCHANGED run
  <2>1. CASE Publish(e) \/ StopPublishes(e)
    <3>1. UNCHANGED stage \/ \E found : Stores(e.run, found)
      BY <2>1 DEF Publish, StopPublishes
    <3> QED BY <1>1, <3>1, ExecutionType
  <2>2. CASE StageCollection(e)
    BY <1>2, <2>2
  <2>3. CASE ~(Publish(e) \/ StopPublishes(e) \/ StageCollection(e))
    BY <1>3, <2>3 DEF ExecStep, Claim, Suppressed, ReadStage, Begin, Refuse, Mark, Error, StopFails
  <2> QED BY <2>1, <2>2, <2>3
<1>4. CASE SweepPublish
  <2>1. UNCHANGED stage \/ (sweep.run \in RunIds /\ Stores(sweep.run, sweep.found))
    BY <1>4, SweepType DEF SweepPublish
  <2> QED BY <1>1, <2>1
<1>5. CASE ClearStages
  BY <1>5 DEF ClearStages
<1>6. CASE \E q \in Clients : ClientStep(q)
  BY <1>6 DEF ClientStep, Reserve, Join, ReserveTierSearch, Enqueue, EnqueueFails, MarkEnqueued
<1>7. CASE \E j \in JobIds : StartAttempt(j) \/ Expire(j)
  BY <1>7 DEF StartAttempt, Expire
<1>8. CASE \/ EditAlias \/ Rebuild \/ WorkerDies \/ SweepList \/ SweepJudge \/ SweepStage
           \/ SweepMark \/ SweepRelease \/ UNCHANGED vars \/ \E k \in RunIds : ClockStep(k)
  BY <1>8 DEF EditAlias, Rebuild, WorkerDies, SweepList, SweepJudge, SweepStage, SweepMark,
              SweepRelease, vars, ClockStep, Ages, FallsDue, Lapses, CoolsDown
<1> QED BY <1>3, <1>4, <1>5, <1>6, <1>7, <1>8 DEF Next, SweepStep, ClockStep

LEMMA StepStages ==
  ASSUME TypeInv, StagesAreSettled, [Next]_vars
  PROVE  StagesAreSettled'
<1> SUFFICES ASSUME NEW r \in RunIds, run'[r].status = "absent" \/ run'[r].status \in PublishedStatus
             PROVE  stage'[r] = NotStaged
  BY DEF StagesAreSettled, Published
<1>0. NotStaged \in Collection /\ stage \in [RunIds -> Collection]
  BY CollectionTypes, TypesNow
<1>1. run'[r].status = "absent" => run[r].status = "absent"
  BY StepTypeOK, StepExists DEF Exists
<1>2. CASE run[r].status = "absent" \/ Published(r)
  <2>1. stage[r] = NotStaged
    BY <1>2 DEF StagesAreSettled
  <2>2. ~Active(r)
    BY <1>2 DEF Active, Published, ActiveStatus, PublishedStatus
  <2> QED BY <2>1, <2>2, StageWrites
<1>3. CASE run'[r].status \in PublishedStatus /\ ~Published(r)
  <2>1. PICK k \in RunIds, found \in Collection : Active(k) /\ Stores(k, found)
    BY <1>3, StepWrites DEF NonePublished, Publishes, Published
  <2>2. \A s \in RunIds \ {k} : run'[s] = run[s]
    BY <2>1, TypesNow DEF Stores
  <2>3. r = k
    BY <1>3, <2>2 DEF Published
  <2> QED BY <1>0, <2>1, <2>3 DEF Stores, StageAfter
<1> QED BY <1>1, <1>2, <1>3 DEF Published

-----------------------------------------------------------------------------
(* Nothing that may still be published comes from older aliases *)

(* A step that reserves no run, edits no alias and consumes no request     *)
(* keeps each part whose data it keeps.                                    *)
LEMMA PartsKept ==
  ASSUME TypeInv, NoneTaken, UNCHANGED <<aliasGen, pending>>
  PROVE  /\ ScanIsCurrent /\ UNCHANGED scan => ScanIsCurrent'
         /\ StagesAreCurrent /\ UNCHANGED stage => StagesAreCurrent'
         /\ ExecsAreCurrent /\ FoundsKept => ExecsAreCurrent'
         /\ SweepIsCurrent /\ UNCHANGED sweep => SweepIsCurrent'
<1>1. ScanIsCurrent /\ UNCHANGED scan => ScanIsCurrent'
  BY DEF ScanIsCurrent, Current
<1>2. StagesAreCurrent /\ UNCHANGED stage => StagesAreCurrent'
  BY DEF StagesAreCurrent, Current, NoneTaken, Active
<1>3. ExecsAreCurrent /\ FoundsKept => ExecsAreCurrent'
  <2>1. \A e \in exec : e.run \in RunIds
    BY ExecutionType
  <2> QED BY <2>1 DEF ExecsAreCurrent, FoundsKept, Current, NoneTaken, Active
<1>4. SweepIsCurrent /\ UNCHANGED sweep => SweepIsCurrent'
  BY SweepType DEF SweepIsCurrent, Current, NoneTaken, Active
<1> QED BY <1>1, <1>2, <1>3, <1>4

LEMMA SameExecs == UNCHANGED exec => FoundsKept
BY DEF FoundsKept

(* A reservation consumes the request, and its run has nothing yet.        *)
LEMMA ReservedIsCurrent ==
  ASSUME TypeInv, StagesAreSettled, GensAreCurrent, Reserves
  PROVE  GensAreCurrent'
<1>1. /\ UNCHANGED <<stage, aliasGen, sweep, exec>> /\ NoneActive /\ Unreserved # {}
      /\ \E mode : run' = [run EXCEPT ![NextRun] = NewRun(mode)]
  BY DEF Reserves, Reserve, ReserveTierSearch
<1>2. scan' = NoGen \/ (scan' = scan /\ ~(pending /\ ~pending'))
  BY DEF Reserves, Reserve, ReserveTierSearch, Invalidated
<1>3. NextRun \in RunIds /\ run[NextRun].status = "absent"
  BY <1>1, NextRunType
<1>4. \A r \in RunIds \ {NextRun} : ~Active(r)'
  BY <1>1, <1>3, TypesNow DEF NoneActive, Active
<1>5. /\ \A e \in exec : e.run \in RunIds \ {NextRun}
      /\ sweep.pc # "idle" => sweep.run \in RunIds \ {NextRun}
  BY <1>3, ExecutionType, SweepType DEF Exists
<1>6. ~pending' => ScanIsCurrent'
  <2>1. CASE scan' = NoGen
    BY <2>1 DEF ScanIsCurrent, Current, NoGen
  <2>2. CASE scan' = scan /\ ~(pending /\ ~pending')
    BY <1>1, <2>2 DEF ScanIsCurrent, Current, GensAreCurrent
  <2> QED BY <1>2, <2>1, <2>2
<1>7. StagesAreCurrent'
  BY <1>1, <1>3, <1>4 DEF StagesAreCurrent, StagesAreSettled, NotStaged, Current, NoGen, Active
<1>8. ExecsAreCurrent' /\ SweepIsCurrent'
  BY <1>1, <1>4, <1>5 DEF ExecsAreCurrent, SweepIsCurrent, Active
<1> QED BY <1>6, <1>7, <1>8 DEF GensAreCurrent

(* What an attempt goes on with is current if its run is active.           *)
LEMMA GoesOnCurrent ==
  ASSUME TypeInv, NEW e \in exec, NEW f, f.run = e.run, Keep(e, f), UNCHANGED <<aliasGen, run>>,
         ExecsAreCurrent, Active(e.run) => Current(f.found.gen)
  PROVE  ExecsAreCurrent'
<1>1. exec' = (exec \ {e}) \cup {f}
  BY DEF Keep
<1> QED BY <1>1 DEF ExecsAreCurrent, Current, Active

(* A publication of an active run stores what is current.                  *)
LEMMA StoresCurrent ==
  ASSUME TypeInv, NEW r \in RunIds, NEW found \in Collection, Stores(r, found),
         UNCHANGED <<aliasGen, pending>>, found = NotStaged \/ Current(found.gen),
         ScanIsCurrent, StagesAreCurrent
  PROVE  ScanIsCurrent' /\ StagesAreCurrent'
<1>1. NoneTaken
  BY RowPublished
<1>2. scan' = scan \/ (found # NotStaged /\ scan' = found.gen)
  BY DEF Stores
<1>3. ScanIsCurrent'
  BY <1>2 DEF ScanIsCurrent, Current
<1>4. \A s \in RunIds : stage'[s] = stage[s] \/ stage'[s] = NotStaged
  BY TypesNow DEF Stores, StageAfter
<1>5. StagesAreCurrent'
  BY <1>1, <1>4 DEF StagesAreCurrent, NoneTaken, NotStaged, Current, NoGen, Active
<1> QED BY <1>3, <1>5

LEMMA ExecStepCurrent ==
  ASSUME TypeInv, ScanIsCurrent, StagesAreCurrent, ExecsAreCurrent, SweepIsCurrent,
         NEW e \in exec, ExecStep(e)
  PROVE  ScanIsCurrent' /\ StagesAreCurrent' /\ ExecsAreCurrent' /\ SweepIsCurrent'
<1>0. /\ e \in Execution /\ e.run \in RunIds /\ e.found \in Collection
      /\ NotStaged \in Collection
  BY ExecutionType, CollectionTypes
<1>pc. {"claim", "staged", "admit", "collect", "publish", "mark", "stop"} = ExecSteps
  BY DEF ExecSteps
<1>frame. NoneTaken /\ UNCHANGED <<aliasGen, pending, sweep>> /\ SweepIsCurrent'
  <2>1. UNCHANGED <<aliasGen, pending, sweep>>
    BY DEF ExecStep, Claim, Suppressed, ReadStage, Begin, Refuse, StageCollection,
           Publish, Mark, Error, StopPublishes, StopFails
  <2> QED BY <2>1, ExecStepWrites, PartsKept
<1>1. CASE Claim(e)
  <2>1. FoundsKept
    BY <1>1, <1>pc, Goes, AttemptEnds DEF Claim
  <2> QED BY <1>1, <1>frame, <2>1, PartsKept DEF Claim
<1>2. CASE Suppressed(e)
  BY <1>2, <1>frame, AttemptEnds, PartsKept DEF Suppressed
<1>3. CASE ReadStage(e)
  <2> DEFINE f == [e EXCEPT !.found = stage[e.run],
                            !.pc = IF stage[e.run] = NotStaged THEN "admit" ELSE "publish"]
  <2>1. f.run = e.run /\ f.found = stage[e.run]
    BY <1>0 DEF Execution
  <2>2. Keep(e, f)
    BY <1>3, Zenon DEF ReadStage
  <2> HIDE DEF f
  <2>3. ExecsAreCurrent'
    BY <1>0, <1>3, <2>1, <2>2, GoesOnCurrent DEF ReadStage, StagesAreCurrent
  <2> QED BY <1>3, <1>frame, <2>3, PartsKept DEF ReadStage
<1>4. CASE Begin(e)
  <2> DEFINE f == [e EXCEPT !.pc = "collect", !.began = TRUE, !.found.gen = aliasGen]
  <2>1. f.run = e.run /\ f.found.gen = aliasGen
    BY <1>0 DEF Execution, Collection
  <2>2. Keep(e, f)
    BY <1>4, Zenon DEF Begin
  <2> HIDE DEF f
  <2>3. Current(f.found.gen)
    BY <2>1 DEF Current
  <2>4. ExecsAreCurrent'
    BY <1>4, <2>1, <2>2, <2>3, GoesOnCurrent DEF Begin
  <2> QED BY <1>4, <1>frame, <2>4, PartsKept DEF Begin
<1>5. CASE Refuse(e)
  <2>1. FoundsKept
    BY <1>5, AttemptEnds, CaughtKeeps DEF Refuse
  <2> QED BY <1>5, <1>frame, <2>1, PartsKept DEF Refuse
<1>6. CASE StageCollection(e)
  <2>1. CASE Active(e.run)
    <3>1. PICK out \in Outcomes :
            /\ stage' = [stage EXCEPT ![e.run] = [e.found EXCEPT !.out = out]]
            /\ Keep(e, [e EXCEPT !.pc = "publish", !.found = [e.found EXCEPT !.out = out]])
            /\ UNCHANGED jobs
      BY <1>6, <2>1 DEF StageCollection
    <3> DEFINE found == [e.found EXCEPT !.out = out]
    <3> DEFINE f == [e EXCEPT !.pc = "publish", !.found = found]
    <3>2. found.gen = e.found.gen
      BY <1>0 DEF Collection
    <3>3. f.run = e.run /\ f.found = found
      BY <1>0 DEF Execution
    <3>4. Keep(e, f) /\ stage' = [stage EXCEPT ![e.run] = found]
      BY <3>1, Zenon
    <3> HIDE DEF f, found
    <3>5. Current(found.gen)
      BY <2>1, <3>2 DEF ExecsAreCurrent
    <3>6. ExecsAreCurrent'
      BY <1>6, <3>3, <3>4, <3>5, GoesOnCurrent DEF StageCollection
    <3>7. StagesAreCurrent'
      BY <1>0, <1>6, <3>4, <3>5, TypesNow DEF StageCollection, StagesAreCurrent, Current, Active
    <3> QED BY <1>6, <1>frame, <3>6, <3>7, PartsKept DEF StageCollection
  <2>2. CASE ~Active(e.run)
    <3>1. FoundsKept /\ UNCHANGED <<stage, scan>>
      BY <1>6, <2>2, CaughtKeeps DEF StageCollection
    <3> QED BY <1>frame, <3>1, PartsKept
  <2> QED BY <2>1, <2>2
<1>7. CASE Publish(e)
  <2>1. CASE Active(e.run)
    <3>1. ScanIsCurrent' /\ StagesAreCurrent'
      BY <1>0, <1>7, <1>frame, <2>1, StoresCurrent DEF Publish, ExecsAreCurrent
    <3>2. FoundsKept
      BY <1>7, <1>pc, <2>1, Goes DEF Publish
    <3> QED BY <1>frame, <3>1, <3>2, PartsKept
  <2>2. CASE ~Active(e.run)
    <3>1. FoundsKept /\ UNCHANGED <<stage, scan>>
      BY <1>7, <2>2, CaughtKeeps DEF Publish
    <3> QED BY <1>frame, <3>1, PartsKept
  <2> QED BY <2>1, <2>2
<1>8. CASE Mark(e)
  BY <1>8, <1>frame, AttemptEnds, PartsKept DEF Mark
<1>9. CASE Error(e)
  <2>1. \E err \in Errors, dear \in BOOLEAN : Caught(e, err, dear)
    BY <1>9, Zenon DEF Error
  <2>2. FoundsKept
    BY <2>1, CaughtKeeps
  <2> QED BY <1>9, <1>frame, <2>2, PartsKept DEF Error
<1>10. CASE StopPublishes(e)
  <2>1. ScanIsCurrent' /\ StagesAreCurrent'
    BY <1>0, <1>10, <1>frame, StoresCurrent DEF StopPublishes
  <2>2. FoundsKept
    BY <1>10, AttemptEnds DEF StopPublishes
  <2> QED BY <1>frame, <2>1, <2>2, PartsKept
<1>11. CASE StopFails(e)
  <2>1. FoundsKept
    BY <1>11, AttemptEnds DEF StopFails
  <2> QED BY <1>11, <1>frame, <2>1, PartsKept DEF StopFails
<1> QED
  BY <1>1, <1>2, <1>3, <1>4, <1>5, <1>6, <1>7, <1>8, <1>9, <1>10, <1>11 DEF ExecStep

(* A row that the sweep is to publish holds the stage it read.             *)
LEMMA SweepStepCurrent ==
  ASSUME TypeInv, ScanIsCurrent, StagesAreCurrent, ExecsAreCurrent, SweepIsCurrent,
         SweepList \/ SweepStep
  PROVE  ScanIsCurrent' /\ StagesAreCurrent' /\ ExecsAreCurrent' /\ SweepIsCurrent'
<1>same. UNCHANGED <<aliasGen, pending, exec>>
  BY DEF SweepList, SweepStep, SweepJudge, SweepStage, SweepPublish, SweepMark, SweepRelease
<1>row. sweep \in SweepRow
  BY SweepType
<1>1. ASSUME UNCHANGED <<scan, stage>>, NoneTaken, SweepIsCurrent'
      PROVE  ScanIsCurrent' /\ StagesAreCurrent' /\ ExecsAreCurrent' /\ SweepIsCurrent'
  BY <1>1, <1>same, SameExecs, PartsKept
<1>2. CASE SweepList
  <2>1. sweep'.found = NotStaged
    BY <1>2 DEF SweepList, Swept
  <2>2. SweepIsCurrent'
    BY <2>1 DEF SweepIsCurrent, NotStaged, Current, NoGen
  <2> QED BY <1>1, <1>2, <2>2, RunsKept DEF SweepList
<1>3. CASE SweepJudge
  <2>1. \/ sweep'.pc = "idle"
        \/ sweep'.run = sweep.run /\ sweep'.found = sweep.found /\ sweep.pc # "idle"
    BY <1>3, <1>row DEF SweepJudge, Swept, SweepRow
  <2>2. UNCHANGED <<run, stage, scan>>
    BY <1>3 DEF SweepJudge
  <2>3. SweepIsCurrent'
    <3>1. CASE sweep'.pc = "idle"
      BY <3>1 DEF SweepIsCurrent
    <3>2. CASE sweep'.run = sweep.run /\ sweep'.found = sweep.found /\ sweep.pc # "idle"
      <4>1. Active(sweep.run)' => Active(sweep.run)
        BY <2>2, <3>2 DEF Active
      <4> QED BY <1>same, <3>2, <4>1 DEF SweepIsCurrent, Current
    <3> QED BY <2>1, <3>1, <3>2
  <2> QED BY <1>1, <2>2, <2>3, RunsKept
<1>4. CASE SweepStage
  <2>1. sweep'.run = sweep.run /\ sweep'.found = stage[sweep.run] /\ sweep.run \in RunIds
    BY <1>4, <1>row, SweepType DEF SweepStage, SweepRow
  <2>2. SweepIsCurrent'
    BY <1>4, <1>same, <2>1 DEF SweepStage, StagesAreCurrent, SweepIsCurrent, Current, Active
  <2> QED BY <1>1, <1>4, <2>2, RunsKept DEF SweepStage
<1>5. CASE SweepPublish
  <2>1. /\ sweep.run \in RunIds /\ sweep.found \in Collection /\ sweep.pc # "idle"
        /\ sweep'.run = sweep.run /\ sweep'.found = sweep.found
    <3>1. /\ sweep.pc = "publish"
          /\ \E p : sweep' = [sweep EXCEPT !.pc = p]
      BY <1>5, Zenon DEF SweepPublish
    <3>2. sweep'.run = sweep.run /\ sweep'.found = sweep.found
      BY <1>row, <3>1 DEF SweepRow
    <3> QED BY <3>1, <3>2, SweepType
  <2>2. CASE Active(sweep.run)
    <3>1. Stores(sweep.run, sweep.found) /\ Current(sweep.found.gen)
      BY <1>5, <2>1, <2>2 DEF SweepPublish, SweepIsCurrent
    <3>2. ScanIsCurrent' /\ StagesAreCurrent' /\ NoneTaken
      BY <1>same, <2>1, <3>1, StoresCurrent, RowPublished
    <3>3. SweepIsCurrent'
      BY <1>same, <2>1, <3>1 DEF SweepIsCurrent, Current
    <3> QED BY <1>same, <3>2, <3>3, SameExecs, PartsKept
  <2>3. CASE ~Active(sweep.run)
    <3>1. UNCHANGED <<run, scan, stage>>
      BY <1>5, <2>3 DEF SweepPublish
    <3>2. SweepIsCurrent'
      BY <2>1, <2>3, <3>1 DEF SweepIsCurrent, Active
    <3> QED BY <1>1, <3>1, <3>2, RunsKept
  <2> QED BY <2>2, <2>3
<1>6. CASE SweepMark
  <2>1. SweepIsCurrent'
    BY <1>6 DEF SweepMark, SweepIsCurrent, Swept
  <2> QED BY <1>1, <1>6, <2>1, RunsKept DEF SweepMark
<1>7. CASE SweepRelease
  <2>1. SweepIsCurrent'
    BY <1>7 DEF SweepRelease, SweepIsCurrent, Swept
  <2>2. NoneTaken
    <3>1. sweep.run \in RunIds
      BY <1>7, SweepType DEF SweepRelease
    <3>2. UNCHANGED run \/ run' = [run EXCEPT ![sweep.run] = Failed(sweep.run)]
      BY <1>7, <3>1, TypesNow DEF SweepRelease, Released
    <3> QED BY <3>1, <3>2, RunsKept, RowFails
  <2> QED BY <1>1, <1>7, <2>1, <2>2 DEF SweepRelease
<1> QED BY <1>2, <1>3, <1>4, <1>5, <1>6, <1>7 DEF SweepStep

LEMMA QueueStepCurrent ==
  ASSUME TypeInv, ScanIsCurrent, StagesAreCurrent, ExecsAreCurrent, SweepIsCurrent,
         NEW j \in JobIds, StartAttempt(j) \/ Expire(j)
  PROVE  ScanIsCurrent' /\ StagesAreCurrent' /\ ExecsAreCurrent' /\ SweepIsCurrent'
<1>1. UNCHANGED <<run, stage, aliasGen, pending, scan, sweep>>
  BY DEF StartAttempt, Expire
<1>2. \A x \in exec' : \/ x.found = NotStaged
                       \/ \E e \in exec : x.run = e.run /\ x.found = e.found
  <2>1. CASE StartAttempt(j)
    BY <2>1 DEF StartAttempt
  <2>2. CASE Expire(j)
    <3>1. \A e \in exec : /\ [e EXCEPT !.attached = FALSE].run = e.run
                          /\ [e EXCEPT !.attached = FALSE].found = e.found
      BY ExecutionType DEF Execution
    <3>2. \A y \in exec' : \E e \in exec : y = e \/ y = [e EXCEPT !.attached = FALSE]
      BY <2>2 DEF Expire
    <3> QED BY <3>1, <3>2
  <2> QED BY <2>1, <2>2
<1>3. ExecsAreCurrent'
  BY <1>1, <1>2 DEF ExecsAreCurrent, NotStaged, Current, NoGen, Active
<1> QED BY <1>1, <1>3, RunsKept, PartsKept

LEMMA StepGens ==
  ASSUME TypeInv, StagesAreSettled, GensAreCurrent, [Next]_vars
  PROVE  GensAreCurrent'
<1>1. CASE Reserves
  BY <1>1, ReservedIsCurrent
<1>2. CASE EditAlias
  BY <1>2 DEF EditAlias, GensAreCurrent
<1>3. ASSUME UNCHANGED pending, ScanIsCurrent /\ StagesAreCurrent /\ ExecsAreCurrent /\ SweepIsCurrent =>
               ScanIsCurrent' /\ StagesAreCurrent' /\ ExecsAreCurrent' /\ SweepIsCurrent'
      PROVE  GensAreCurrent'
  BY <1>3, Zenon DEF GensAreCurrent
<1>4. CASE \E e \in exec : ExecStep(e)
  <2>1. UNCHANGED pending
    BY <1>4 DEF ExecStep, Claim, Suppressed, ReadStage, Begin, Refuse, StageCollection,
                Publish, Mark, Error, StopPublishes, StopFails
  <2> QED BY <1>3, <1>4, <2>1, ExecStepCurrent
<1>5. CASE SweepList \/ SweepStep
  <2>1. UNCHANGED pending
    BY <1>5 DEF SweepList, SweepStep, SweepJudge, SweepStage, SweepPublish, SweepMark, SweepRelease
  <2> QED BY <1>3, <1>5, <2>1, SweepStepCurrent
<1>6. CASE \E j \in JobIds : StartAttempt(j) \/ Expire(j)
  <2>1. UNCHANGED pending
    BY <1>6 DEF StartAttempt, Expire
  <2> QED BY <1>3, <1>6, <2>1, QueueStepCurrent
<1>7. CASE WorkerDies
  <2>1. UNCHANGED <<run, stage, aliasGen, pending, scan>> /\ exec' = {} /\ sweep'.pc = "idle"
    BY <1>7 DEF WorkerDies, Swept
  <2>2. FoundsKept /\ SweepIsCurrent'
    BY <2>1 DEF FoundsKept, SweepIsCurrent
  <2> QED BY <1>3, <2>1, <2>2, RunsKept, PartsKept
<1>8. CASE ClearStages
  <2>1. UNCHANGED <<run, aliasGen, pending, scan, sweep, exec>>
    BY <1>8 DEF ClearStages
  <2>2. StagesAreCurrent => StagesAreCurrent'
    BY <1>8, <2>1 DEF ClearStages, StagesAreCurrent, NotStaged, Current, NoGen, Active
  <2> QED BY <1>3, <2>1, <2>2, RunsKept, SameExecs, PartsKept
<1>9. ASSUME \/ Rebuild \/ UNCHANGED vars \/ \E r \in RunIds : ClockStep(r)
             \/ \E q \in Clients : Join(q) \/ Enqueue(q) \/ EnqueueFails(q) \/ MarkEnqueued(q)
      PROVE  GensAreCurrent'
  <2>1. UNCHANGED <<stage, aliasGen, pending, scan, sweep, exec>>
    BY <1>9 DEF Rebuild, vars, ClockStep, Ages, FallsDue, Lapses, CoolsDown, Join, Enqueue,
                EnqueueFails, MarkEnqueued
  <2>2. CASE ~Reserves
    <3>1. NoneTaken
      BY <2>2, StepWrites
    <3> QED BY <1>3, <2>1, <3>1, SameExecs, PartsKept
  <2> QED BY <1>1, <2>2
<1> QED
  BY <1>1, <1>2, <1>4, <1>5, <1>6, <1>7, <1>8, <1>9 DEF Next, ClientStep, Reserves, ClockStep

-----------------------------------------------------------------------------
(* The invariant holds of every behaviour *)

LEMMA InitInductive == Init \/ CollectedInit => IInv
<1> SUFFICES ASSUME Init \/ CollectedInit PROVE IInv
  OBVIOUS
<1>1. 1 \in RunIds /\ 1 \in 1..MaxAttempts /\ 1 \in 0..MaxAttempts
  BY EvidenceAssumption, JobQueueAssumption DEF RunIds
<1>2. NewRun("full") \in RunRow
  BY NewRunType
<1>3. /\ [NewRun("full") EXCEPT !.status = "absent"] \in RunRow
      /\ [NewRun("full") EXCEPT !.status = "complete", !.attempt = 1, !.started = TRUE] \in RunRow
  BY <1>1, <1>2 DEF RunRow, PublishedStatus
<1>4. /\ [NewRun("full") EXCEPT !.status = "absent"].status = "absent"
      /\ [NewRun("full") EXCEPT !.status = "complete", !.attempt = 1,
                                !.started = TRUE].status = "complete"
  BY <1>2 DEF RunRow
<1>5. run \in [RunIds -> RunRow]
  BY <1>3 DEF Init, CollectedInit
<1>6. \A r \in RunIds : ~Active(r)
  BY <1>4 DEF Init, CollectedInit, Active, ActiveStatus
<1>7. jobs \in [JobIds -> Job(RunIds)] /\ \A j \in JobIds : ~Sent(j)
  <2>1. jobs = [j \in JobIds |-> NeverSent(1)]
    BY DEF Init, CollectedInit
  <2>2. NeverSent(1) \in Job(RunIds) /\ NeverSent(1).state = "none"
    BY <1>1 DEF NeverSent, Job, JobStates
  <2> QED BY <2>1, <2>2 DEF Sent
<1>8. stage \in [RunIds -> Collection] /\ \A r \in RunIds : stage[r] = NotStaged
  <2>1. stage = [r \in RunIds |-> NotStaged]
    BY DEF Init, CollectedInit
  <2> QED BY <2>1, CollectionTypes
<1>9. client \in [Clients -> ClientRow] /\ \A q \in Clients : client[q].pc = "idle"
  <2>1. client = [q \in Clients |-> Idle]
    BY DEF Init, CollectedInit
  <2>2. Idle \in ClientRow /\ Idle.pc = "idle"
    BY DEF Idle, ClientRow
  <2> QED BY <2>1, <2>2
<1>10. sweep \in SweepRow /\ sweep.pc = "idle" /\ exec = {}
  <2>1. sweep = Swept /\ exec = {}
    BY DEF Init, CollectedInit
  <2>2. Swept \in SweepRow /\ Swept.pc = "idle"
    BY CollectionTypes DEF Swept, SweepRow, SweepSteps
  <2> QED BY <2>1, <2>2
<1>11. /\ aliasGen \in Gens /\ pending \in BOOLEAN
       /\ scan \in Gens \cup {NoGen} /\ marks \in Gens \cup {NoGen}
       /\ budget \in [presses : 0..MaxPresses, faults : 0..MaxFaults]
  <2>1. /\ aliasGen = 0 /\ pending = FALSE /\ scan \in {0, NoGen} /\ marks \in {0, NoGen}
        /\ budget = [presses |-> MaxPresses, faults |-> MaxFaults]
    BY DEF Init, CollectedInit
  <2>2. 0 \in Gens
    BY EvidenceAssumption DEF Gens
  <2>3. budget \in [presses : 0..MaxPresses, faults : 0..MaxFaults]
    BY <2>1, EvidenceAssumption
  <2>4. pending \in BOOLEAN
    BY <2>1
  <2> QED BY <2>1, <2>2, <2>3, <2>4
<1>12. TypeOK
  BY <1>5, <1>7, <1>8, <1>9, <1>10, <1>11 DEF TypeOK, ClientRow, SweepRow
<1>13. HasTarget
  BY <1>7, <1>9, <1>10 DEF HasTarget, ClientsAreSure, JobsAreSure, ExecsAreSure, SweepIsSure
<1>14. OneActive /\ StagesAreSettled
  BY <1>6, <1>8 DEF OneActive, StagesAreSettled
<1>15. GensAreCurrent
  <2>1. scan \in {NoGen, aliasGen}
    BY DEF Init, CollectedInit
  <2> QED BY <1>6, <1>10, <2>1 DEF GensAreCurrent, ScanIsCurrent, StagesAreCurrent,
                                   ExecsAreCurrent, SweepIsCurrent, Current
<1> QED BY <1>12, <1>13, <1>14, <1>15 DEF IInv, TypeInv

LEMMA StepInductive == IInv /\ [Next]_vars => IInv'
<1> SUFFICES ASSUME IInv, [Next]_vars PROVE IInv'
  OBVIOUS
<1>1. TypeInv /\ OneActive /\ StagesAreSettled /\ GensAreCurrent
  BY DEF IInv
<1>2. TypeOK' /\ StatusStep
  BY <1>1, StepTypeOK
<1>3. HasTarget'
  BY <1>1, StepTargets
<1>4. OneActive'
  BY <1>1, <1>2, StepOneActive
<1>5. StagesAreSettled'
  BY <1>1, StepStages
<1>6. GensAreCurrent'
  BY <1>1, StepGens
<1> QED BY <1>2, <1>3, <1>4, <1>5, <1>6 DEF IInv, TypeInv

(* The behaviours of a character never collected, and of one collected     *)
(* before.                                                                 *)
AnySpec == (Init \/ CollectedInit) /\ [][Next]_vars

LEMMA AlwaysInductive == AnySpec => []IInv
BY InitInductive, StepInductive, PTL DEF AnySpec

(* Rows, jobs, attempts and the records of the clients and of the sweep    *)
(* stay what their tables and types say.                                   *)
THEOREM EvidenceTyped == AnySpec => []TypeOK
<1>1. IInv => TypeOK
  BY DEF IInv, TypeInv
<1> QED BY <1>1, AlwaysInductive, PTL

(* A stage never outlives the publication it fed, and once no recollection *)
(* is asked for, the stored scan comes from today's aliases (publish,      *)
(* reserveEvidence), whichever attempts, sweeps, edits and crashes overlap.*)
THEOREM StageAndScanHold == AnySpec => []RunsKeepStageAndScan
<1>1. IInv => RunsKeepStageAndScan
  BY DEF IInv, StagesAreSettled, PublishedHasNoStage, GensAreCurrent, ScanIsCurrent, Current,
         ScanFollowsAliases, RunsKeepStageAndScan
<1> QED BY <1>1, AlwaysInductive, PTL

-----------------------------------------------------------------------------
(* The slot specification is implemented *)

SlotMeaning ==
  /\ NoneActive => ActiveRun = NoRun
  /\ \A r \in RunIds : Active(r) => ActiveRun = r /\ ~NoneActive

LEMMA SlotHolder == OneActive => SlotMeaning
BY DEF SlotMeaning, OneActive, NoneActive, ActiveRun

(* How a run settled.                                                      *)
How(r) == IF Published(r) THEN "published" ELSE IF run[r].status = "failed" THEN "failed" ELSE "none"

(* A step takes the slot for one run, settles one run's collection, or     *)
(* leaves both.                                                            *)
LEMMA StepSlot ==
  ASSUME IInv, [Next]_vars
  PROVE  SlotStep
<1> DEFINE res == [r \in RunIds |-> How(r)]
<1>1. StatusStep /\ OneActive /\ OneActive'
  BY StepTypeOK, StepInductive DEF IInv
<1>2. SlotMeaning /\ SlotMeaning'
  BY <1>1, SlotHolder, PTL
<1>3. CASE \A r \in RunIds : SameStatus(r)
  <2>1. \A r \in RunIds : /\ Active(r)' <=> Active(r)
                          /\ How(r)' = How(r)
    BY <1>3 DEF SameStatus, Active, How, Published, ActiveStatus, PublishedStatus
  <2>2. ActiveRun' = ActiveRun
    <3>1. CASE NoneActive
      <4>1. NoneActive'
        BY <2>1, <3>1 DEF NoneActive
      <4> QED BY <1>2, <3>1, <4>1 DEF SlotMeaning
    <3>2. CASE ~NoneActive
      <4>1. PICK r \in RunIds : Active(r)
        BY <3>2 DEF NoneActive
      <4> QED BY <1>2, <2>1, <4>1 DEF SlotMeaning
    <3> QED BY <3>1, <3>2
  <2>3. res' = res
    BY <2>1
  <2>4. Slot!slotVars' = Slot!slotVars
    BY <2>2, <2>3 DEF Slot!slotVars, How
  <2> QED BY <2>4 DEF SlotStep
<1>4. ASSUME NEW r \in RunIds, Takes(r) \/ Settles(r),
             \A s \in RunIds \ {r} : run'[s].status = run[s].status
      PROVE  SlotStep
  <2>1. \A s \in RunIds \ {r} : (Active(s)' <=> Active(s)) /\ How(s)' = How(s)
    BY <1>4 DEF Active, How, Published
  <2>2. CASE Takes(r)
    <3>1. /\ NoneActive /\ Active(r)' /\ How(r) = "none" /\ How(r)' = "none"
      BY <2>2 DEF Takes, Active, How, Published, ActiveStatus, PublishedStatus
    <3>2. ActiveRun = NoRun /\ ActiveRun' = r
      BY <1>2, <3>1 DEF SlotMeaning
    <3>3. res' = res /\ res[r] = "none"
      BY <2>1, <3>1
    <3>4. Slot!TakeSlot(r)
      BY <3>2, <3>3 DEF Slot!TakeSlot, Slot!NoCollection, NoRun, How
    <3> QED BY <3>4 DEF SlotStep, Slot!SlotNext
  <2>3. CASE Settles(r)
    <3>1. /\ Active(r) /\ ~Active(r)' /\ How(r)' \in {"published", "failed"}
      BY <2>3 DEF Settles, Active, How, Published, ActiveStatus, PublishedStatus
    <3>2. ActiveRun = r
      BY <1>2, <3>1 DEF SlotMeaning
    <3>3. \A s \in RunIds : ~Active(s)'
      BY <1>1, <2>1, <3>1 DEF OneActive
    <3>4. ActiveRun' = NoRun
      BY <1>2, <3>3 DEF SlotMeaning, NoneActive
    <3>5. res' = [res EXCEPT ![r] = How(r)']
      BY <2>1
    <3>6. PICK h \in {"published", "failed"} : h = How(r)'
      BY <3>1
    <3>7. Slot!GiveBack(r, h)
      BY <3>2, <3>4, <3>5, <3>6 DEF Slot!GiveBack, Slot!NoCollection, NoRun, How
    <3> QED BY <3>7 DEF SlotStep, Slot!SlotNext, Slot!SlotSettles
  <2> QED BY <1>4, <2>2, <2>3
<1> QED BY <1>1, <1>3, <1>4 DEF StatusStep

(* Whoever reserves, publishes, expires or recovers, each step takes the   *)
(* character's slot, settles the collection that holds it, or leaves both  *)
(* (recover-abandoned-evidence-runs.ts, repository.ts).                    *)
THEOREM SlotAlwaysSteps == AnySpec => SlotIsKept
<1>1. IInv /\ [Next]_vars => [SlotStep]_vars
  BY StepSlot
<1> QED BY <1>1, AlwaysInductive, PTL DEF AnySpec, SlotIsKept

(* The safety half of the refinement: from a character never collected,    *)
(* the runs are a behaviour of the slot specification.                     *)
THEOREM SlotImplemented == Spec => Slot!SlotSafe
<1>1. Init => Slot!SlotInit
  <2> SUFFICES ASSUME Init PROVE Slot!SlotInit
    OBVIOUS
  <2>1. \A r \in RunIds : run[r].status = "absent"
    BY NewRunType DEF Init, RunRow
  <2>2. \A r \in RunIds : ~Active(r) /\ How(r) = "none"
    BY <2>1 DEF Active, How, Published, ActiveStatus, PublishedStatus
  <2>3. ActiveRun = NoRun
    BY <2>2 DEF ActiveRun, NoneActive
  <2> QED BY <2>2, <2>3 DEF Slot!SlotInit, Slot!NoCollection, NoRun, How
<1>2. IInv /\ [Next]_vars => [Slot!SlotNext]_(Slot!slotVars)
  BY StepSlot DEF SlotStep
<1>3. Spec => AnySpec
  BY DEF Spec, AnySpec
<1> QED BY <1>1, <1>2, <1>3, AlwaysInductive, PTL DEF Spec, Slot!SlotSafe

-----------------------------------------------------------------------------
(* The phases of a collection                                              *)
(*                                                                         *)
(* What a reader of a run's phases may rely on, for every plan, every      *)
(* number of overlapping attempts and every number of failed writes.  The  *)
(* argument: a row only goes where recordPhaseTransitions lets it go, and  *)
(* a ledger takes a transition over when its last row is stored, so the    *)
(* row is where the ledger says or further on; a loop of skips that was    *)
(* stored to its end leaves the ledger, and so the rows, without a phase   *)
(* to come, and no row ever goes back to that.                             *)

(* The phases of the plan are in their order.                              *)
LEMMA PlanShape ==
  /\ Plan \subseteq Nat /\ Publication \in Plan /\ Scans + 2 \in Plan
  /\ {Identity, History, TierBests} \subseteq Plan \ {Publication}
  /\ ScanPhases \subseteq Plan \ {Publication} /\ OtherPhases \subseteq Plan \ {Publication}
  /\ \A p \in Plan : p <= Publication
  /\ Plan \ {Publication} = 1..(Publication - 1)
  /\ Scans + 1 \in 1..(Publication - 1) /\ 0 \in 0..(Publication - 1)
BY PhaseAssumption
   DEF Publication, Plan, Identity, History, TierBests, ScanPhases, OtherPhases

(* A set of phases that is not empty has a first one.                      *)
LEMMA FirstOfSome ==
  ASSUME NEW S \in SUBSET Plan, S # {}
  PROVE  First(S) \in S
<1>1. S \in SUBSET Nat
  BY PlanShape
<1>2. PICK p \in S : \A q \in S : ~(<<q, p>> \in OpToRel(<, Nat))
  BY <1>1, NatLessThanWellFounded, WFMin
<1>3. \A q \in S : q < p => <<q, p>> \in OpToRel(<, Nat)
  BY <1>1, Zenon DEF OpToRel
<1>4. \A q \in S : ~(q < p)
  BY <1>2, <1>3, Zenon
<1>5. \A q \in S : p <= q
  BY <1>1, <1>4
<1> QED BY <1>5 DEF First

(* Where a row may go from a state: at least there, no further than from   *)
(* the states before it, and never back to pending.                        *)
LEMMA GoingOn ==
  /\ \A x \in PhaseStates : x \in Onward(x) /\ Onward(x) \subseteq PhaseStates
  /\ \A x \in PhaseStates : \A y \in Onward(x) : Onward(y) \subseteq Onward(x)
  /\ \A x, y \in PhaseStates : Storable(x, y) => y \in Onward(x)
  /\ \A x \in PhaseStates \ {"pending"} : "pending" \notin Onward(x)
  /\ Onward("pending") = PhaseStates
<1> DEFINE Later == PhaseStates \ {"pending", "skipped"}
<1>1. Onward("pending") = PhaseStates
  BY DEF Onward
<1>2. \A x \in {"active", "completed", "limited"} : Onward(x) = Later
  BY DEF Onward
<1>3. \A x \in {"skipped", "failed", "cancelled"} : Onward(x) = {x}
  BY DEF Onward
<1>4. PhaseStates = {"pending", "active", "completed", "limited", "skipped", "failed", "cancelled"}
  BY DEF PhaseStates, Terminal
<1>5. \A x, y \in PhaseStates : Storable(x, y) => y \in Onward(x)
  BY <1>1, <1>2, <1>3, <1>4 DEF Storable, Legal, Terminal
<1> QED BY <1>1, <1>2, <1>3, <1>4, <1>5

(* An operation writes phases before the publication, and none back to     *)
(* pending.                                                                *)
LEMMA BatchShape ==
  ASSUME NEW l \in [Plan -> PhaseStates], NEW o \in Operations
  PROVE  /\ Batch(l, o) \subseteq Plan \ {Publication}
         /\ \A q \in Batch(l, o) : Becomes(o, q) \in PhaseStates \ {"pending"}
<1>1. \A p \in Plan : PendingBefore(l, p) \subseteq Plan \ {Publication}
  BY PlanShape DEF PendingBefore
<1>2. o.p \in Plan /\ (o.to # "rest" => o.p # Publication /\ o.to \in PhaseStates \ {"pending"})
  BY DEF Operations
<1>3. Batch(l, o) \subseteq Plan \ {Publication}
  BY <1>1, <1>2 DEF Batch
<1>4. "skipped" \in PhaseStates \ {"pending"}
  BY DEF PhaseStates, Terminal
<1> QED BY <1>2, <1>3, <1>4 DEF Becomes

(* What every step of an attempt, or of the sweep, does to what was handed *)
(* over: rows go on, and nothing already handed over is taken back.        *)
RowsGoOn == \A p \in Plan : rows'[p] \in Onward(rows[p])

LEMMA HandedStays ==
  ASSUME Inductive, PhasesTypeOK', RowsGoOn, NEW d \in Deliveries, Handed(d),
         pc'[d] \notin {"new", "load"}, has'[d] = has[d], missed[d] => missed'[d]
  PROVE  Handed(d)'
<1>1. StoredAll(d)' => StoredAll(d)
  BY DEF StoredAll
<1>2. NothingPending(rows) => NothingPending(rows)'
  <2> SUFFICES ASSUME NothingPending(rows), NEW p \in Plan \ {Publication}
               PROVE  rows'[p] # "pending"
    BY DEF NothingPending
  <2>1. rows[p] \in PhaseStates \ {"pending"} /\ rows'[p] \in Onward(rows[p])
    BY DEF Inductive, PhasesTypeOK, RowsGoOn, NothingPending
  <2> QED BY <2>1, GoingOn
<1> QED BY <1>1, <1>2 DEF Handed

(* Rows that stay go on.                                                   *)
LEMMA SameRowsGoOn ==
  ASSUME Inductive, UNCHANGED rows PROVE RowsGoOn
BY GoingOn DEF Inductive, PhasesTypeOK, RowsGoOn

(* Asking the ledger for operations stores nothing yet.                    *)
LEMMA AskingKeeps ==
  ASSUME Inductive, NEW d \in Deliveries, NEW q \in Seq(Operations), Ask(d, q),
         NEW from \in Steps, NEW to \in Steps \ {"new", "load", "staged"}, Turns(d, from, to),
         to \in Collects => from \in Collects,
         to = "publish" => q # <<>> /\ q[Len(q)] = SkipUpTo(Publication),
         NEW c \in 0..(Publication - 1), cur' = [cur EXCEPT ![d] = c],
         to = "provider" => c # 0,
         UNCHANGED source
  PROVE  Inductive'
<1>0. PhasesTypeOK /\ ops[d] = <<>>
  BY DEF Inductive, Ask
<1> DEFINE asked == IF has[d] THEN q ELSE <<>>
<1>1. /\ ops' = [ops EXCEPT ![d] = asked] /\ asked \in Seq(Operations)
      /\ pc' = [pc EXCEPT ![d] = to] /\ pc[d] = from
      /\ UNCHANGED <<shared, mishaps, source, has, mem, left, missed>>
  BY DEF Ask, Turns
<1>2. PhasesTypeOK'
  BY <1>0, <1>1 DEF PhasesTypeOK, shared
<1>3. PublicationWaits'
  BY <1>1 DEF Inductive, PublicationWaits, shared
<1>4. left[d] = {}
  BY <1>0 DEF Inductive, WritesAreKept, HalfWritten
<1>5. WritesAreKept'
  <2>1. \A e \in Deliveries : left[e] # {} => e # d /\ ops'[e] = ops[e]
    BY <1>0, <1>1, <1>4 DEF PhasesTypeOK
  <2>2. \A e \in Deliveries : left[e] # {} => HalfWritten(e)'
    BY <1>1, <2>1 DEF Inductive, WritesAreKept, HalfWritten, shared
  <2> QED BY <1>1, <2>2 DEF Inductive, WritesAreKept, LedgerBehindRows, shared
<1>6. Placed'
  BY <1>0, <1>1 DEF Inductive, Placed, PhasesTypeOK
<1>7. \A e \in Deliveries : Handed(e) => Handed(e)'
  BY <1>0, <1>1 DEF Handed, StoredAll, PhasesTypeOK, shared
<1>8. HandedOver'
  <2>1. \A e \in Deliveries : pc'[e] = "staged" => pc[e] = "staged"
    BY <1>0, <1>1 DEF PhasesTypeOK
  <2>2. \A e \in Deliveries : pc'[e] = "staged" => source'[e] # 0 /\ Handed(source[e])'
    BY <2>1, <1>0, <1>1, <1>7 DEF Inductive, HandedOver, PhasesTypeOK
  <2>3. ASSUME NEW e \in Deliveries, pc'[e] = "publish"
        PROVE  IF ops'[e] = <<>> THEN StoredAll(e)' => NothingPending(mem[e])'
               ELSE ops'[e][Len(ops'[e])] = SkipUpTo(Publication)
    <3>1. CASE e = d
      <4>1. ops'[d] = asked /\ to = "publish"
        BY <1>0, <1>1, <2>3, <3>1 DEF PhasesTypeOK
      <4>2. CASE has[d]
        BY <3>1, <4>1, <4>2
      <4>3. CASE ~has[d]
        BY <1>1, <3>1, <4>1, <4>3 DEF StoredAll
      <4> QED BY <4>2, <4>3
    <3>2. CASE e # d
      <4>1. pc[e] = "publish" /\ ops'[e] = ops[e]
        BY <1>0, <1>1, <2>3, <3>2 DEF PhasesTypeOK
      <4> QED BY <1>1, <4>1 DEF Inductive, HandedOver, StoredAll
    <3> QED BY <3>1, <3>2
  <2> QED BY <1>0, <1>1, <1>7, <2>2, <2>3 DEF Inductive, HandedOver, PhasesTypeOK, shared
<1> QED BY <1>2, <1>3, <1>5, <1>6, <1>8 DEF Inductive

(* What is awaited after the first of some operations.                     *)
LEMMA AfterTheFirst ==
  ASSUME NEW s \in Seq(Operations), s # <<>>
  PROVE  /\ Head(s) \in Operations /\ Head(s) = s[1]
         /\ Tail(s) \in Seq(Operations) /\ Len(Tail(s)) = Len(s) - 1
         /\ Tail(s) = <<>> <=> Len(s) = 1
         /\ Tail(s) # <<>> => Tail(s)[Len(Tail(s))] = s[Len(s)]
<1>1. Len(s) \in Nat \ {0} /\ s \in [1..Len(s) -> Operations]
  OBVIOUS
<1>2. Head(s) \in Operations /\ Head(s) = s[1]
  BY <1>1
<1>3. Tail(s) \in Seq(Operations) /\ Len(Tail(s)) = Len(s) - 1
  OBVIOUS
<1>4. Tail(s) = <<>> <=> Len(s) = 1
  BY <1>1, <1>3
<1>5. \A i \in 1..(Len(s) - 1) : Tail(s)[i] = s[i + 1]
  BY <1>1
<1>6. Tail(s) # <<>> => Tail(s)[Len(Tail(s))] = s[Len(s)]
  BY <1>1, <1>3, <1>4, <1>5
<1> QED BY <1>2, <1>3, <1>4, <1>6

(* An operation that comes to its end without a row: its write is missed,  *)
(* or it found nothing to write.                                           *)
LEMMA EndingKeeps ==
  ASSUME Inductive, NEW d \in Deliveries, ops[d] # <<>>,
         ops' = [ops EXCEPT ![d] = Tail(@)], left' = [left EXCEPT ![d] = {}],
         \/ missed' = [missed EXCEPT ![d] = TRUE]
         \/ UNCHANGED missed /\ Batch(mem[d], Head(ops[d])) = {},
         mishaps' \in 0..MaxMishaps, UNCHANGED <<shared, pc, source, has, mem, cur>>
  PROVE  Inductive'
<1>0. PhasesTypeOK
  BY DEF Inductive
<1>1. /\ \A e \in Deliveries : missed'[e] \in BOOLEAN /\ (missed[e] => missed'[e])
      /\ missed' \in [Deliveries -> BOOLEAN]
  BY <1>0 DEF PhasesTypeOK
<1>2. Tail(ops[d]) \in Seq(Operations) /\ Len(Tail(ops[d])) = Len(ops[d]) - 1
  BY <1>0 DEF PhasesTypeOK
<1>3. PhasesTypeOK'
  BY <1>0, <1>1, <1>2 DEF PhasesTypeOK, shared
<1>4. PublicationWaits'
  BY DEF Inductive, PublicationWaits, shared
<1>5. WritesAreKept'
  <2>1. \A e \in Deliveries : left'[e] # {} => e # d /\ left'[e] = left[e] /\ ops'[e] = ops[e]
    BY <1>0 DEF PhasesTypeOK
  <2>2. \A e \in Deliveries : left'[e] # {} => HalfWritten(e)'
    BY <2>1 DEF Inductive, WritesAreKept, HalfWritten, shared
  <2> QED BY <2>2 DEF Inductive, WritesAreKept, LedgerBehindRows, shared
<1>6. Placed'
  BY <1>0 DEF Inductive, Placed, PhasesTypeOK
<1>7. \A e \in Deliveries : Handed(e) => Handed(e)'
  BY <1>1 DEF Handed, StoredAll, shared
<1>8. ASSUME NEW e \in Deliveries, pc[e] = "publish"
      PROVE  IF ops'[e] = <<>> THEN StoredAll(e)' => NothingPending(mem[e])
             ELSE ops'[e][Len(ops'[e])] = SkipUpTo(Publication)
  <2>1. CASE e # d
    <3>1. ops'[e] = ops[e]
      BY <1>0, <2>1 DEF PhasesTypeOK
    <3> QED BY <1>1, <1>8, <3>1 DEF Inductive, HandedOver, StoredAll
  <2>2. CASE e = d
    <3>1. ops[d][Len(ops[d])] = SkipUpTo(Publication) /\ ops'[d] = Tail(ops[d])
      BY <1>0, <1>8, <2>2 DEF Inductive, HandedOver, PhasesTypeOK
    <3>2. CASE Tail(ops[d]) # <<>>
      <4>1. Tail(ops[d])[Len(Tail(ops[d]))] = ops[d][Len(ops[d])]
        BY <1>0, <1>2, <3>2 DEF PhasesTypeOK
      <4> QED BY <2>2, <3>1, <3>2, <4>1
    <3>3. CASE Tail(ops[d]) = <<>> /\ StoredAll(d)'
      <4>1. Len(ops[d]) = 1 /\ Head(ops[d]) = ops[d][1]
        BY <1>0, <3>3, AfterTheFirst DEF PhasesTypeOK
      <4>2. Head(ops[d]) = SkipUpTo(Publication)
        BY <3>1, <4>1
      <4>3. Batch(mem[d], SkipUpTo(Publication)) = {}
        BY <1>0, <3>3, <4>2 DEF StoredAll, PhasesTypeOK
      <4>4. PendingBefore(mem[d], Publication) = {}
        <5>1. PendingBefore(mem[d], Publication) \in SUBSET Plan
          BY DEF PendingBefore
        <5> QED BY <4>3, <5>1, FirstOfSome DEF Batch, SkipUpTo, To
      <4>5. \A p \in Plan \ {Publication} : p < Publication
        BY PlanShape
      <4> QED BY <2>2, <3>1, <3>3, <4>4, <4>5 DEF PendingBefore, NothingPending
    <3> QED BY <2>2, <3>1, <3>2, <3>3
  <2> QED BY <2>1, <2>2
<1>9. HandedOver'
  BY <1>0, <1>7, <1>8 DEF Inductive, HandedOver, PhasesTypeOK, shared
<1> QED BY <1>3, <1>4, <1>5, <1>6, <1>9 DEF Inductive

(* The row that is written is one of its operation's, and goes on.         *)
LEMMA WritingKeeps ==
  ASSUME Inductive, NEW d \in Deliveries, WriteRow(d)
  PROVE  Inductive'
<1>0. PhasesTypeOK
  BY DEF Inductive
<1> DEFINE o == Head(ops[d])
           q == First(Todo(d))
           b == Batch(mem[d], o)
           whole == Todo(d) = {q}
<1>1. /\ ops[d] # <<>> /\ open /\ Todo(d) # {} /\ Storable(rows[q], Becomes(o, q))
      /\ rows' = [rows EXCEPT ![q] = Becomes(o, q)]
      /\ left' = [left EXCEPT ![d] = Todo(d) \ {q}]
      /\ UNCHANGED <<open, staged, published, mishaps, pc, source, has, cur, missed>>
  BY DEF WriteRow
<1>2. /\ ~whole => UNCHANGED <<mem, ops>>
      /\ whole => /\ mem' = [mem EXCEPT ![d] = Written(d)]
                  /\ ops' = IF o.to = "rest" THEN ops ELSE [ops EXCEPT ![d] = Tail(@)]
  BY DEF WriteRow
<1>3. o \in Operations /\ mem[d] \in [Plan -> PhaseStates]
  BY <1>0, <1>1 DEF PhasesTypeOK
<1>4. /\ b \subseteq Plan \ {Publication}
      /\ \A p \in b : Becomes(o, p) \in PhaseStates \ {"pending"}
  BY <1>3, BatchShape
<1>5. /\ Todo(d) \subseteq b
      /\ \A p \in b \ Todo(d) : rows[p] \in Onward(Becomes(o, p))
  BY DEF Todo, Inductive, WritesAreKept, HalfWritten
<1>6. q \in Todo(d) /\ q \in b /\ q \in Plan /\ q # Publication
  BY <1>1, <1>4, <1>5, FirstOfSome
<1>7. Becomes(o, q) \in PhaseStates /\ Becomes(o, q) \in Onward(rows[q])
  BY <1>0, <1>1, <1>4, <1>6, GoingOn DEF PhasesTypeOK
<1>8. RowsGoOn /\ rows'[q] = Becomes(o, q) /\ \A p \in Plan : p # q => rows'[p] = rows[p]
  BY <1>0, <1>1, <1>6, <1>7, GoingOn DEF RowsGoOn, PhasesTypeOK
<1>9. Written(d) \in [Plan -> PhaseStates]
  BY <1>3, <1>4 DEF Written
<1>10. Tail(ops[d]) \in Seq(Operations) /\ Len(Tail(ops[d])) = Len(ops[d]) - 1
  BY <1>0, <1>1 DEF PhasesTypeOK
<1>11. PhasesTypeOK'
  <2>1. rows' \in [Plan -> PhaseStates] /\ left' \in [Deliveries -> SUBSET Plan]
    BY <1>0, <1>1, <1>4, <1>5, <1>7 DEF PhasesTypeOK
  <2>2. mem' \in [Deliveries -> [Plan -> PhaseStates]] /\ ops' \in [Deliveries -> Seq(Operations)]
    BY <1>0, <1>2, <1>9, <1>10 DEF PhasesTypeOK
  <2> QED BY <1>0, <1>1, <2>1, <2>2 DEF PhasesTypeOK
<1>12. PublicationWaits'
  <2>0. Written(d)[Publication] = mem[d][Publication]
    BY <1>4, PlanShape DEF Written
  <2>1. \A e \in Deliveries : mem'[e][Publication] = mem[e][Publication]
    BY <1>0, <1>2, <2>0 DEF PhasesTypeOK
  <2> QED BY <1>1, <1>6, <1>8, <2>1, PlanShape DEF Inductive, PublicationWaits
<1>13. ASSUME NEW p \in Plan, NEW x \in PhaseStates, rows[p] \in Onward(x)
       PROVE  rows'[p] \in Onward(x)
  BY <1>8, <1>13, GoingOn DEF RowsGoOn
<1>14. LedgerBehindRows'
  <2> SUFFICES ASSUME NEW e \in Deliveries, NEW p \in Plan PROVE rows'[p] \in Onward(mem'[e][p])
    BY DEF LedgerBehindRows
  <2>1. CASE mem'[e][p] = mem[e][p]
    <3>1. rows[p] \in Onward(mem[e][p]) /\ mem[e][p] \in PhaseStates
      BY <1>0 DEF Inductive, WritesAreKept, LedgerBehindRows, PhasesTypeOK
    <3> QED BY <2>1, <3>1, <1>13
  <2>2. CASE mem'[e][p] # mem[e][p]
    <3>1. e = d /\ whole /\ p \in b /\ mem'[e][p] = Becomes(o, p)
      BY <2>2, <1>0, <1>2, <1>9 DEF Written, PhasesTypeOK
    <3>2. CASE p = q
      BY <3>1, <3>2, <1>7, <1>8, GoingOn
    <3>3. CASE p # q
      <4>1. rows[p] \in Onward(Becomes(o, p))
        BY <3>1, <3>3, <1>5
      <4> QED BY <3>1, <4>1, <1>4, <1>13
    <3> QED BY <3>2, <3>3
  <2> QED BY <2>1, <2>2
<1>15. ASSUME NEW e \in Deliveries, left'[e] # {} PROVE HalfWritten(e)'
  <2>1. CASE e = d
    <3>1. ~whole /\ left'[d] = Todo(d) \ {q}
      BY <1>0, <1>1, <1>15, <2>1 DEF PhasesTypeOK
    <3>2. UNCHANGED <<mem, ops>>
      BY <1>2, <3>1
    <3>3. \A p \in b \ left'[d] : rows'[p] \in Onward(Becomes(o, p))
      <4> SUFFICES ASSUME NEW p \in b \ left'[d] PROVE rows'[p] \in Onward(Becomes(o, p))
        OBVIOUS
      <4>1. CASE p = q
        BY <4>1, <1>7, <1>8, GoingOn
      <4>2. CASE p # q
        <5>1. rows[p] \in Onward(Becomes(o, p))
          BY <3>1, <4>2, <1>5
        <5> QED BY <5>1, <1>4, <1>13
      <4> QED BY <4>1, <4>2
    <3>4. ops'[d] = ops[d] /\ mem'[d] = mem[d] /\ left'[d] \subseteq b
      BY <3>1, <3>2, <1>5
    <3> QED BY <2>1, <3>3, <3>4, <1>1 DEF HalfWritten
  <2>2. CASE e # d
    <3>1. left'[e] = left[e] /\ ops'[e] = ops[e] /\ mem'[e] = mem[e]
      BY <1>0, <1>1, <1>2, <2>2 DEF PhasesTypeOK
    <3>2. HalfWritten(e) /\ Head(ops[e]) \in Operations
      BY <1>0, <1>15, <3>1, AfterTheFirst DEF Inductive, WritesAreKept, HalfWritten, PhasesTypeOK
    <3>3. /\ Batch(mem[e], Head(ops[e])) \subseteq Plan
          /\ \A p \in Batch(mem[e], Head(ops[e])) : Becomes(Head(ops[e]), p) \in PhaseStates
      BY <1>0, <3>2, BatchShape DEF PhasesTypeOK
    <3>4. \A p \in Batch(mem[e], Head(ops[e])) \ left[e] :
            rows'[p] \in Onward(Becomes(Head(ops[e]), p))
      BY <3>2, <3>3, <1>13 DEF HalfWritten
    <3> QED BY <3>1, <3>2, <3>4 DEF HalfWritten
  <2> QED BY <2>1, <2>2
<1>16. Placed'
  <2>1. \A e \in Deliveries : e # d => ops'[e] = ops[e]
    BY <1>0, <1>2 DEF PhasesTypeOK
  <2>2. pc[d] \notin {"new", "load"}
    BY <1>1 DEF Inductive, Placed
  <2> QED BY <1>1, <2>1, <2>2 DEF Inductive, Placed
<1>17. \A e \in Deliveries : Handed(e) => Handed(e)'
  BY <1>1, <1>8, <1>11, HandedStays DEF Handed
<1>18. ASSUME NEW e \in Deliveries, pc[e] = "publish"
       PROVE  IF ops'[e] = <<>> THEN StoredAll(e)' => NothingPending(mem[e])'
              ELSE ops'[e][Len(ops'[e])] = SkipUpTo(Publication)
  <2>1. CASE e # d
    <3>1. ops'[e] = ops[e] /\ mem'[e] = mem[e]
      BY <1>0, <1>2, <2>1 DEF PhasesTypeOK
    <3> QED BY <1>1, <1>18, <3>1 DEF Inductive, HandedOver, StoredAll, NothingPending
  <2>2. CASE e = d
    <3>1. ops[d][Len(ops[d])] = SkipUpTo(Publication)
      BY <1>1, <1>18, <2>2 DEF Inductive, HandedOver
    <3>2. CASE ops'[d] = ops[d]
      BY <2>2, <3>1, <3>2, <1>1
    <3>3. CASE ops'[d] # ops[d]
      <4>1. ops'[d] = Tail(ops[d]) /\ o.to # "rest"
        BY <1>0, <1>2, <3>3 DEF PhasesTypeOK
      <4>2. Len(ops[d]) # 1
        <5>1. Head(ops[d]) = ops[d][1]
          BY <1>0, <1>1 DEF PhasesTypeOK
        <5> QED BY <3>1, <4>1, <5>1 DEF SkipUpTo, To
      <4>3. Tail(ops[d]) # <<>> /\ Tail(ops[d])[Len(Tail(ops[d]))] = ops[d][Len(ops[d])]
        BY <1>0, <1>1, <4>2, AfterTheFirst DEF PhasesTypeOK
      <4> QED BY <2>2, <3>1, <4>1, <4>3
    <3> QED BY <3>2, <3>3
  <2> QED BY <2>1, <2>2
<1>19. HandedOver'
  <2>1. staged' # 0 => Handed(staged)'
    BY <1>0, <1>1, <1>17 DEF Inductive, HandedOver, PhasesTypeOK
  <2>2. published = 0 /\ published' = 0
    BY <1>1 DEF Inductive, HandedOver
  <2>3. \A e \in Deliveries : pc'[e] = "staged" => source'[e] # 0 /\ Handed(source[e])'
    BY <1>0, <1>1, <1>17 DEF Inductive, HandedOver, PhasesTypeOK
  <2> QED BY <1>1, <1>18, <2>1, <2>2, <2>3 DEF HandedOver
<1> QED BY <1>11, <1>12, <1>14, <1>15, <1>16, <1>19 DEF Inductive, WritesAreKept

(* Settling the run moves the row of the publication on from pending.      *)
LEMMA SettlingGoesOn ==
  ASSUME Inductive, open, NEW to \in {"completed", "failed"}, Settle(to)
  PROVE  /\ RowsGoOn /\ rows' \in [Plan -> PhaseStates] /\ rows'[Publication] = to
         /\ open' = FALSE /\ staged' = 0
<1>1. rows \in [Plan -> PhaseStates] /\ rows[Publication] = "pending" /\ to \in PhaseStates
  BY DEF Inductive, PhasesTypeOK, PublicationWaits, PhaseStates, Terminal
<1>2. rows' = [rows EXCEPT ![Publication] = to] /\ open' = FALSE /\ staged' = 0
  BY DEF Settle
<1> QED BY <1>1, <1>2, GoingOn, PlanShape DEF RowsGoOn

(* What the ledgers hold stays behind rows that go on.                     *)
LEMMA LedgersStayBehind ==
  ASSUME Inductive, RowsGoOn,
         \A e \in Deliveries : /\ mem'[e] = mem[e] \/ mem'[e] = Unstarted
                               /\ left'[e] = {} \/ (left'[e] = left[e] /\ ops'[e] = ops[e]
                                                    /\ mem'[e] = mem[e]),
         rows' \in [Plan -> PhaseStates]
  PROVE  WritesAreKept'
<1>0. PhasesTypeOK
  BY DEF Inductive
<1>1. ASSUME NEW p \in Plan, NEW x \in PhaseStates, rows[p] \in Onward(x)
      PROVE  rows'[p] \in Onward(x)
  BY <1>1, GoingOn DEF RowsGoOn
<1>2. LedgerBehindRows'
  <2> SUFFICES ASSUME NEW e \in Deliveries, NEW p \in Plan PROVE rows'[p] \in Onward(mem'[e][p])
    BY DEF LedgerBehindRows
  <2>1. rows[p] \in Onward(mem[e][p]) /\ mem[e][p] \in PhaseStates
    BY <1>0 DEF Inductive, WritesAreKept, LedgerBehindRows, PhasesTypeOK
  <2>2. CASE mem'[e] = mem[e]
    BY <2>1, <2>2, <1>1
  <2>3. CASE mem'[e] = Unstarted
    BY <2>3, GoingOn DEF Unstarted
  <2> QED BY <2>2, <2>3
<1>3. ASSUME NEW e \in Deliveries, left'[e] # {} PROVE HalfWritten(e)'
  <2>1. left'[e] = left[e] /\ ops'[e] = ops[e] /\ mem'[e] = mem[e]
    BY <1>3
  <2>2. HalfWritten(e) /\ Head(ops[e]) \in Operations
    BY <1>0, <1>3, <2>1, AfterTheFirst DEF Inductive, WritesAreKept, HalfWritten, PhasesTypeOK
  <2>3. /\ Batch(mem[e], Head(ops[e])) \subseteq Plan
        /\ \A p \in Batch(mem[e], Head(ops[e])) : Becomes(Head(ops[e]), p) \in PhaseStates
    BY <1>0, <2>2, BatchShape DEF PhasesTypeOK
  <2>4. \A p \in Batch(mem[e], Head(ops[e])) \ left[e] :
          rows'[p] \in Onward(Becomes(Head(ops[e]), p))
    BY <2>2, <2>3, <1>1 DEF HalfWritten
  <2> QED BY <2>1, <2>2, <2>4 DEF HalfWritten
<1> QED BY <1>2, <1>3 DEF WritesAreKept

(* An attempt that is over leaves what was handed over, and its rows.      *)
LEMMA GoneKeeps ==
  ASSUME Inductive, NEW d \in Deliveries, Gone(d), RowsGoOn, PublicationWaits',
         rows' \in [Plan -> PhaseStates], open' \in BOOLEAN, mishaps' \in 0..MaxMishaps,
         staged' \in Deliveries \cup {0}, published' \in Deliveries \cup {0},
         staged' # 0 => Handed(staged'),
         published' # 0 => Handed(published') /\ ~open' /\ rows'[Publication] # "pending"
  PROVE  Inductive'
<1>0. PhasesTypeOK
  BY DEF Inductive
<1>1. Unstarted \in [Plan -> PhaseStates] /\ 0 \in 0..(Publication - 1) /\ "over" \in Steps
  BY PlanShape DEF Unstarted, PhaseStates, Steps
<1>2. PhasesTypeOK'
  BY <1>0, <1>1 DEF Gone, PhasesTypeOK
<1>3. \A e \in Deliveries :
        IF e = d THEN pc'[e] = "over" /\ ops'[e] = <<>> /\ left'[e] = {} /\ mem'[e] = Unstarted
        ELSE pc'[e] = pc[e] /\ cur'[e] = cur[e] /\ ops'[e] = ops[e] /\ left'[e] = left[e]
             /\ mem'[e] = mem[e]
  BY <1>0 DEF Gone, PhasesTypeOK
<1>4. WritesAreKept'
  BY <1>2, <1>3, LedgersStayBehind DEF PhasesTypeOK
<1>5. UNCHANGED <<source, has, missed>>
  BY DEF Gone
<1>6. Placed'
  BY <1>3, <1>5 DEF Inductive, Placed, Collects
<1>7. \A e \in Deliveries : Handed(e) => Handed(e)'
  <2> SUFFICES ASSUME NEW e \in Deliveries, Handed(e) PROVE Handed(e)'
    OBVIOUS
  <2>1. pc'[e] \notin {"new", "load"}
    BY <1>3 DEF Handed
  <2> QED BY <2>1, <1>2, <1>5, HandedStays
<1>8. \A e \in Deliveries : pc'[e] = "staged" => source'[e] # 0 /\ Handed(source[e])'
  BY <1>0, <1>3, <1>5, <1>7 DEF Inductive, HandedOver, PhasesTypeOK
<1>9. \A e \in Deliveries : pc'[e] = "publish" =>
        IF ops'[e] = <<>> THEN StoredAll(e)' => NothingPending(mem[e])'
        ELSE ops'[e][Len(ops'[e])] = SkipUpTo(Publication)
  BY <1>3, <1>5 DEF Inductive, HandedOver, StoredAll, NothingPending
<1>10. HandedOver'
  <2>1. staged' # 0 => Handed(staged)'
    BY <1>7 DEF Handed, StoredAll
  <2>2. published' # 0 => Handed(published)'
    BY <1>7 DEF Handed, StoredAll
  <2> QED BY <1>5, <1>8, <1>9, <2>1, <2>2 DEF HandedOver
<1> QED BY <1>2, <1>4, <1>6, <1>10 DEF Inductive

(* A step of delivery d that leaves all rows and ledgers but, at its load, *)
(* its own.                                                                *)
LEMMA ClaimingKeeps ==
  ASSUME Inductive, NEW d \in Deliveries, ClaimRun(d)
  PROVE  Inductive'
<1>0. PhasesTypeOK
  BY DEF Inductive
<1> DEFINE to == IF staged = 0 THEN "load" ELSE "staged"
           from == IF staged = 0 THEN d ELSE staged
<1>1. /\ pc[d] = "new" /\ pc' = [pc EXCEPT ![d] = to]
      /\ source' = [source EXCEPT ![d] = from] /\ from \in Deliveries
      /\ UNCHANGED <<shared, mishaps, cur, ledger>>
  BY <1>0 DEF ClaimRun, Turns, PhasesTypeOK
<1>2. PhasesTypeOK'
  BY <1>0, <1>1 DEF PhasesTypeOK, Steps, shared, ledger
<1>3. PublicationWaits' /\ WritesAreKept'
  BY <1>1 DEF Inductive, PublicationWaits, WritesAreKept, LedgerBehindRows, HalfWritten, shared, ledger
<1>4. Placed'
  BY <1>0, <1>1 DEF Inductive, Placed, PhasesTypeOK, Collects, ledger
<1>5. \A e \in Deliveries : Handed(e) => Handed(e)' /\ e # d
  BY <1>0, <1>1 DEF Handed, StoredAll, PhasesTypeOK, shared, ledger
<1>6. ASSUME NEW e \in Deliveries, pc'[e] = "staged"
      PROVE  source'[e] # 0 /\ Handed(source[e])'
  <2>1. CASE e = d
    <3>1. staged # 0 /\ source'[d] = staged /\ Handed(staged)
      BY <1>0, <1>1, <1>6, <2>1 DEF Inductive, HandedOver, PhasesTypeOK
    <3> QED BY <1>0, <2>1, <3>1, <1>5 DEF PhasesTypeOK
  <2>2. CASE e # d
    BY <1>0, <1>1, <1>5, <1>6, <2>2 DEF Inductive, HandedOver, PhasesTypeOK
  <2> QED BY <2>1, <2>2
<1>7. \A e \in Deliveries : pc'[e] = "publish" => pc[e] = "publish"
  BY <1>0, <1>1 DEF PhasesTypeOK
<1>8. HandedOver'
  BY <1>0, <1>1, <1>5, <1>6, <1>7 DEF Inductive, HandedOver, StoredAll, PhasesTypeOK, shared, ledger
<1> QED BY <1>2, <1>3, <1>4, <1>8 DEF Inductive

LEMMA LoadingKeeps ==
  ASSUME Inductive, NEW d \in Deliveries, Load(d)
  PROVE  Inductive'
<1>0. PhasesTypeOK
  BY DEF Inductive
<1>1. PICK loaded \in BOOLEAN :
        /\ has' = [has EXCEPT ![d] = loaded]
        /\ IF loaded THEN mem' = [mem EXCEPT ![d] = rows] /\ UNCHANGED mishaps
           ELSE Mishap /\ UNCHANGED mem
  BY DEF Load
<1>2. /\ pc[d] = "load" /\ pc' = [pc EXCEPT ![d] = "identity"]
      /\ UNCHANGED <<shared, source, cur, ops, left, missed>>
  BY DEF Load, Turns
<1>3. mishaps' \in 0..MaxMishaps
  BY <1>0, <1>1, PhaseAssumption DEF Mishap, PhasesTypeOK
<1>4. \A e \in Deliveries : mem'[e] = mem[e] \/ (e = d /\ mem'[e] = rows)
  BY <1>0, <1>1 DEF PhasesTypeOK
<1>5. PhasesTypeOK'
  BY <1>0, <1>1, <1>2, <1>3 DEF PhasesTypeOK, Steps, shared
<1>6. PublicationWaits'
  BY <1>2, <1>4 DEF Inductive, PublicationWaits, shared
<1>7. ops[d] = <<>> /\ left[d] = {}
  BY <1>2 DEF Inductive, Placed, WritesAreKept, HalfWritten
<1>8. WritesAreKept'
  <2>1. LedgerBehindRows'
    <3> SUFFICES ASSUME NEW e \in Deliveries, NEW p \in Plan PROVE rows[p] \in Onward(mem'[e][p])
      BY <1>2 DEF LedgerBehindRows, shared
    <3>1. rows[p] \in Onward(rows[p]) /\ rows[p] \in Onward(mem[e][p])
      BY <1>0, GoingOn DEF Inductive, WritesAreKept, LedgerBehindRows, PhasesTypeOK
    <3> QED BY <3>1, <1>4
  <2>2. \A e \in Deliveries : left'[e] # {} => HalfWritten(e)'
    <3> SUFFICES ASSUME NEW e \in Deliveries, left'[e] # {} PROVE HalfWritten(e)'
      OBVIOUS
    <3>1. e # d /\ mem'[e] = mem[e] /\ HalfWritten(e)
      BY <1>0, <1>1, <1>2, <1>7 DEF Inductive, WritesAreKept, PhasesTypeOK
    <3> QED BY <1>2, <3>1 DEF HalfWritten, shared
  <2> QED BY <2>1, <2>2 DEF WritesAreKept
<1>9. Placed'
  BY <1>0, <1>2 DEF Inductive, Placed, PhasesTypeOK, Collects
<1>10. \A e \in Deliveries : Handed(e) => Handed(e)'
  BY <1>0, <1>1, <1>2 DEF Handed, StoredAll, PhasesTypeOK, shared
<1>11. \A e \in Deliveries : pc'[e] \in {"staged", "publish"} =>
         pc[e] = pc'[e] /\ e # d /\ mem'[e] = mem[e] /\ has'[e] = has[e]
  BY <1>0, <1>1, <1>2 DEF PhasesTypeOK
<1>12. HandedOver'
  <2>1. \A e \in Deliveries : pc'[e] = "staged" => source'[e] # 0 /\ Handed(source[e])'
    BY <1>0, <1>2, <1>10, <1>11 DEF Inductive, HandedOver, PhasesTypeOK
  <2>2. \A e \in Deliveries : pc'[e] = "publish" =>
          IF ops'[e] = <<>> THEN StoredAll(e)' => NothingPending(mem[e])'
          ELSE ops'[e][Len(ops'[e])] = SkipUpTo(Publication)
    BY <1>2, <1>11 DEF Inductive, HandedOver, StoredAll, NothingPending
  <2>3. staged' # 0 => Handed(staged)'
    BY <1>0, <1>2, <1>10 DEF Inductive, HandedOver, PhasesTypeOK, shared
  <2>4. published' # 0 => Handed(published)' /\ ~open' /\ rows'[Publication] # "pending"
    BY <1>0, <1>2, <1>10 DEF Inductive, HandedOver, PhasesTypeOK, shared
  <2> QED BY <2>1, <2>2, <2>3, <2>4 DEF HandedOver
<1> QED BY <1>5, <1>6, <1>8, <1>9, <1>12 DEF Inductive

LEMMA StagingKeeps ==
  ASSUME Inductive, NEW d \in Deliveries, StageRun(d)
  PROVE  Inductive'
<1>0. PhasesTypeOK
  BY DEF Inductive
<1>1. /\ pc[d] = "publish" /\ pc' = [pc EXCEPT ![d] = "staged"] /\ ops[d] = <<>> /\ open
      /\ staged' = d /\ UNCHANGED <<rows, open, published, mishaps, source, cur, ledger>>
  BY DEF StageRun, Turns
<1>2. PhasesTypeOK' /\ PublicationWaits' /\ WritesAreKept' /\ Placed'
  BY <1>0, <1>1
     DEF Inductive, PhasesTypeOK, Steps, PublicationWaits, WritesAreKept, LedgerBehindRows,
         HalfWritten, Placed, Collects, ledger
<1>3. StoredAll(d) => NothingPending(rows)
  <2> SUFFICES ASSUME StoredAll(d), NEW p \in Plan \ {Publication} PROVE rows[p] # "pending"
    BY DEF NothingPending
  <2>1. mem[d][p] \in PhaseStates \ {"pending"} /\ rows[p] \in Onward(mem[d][p])
    BY <1>0, <1>1 DEF Inductive, HandedOver, NothingPending, WritesAreKept, LedgerBehindRows,
                      PhasesTypeOK
  <2> QED BY <2>1, GoingOn
<1>4. Handed(d)' /\ \A e \in Deliveries : Handed(e) => Handed(e)'
  BY <1>0, <1>1, <1>3 DEF Handed, StoredAll, PhasesTypeOK, ledger
<1>5. source[d] = d
  BY <1>1 DEF Inductive, Placed, Collects
<1>6. \A e \in Deliveries : /\ pc'[e] = "staged" => e = d \/ pc[e] = "staged"
                            /\ pc'[e] = "publish" => pc[e] = "publish"
  BY <1>0, <1>1 DEF PhasesTypeOK
<1>7. \A e \in Deliveries : pc'[e] = "staged" => source'[e] # 0 /\ Handed(source[e])'
  BY <1>0, <1>1, <1>4, <1>5, <1>6 DEF Inductive, HandedOver, PhasesTypeOK, Deliveries
<1>8. HandedOver'
  BY <1>0, <1>1, <1>4, <1>6, <1>7 DEF Inductive, HandedOver, StoredAll, PhasesTypeOK, ledger
<1> QED BY <1>2, <1>8 DEF Inductive

LEMMA RecoveringKeeps ==
  ASSUME Inductive, RecoverRun
  PROVE  Inductive'
<1>0. PhasesTypeOK
  BY DEF Inductive
<1>1. open /\ UNCHANGED <<mishaps, pc, source, cur, ledger>>
  BY DEF RecoverRun
<1>2. PICK to \in {"completed", "failed"} : Settle(to)
  BY DEF RecoverRun
<1>3. published' \in {0, staged}
  BY DEF RecoverRun
<1>4. /\ RowsGoOn /\ rows' \in [Plan -> PhaseStates] /\ rows'[Publication] = to
      /\ open' = FALSE /\ staged' = 0
  BY <1>1, <1>2, SettlingGoesOn
<1>5. PhasesTypeOK'
  BY <1>0, <1>1, <1>3, <1>4 DEF PhasesTypeOK, ledger
<1>6. PublicationWaits'
  BY <1>1, <1>4 DEF Inductive, PublicationWaits, PublicationStates, ledger
<1>7. WritesAreKept'
  BY <1>1, <1>4, LedgersStayBehind DEF ledger
<1>8. Placed'
  BY <1>1 DEF Inductive, Placed, ledger
<1>9. \A e \in Deliveries : Handed(e) => Handed(e)'
  BY <1>1, <1>4, <1>5, HandedStays DEF Handed, ledger
<1>10. \A e \in Deliveries : pc'[e] = "staged" => source'[e] # 0 /\ Handed(source[e])'
  BY <1>0, <1>1, <1>9 DEF Inductive, HandedOver, PhasesTypeOK
<1>11. published' # 0 => Handed(published)' /\ ~open' /\ rows'[Publication] # "pending"
  <2>1. published' # 0 => published' \in Deliveries /\ Handed(published')
    BY <1>0, <1>3 DEF Inductive, HandedOver, PhasesTypeOK
  <2> QED BY <2>1, <1>4, <1>9 DEF Handed, StoredAll
<1>12. HandedOver'
  BY <1>1, <1>4, <1>10, <1>11 DEF Inductive, HandedOver, StoredAll, ledger
<1> QED BY <1>5, <1>6, <1>7, <1>8, <1>12 DEF Inductive

(* At first no delivery was claimed and every phase is to come.            *)
LEMMA PhasesInitInductive == PhasesInit => Inductive
<1> SUFFICES ASSUME PhasesInit PROVE Inductive
  OBVIOUS
<1>1. PhasesTypeOK
  BY PlanShape, PhaseAssumption DEF PhasesInit, PhasesTypeOK, Unstarted, PhaseStates, Steps
<1>2. PublicationWaits
  BY PlanShape DEF PhasesInit, PublicationWaits, Unstarted, PublicationStates
<1>3. WritesAreKept
  BY GoingOn DEF PhasesInit, WritesAreKept, LedgerBehindRows, Unstarted, PhaseStates
<1>4. Placed /\ HandedOver
  BY DEF PhasesInit, Placed, HandedOver, Collects
<1> QED BY <1>1, <1>2, <1>3, <1>4 DEF Inductive

(* What the handler asks of a ledger are operations, and what it asks      *)
(* before it publishes ends with skipping all that is left.                *)
LEMMA AskedOperations ==
  /\ \A p \in Plan \ {Publication}, to \in PhaseStates \ {"pending"} : To(p, to) \in Operations
  /\ \A p \in Plan : SkipUpTo(p) \in Operations
  /\ {"active", "skipped", "completed", "limited", "failed", "cancelled"}
       \subseteq PhaseStates \ {"pending"}
BY DEF To, SkipUpTo, Operations, PhaseStates, Terminal

(* Every step of every attempt, and of the sweep, keeps the invariant.     *)
LEMMA PhasesStepInductive ==
  ASSUME Inductive, [PhasesNext]_phasesVars
  PROVE  Inductive'
<1>0. PhasesTypeOK
  BY DEF Inductive
<1>m. Mishap => mishaps' \in 0..MaxMishaps
  BY <1>0, PhaseAssumption DEF Mishap, PhasesTypeOK
<1>a. /\ \A e \in Deliveries, o \in Operations : <<>> \in Seq(Operations) /\ <<o>> \in Seq(Operations)
      /\ \A o, u \in Operations : <<o, u>> \in Seq(Operations)
  OBVIOUS
<1>s. ASSUME NEW d \in Deliveries, NEW to \in Endings(cur[d]), NEW o \in Operations
      PROVE  /\ SettleAnd(d, to, o) \in Seq(Operations) /\ SettleAnd(d, to, o) # <<>>
             /\ SettleAnd(d, to, o)[Len(SettleAnd(d, to, o))] = o
  <2>0. to \in PhaseStates \ {"pending"}
    BY AskedOperations DEF Endings
  <2>1. cur[d] # 0 => To(cur[d], to) \in Operations
    <3>1. cur[d] # 0 => cur[d] \in Plan \ {Publication}
      BY <1>0, PlanShape, PhaseAssumption DEF PhasesTypeOK, Publication
    <3> QED BY <2>0, <3>1, AskedOperations
  <2> QED BY <2>1, <1>a DEF SettleAnd
<1>e. ASSUME NEW d \in Deliveries, NEW to \in {"failed", "cancelled"}
      PROVE  EndActive(d, to) \in Seq(Operations)
  <2> DEFINE active == {p \in Plan : mem[d][p] = "active"}
  <2>1. Publication \notin active
    BY DEF Inductive, PublicationWaits, PublicationStates
  <2>2. active # {} => First(active) \in Plan \ {Publication}
    BY <2>1, FirstOfSome
  <2> QED BY <2>2, <1>a, AskedOperations DEF EndActive
<1>c. \A d \in Deliveries : /\ cur[d] \in 0..(Publication - 1)
                            /\ cur = [cur EXCEPT ![d] = cur[d]]
  BY <1>0 DEF PhasesTypeOK
<1>k. ASSUME NEW d \in Deliveries, NEW q \in Seq(Operations), Ask(d, q), UNCHANGED source,
             NEW from \in Steps, NEW to \in {"resolve", "begin", "scan", "providers", "provider"},
             Turns(d, from, to), from \in Collects,
             NEW c \in 0..(Publication - 1), cur' = [cur EXCEPT ![d] = c],
             to = "provider" => c # 0
      PROVE  Inductive'
  <2>1. to \in Steps \ {"new", "load", "staged"} /\ to # "publish"
    BY <1>k DEF Steps
  <2> QED BY <1>k, <2>1, AskingKeeps
<1>1. CASE RecoverRun
  BY <1>1, RecoveringKeeps
<1>2. ASSUME NEW d \in Deliveries, WriteRow(d) PROVE Inductive'
  BY <1>2, WritingKeeps
<1>3. ASSUME NEW d \in Deliveries, LoseRow(d) PROVE Inductive'
  <2>1. mishaps' \in 0..MaxMishaps
    BY <1>0, <1>3, <1>m DEF LoseRow, PhasesTypeOK
  <2> QED BY <1>3, <2>1, EndingKeeps DEF LoseRow
<1>4. ASSUME NEW d \in Deliveries, EndOperation(d) PROVE Inductive'
  <2>1. left[d] = {} /\ Batch(mem[d], Head(ops[d])) = {}
    BY <1>4 DEF EndOperation, Todo
  <2>2. left' = [left EXCEPT ![d] = {}] /\ mishaps' \in 0..MaxMishaps
    BY <1>0, <1>4, <2>1 DEF EndOperation, PhasesTypeOK
  <2> QED BY <1>4, <2>1, <2>2, EndingKeeps DEF EndOperation
<1>5. ASSUME NEW d \in Deliveries, ClaimRun(d) PROVE Inductive'
  BY <1>5, ClaimingKeeps
<1>6. ASSUME NEW d \in Deliveries, Load(d) PROVE Inductive'
  BY <1>6, LoadingKeeps
<1>7. ASSUME NEW d \in Deliveries, EnterIdentity(d) PROVE Inductive'
  <2>1. PICK to \in {"active", "skipped"}, next \in {"resolve", "begin"} :
          Turns(d, "identity", next) /\ Ask(d, <<To(Identity, to)>>)
    BY <1>7 DEF EnterIdentity
  <2>2. UNCHANGED <<source, cur>>
    BY <1>7 DEF EnterIdentity
  <2>3. <<To(Identity, to)>> \in Seq(Operations)
    BY PlanShape, AskedOperations, <1>a
  <2>4. "identity" \in Steps /\ "identity" \in Collects
    BY DEF Steps, Collects
  <2>5. PICK c \in 0..(Publication - 1) : cur' = [cur EXCEPT ![d] = c]
    BY <2>2, <1>c
  <2>6. \/ Turns(d, "identity", "resolve")
        \/ Turns(d, "identity", "begin")
    BY <2>1
  <2>7. PICK q \in Seq(Operations) : Ask(d, q)
    BY <2>1, <2>3
  <2>8. UNCHANGED source
    BY <2>2
  <2> QED BY <2>4, <2>5, <2>6, <2>7, <2>8, <1>k
<1>8. ASSUME NEW d \in Deliveries, ResolveIdentity(d) PROVE Inductive'
  <2>1. PICK to \in Endings(Identity) : Ask(d, <<To(Identity, to)>>)
    BY <1>8 DEF ResolveIdentity
  <2>2. Turns(d, "resolve", "begin") /\ UNCHANGED <<source, cur>>
    BY <1>8 DEF ResolveIdentity
  <2>3. <<To(Identity, to)>> \in Seq(Operations)
    BY PlanShape, AskedOperations, <1>a DEF Endings
  <2>4. "resolve" \in Steps /\ "resolve" \in Collects
    BY DEF Steps, Collects
  <2> QED BY <2>1, <2>2, <2>3, <2>4, <1>c, <1>k
<1>9. ASSUME NEW d \in Deliveries, BeginScan(d) PROVE Inductive'
  <2>1. /\ <<To(History, "active")>> \in Seq(Operations)
        /\ <<To(History, "skipped"), To(TierBests, "skipped")>> \in Seq(Operations)
    BY PlanShape, AskedOperations, <1>a
  <2>2. PICK q \in Seq(Operations), c \in 0..(Publication - 1) :
          Ask(d, q) /\ cur' = [cur EXCEPT ![d] = c]
    <3>1. History \in 0..(Publication - 1)
      BY PlanShape
    <3> QED BY <1>9, <2>1, <3>1, <1>c DEF BeginScan
  <2>3. Turns(d, "begin", "scan") /\ UNCHANGED source
    BY <1>9 DEF BeginScan
  <2>4. "begin" \in Steps /\ "begin" \in Collects
    BY DEF Steps, Collects
  <2> QED BY <2>2, <2>3, <2>4, <1>k
<1>10. ASSUME NEW d \in Deliveries, NEW p \in ScanPhases, Observe(d, p) PROVE Inductive'
  <2>1. PICK to \in Endings(cur[d]) : Ask(d, SettleAnd(d, to, To(p, "active")))
    BY <1>10 DEF Observe
  <2>2. Turns(d, "scan", "scan") /\ cur' = [cur EXCEPT ![d] = p] /\ UNCHANGED source
    BY <1>10 DEF Observe
  <2>3. SettleAnd(d, to, To(p, "active")) \in Seq(Operations) /\ p \in 0..(Publication - 1)
    BY <1>s, PlanShape, AskedOperations
  <2>4. "scan" \in Steps /\ "scan" \in Collects
    BY DEF Steps, Collects
  <2> QED BY <2>1, <2>2, <2>3, <2>4, <1>k
<1>11. ASSUME NEW d \in Deliveries, EndScan(d) PROVE Inductive'
  <2>1. PICK to \in Endings(cur[d]), p \in {Scans + 2, Publication},
             next \in {"publish", "providers"} :
          /\ Turns(d, "scan", next) /\ Ask(d, SettleAnd(d, to, SkipUpTo(p)))
          /\ next = "publish" => p = Publication
    BY <1>11 DEF EndScan
  <2>2. cur' = [cur EXCEPT ![d] = Scans + 1] /\ UNCHANGED source
    BY <1>11 DEF EndScan
  <2>3. SkipUpTo(p) \in Operations /\ Scans + 1 \in 0..(Publication - 1)
    BY PlanShape, AskedOperations
  <2>4. LET q == SettleAnd(d, to, SkipUpTo(p))
        IN  q \in Seq(Operations) /\ q # <<>> /\ q[Len(q)] = SkipUpTo(p)
    BY <2>3, <1>s
  <2> QED BY <2>1, <2>2, <2>3, <2>4, AskingKeeps DEF Steps, Collects
<1>12. ASSUME NEW d \in Deliveries, NEW p \in OtherPhases, EnterProvider(d, p) PROVE Inductive'
  <2>1. PICK to \in {"active", "skipped"}, next \in {"provider", "providers"} :
          Turns(d, "providers", next) /\ Ask(d, <<To(p, to)>>)
    BY <1>12 DEF EnterProvider
  <2>2. cur' = [cur EXCEPT ![d] = p] /\ UNCHANGED source
    BY <1>12 DEF EnterProvider
  <2>3. <<To(p, to)>> \in Seq(Operations) /\ p \in 0..(Publication - 1) /\ p # 0
    BY PlanShape, AskedOperations, <1>a
  <2>4. "providers" \in Steps /\ "providers" \in Collects
    BY DEF Steps, Collects
  <2> QED BY <2>1, <2>2, <2>3, <2>4, <1>k
<1>13. ASSUME NEW d \in Deliveries, LeaveProvider(d) PROVE Inductive'
  <2>1. PICK to \in Endings(cur[d]) : Ask(d, <<To(cur[d], to)>>)
    BY <1>13 DEF LeaveProvider
  <2>2. Turns(d, "provider", "providers") /\ UNCHANGED <<source, cur>>
    BY <1>13 DEF LeaveProvider
  <2>3. cur[d] # 0
    BY <2>2 DEF Inductive, Placed, Turns
  <2>4. <<To(cur[d], to)>> \in Seq(Operations)
    BY <2>3, <1>c, PlanShape, AskedOperations, <1>a DEF Endings
  <2>5. "provider" \in Steps /\ "provider" \in Collects
    BY DEF Steps, Collects
  <2> QED BY <2>1, <2>2, <2>4, <2>5, <1>c, <1>k
<1>14. ASSUME NEW d \in Deliveries, EndProviders(d) PROVE Inductive'
  <2>1. Turns(d, "providers", "publish") /\ Ask(d, <<SkipUpTo(Publication)>>) /\ UNCHANGED <<source, cur>>
    BY <1>14 DEF EndProviders
  <2> DEFINE q == <<SkipUpTo(Publication)>>
  <2>2. q \in Seq(Operations) /\ q # <<>> /\ q[Len(q)] = SkipUpTo(Publication)
    BY PlanShape, AskedOperations, <1>a
  <2>3. /\ "providers" \in Steps /\ "providers" \in Collects /\ "publish" # "provider"
        /\ "publish" \in Steps \ {"new", "load", "staged"}
    BY DEF Steps, Collects
  <2>4. PICK c \in 0..(Publication - 1) : cur' = [cur EXCEPT ![d] = c]
    BY <2>1, <1>c
  <2>5. Ask(d, q) /\ UNCHANGED source
    BY <2>1
  <2> HIDE DEF q
  <2> QED BY <2>1, <2>2, <2>3, <2>4, <2>5, AskingKeeps
<1>15. ASSUME NEW d \in Deliveries, StageRun(d) PROVE Inductive'
  BY <1>15, StagingKeeps
<1>16. ASSUME NEW d \in Deliveries, PublishRun(d) PROVE Inductive'
  <2>1. pc[d] = "staged" /\ open /\ Settle("completed") /\ published' = source[d] /\ Gone(d)
        /\ UNCHANGED mishaps
    BY <1>16 DEF PublishRun
  <2>2. source[d] \in Deliveries /\ Handed(source[d])
    BY <1>0, <2>1 DEF Inductive, HandedOver, PhasesTypeOK
  <2>3. /\ RowsGoOn /\ rows' \in [Plan -> PhaseStates] /\ rows'[Publication] = "completed"
        /\ open' = FALSE /\ staged' = 0
    BY <2>1, SettlingGoesOn
  <2>4. PublicationWaits'
    BY <1>0, <2>1, <2>3, PlanShape
       DEF Inductive, PublicationWaits, PublicationStates, Gone, Unstarted, PhasesTypeOK
  <2> QED BY <1>0, <2>1, <2>2, <2>3, <2>4, GoneKeeps DEF PhasesTypeOK
<1>17. ASSUME NEW d \in Deliveries, AttemptRetried(d) PROVE Inductive'
  <2>1. PICK from \in AtWork : Turns(d, from, "retry")
    BY <1>17 DEF AttemptRetried
  <2>2. PICK q \in Seq(Operations) : Ask(d, q)
    <3>1. EndActive(d, "cancelled") \in Seq(Operations) /\ <<>> \in Seq(Operations)
      BY <1>e
    <3> QED BY <1>17, <3>1 DEF AttemptRetried
  <2>3. UNCHANGED <<source, cur>>
    BY <1>17 DEF AttemptRetried
  <2> QED BY <2>1, <2>2, <2>3, <1>c, AskingKeeps DEF Steps, Collects, AtWork
<1>18. ASSUME NEW d \in Deliveries, AttemptStopped(d) PROVE Inductive'
  <2>1. PICK from \in AtWork : Turns(d, from, "stop")
    BY <1>18 DEF AttemptStopped
  <2>2. Ask(d, EndActive(d, "failed")) /\ UNCHANGED <<source, cur>>
    BY <1>18 DEF AttemptStopped
  <2> QED BY <2>1, <2>2, <1>e, <1>c, AskingKeeps DEF Steps, Collects, AtWork
<1>g. ASSUME NEW d \in Deliveries, Gone(d), UNCHANGED shared, mishaps' \in 0..MaxMishaps
      PROVE  Inductive'
  <2>1. RowsGoOn
    BY <1>g, SameRowsGoOn DEF shared
  <2>2. PublicationWaits'
    BY <1>0, <1>g, PlanShape
       DEF Inductive, PublicationWaits, PublicationStates, Gone, Unstarted, PhasesTypeOK, shared
  <2>3. /\ rows' \in [Plan -> PhaseStates] /\ open' \in BOOLEAN
        /\ staged' \in Deliveries \cup {0} /\ published' \in Deliveries \cup {0}
        /\ staged' # 0 => Handed(staged')
        /\ published' # 0 => Handed(published') /\ ~open' /\ rows'[Publication] # "pending"
    BY <1>0, <1>g DEF Inductive, HandedOver, PhasesTypeOK, shared
  <2> QED BY <1>g, <2>1, <2>2, <2>3, GoneKeeps
<1>19. ASSUME NEW d \in Deliveries, EndAttempt(d) PROVE Inductive'
  BY <1>0, <1>19, <1>g DEF EndAttempt, PhasesTypeOK
<1>20. ASSUME NEW d \in Deliveries, Lost(d) PROVE Inductive'
  BY <1>20, <1>g, <1>m DEF Lost
<1>21. ASSUME NEW d \in Deliveries, StopRun(d) PROVE Inductive'
  <2>1. Gone(d) /\ UNCHANGED <<published, mishaps>>
    BY <1>21 DEF StopRun
  <2>2. CASE open /\ Settle("failed")
    <3>1. /\ RowsGoOn /\ rows' \in [Plan -> PhaseStates] /\ rows'[Publication] = "failed"
          /\ open' = FALSE /\ staged' = 0
      BY <2>2, SettlingGoesOn
    <3>2. PublicationWaits'
      BY <1>0, <2>1, <3>1, PlanShape
         DEF Inductive, PublicationWaits, PublicationStates, Gone, Unstarted, PhasesTypeOK
    <3>3. published' = 0
      BY <2>1, <2>2 DEF Inductive, HandedOver
    <3> QED BY <1>0, <2>1, <3>1, <3>2, <3>3, GoneKeeps DEF PhasesTypeOK
  <2>3. CASE UNCHANGED <<rows, open, staged>>
    BY <1>0, <2>1, <2>3, <1>g DEF shared, PhasesTypeOK
  <2> QED BY <1>21, <2>2, <2>3 DEF StopRun
<1>22. CASE UNCHANGED phasesVars
  BY <1>22
     DEF phasesVars, shared, ledger, Inductive, PhasesTypeOK, PublicationWaits, WritesAreKept,
         LedgerBehindRows, HalfWritten, Placed, HandedOver, Handed, StoredAll, NothingPending
<1> QED
  BY <1>1, <1>2, <1>3, <1>4, <1>5, <1>6, <1>7, <1>8, <1>9, <1>10, <1>11, <1>12, <1>13, <1>14,
     <1>15, <1>16, <1>17, <1>18, <1>19, <1>20, <1>21, <1>22 DEF PhasesNext, DeliverySteps

(* The invariant holds throughout.                                         *)
LEMMA PhasesAlwaysInductive == PhasesSpec => []Inductive
<1>1. Inductive /\ [PhasesNext]_phasesVars => Inductive'
  BY PhasesStepInductive
<1> QED BY PhasesInitInductive, <1>1, PTL DEF PhasesSpec

(* A reader of a published run is shown no phase that is still to come,    *)
(* when the attempt that collected it had a ledger and lost no write of    *)
(* it: whatever other attempts, earlier ones still at work included, write *)
(* to the same rows and lose, and whoever publishes it (skipPending and    *)
(* skipPendingBefore of evidence-phase-ledger.ts).                         *)
THEOREM NothingIsShownPending == PhasesSpec => []PublishedShowsNothingPending
<1>1. Inductive => PublishedShowsNothingPending
  BY DEF Inductive, PhasesTypeOK, HandedOver, Handed, StoredAll, NothingPending,
         PublishedShowsNothingPending
<1> QED BY PhasesAlwaysInductive, <1>1, PTL

(* No ledger ever runs ahead of the rows: what an attempt holds of a phase *)
(* was stored, and the row has gone on from there by storable changes      *)
(* only, for any number of overlapping attempts and of writes that fail    *)
(* between two rows (transition, recordPhaseTransitions).                  *)
THEOREM LedgersStayBehindRows == PhasesSpec => []LedgerBehindRows
<1>1. Inductive => LedgerBehindRows
  BY DEF Inductive, WritesAreKept
<1> QED BY PhasesAlwaysInductive, <1>1, PTL
=============================================================================
