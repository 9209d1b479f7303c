----------------------- MODULE SearchAdmissionProofs -----------------------
(***************************************************************************)
(* Proofs about SearchAdmission, for every set of roots, callers, requests *)
(* and visits and every bound.                                             *)
(***************************************************************************)
EXTENDS SearchAdmission, FiniteSetTheorems, TLAPS

(* boss.send keeps the job table well formed and names a job of it.        *)
LEMMA SendType ==
  ASSUME NEW K, NEW q \in [JobIds -> Job(K)], NEW key \in K, CanSend(q, key)
  PROVE  /\ Send(q, key) \in [JobIds -> Job(K)]
         /\ SentJob(q, key) \in JobIds
<1>1. 1 \in 1..MaxAttempts
  BY JobQueueAssumption
<1>2. LiveJobs(q, key) = {} => NextJob(q) \in UnusedJobs(q)
  BY DEF CanSend, NextJob
<1>3. SentJob(q, key) \in JobIds
  BY <1>2 DEF SentJob, LiveJobs, UnusedJobs
<1>4. Send(q, key) \in [JobIds -> Job(K)]
  BY <1>1, <1>2 DEF Send, Job, JobStates, LiveJobStates, UnusedJobs
<1> QED BY <1>3, <1>4

(* A send changes no job that was ever sent.                               *)
LEMMA SendKeeps ==
  ASSUME NEW K, NEW q \in [JobIds -> Job(K)], NEW key \in K, CanSend(q, key),
         NEW j \in JobIds, q[j].state # "none"
  PROVE  Send(q, key)[j] = q[j]
<1>1. LiveJobs(q, key) = {} => NextJob(q) \in UnusedJobs(q)
  BY DEF CanSend, NextJob
<1> QED BY <1>1 DEF Send, UnusedJobs

(* Retrying, failing, delivering and completing a job keep the table well  *)
(* formed, its keys, and which jobs were ever sent.                        *)
LEMMA JobStepType ==
  ASSUME NEW K, NEW q \in [JobIds -> Job(K)], NEW j \in JobIds,
         NEW p, p \in {FailJob(q, j), Deliver(q, j), Complete(q, j)}
  PROVE  /\ p \in [JobIds -> Job(K)]
         /\ \A i \in JobIds : /\ p[i].key = q[i].key
                              /\ q[i].state # "none" => p[i].state # "none"
<1>1. CASE p = FailJob(q, j)
  <2>1. q[j].attempt \in 1..MaxAttempts /\ MaxAttempts \in Nat
    BY JobQueueAssumption DEF Job
  <2> QED BY <1>1, <2>1 DEF FailJob, Job, JobStates, LiveJobStates
<1>2. CASE p = Deliver(q, j)
  BY <1>2 DEF Deliver, Job, JobStates, LiveJobStates
<1>3. CASE p = Complete(q, j)
  BY <1>3 DEF Complete, Job, JobStates, LiveJobStates
<1> QED BY <1>1, <1>2, <1>3

-----------------------------------------------------------------------------
(* Type correctness.  TypeOK alone is not inductive: a step that dispatches *)
(* a run must have one to dispatch.                                        *)

(* Whoever is about to send or to mark has a run, and whoever is about to  *)
(* mark has a job.                                                         *)
HasTarget ==
  /\ \A q \in Requests :
       /\ req[q].pc \in {"enqueue", "cancel", "mark"} => req[q].run \in RunIds
       /\ req[q].pc = "mark" => req[q].job \in JobIds
  /\ \A v \in Visitors : visit[v].pc = "enqueue" => visit[v].run \in RunIds
  /\ pass.pc # "idle" => pass.todo # {}

TypeInv == TypeOK /\ HasTarget

(* The rows the database hands out exist.                                  *)
LEMMA NextRunType == UnusedRuns # {} => NextRun \in RunIds /\ NextRun \in UnusedRuns
BY DEF NextRun, UnusedRuns

(* A recovery pass that is under way works on a run that exists. *)
LEMMA PassRunType ==
  ASSUME TypeInv, pass.pc # "idle"
  PROVE  PassRun \in RunIds /\ PassRun \in pass.todo
BY DEF TypeInv, HasTarget, PassRun, TypeOK, Pass

(* The run a delivery is about exists. *)
LEMMA RunOfType ==
  ASSUME TypeOK, NEW e \in exec
  PROVE  RunOf(e) \in RunIds /\ e \in Execution
BY DEF TypeOK, RunOf, Execution, Job

(* A bucket's live charges are a number.                                   *)
LEMMA UsageType ==
  ASSUME NEW c
  PROVE  /\ IsFiniteSet(ChargedRuns(c))
         /\ Cardinality(ChargedRuns(c)) \in Nat
<1>1. IsFiniteSet(1..MaxRuns)
  BY FS_Interval, SearchAssumption
<1>2. ChargedRuns(c) \in SUBSET (1..MaxRuns)
  BY DEF ChargedRuns, RunIds
<1>3. IsFiniteSet(ChargedRuns(c))
  BY <1>1, <1>2, FS_Subset
<1> QED BY <1>3, FS_CardinalityType

(* The empty database and idle processes are well typed. *)
LEMMA InitType == Init => TypeInv
<1> SUFFICES ASSUME Init PROVE TypeInv
  OBVIOUS
<1>1. AnyRoot \in Roots /\ AnyCaller \in Callers
  BY SearchAssumption DEF AnyRoot, AnyCaller
<1>2. 1 \in RunIds /\ 1 \in 1..MaxAttempts
  BY SearchAssumption, JobQueueAssumption DEF RunIds
<1>3. run \in [RunIds -> RunRow]
  BY <1>1, JobQueueAssumption DEF Init, RunRow, ActiveStatus, TerminalStatus
<1>4. jobs \in [JobIds -> Job(RunIds)]
  BY <1>2 DEF Init, NeverSent, Job, JobStates
<1>5. req \in [Requests -> Request] /\ visit \in [Visitors -> Visit] /\ pass \in Pass
  BY <1>1 DEF Init, Request, RequestSteps, Visit, Pass
<1>6. allowance \in [Callers -> 0..SearchLimit] /\ finisher \in [RunIds -> 0..MaxAttempts]
  BY SearchAssumption, JobQueueAssumption DEF Init
<1>7. HasTarget
  BY DEF Init, HasTarget
<1> QED BY <1>3, <1>4, <1>5, <1>6, <1>7 DEF TypeInv, TypeOK, Init

(* What an UPDATE or INSERT writes is a row again.                         *)
LEMMA RunRowUpdates ==
  ASSUME NEW x \in RunRow
  PROVE  /\ \A j \in JobIds \cup {NoJob} : [x EXCEPT !.job = j] \in RunRow
         /\ \A s \in TerminalStatus : [x EXCEPT !.status = s] \in RunRow
         /\ \A s \in ActiveStatus, n \in 0..MaxAttempts : [x EXCEPT !.status = s, !.attempt = n] \in RunRow
         /\ [x EXCEPT !.status = "failed", !.charge = "none"] \in RunRow
         /\ \A k \in Roots : [x EXCEPT !.status = "queued", !.root = k] \in RunRow
         /\ \A k \in Roots, c \in Callers : [x EXCEPT !.status = "queued", !.root = k, !.charge = "live", !.payer = c] \in RunRow
         /\ \A g \in {"none", "expired"} : [x EXCEPT !.charge = g] \in RunRow
         /\ [x EXCEPT !.aged = TRUE] \in RunRow
<1>1. ASSUME NEW j \in JobIds \cup {NoJob}
      PROVE  [x EXCEPT !.job = j] \in RunRow
  BY DEF RunRow, ActiveStatus, TerminalStatus
<1>2. ASSUME NEW s \in TerminalStatus
      PROVE  [x EXCEPT !.status = s] \in RunRow
  BY DEF RunRow, ActiveStatus, TerminalStatus
<1>3. ASSUME NEW s \in ActiveStatus, NEW n \in 0..MaxAttempts
      PROVE  [x EXCEPT !.status = s, !.attempt = n] \in RunRow
  BY DEF RunRow, ActiveStatus, TerminalStatus
<1>4. [x EXCEPT !.status = "failed", !.charge = "none"] \in RunRow
  BY DEF RunRow, ActiveStatus, TerminalStatus
<1>5. ASSUME NEW k \in Roots
      PROVE  [x EXCEPT !.status = "queued", !.root = k] \in RunRow
  BY DEF RunRow, ActiveStatus, TerminalStatus
<1>6. ASSUME NEW k \in Roots, NEW c \in Callers
      PROVE  [x EXCEPT !.status = "queued", !.root = k, !.charge = "live", !.payer = c] \in RunRow
  BY DEF RunRow, ActiveStatus, TerminalStatus
<1>7. ASSUME NEW g \in {"none", "expired"}
      PROVE  [x EXCEPT !.charge = g] \in RunRow
  BY DEF RunRow, ActiveStatus, TerminalStatus
<1>8. [x EXCEPT !.aged = TRUE] \in RunRow
  BY DEF RunRow, ActiveStatus, TerminalStatus
<1> QED BY <1>1, <1>2, <1>3, <1>4, <1>5, <1>6, <1>7, <1>8

(* Every step of a request leaves it a request.                            *)
LEMMA RequestUpdates ==
  ASSUME NEW x \in Request
  PROVE  /\ \A p \in RequestSteps : [x EXCEPT !.pc = p] \in Request
         /\ [x EXCEPT !.pc = "done", !.run = NoRun, !.job = NoJob] \in Request
         /\ \A c \in Callers, k \in Roots : [x EXCEPT !.pc = "check", !.caller = c, !.root = k] \in Request
         /\ \A r \in RunIds : [x EXCEPT !.pc = "enqueue", !.run = r] \in Request
         /\ \A j \in JobIds : [x EXCEPT !.pc = "mark", !.job = j] \in Request
<1>1. ASSUME NEW p \in RequestSteps
      PROVE  [x EXCEPT !.pc = p] \in Request
  BY DEF Request, RequestSteps
<1>2. [x EXCEPT !.pc = "done", !.run = NoRun, !.job = NoJob] \in Request
  BY DEF Request, RequestSteps
<1>3. ASSUME NEW c \in Callers, NEW k \in Roots
      PROVE  [x EXCEPT !.pc = "check", !.caller = c, !.root = k] \in Request
  BY DEF Request, RequestSteps
<1>4. ASSUME NEW r \in RunIds
      PROVE  [x EXCEPT !.pc = "enqueue", !.run = r] \in Request
  BY DEF Request, RequestSteps
<1>5. ASSUME NEW j \in JobIds
      PROVE  [x EXCEPT !.pc = "mark", !.job = j] \in Request
  BY DEF Request, RequestSteps
<1> QED BY <1>1, <1>2, <1>3, <1>4, <1>5

(* And of an execution.                                                    *)
LEMMA ExecutionUpdates ==
  ASSUME NEW x \in Execution
  PROVE  /\ \A p \in ExecSteps : [x EXCEPT !.pc = p] \in Execution
         /\ [x EXCEPT !.attached = FALSE] \in Execution
<1>1. ASSUME NEW p \in ExecSteps
      PROVE  [x EXCEPT !.pc = p] \in Execution
  BY DEF Execution
<1>2. [x EXCEPT !.attached = FALSE] \in Execution
  BY DEF Execution
<1> QED BY <1>1, <1>2

(* The same for the table that holds the row.                              *)
LEMMA RunTableUpdates ==
  ASSUME NEW f \in [RunIds -> RunRow], NEW i \in RunIds
  PROVE  /\ \A j \in JobIds \cup {NoJob} : [f EXCEPT ![i].job = j] \in [RunIds -> RunRow]
         /\ \A s \in TerminalStatus : [f EXCEPT ![i].status = s] \in [RunIds -> RunRow]
         /\ \A s \in ActiveStatus, n \in 0..MaxAttempts : [f EXCEPT ![i].status = s, ![i].attempt = n] \in [RunIds -> RunRow]
         /\ [f EXCEPT ![i].status = "failed", ![i].charge = "none"] \in [RunIds -> RunRow]
         /\ \A k \in Roots : [f EXCEPT ![i].status = "queued", ![i].root = k] \in [RunIds -> RunRow]
         /\ \A k \in Roots, c \in Callers : [f EXCEPT ![i].status = "queued", ![i].root = k, ![i].charge = "live", ![i].payer = c] \in [RunIds -> RunRow]
         /\ \A g \in {"none", "expired"} : [f EXCEPT ![i].charge = g] \in [RunIds -> RunRow]
         /\ [f EXCEPT ![i].aged = TRUE] \in [RunIds -> RunRow]
<1>1. f[i] \in RunRow
  OBVIOUS
<1>2. \A y \in RunRow : [f EXCEPT ![i] = y] \in [RunIds -> RunRow]
  OBVIOUS
<1> QED BY <1>1, <1>2, RunRowUpdates, Zenon

(* The same for the requests.                                              *)
LEMMA RequestTableUpdates ==
  ASSUME NEW f \in [Requests -> Request], NEW i \in Requests
  PROVE  /\ \A p \in RequestSteps : [f EXCEPT ![i].pc = p] \in [Requests -> Request]
         /\ [f EXCEPT ![i].pc = "done", ![i].run = NoRun, ![i].job = NoJob] \in [Requests -> Request]
         /\ \A c \in Callers, k \in Roots : [f EXCEPT ![i].pc = "check", ![i].caller = c, ![i].root = k] \in [Requests -> Request]
         /\ \A r \in RunIds : [f EXCEPT ![i].pc = "enqueue", ![i].run = r] \in [Requests -> Request]
         /\ \A j \in JobIds : [f EXCEPT ![i].pc = "mark", ![i].job = j] \in [Requests -> Request]
<1>1. f[i] \in Request
  OBVIOUS
<1>2. \A y \in Request : [f EXCEPT ![i] = y] \in [Requests -> Request]
  OBVIOUS
<1> QED BY <1>1, <1>2, RequestUpdates, Zenon

(* Every action keeps the types of what it changes.                        *)
LEMMA StepTypeOK ==
  ASSUME TypeInv, Next
  PROVE  TypeOK'
<1>run. run \in [RunIds -> RunRow]
  BY DEF TypeInv, TypeOK
<1>jobs. jobs \in [JobIds -> Job(RunIds)]
  BY DEF TypeInv, TypeOK
<1>req. /\ req \in [Requests -> Request]
        /\ \A q \in Requests : /\ req[q].caller \in Callers /\ req[q].root \in Roots
                               /\ req[q].job \in JobIds \cup {NoJob}
  BY DEF TypeInv, TypeOK, Request
<1>target. HasTarget
  BY DEF TypeInv
<1>exec. /\ exec \in SUBSET Execution
         /\ \A e \in exec : /\ RunOf(e) \in RunIds /\ e.job \in JobIds
                            /\ e.attempt \in 1..MaxAttempts
                            /\ e.attempt \in 0..MaxAttempts
                            /\ run[RunOf(e)].root \in Roots
  BY RunOfType, JobQueueAssumption DEF TypeInv, TypeOK, Execution, RunRow
<1>step. /\ \A e \in exec, p \in ExecSteps :
               (exec \ {e}) \cup {[e EXCEPT !.pc = p]} \in SUBSET Execution
         /\ {"claim", "discover", "unexpected", "return", "throw"} = ExecSteps
  BY <1>exec, ExecutionUpdates DEF ExecSteps
<1>steps. /\ "reserve" \in RequestSteps /\ "putNegative" \in RequestSteps
          /\ "insert" \in RequestSteps /\ "lookup" \in RequestSteps
  BY DEF RequestSteps
<1>status. /\ {"queued", "running", "retrying"} = ActiveStatus
           /\ {"complete", "failed"} = TerminalStatus
  BY DEF ActiveStatus, TerminalStatus
<1>setJob. \A r \in RunIds, j \in JobIds \cup {NoJob} :
           [run EXCEPT ![r].job = j] \in [RunIds -> RunRow]
  BY <1>run, RunTableUpdates
<1>end. \A r \in RunIds, s \in TerminalStatus :
           [run EXCEPT ![r].status = s] \in [RunIds -> RunRow]
  BY <1>run, RunTableUpdates
<1>claim. \A r \in RunIds, s \in ActiveStatus, n \in 0..MaxAttempts :
           [run EXCEPT ![r].status = s, ![r].attempt = n] \in [RunIds -> RunRow]
  BY <1>run, RunTableUpdates
<1>refund. \A r \in RunIds :
           [run EXCEPT ![r].status = "failed", ![r].charge = "none"] \in [RunIds -> RunRow]
  BY <1>run, RunTableUpdates
<1>create. \A r \in RunIds, k \in Roots :
           [run EXCEPT ![r].status = "queued", ![r].root = k] \in [RunIds -> RunRow]
  BY <1>run, RunTableUpdates
<1>charge. \A r \in RunIds, k \in Roots, c \in Callers :
           [run EXCEPT ![r].status = "queued", ![r].root = k, ![r].charge = "live", ![r].payer = c] \in [RunIds -> RunRow]
  BY <1>run, RunTableUpdates
<1>uncharge. \A r \in RunIds, g \in {"none", "expired"} :
           [run EXCEPT ![r].charge = g] \in [RunIds -> RunRow]
  BY <1>run, RunTableUpdates
<1>age. \A r \in RunIds :
           [run EXCEPT ![r].aged = TRUE] \in [RunIds -> RunRow]
  BY <1>run, RunTableUpdates
<1>goto. \A q \in Requests, p \in RequestSteps :
           [req EXCEPT ![q].pc = p] \in [Requests -> Request]
  BY <1>req, RequestTableUpdates
<1>finish. \A q \in Requests :
           [req EXCEPT ![q].pc = "done", ![q].run = NoRun, ![q].job = NoJob] \in [Requests -> Request]
  BY <1>req, RequestTableUpdates
<1>start. \A q \in Requests, c \in Callers, k \in Roots :
           [req EXCEPT ![q].pc = "check", ![q].caller = c, ![q].root = k] \in [Requests -> Request]
  BY <1>req, RequestTableUpdates
<1>reserve. \A q \in Requests, r \in RunIds :
           [req EXCEPT ![q].pc = "enqueue", ![q].run = r] \in [Requests -> Request]
  BY <1>req, RequestTableUpdates
<1>sent. \A q \in Requests, j \in JobIds :
           [req EXCEPT ![q].pc = "mark", ![q].job = j] \in [Requests -> Request]
  BY <1>req, RequestTableUpdates
<1>1. ASSUME NEW q \in Requests, Start(q)
      PROVE  TypeOK'
  <2>1. PICK c \in Callers, k \in Roots :
        req' = [req EXCEPT ![q].pc = "check", ![q].caller = c, ![q].root = k]
    BY <1>1 DEF Start
  <2>2. req' \in [Requests -> Request]
    BY <2>1, <1>start
  <2> QED BY <1>1, <2>1, <2>2 DEF Start, TypeInv, TypeOK
<1>2. ASSUME NEW q \in Requests, Check(q)
      PROVE  TypeOK'
  <2>1. \/ req' = [req EXCEPT ![q].pc = "lookup"]
        \/ req' = [req EXCEPT ![q].pc = "done", ![q].run = NoRun, ![q].job = NoJob]
    BY <1>2 DEF Check, Goto, Finish
  <2>2. /\ [req EXCEPT ![q].pc = "lookup"] \in [Requests -> Request]
        /\ [req EXCEPT ![q].pc = "done", ![q].run = NoRun, ![q].job = NoJob] \in [Requests -> Request]
    BY <1>goto, <1>finish, <1>steps, Zenon
  <2>3. req' \in [Requests -> Request]
    BY <2>1, <2>2, Zenon
  <2> QED BY <1>2, <2>1, <2>2, <2>3 DEF Check, TypeInv, TypeOK
<1>3. ASSUME NEW q \in Requests, ReadRootCharacter(q)
      PROVE  TypeOK'
  <2>1. \/ req' = [req EXCEPT ![q].pc = "reserve"]
        \/ req' = [req EXCEPT ![q].pc = "putNegative"]
        \/ req' = [req EXCEPT ![q].pc = "done", ![q].run = NoRun, ![q].job = NoJob]
    BY <1>3 DEF ReadRootCharacter, Goto, Finish
  <2>2. /\ [req EXCEPT ![q].pc = "reserve"] \in [Requests -> Request]
        /\ [req EXCEPT ![q].pc = "putNegative"] \in [Requests -> Request]
        /\ [req EXCEPT ![q].pc = "done", ![q].run = NoRun, ![q].job = NoJob] \in [Requests -> Request]
    BY <1>goto, <1>finish, <1>steps, Zenon
  <2>3. req' \in [Requests -> Request]
    BY <2>1, <2>2, Zenon
  <2> QED BY <1>3, <2>1, <2>2, <2>3 DEF ReadRootCharacter, TypeInv, TypeOK
<1>4. ASSUME NEW q \in Requests, PutNegative(q)
      PROVE  TypeOK'
  <2>1. req' \in [Requests -> Request]
    BY <1>4, <1>req, <1>finish, Zenon DEF PutNegative, Finish
  <2>2. negative' \in SUBSET Roots
    BY <1>4, <1>req DEF PutNegative, TypeInv, TypeOK
  <2> QED BY <1>4, <2>1, <2>2 DEF PutNegative, TypeInv, TypeOK
<1>5. ASSUME NEW q \in Requests, ReserveCheck(q)
      PROVE  TypeOK'
  <2>1. \/ req' = [req EXCEPT ![q].pc = "insert"]
        \/ req' = [req EXCEPT ![q].pc = "done", ![q].run = NoRun, ![q].job = NoJob]
    BY <1>5 DEF ReserveCheck, Goto, Finish
  <2>2. /\ [req EXCEPT ![q].pc = "insert"] \in [Requests -> Request]
        /\ [req EXCEPT ![q].pc = "done", ![q].run = NoRun, ![q].job = NoJob] \in [Requests -> Request]
    BY <1>goto, <1>finish, <1>steps, Zenon
  <2>3. req' \in [Requests -> Request]
    BY <2>1, <2>2, Zenon
  <2>4. /\ rootLock' \in [Roots -> Requests \cup {Free}]
        /\ bucketLock' \in [Callers -> Requests \cup {Free}]
    BY <1>5, <1>req DEF ReserveCheck, TypeInv, TypeOK
  <2> QED BY <1>5, <2>1, <2>2, <2>3, <2>4 DEF ReserveCheck, TypeInv, TypeOK
<1>6. ASSUME NEW q \in Requests, ReserveInsert(q)
      PROVE  TypeOK'
  <2>1. \/ UNCHANGED run /\ req' = [req EXCEPT ![q].pc = "done", ![q].run = NoRun, ![q].job = NoJob]
        \/ /\ UnusedRuns # {}
           /\ run' = [run EXCEPT ![NextRun].status = "queued", ![NextRun].root = req[q].root,
                                 ![NextRun].charge = "live", ![NextRun].payer = req[q].caller]
           /\ req' = [req EXCEPT ![q].pc = "enqueue", ![q].run = NextRun]
    BY <1>6 DEF ReserveInsert, Finish
  <2>2. /\ UnusedRuns # {} =>
             [req EXCEPT ![q].pc = "enqueue", ![q].run = NextRun] \in [Requests -> Request]
        /\ [req EXCEPT ![q].pc = "done", ![q].run = NoRun, ![q].job = NoJob] \in [Requests -> Request]
    BY <1>finish, <1>reserve, NextRunType, Zenon
  <2>3. req' \in [Requests -> Request]
    BY <2>1, <2>2, Zenon
  <2>4. UnusedRuns # {} =>
          [run EXCEPT ![NextRun].status = "queued", ![NextRun].root = req[q].root,
                      ![NextRun].charge = "live", ![NextRun].payer = req[q].caller]
             \in [RunIds -> RunRow]
    BY <1>req, <1>charge, NextRunType, Zenon
  <2>5. run' \in [RunIds -> RunRow]
    BY <2>1, <2>4, <1>run, Zenon
  <2>6. /\ rootLock' \in [Roots -> Requests \cup {Free}]
        /\ bucketLock' \in [Callers -> Requests \cup {Free}]
    BY <1>6, <1>req DEF ReserveInsert, Unlock, TypeInv, TypeOK
  <2> QED BY <1>6, <2>1, <2>2, <2>3, <2>4, <2>5, <2>6 DEF ReserveInsert, TypeInv, TypeOK
<1>7. ASSUME NEW q \in Requests, Enqueue(q)
      PROVE  TypeOK'
  <2>1. req[q].run \in RunIds
    BY <1>7, <1>target DEF Enqueue, HasTarget
  <2>2. /\ Send(jobs, req[q].run) \in [JobIds -> Job(RunIds)]
        /\ SentJob(jobs, req[q].run) \in JobIds
    BY <1>7, <2>1, <1>jobs, SendType DEF Enqueue
  <2>3. req' \in [Requests -> Request]
    BY <1>7, <2>2, <1>sent, Zenon DEF Enqueue
  <2> QED BY <1>7, <2>1, <2>2, <2>3 DEF Enqueue, TypeInv, TypeOK
<1>8. ASSUME NEW q \in Requests, EnqueueThrows(q)
      PROVE  TypeOK'
  <2>1. req[q].run \in RunIds
    BY <1>8, <1>target DEF EnqueueThrows, HasTarget
  <2>2. jobs' \in [JobIds -> Job(RunIds)]
    BY <1>8, <2>1, <1>jobs, SendType DEF EnqueueThrows
  <2>3. req' \in [Requests -> Request]
    BY <1>8, <1>req, <1>goto, Zenon DEF EnqueueThrows, Goto, RequestSteps
  <2> QED BY <1>8, <2>1, <2>2, <2>3 DEF EnqueueThrows, TypeInv, TypeOK
<1>9. ASSUME NEW q \in Requests, Cancel(q)
      PROVE  TypeOK'
  <2>1. req[q].run \in RunIds
    BY <1>9, <1>target DEF Cancel, HasTarget
  <2>2. req' \in [Requests -> Request]
    BY <1>9, <1>req, <1>finish, Zenon DEF Cancel, Finish
  <2>3. run' \in [RunIds -> RunRow]
    BY <1>9, <2>1, <1>run, <1>refund, Zenon DEF Cancel
  <2>4. refunded' \in SUBSET RunIds
    BY <1>9, <2>1 DEF Cancel, TypeInv, TypeOK
  <2> QED BY <1>9, <2>1, <2>2, <2>3, <2>4 DEF Cancel, TypeInv, TypeOK
<1>10. ASSUME NEW q \in Requests, MarkEnqueued(q)
      PROVE  TypeOK'
  <2>1. req[q].run \in RunIds
    BY <1>10, <1>target DEF MarkEnqueued, HasTarget
  <2>2. req' \in [Requests -> Request]
    BY <1>10, <1>req, <1>finish, Zenon DEF MarkEnqueued, Finish
  <2>3. \/ UNCHANGED run
        \/ run' = [run EXCEPT ![req[q].run].job = req[q].job]
    BY <1>10 DEF MarkEnqueued
  <2>4. [run EXCEPT ![req[q].run].job = req[q].job] \in [RunIds -> RunRow]
    BY <2>1, <1>req, <1>setJob, Zenon
  <2>5. run' \in [RunIds -> RunRow]
    BY <2>3, <2>4, <1>run, Zenon
  <2> QED BY <1>10, <2>1, <2>2, <2>3, <2>4, <2>5 DEF MarkEnqueued, TypeInv, TypeOK
<1>11. ASSUME NEW q \in Requests, RequestDies(q)
      PROVE  TypeOK'
  <2>1. req' \in [Requests -> Request]
    BY <1>11, <1>req, <1>finish, Zenon DEF RequestDies, Finish
  <2>2. /\ rootLock' \in [Roots -> Requests \cup {Free}]
        /\ bucketLock' \in [Callers -> Requests \cup {Free}]
    BY <1>11, <1>req DEF RequestDies, Unlock, TypeInv, TypeOK
  <2> QED BY <1>11, <2>1, <2>2 DEF RequestDies, TypeInv, TypeOK
<1>12. ASSUME NEW c \in Callers, AuthorizeSearchAllowance(c)
      PROVE  TypeOK'
  <2>1. allowance[c] \in 0..SearchLimit
    BY DEF TypeInv, TypeOK
  <2>2. allowance[c] + 1 \in 0..SearchLimit
    BY <1>12, <2>1, UsageType, SearchAssumption DEF AuthorizeSearchAllowance, Usage
  <2> QED BY <1>12, <2>1, <2>2 DEF AuthorizeSearchAllowance, TypeInv, TypeOK
<1>13. ASSUME NEW v \in Visitors, VisitCreateOrReuse(v)
      PROVE  TypeOK'
  <2>1. PICK k \in Roots :
        \/ UNCHANGED run /\ \E r \in ActiveRuns(k) :
             visit' = [visit EXCEPT ![v] = [pc |-> "enqueue", run |-> r]]
        \/ /\ UnusedRuns # {}
           /\ run' = [run EXCEPT ![NextRun].status = "queued", ![NextRun].root = k]
           /\ visit' = [visit EXCEPT ![v] = [pc |-> "enqueue", run |-> NextRun]]
    BY <1>13 DEF VisitCreateOrReuse
  <2>2. UnusedRuns # {} =>
          [run EXCEPT ![NextRun].status = "queued", ![NextRun].root = k] \in [RunIds -> RunRow]
    BY <1>create, NextRunType, Zenon
  <2>3. run' \in [RunIds -> RunRow]
    BY <2>1, <2>2, <1>run, Zenon
  <2>4. visit' \in [Visitors -> Visit]
    BY <2>1, NextRunType DEF ActiveRuns, Visit, TypeInv, TypeOK
  <2> QED BY <1>13, <2>1, <2>2, <2>3, <2>4 DEF VisitCreateOrReuse, TypeInv, TypeOK
<1>14. ASSUME NEW v \in Visitors, VisitEnqueue(v)
      PROVE  TypeOK'
  <2>1. visit[v].run \in RunIds
    BY <1>14, <1>target DEF VisitEnqueue, HasTarget
  <2>2. jobs' \in [JobIds -> Job(RunIds)]
    BY <1>14, <2>1, <1>jobs, SendType DEF VisitEnqueue
  <2>3. visit' \in [Visitors -> Visit]
    BY <1>14 DEF VisitEnqueue, Visit, TypeInv, TypeOK
  <2> QED BY <1>14, <2>1, <2>2, <2>3 DEF VisitEnqueue, TypeInv, TypeOK
<1>15. ASSUME PassList
      PROVE  TypeOK'
  BY <1>15 DEF PassList, TypeInv, TypeOK, Pending, Pass
<1>16. ASSUME PassEnqueue
      PROVE  TypeOK'
  <2>1. PassRun \in RunIds
    BY <1>16, PassRunType DEF PassEnqueue
  <2>2. /\ Send(jobs, PassRun) \in [JobIds -> Job(RunIds)]
        /\ SentJob(jobs, PassRun) \in JobIds
    BY <1>16, <2>1, <1>jobs, SendType DEF PassEnqueue
  <2>3. pass' \in Pass
    BY <1>16, <2>2 DEF PassEnqueue, Pass, TypeInv, TypeOK
  <2> QED BY <1>16, <2>1, <2>2, <2>3 DEF PassEnqueue, TypeInv, TypeOK
<1>17. ASSUME PassMark
      PROVE  TypeOK'
  <2>1. PassRun \in RunIds /\ pass.job \in JobIds \cup {NoJob}
    BY <1>17, PassRunType DEF PassMark, TypeInv, TypeOK, Pass
  <2>2. \/ UNCHANGED run
        \/ run' = [run EXCEPT ![PassRun].job = pass.job]
    BY <1>17 DEF PassMark
  <2>3. [run EXCEPT ![PassRun].job = pass.job] \in [RunIds -> RunRow]
    BY <2>1, <1>setJob, Zenon
  <2>4. run' \in [RunIds -> RunRow]
    BY <2>2, <2>3, <1>run, Zenon
  <2>5. pass' \in Pass
    BY <1>17, <2>1 DEF PassMark, Pass, TypeInv, TypeOK
  <2> QED BY <1>17, <2>1, <2>2, <2>3, <2>4, <2>5 DEF PassMark, TypeInv, TypeOK
<1>18. ASSUME PassAborts
      PROVE  TypeOK'
  BY <1>18 DEF PassAborts, TypeInv, TypeOK, Pass
<1>19. ASSUME NEW j \in JobIds, Fetch(j)
      PROVE  TypeOK'
  <2>1. jobs' \in [JobIds -> Job(RunIds)]
    BY <1>19, <1>jobs, JobStepType DEF Fetch
  <2>2. [job |-> j, attempt |-> jobs[j].attempt, pc |-> "claim", attached |-> TRUE]
          \in Execution
    BY <1>jobs DEF Job, Execution, ExecSteps
  <2>3. exec' \in SUBSET Execution
    BY <1>19, <2>2, <1>exec DEF Fetch
  <2> QED BY <1>19, <2>1, <2>2, <2>3 DEF Fetch, TypeInv, TypeOK
<1>20. ASSUME NEW j \in JobIds, Expire(j)
      PROVE  TypeOK'
  <2>1. jobs' \in [JobIds -> Job(RunIds)]
    BY <1>20, <1>jobs, JobStepType DEF Expire
  <2>2. exec' \in SUBSET Execution
    BY <1>20, <1>exec, ExecutionUpdates DEF Expire
  <2> QED BY <1>20, <2>1, <2>2 DEF Expire, TypeInv, TypeOK
<1>21. ASSUME NEW e \in exec, Claim(e)
      PROVE  TypeOK'
  <2>1. exec' \in SUBSET Execution
    BY <1>21, <1>exec, <1>step, Zenon DEF Claim, Step
  <2>2. \/ UNCHANGED run
        \/ run' = [run EXCEPT ![RunOf(e)].status = "running", ![RunOf(e)].attempt = e.attempt]
    BY <1>21 DEF Claim
  <2>3. [run EXCEPT ![RunOf(e)].status = "running", ![RunOf(e)].attempt = e.attempt] \in [RunIds -> RunRow]
    BY <1>exec, <1>status, <1>claim
  <2>4. run' \in [RunIds -> RunRow]
    BY <2>2, <2>3, <1>run, Zenon
  <2> QED BY <1>21, <2>1, <2>2, <2>3, <2>4 DEF Claim, TypeInv, TypeOK
<1>22. ASSUME NEW e \in exec, Publish(e)
      PROVE  TypeOK'
  <2>1. exec' \in SUBSET Execution
    BY <1>22, <1>exec, <1>step, Zenon DEF Publish, Step
  <2>2. \/ UNCHANGED run
        \/ run' = [run EXCEPT ![RunOf(e)].status = "complete"]
    BY <1>22 DEF Publish, EndRun
  <2>3. run' \in [RunIds -> RunRow]
    BY <2>2, <1>run, <1>exec, <1>status, <1>end, Zenon
  <2>4. finisher' \in [RunIds -> 0..MaxAttempts]
    BY <1>22, <1>exec DEF Publish, EndRun, TypeInv, TypeOK
  <2>5. snap' \in [Roots -> {"none", "stale", "fresh"}]
    BY <1>22, <1>exec DEF Publish, TypeInv, TypeOK
  <2> QED BY <1>22, <2>1, <2>2, <2>3, <2>4, <2>5 DEF Publish, TypeInv, TypeOK
<1>23. ASSUME NEW e \in exec, PutAndFailRun(e)
      PROVE  TypeOK'
  <2>1. exec' \in SUBSET Execution
    BY <1>23, <1>exec, <1>step, Zenon DEF PutAndFailRun, Step
  <2>2. run' \in [RunIds -> RunRow]
    BY <1>23, <1>run, <1>exec, <1>status, <1>end, Zenon DEF PutAndFailRun, EndRun
  <2>3. finisher' \in [RunIds -> 0..MaxAttempts]
    BY <1>23, <1>exec DEF PutAndFailRun, EndRun, TypeInv, TypeOK
  <2>4. negative' \in SUBSET Roots
    BY <1>23, <1>exec DEF PutAndFailRun, TypeInv, TypeOK
  <2> QED BY <1>23, <2>1, <2>2, <2>3, <2>4 DEF PutAndFailRun, TypeInv, TypeOK
<1>24. ASSUME NEW e \in exec, FailRun(e)
      PROVE  TypeOK'
  <2>1. exec' \in SUBSET Execution
    BY <1>24, <1>exec, <1>step, Zenon DEF FailRun, Step
  <2>2. run' \in [RunIds -> RunRow]
    BY <1>24, <1>run, <1>exec, <1>status, <1>end, Zenon DEF FailRun, EndRun
  <2>3. finisher' \in [RunIds -> 0..MaxAttempts]
    BY <1>24, <1>exec DEF FailRun, EndRun, TypeInv, TypeOK
  <2> QED BY <1>24, <2>1, <2>2, <2>3 DEF FailRun, TypeInv, TypeOK
<1>25. ASSUME NEW e \in exec, MarkRetrying(e)
      PROVE  TypeOK'
  <2>1. exec' \in SUBSET Execution
    BY <1>25, <1>exec, <1>step, Zenon DEF MarkRetrying, Step
  <2>2. run' \in [RunIds -> RunRow]
    BY <1>25, <1>run, <1>exec, <1>status, <1>claim, Zenon DEF MarkRetrying
  <2> QED BY <1>25, <2>1, <2>2 DEF MarkRetrying, TypeInv, TypeOK
<1>26. ASSUME NEW e \in exec, WriteRefused(e)
      PROVE  TypeOK'
  <2>1. exec' \in SUBSET Execution
    BY <1>26, <1>exec, <1>step, Zenon DEF WriteRefused, Step
  <2> QED BY <1>26, <2>1 DEF WriteRefused, TypeInv, TypeOK
<1>27. ASSUME NEW e \in exec, UnexpectedError(e)
      PROVE  TypeOK'
  <2>1. exec' \in SUBSET Execution
    BY <1>27, <1>exec, <1>step, Zenon DEF UnexpectedError, Step
  <2> QED BY <1>27, <2>1 DEF UnexpectedError, TypeInv, TypeOK
<1>28. ASSUME NEW e \in exec, Abort(e)
      PROVE  TypeOK'
  <2>1. exec' \in SUBSET Execution
    BY <1>28, <1>exec, <1>step, Zenon DEF Abort, Step
  <2> QED BY <1>28, <2>1 DEF Abort, TypeInv, TypeOK
<1>29. ASSUME NEW e \in exec, Settle(e)
      PROVE  TypeOK'
  <2>1. jobs' \in [JobIds -> Job(RunIds)]
    BY <1>29, <1>jobs, <1>exec, JobStepType DEF Settle
  <2> QED BY <1>29, <2>1 DEF Settle, TypeInv, TypeOK
<1>30. ASSUME NEW e \in exec, WorkerDies(e)
      PROVE  TypeOK'
  BY <1>30 DEF WorkerDies, TypeInv, TypeOK
<1>31. ASSUME NEW k \in Roots, Suppress(k)
      PROVE  TypeOK'
  BY <1>31 DEF Suppress, TypeInv, TypeOK
<1>32. ASSUME NEW k \in Roots, SuppressionExpires(k)
      PROVE  TypeOK'
  BY <1>32 DEF SuppressionExpires, TypeInv, TypeOK
<1>33. ASSUME NEW k \in Roots, NegativeExpires(k)
      PROVE  TypeOK'
  BY <1>33 DEF NegativeExpires, TypeInv, TypeOK
<1>34. ASSUME NEW k \in Roots, SnapshotAges(k)
      PROVE  TypeOK'
  BY <1>34 DEF SnapshotAges, TypeInv, TypeOK
<1>35. ASSUME NEW r \in RunIds, ChargeExpires(r)
      PROVE  TypeOK'
  <2>1. run' \in [RunIds -> RunRow]
    BY <1>35, <1>run, <1>uncharge, <1>age, Zenon DEF ChargeExpires
  <2> QED BY <1>35, <2>1 DEF ChargeExpires, TypeInv, TypeOK
<1>36. ASSUME NEW r \in RunIds, RunAges(r)
      PROVE  TypeOK'
  <2>1. run' \in [RunIds -> RunRow]
    BY <1>36, <1>run, <1>uncharge, <1>age, Zenon DEF RunAges
  <2> QED BY <1>36, <2>1 DEF RunAges, TypeInv, TypeOK
<1>37. ASSUME NEW c \in Callers, AllowanceExpires(c)
      PROVE  TypeOK'
  <2>1. allowance[c] \in 0..SearchLimit
    BY DEF TypeInv, TypeOK
  <2>2. allowance[c] - 1 \in 0..SearchLimit
    BY <1>37, <2>1, SearchAssumption DEF AllowanceExpires
  <2> QED BY <1>37, <2>1, <2>2 DEF AllowanceExpires, TypeInv, TypeOK
<1> QED
  BY <1>1, <1>2, <1>3, <1>4, <1>5, <1>6, <1>7, <1>8, <1>9, <1>10, <1>11,
     <1>12, <1>13, <1>14, <1>15, <1>16, <1>17, <1>18, <1>19, <1>20, <1>21,
     <1>22, <1>23, <1>24, <1>25, <1>26, <1>27, <1>28, <1>29, <1>30, <1>31,
     <1>32, <1>33, <1>34, <1>35, <1>36, <1>37
  DEF Next, RequestStep, ExecutionStep, Clock

(* Whoever dispatches has something to dispatch, after every action.        *)
LEMMA StepTarget ==
  ASSUME TypeInv, Next
  PROVE  HasTarget'
<1>types. /\ req \in [Requests -> Request] /\ \A q \in Requests : req[q] \in Request
          /\ visit \in [Visitors -> Visit]
          /\ jobs \in [JobIds -> Job(RunIds)]
  BY DEF TypeInv, TypeOK
<1>target. HasTarget
  BY DEF TypeInv
<1>1. ASSUME NEW q \in Requests, Start(q)
      PROVE  HasTarget'
  <2>1. \A p \in Requests : p # q => req'[p] = req[p]
    BY <1>1, <1>types DEF Start, Goto, Finish
  <2>2. req'[q].pc \notin {"enqueue", "cancel", "mark"}
    BY <1>1, <1>types, <1>target DEF Start, Goto, Finish, Request, HasTarget
  <2> QED BY <1>1, <2>1, <2>2, <1>target DEF Start, HasTarget
<1>2. ASSUME NEW q \in Requests, Check(q)
      PROVE  HasTarget'
  <2>1. \A p \in Requests : p # q => req'[p] = req[p]
    BY <1>2, <1>types DEF Check, Goto, Finish
  <2>2. req'[q].pc \notin {"enqueue", "cancel", "mark"}
    BY <1>2, <1>types, <1>target DEF Check, Goto, Finish, Request, HasTarget
  <2> QED BY <1>2, <2>1, <2>2, <1>target DEF Check, HasTarget
<1>3. ASSUME NEW q \in Requests, ReadRootCharacter(q)
      PROVE  HasTarget'
  <2>1. \A p \in Requests : p # q => req'[p] = req[p]
    BY <1>3, <1>types DEF ReadRootCharacter, Goto, Finish
  <2>2. req'[q].pc \notin {"enqueue", "cancel", "mark"}
    BY <1>3, <1>types, <1>target DEF ReadRootCharacter, Goto, Finish, Request, HasTarget
  <2> QED BY <1>3, <2>1, <2>2, <1>target DEF ReadRootCharacter, HasTarget
<1>4. ASSUME NEW q \in Requests, PutNegative(q)
      PROVE  HasTarget'
  <2>1. \A p \in Requests : p # q => req'[p] = req[p]
    BY <1>4, <1>types DEF PutNegative, Goto, Finish
  <2>2. req'[q].pc \notin {"enqueue", "cancel", "mark"}
    BY <1>4, <1>types, <1>target DEF PutNegative, Goto, Finish, Request, HasTarget
  <2> QED BY <1>4, <2>1, <2>2, <1>target DEF PutNegative, HasTarget
<1>5. ASSUME NEW q \in Requests, ReserveCheck(q)
      PROVE  HasTarget'
  <2>1. \A p \in Requests : p # q => req'[p] = req[p]
    BY <1>5, <1>types DEF ReserveCheck, Goto, Finish
  <2>2. req'[q].pc \notin {"enqueue", "cancel", "mark"}
    BY <1>5, <1>types, <1>target DEF ReserveCheck, Goto, Finish, Request, HasTarget
  <2> QED BY <1>5, <2>1, <2>2, <1>target DEF ReserveCheck, HasTarget
<1>6. ASSUME NEW q \in Requests, Cancel(q)
      PROVE  HasTarget'
  <2>1. \A p \in Requests : p # q => req'[p] = req[p]
    BY <1>6, <1>types DEF Cancel, Goto, Finish
  <2>2. req'[q].pc \notin {"enqueue", "cancel", "mark"}
    BY <1>6, <1>types, <1>target DEF Cancel, Goto, Finish, Request, HasTarget
  <2> QED BY <1>6, <2>1, <2>2, <1>target DEF Cancel, HasTarget
<1>7. ASSUME NEW q \in Requests, MarkEnqueued(q)
      PROVE  HasTarget'
  <2>1. \A p \in Requests : p # q => req'[p] = req[p]
    BY <1>7, <1>types DEF MarkEnqueued, Goto, Finish
  <2>2. req'[q].pc \notin {"enqueue", "cancel", "mark"}
    BY <1>7, <1>types, <1>target DEF MarkEnqueued, Goto, Finish, Request, HasTarget
  <2> QED BY <1>7, <2>1, <2>2, <1>target DEF MarkEnqueued, HasTarget
<1>8. ASSUME NEW q \in Requests, RequestDies(q)
      PROVE  HasTarget'
  <2>1. \A p \in Requests : p # q => req'[p] = req[p]
    BY <1>8, <1>types DEF RequestDies, Goto, Finish
  <2>2. req'[q].pc \notin {"enqueue", "cancel", "mark"}
    BY <1>8, <1>types, <1>target DEF RequestDies, Goto, Finish, Request, HasTarget
  <2> QED BY <1>8, <2>1, <2>2, <1>target DEF RequestDies, HasTarget
<1>9. ASSUME NEW q \in Requests, ReserveInsert(q)
      PROVE  HasTarget'
  <2>1. \A p \in Requests : p # q => req'[p] = req[p]
    BY <1>9, <1>types DEF ReserveInsert, Goto, Finish
  <2>2. req'[q].pc \notin {"enqueue", "cancel", "mark"} \/ (req'[q].pc = "enqueue" /\ req'[q].run \in RunIds)
    BY <1>9, <1>types, <1>target, NextRunType DEF ReserveInsert, Goto, Finish, Request, HasTarget
  <2> QED BY <1>9, <2>1, <2>2, <1>target DEF ReserveInsert, HasTarget
<1>10. ASSUME NEW q \in Requests, Enqueue(q)
      PROVE  HasTarget'
  <2>1. \A p \in Requests : p # q => req'[p] = req[p]
    BY <1>10, <1>types DEF Enqueue
  <2>2. req[q].run \in RunIds
    BY <1>10, <1>target DEF Enqueue, HasTarget
  <2>3. SentJob(jobs, req[q].run) \in JobIds
    BY <1>10, <2>2, <1>types, SendType DEF Enqueue
  <2>4. /\ req'[q].run = req[q].run
        /\ req'[q].job = SentJob(jobs, req[q].run)
    BY <1>10, <1>types DEF Enqueue, Request
  <2> QED BY <1>10, <2>1, <2>2, <2>3, <2>4, <1>target DEF Enqueue, HasTarget
<1>11. ASSUME NEW q \in Requests, EnqueueThrows(q)
      PROVE  HasTarget'
  <2>1. \A p \in Requests : p # q => req'[p] = req[p]
    BY <1>11, <1>types DEF EnqueueThrows, Goto, Finish
  <2>2. req'[q].pc = "cancel" /\ req'[q].run \in RunIds
    BY <1>11, <1>types, <1>target DEF EnqueueThrows, Goto, Finish, Request, HasTarget
  <2> QED BY <1>11, <2>1, <2>2, <1>target DEF EnqueueThrows, HasTarget
<1>12. ASSUME NEW v \in Visitors, VisitCreateOrReuse(v)
      PROVE  HasTarget'
  <2>1. PICK r : /\ visit' = [visit EXCEPT ![v] = [pc |-> "enqueue", run |-> r]]
                 /\ r \in RunIds
    BY <1>12, NextRunType DEF VisitCreateOrReuse, ActiveRuns
  <2> QED BY <1>12, <2>1, <1>types, <1>target DEF VisitCreateOrReuse, HasTarget
<1>13. ASSUME NEW v \in Visitors, VisitEnqueue(v)
      PROVE  HasTarget'
  BY <1>13, <1>types, <1>target DEF VisitEnqueue, HasTarget
<1>14. ASSUME PassList
      PROVE  HasTarget'
  BY <1>14, <1>target DEF PassList, HasTarget
<1>15. ASSUME PassAborts
      PROVE  HasTarget'
  BY <1>15, <1>target DEF PassAborts, HasTarget
<1>16. ASSUME PassEnqueue
      PROVE  HasTarget'
  <2>1. pass'.todo = pass.todo
    BY <1>16 DEF PassEnqueue, TypeInv, TypeOK, Pass
  <2> QED BY <1>16, <2>1, <1>target DEF PassEnqueue, HasTarget
<1>17. ASSUME PassMark
      PROVE  HasTarget'
  <2>1. PassRun \in pass.todo
    BY <1>17, PassRunType DEF PassMark
  <2>2. pass'.pc # "idle" => pass'.todo # {}
    BY <1>17, <2>1 DEF PassMark
  <2> QED BY <1>17, <2>2, <1>target DEF PassMark, HasTarget
<1>other. ASSUME UNCHANGED <<req, visit, pass>>
          PROVE  HasTarget'
  BY <1>other, <1>target DEF HasTarget
<1> QED
  BY <1>1, <1>2, <1>3, <1>4, <1>5, <1>6, <1>7, <1>8, <1>9, <1>10, <1>11,
     <1>12, <1>13, <1>14, <1>15, <1>16, <1>17, <1>other
  DEF Next, RequestStep, ExecutionStep, Clock, AuthorizeSearchAllowance, Fetch,
      Expire, Claim, Publish, PutAndFailRun, FailRun, MarkRetrying, WriteRefused,
      UnexpectedError, Settle, Abort, WorkerDies, Suppress, SuppressionExpires,
      NegativeExpires, SnapshotAges, ChargeExpires, RunAges, AllowanceExpires

(* TypeInv is inductive: every step of Next keeps it. *)
LEMMA StepType ==
  ASSUME TypeInv, [Next]_vars
  PROVE  TypeInv'
<1>1. CASE UNCHANGED vars
  BY <1>1 DEF vars, TypeInv, TypeOK, HasTarget
<1>2. CASE Next
  BY <1>2, StepTypeOK, StepTarget DEF TypeInv
<1> QED BY <1>1, <1>2

(* Every reachable state is well typed, and no dispatch lacks its target. *)
LEMMA TypeInvariant == Spec => []TypeInv
BY InitType, StepType, PTL DEF Spec

(* The tables, locks, requests and executions keep their types for every    *)
(* number of requests, runs, jobs and attempts; in particular no attempt    *)
(* number passes retryLimit + 1 and no allowance the hourly limit.          *)
THEOREM TypeCorrect == Spec => []TypeOK
<1>1. TypeInv => TypeOK
  BY DEF TypeInv
<1> QED BY <1>1, TypeInvariant, PTL

-----------------------------------------------------------------------------
(* What a step may do to the run table: it creates, refunds, claims, ends  *)
(* or annotates one run.  The safety invariants follow from this summary.  *)

RowCreated(r) ==
  /\ run[r].status = "absent" /\ run'[r].status = "queued"
  /\ run'[r].attempt = run[r].attempt
  /\ ActiveRuns(run'[r].root) = {}
  /\ finisher'[r] = finisher[r] /\ refunded' = refunded

RowRefunded(r) ==
  /\ run[r].status = "queued" /\ run'[r].status = "failed"
  /\ run'[r].attempt = run[r].attempt /\ run'[r].root = run[r].root
  /\ run'[r].charge = "none"
  /\ finisher'[r] = finisher[r] /\ refunded' = refunded \cup {r}

RowClaimed(r) ==
  /\ Active(r) /\ run'[r].status \in {"running", "retrying"}
  /\ run[r].attempt <= run'[r].attempt /\ run'[r].root = run[r].root
  /\ finisher'[r] = finisher[r] /\ refunded' = refunded

RowEnded(r) ==
  /\ Active(r) /\ run'[r].status \in TerminalStatus
  /\ run'[r].attempt = run[r].attempt /\ run'[r].root = run[r].root
  /\ finisher'[r] = run[r].attempt /\ refunded' = refunded

RowKept(r) ==
  /\ run'[r].status = run[r].status
  /\ run'[r].attempt = run[r].attempt /\ run'[r].root = run[r].root
  /\ run[r].charge = "none" => run'[r].charge = "none"
  /\ finisher'[r] = finisher[r] /\ refunded' = refunded

RowStep(r) ==
  /\ \A s \in RunIds : s # r => run'[s] = run[s] /\ finisher'[s] = finisher[s]
  /\ \/ RowCreated(r) \/ RowRefunded(r) \/ RowClaimed(r)
     \/ RowEnded(r) \/ RowKept(r)

(* An execution that may write holds the run's latest attempt.             *)
LEMMA WriterIsLatest ==
  ASSUME TypeOK, ExecutionsClaimed, NEW e \in exec,
         e.pc \in {"discover", "unexpected"}, WriteAllowed(e)
  PROVE  e.attempt = run[RunOf(e)].attempt /\ Active(RunOf(e))
<1>1. e.attempt \in Nat /\ run[RunOf(e)].attempt \in Nat
  BY RunOfType, JobQueueAssumption DEF TypeOK, RunRow, Execution
<1> QED BY <1>1 DEF WriteAllowed, Fenced, ExecutionsClaimed

(* What any step may do to the runs: create one, refund, claim or end one, or
   leave each one's status and attempt alone. *)
LEMMA StepRow ==
  ASSUME TypeInv, ExecutionsClaimed, Next
  PROVE  \/ UNCHANGED <<run, finisher, refunded>>
         \/ \E r \in RunIds : RowStep(r)
<1> DEFINE Summary == \/ UNCHANGED <<run, finisher, refunded>>
                      \/ \E r \in RunIds : RowStep(r)
<1>types. /\ run \in [RunIds -> RunRow] /\ finisher \in [RunIds -> 0..MaxAttempts]
          /\ \A r \in RunIds : run[r] \in RunRow
  BY DEF TypeInv, TypeOK
<1>target. HasTarget
  BY DEF TypeInv
<1>1. ASSUME NEW q \in Requests, ReserveInsert(q)
      PROVE  Summary
  <2>1. CASE UNCHANGED run
    BY <1>1, <2>1 DEF ReserveInsert
  <2>2. CASE run' # run
    <3>1. /\ UnusedRuns # {} /\ ActiveRuns(req[q].root) = {}
          /\ run' = [run EXCEPT ![NextRun].status = "queued", ![NextRun].root = req[q].root,
                                ![NextRun].charge = "live", ![NextRun].payer = req[q].caller]
      BY <1>1, <2>2 DEF ReserveInsert
    <3>2. NextRun \in RunIds /\ run[NextRun].status = "absent"
      BY <3>1, NextRunType DEF UnusedRuns
    <3>3. /\ \A s \in RunIds : s # NextRun => run'[s] = run[s]
          /\ run'[NextRun].status = "queued" /\ run'[NextRun].root = req[q].root
          /\ run'[NextRun].attempt = run[NextRun].attempt
      BY <3>1, <3>2, <1>types DEF RunRow
    <3>4. RowStep(NextRun)
      BY <1>1, <3>1, <3>2, <3>3 DEF ReserveInsert, RowStep, RowCreated
    <3> QED BY <3>2, <3>4
  <2> QED BY <2>1, <2>2
<1>2. ASSUME NEW v \in Visitors, VisitCreateOrReuse(v)
      PROVE  Summary
  <2>1. CASE UNCHANGED run
    BY <1>2, <2>1 DEF VisitCreateOrReuse
  <2>2. CASE run' # run
    <3>1. PICK k \in Roots :
            /\ UnusedRuns # {} /\ ActiveRuns(k) = {}
            /\ run' = [run EXCEPT ![NextRun].status = "queued", ![NextRun].root = k]
      BY <1>2, <2>2 DEF VisitCreateOrReuse
    <3>2. NextRun \in RunIds /\ run[NextRun].status = "absent"
      BY <3>1, NextRunType DEF UnusedRuns
    <3>3. /\ \A s \in RunIds : s # NextRun => run'[s] = run[s]
          /\ run'[NextRun].status = "queued" /\ run'[NextRun].root = k
          /\ run'[NextRun].attempt = run[NextRun].attempt
      BY <3>1, <3>2, <1>types DEF RunRow
    <3>4. RowStep(NextRun)
      BY <1>2, <3>1, <3>2, <3>3 DEF VisitCreateOrReuse, RowStep, RowCreated
    <3> QED BY <3>2, <3>4
  <2> QED BY <2>1, <2>2
<1>3. ASSUME NEW q \in Requests, Cancel(q)
      PROVE  Summary
  <2>1. CASE ~(run[req[q].run].status = "queued" /\ run[req[q].run].charge # "none")
    BY <1>3, <2>1 DEF Cancel
  <2>2. CASE run[req[q].run].status = "queued" /\ run[req[q].run].charge # "none"
    <3> DEFINE r == req[q].run
    <3>1. r \in RunIds
      BY <1>3, <1>target DEF Cancel, HasTarget
    <3>2. /\ run' = [run EXCEPT ![r].status = "failed", ![r].charge = "none"]
          /\ refunded' = refunded \cup {r} /\ finisher' = finisher
      BY <1>3, <2>2 DEF Cancel
    <3> HIDE DEF r
    <3>3. /\ \A s \in RunIds : s # r => run'[s] = run[s]
          /\ run'[r].status = "failed" /\ run'[r].charge = "none"
          /\ run'[r].root = run[r].root /\ run'[r].attempt = run[r].attempt
      BY <3>1, <3>2, <1>types DEF RunRow
    <3>4. RowStep(r)
      BY <2>2, <3>2, <3>3 DEF RowStep, RowRefunded, r
    <3> QED BY <3>1, <3>4
  <2> QED BY <2>1, <2>2
<1>4. ASSUME NEW e \in exec, Claim(e)
      PROVE  Summary
  <2>1. CASE UNCHANGED run
    BY <1>4, <2>1 DEF Claim
  <2>2. CASE run' # run
    <3> DEFINE r == RunOf(e)
    <3>1. r \in RunIds /\ e.attempt \in Nat /\ run[r].attempt \in Nat
      BY RunOfType, <1>types, JobQueueAssumption DEF TypeInv, Execution, RunRow
    <3>2. /\ Active(r) /\ run[r].attempt < e.attempt
          /\ run' = [run EXCEPT ![r].status = "running", ![r].attempt = e.attempt]
          /\ refunded' = refunded /\ finisher' = finisher
      BY <1>4, <2>2 DEF Claim
    <3> HIDE DEF r
    <3>3. /\ \A s \in RunIds : s # r => run'[s] = run[s]
          /\ run'[r].status = "running" /\ run'[r].attempt = e.attempt
          /\ run'[r].root = run[r].root
      BY <3>1, <3>2, <1>types DEF RunRow
    <3>4. run[r].attempt <= run'[r].attempt
      BY <3>1, <3>2, <3>3
    <3>5. RowClaimed(r)
      BY <3>2, <3>3, <3>4 DEF RowClaimed
    <3>6. RowStep(r)
      BY <3>2, <3>3, <3>5 DEF RowStep
    <3> QED BY <3>1, <3>6
  <2> QED BY <2>1, <2>2
<1>5. ASSUME NEW e \in exec, MarkRetrying(e)
      PROVE  Summary
  <2> DEFINE r == RunOf(e)
  <2>1. r \in RunIds /\ run[r].attempt \in Nat
    BY RunOfType, <1>types, JobQueueAssumption DEF TypeInv, RunRow
  <2>2. e.attempt = run[r].attempt /\ Active(r)
    BY <1>5, WriterIsLatest DEF MarkRetrying, TypeInv
  <2>3. /\ run' = [run EXCEPT ![r].status = "retrying", ![r].attempt = e.attempt]
        /\ refunded' = refunded /\ finisher' = finisher
    BY <1>5 DEF MarkRetrying
  <2> HIDE DEF r
  <2>4. /\ \A s \in RunIds : s # r => run'[s] = run[s]
        /\ run'[r].status = "retrying" /\ run'[r].attempt = e.attempt
        /\ run'[r].root = run[r].root
    BY <2>1, <2>3, <1>types DEF RunRow
  <2>5. run[r].attempt <= run'[r].attempt
    BY <2>1, <2>2, <2>4
  <2>6. RowClaimed(r)
    BY <2>2, <2>3, <2>4, <2>5 DEF RowClaimed
  <2>7. RowStep(r)
    BY <2>3, <2>4, <2>6 DEF RowStep
  <2> QED BY <2>1, <2>7
<1>6. ASSUME NEW e \in exec, NEW x \in TerminalStatus, EndRun(e, x), refunded' = refunded,
             e.pc \in {"discover", "unexpected"}, WriteAllowed(e)
      PROVE  Summary
  <2> DEFINE r == RunOf(e)
  <2>1. r \in RunIds
    BY RunOfType DEF TypeInv
  <2>2. e.attempt = run[r].attempt /\ Active(r)
    BY <1>6, WriterIsLatest DEF TypeInv
  <2>3. /\ run' = [run EXCEPT ![r].status = x]
        /\ finisher' = [finisher EXCEPT ![r] = e.attempt]
    BY <1>6 DEF EndRun
  <2> HIDE DEF r
  <2>4. /\ \A s \in RunIds : s # r => run'[s] = run[s]
        /\ run'[r].status = x /\ run'[r].attempt = run[r].attempt
        /\ run'[r].root = run[r].root
    BY <2>1, <2>3, <1>types DEF RunRow
  <2>5. /\ \A s \in RunIds : s # r => finisher'[s] = finisher[s]
        /\ finisher'[r] = e.attempt
    BY <2>1, <2>3, <1>types
  <2>6. RowStep(r)
    BY <1>6, <2>2, <2>4, <2>5 DEF RowStep, RowEnded
  <2> QED BY <2>1, <2>6
<1>7. ASSUME NEW e \in exec, Publish(e)
      PROVE  Summary
  <2>1. \/ UNCHANGED <<run, finisher, refunded>>
        \/ EndRun(e, "complete") /\ refunded' = refunded
    BY <1>7 DEF Publish
  <2> QED BY <1>6, <1>7, <2>1 DEF Publish, Discovered, TerminalStatus
<1>8. ASSUME NEW e \in exec, PutAndFailRun(e)
      PROVE  Summary
  BY <1>6, <1>8 DEF PutAndFailRun, Discovered, TerminalStatus
<1>9. ASSUME NEW e \in exec, FailRun(e)
      PROVE  Summary
  BY <1>6, <1>9 DEF FailRun, TerminalStatus
<1>10. ASSUME NEW r \in RunIds, NEW x, UNCHANGED <<finisher, refunded>>,
              \/ run' = [run EXCEPT ![r].job = x]
              \/ run' = [run EXCEPT ![r].aged = x]
              \/ run[r].charge # "none" /\ run' = [run EXCEPT ![r].charge = x]
       PROVE  Summary
  <2>1. /\ \A s \in RunIds : s # r => run'[s] = run[s]
        /\ run'[r].status = run[r].status /\ run'[r].attempt = run[r].attempt
        /\ run'[r].root = run[r].root
        /\ run[r].charge = "none" => run'[r].charge = "none"
    <3>1. CASE run' = [run EXCEPT ![r].job = x]
      BY <3>1, <1>types DEF RunRow
    <3>2. CASE run' = [run EXCEPT ![r].aged = x]
      BY <3>2, <1>types DEF RunRow
    <3>3. CASE run[r].charge # "none" /\ run' = [run EXCEPT ![r].charge = x]
      BY <3>3, <1>types DEF RunRow
    <3> QED BY <1>10, <3>1, <3>2, <3>3
  <2>2. RowStep(r)
    BY <1>10, <2>1 DEF RowStep, RowKept
  <2> QED BY <2>2
<1>11. ASSUME NEW q \in Requests, MarkEnqueued(q)
       PROVE  Summary
  <2>1. req[q].run \in RunIds
    BY <1>11, <1>target DEF MarkEnqueued, HasTarget
  <2> QED BY <1>10, <1>11, <2>1 DEF MarkEnqueued
<1>12. ASSUME PassMark
       PROVE  Summary
  <2>1. PassRun \in RunIds
    BY <1>12, PassRunType DEF PassMark
  <2> QED BY <1>10, <1>12, <2>1 DEF PassMark
<1>13. ASSUME NEW r \in RunIds, ChargeExpires(r) \/ RunAges(r)
       PROVE  Summary
  BY <1>10, <1>13 DEF ChargeExpires, RunAges
<1> HIDE DEF Summary
<1>other. ASSUME UNCHANGED <<run, finisher, refunded>>
          PROVE  Summary
  BY <1>other DEF Summary
<1>14. Summary
  BY <1>1, <1>2, <1>3, <1>4, <1>5, <1>7, <1>8, <1>9, <1>11, <1>12, <1>13, <1>other
  DEF Next, RequestStep, ExecutionStep, Clock, Start, Check, ReadRootCharacter,
      PutNegative, ReserveCheck, Enqueue, EnqueueThrows, RequestDies,
      AuthorizeSearchAllowance, VisitEnqueue, PassList, PassEnqueue, PassAborts,
      Fetch, Expire, WriteRefused, UnexpectedError, Settle, Abort, WorkerDies,
      Suppress, SuppressionExpires, NegativeExpires, SnapshotAges, AllowanceExpires
<1> QED BY <1>14 DEF Summary

(* The unique index, seen from the row summary: only a creation makes a run *)
(* active, and it found no active run of its root.                         *)
LEMMA RowOneActive ==
  ASSUME OneActiveRunPerRoot, NEW r \in RunIds, RowStep(r)
  PROVE  OneActiveRunPerRoot'
<1> SUFFICES ASSUME NEW k \in Roots, NEW a \in ActiveRuns(k)', NEW b \in ActiveRuns(k)'
             PROVE  a = b
  BY DEF OneActiveRunPerRoot
<1>1. /\ a \in RunIds /\ b \in RunIds
      /\ run'[a].status \in ActiveStatus /\ run'[a].root = k
      /\ run'[b].status \in ActiveStatus /\ run'[b].root = k
  BY DEF ActiveRuns, Active
<1>2. \A s \in RunIds : s # r => run'[s] = run[s]
  BY DEF RowStep
<1>3. CASE RowCreated(r)
  <2>1. \A x \in {a, b} : x # r => x \in ActiveRuns(k)
    BY <1>1, <1>2 DEF ActiveRuns, Active
  <2>2. a = r \/ b = r => ActiveRuns(k) = {}
    BY <1>1, <1>3 DEF RowCreated
  <2> QED BY <2>1, <2>2 DEF OneActiveRunPerRoot
<1>4. CASE ~RowCreated(r)
  <2>1. run'[r].status \in ActiveStatus => Active(r) /\ run'[r].root = run[r].root
    BY <1>4 DEF RowStep, RowRefunded, RowClaimed, RowEnded, RowKept, Active,
                ActiveStatus, TerminalStatus
  <2>2. a \in ActiveRuns(k) /\ b \in ActiveRuns(k)
    BY <1>1, <1>2, <2>1 DEF ActiveRuns, Active
  <2> QED BY <2>2 DEF OneActiveRunPerRoot
<1> QED BY <1>3, <1>4

(* The histories: what a refund, an end and a claim leave behind.           *)
LEMMA RowHistory ==
  ASSUME HistoryMatches, EndedByLatestAttempt,
         NEW r \in RunIds, RowStep(r)
  PROVE  HistoryMatches' /\ EndedByLatestAttempt'
<1>1. \A s \in RunIds : s # r => run'[s] = run[s] /\ finisher'[s] = finisher[s]
  BY DEF RowStep
<1>2. /\ finisher'[r] # 0 => run'[r].status \in TerminalStatus
      /\ run'[r].status \in {"queued", "absent"} => run'[r].attempt = 0
      /\ run'[r].status = "absent" => run'[r].charge = "none"
      /\ finisher'[r] # 0 => finisher'[r] = run'[r].attempt
  BY DEF RowStep, RowCreated, RowRefunded, RowClaimed, RowEnded, RowKept, Active,
         ActiveStatus, TerminalStatus, HistoryMatches, EndedByLatestAttempt
<1> QED BY <1>1, <1>2 DEF HistoryMatches, EndedByLatestAttempt

(* A refunded run is never touched again, except for its queue_job_id and   *)
(* its age.                                                                *)
LEMMA RowRefund ==
  ASSUME TypeOK, HistoryMatches, RefundedRunNeverRuns, NEW r \in RunIds, RowStep(r)
  PROVE  RefundedRunNeverRuns'
<1> SUFFICES ASSUME NEW x \in refunded'
             PROVE  /\ run'[x].status = "failed" /\ run'[x].attempt = 0
                    /\ run'[x].charge = "none" /\ finisher'[x] = 0
  BY DEF RefundedRunNeverRuns
<1>1. \A s \in RunIds : s # r => run'[s] = run[s] /\ finisher'[s] = finisher[s]
  BY DEF RowStep
<1>2. refunded \subseteq RunIds
  BY DEF TypeOK
<1>3. CASE x # r
  <2>1. x \in refunded
    BY <1>3 DEF RowStep, RowCreated, RowRefunded, RowClaimed, RowEnded, RowKept
  <2> QED BY <1>1, <1>2, <1>3, <2>1 DEF RefundedRunNeverRuns
<1>4. CASE x = r /\ x \in refunded
  <2>1. /\ run[r].status = "failed" /\ run[r].attempt = 0
        /\ run[r].charge = "none" /\ finisher[r] = 0
    BY <1>4 DEF RefundedRunNeverRuns
  <2>2. RowKept(r)
    BY <2>1 DEF RowStep, RowCreated, RowRefunded, RowClaimed, RowEnded, Active, ActiveStatus
  <2> QED BY <1>4, <2>1, <2>2 DEF RowKept
<1>5. CASE x = r /\ x \notin refunded
  <2>1. RowRefunded(r)
    BY <1>5 DEF RowStep, RowCreated, RowClaimed, RowEnded, RowKept
  <2>2. run[r].attempt = 0 /\ finisher[r] = 0
    BY <2>1 DEF RowRefunded, HistoryMatches, TerminalStatus
  <2> QED BY <1>5, <2>1, <2>2 DEF RowRefunded
<1> QED BY <1>3, <1>4, <1>5

(* A job that was ever sent stays sent, for the same run.                   *)
LEMMA StepJobs ==
  ASSUME TypeInv, Next
  PROVE  \A j \in JobIds : jobs[j].state # "none" =>
            jobs'[j].state # "none" /\ jobs'[j].key = jobs[j].key
<1> DEFINE Kept == \A j \in JobIds : jobs[j].state # "none" =>
                      jobs'[j].state # "none" /\ jobs'[j].key = jobs[j].key
<1>jobs. jobs \in [JobIds -> Job(RunIds)]
  BY DEF TypeInv, TypeOK
<1>target. HasTarget
  BY DEF TypeInv
<1>send. ASSUME NEW r \in RunIds, CanSend(jobs, r), jobs' = Send(jobs, r)
         PROVE  Kept
  BY <1>send, <1>jobs, SendKeeps
<1>step. ASSUME NEW j \in JobIds,
                jobs' \in {FailJob(jobs, j), Deliver(jobs, j), Complete(jobs, j)}
         PROVE  Kept
  BY <1>step, <1>jobs, JobStepType
<1>same. ASSUME UNCHANGED jobs
         PROVE  Kept
  BY <1>same
<1> HIDE DEF Kept
<1>1. ASSUME NEW q \in Requests, Enqueue(q) \/ EnqueueThrows(q)
      PROVE  Kept
  <2>1. req[q].run \in RunIds
    BY <1>1, <1>target DEF Enqueue, EnqueueThrows, HasTarget
  <2> QED BY <1>1, <2>1, <1>send, <1>same DEF Enqueue, EnqueueThrows
<1>2. ASSUME NEW v \in Visitors, VisitEnqueue(v)
      PROVE  Kept
  <2>1. visit[v].run \in RunIds
    BY <1>2, <1>target DEF VisitEnqueue, HasTarget
  <2> QED BY <1>2, <2>1, <1>send, <1>same DEF VisitEnqueue
<1>3. ASSUME PassEnqueue
      PROVE  Kept
  <2>1. PassRun \in RunIds
    BY <1>3, PassRunType DEF PassEnqueue
  <2> QED BY <1>3, <2>1, <1>send DEF PassEnqueue
<1>4. ASSUME NEW j \in JobIds, Fetch(j) \/ Expire(j)
      PROVE  Kept
  BY <1>4, <1>step DEF Fetch, Expire
<1>5. ASSUME NEW e \in exec, Settle(e)
      PROVE  Kept
  <2>1. e.job \in JobIds
    BY RunOfType DEF TypeInv, Execution
  <2> QED BY <1>5, <2>1, <1>step, <1>same DEF Settle
<1>6. Kept
  BY <1>1, <1>2, <1>3, <1>4, <1>5, <1>same
  DEF Next, RequestStep, ExecutionStep, Clock, Start, Check, ReadRootCharacter,
      PutNegative, ReserveCheck, ReserveInsert, Cancel, MarkEnqueued, RequestDies,
      AuthorizeSearchAllowance, VisitCreateOrReuse, PassList, PassMark, PassAborts,
      Claim, Publish, PutAndFailRun, FailRun, MarkRetrying, WriteRefused,
      UnexpectedError, Abort, WorkerDies, Suppress, SuppressionExpires,
      NegativeExpires, SnapshotAges, ChargeExpires, RunAges, AllowanceExpires
<1> QED BY <1>6 DEF Kept

(* No step takes a run's attempt back.                                     *)
LEMMA AttemptsGrow ==
  ASSUME TypeOK, UNCHANGED <<run, finisher, refunded>> \/ \E r \in RunIds : RowStep(r)
  PROVE  \A r \in RunIds : run[r].attempt <= run'[r].attempt
<1>1. \A r \in RunIds : run[r].attempt \in Nat
  BY JobQueueAssumption DEF TypeOK, RunRow
<1>2. CASE UNCHANGED <<run, finisher, refunded>>
  BY <1>1, <1>2
<1>3. ASSUME NEW r \in RunIds, RowStep(r)
      PROVE  \A x \in RunIds : run[x].attempt <= run'[x].attempt
  <2>1. \A s \in RunIds : s # r => run'[s] = run[s]
    BY <1>3 DEF RowStep
  <2>2. run[r].attempt <= run'[r].attempt
    BY <1>1, <1>3 DEF RowStep, RowCreated, RowRefunded, RowClaimed, RowEnded, RowKept
  <2> QED BY <1>1, <2>1, <2>2
<1> QED BY <1>2, <1>3

(* An execution that reached its writes claimed the run, and no step undoes *)
(* the claim.                                                              *)
LEMMA StepExecutions ==
  ASSUME TypeInv, ExecutionsClaimed, Next
  PROVE  ExecutionsClaimed'
<1>exec. \A e \in exec : e \in Execution /\ e.job \in JobIds /\ RunOf(e) \in RunIds
  BY RunOfType DEF TypeInv, Execution
<1>grow. \A r \in RunIds : run[r].attempt <= run'[r].attempt
  BY StepRow, AttemptsGrow DEF TypeInv
<1>nat. \A r \in RunIds : run[r].attempt \in Nat /\ run'[r].attempt \in Nat
  BY StepTypeOK, JobQueueAssumption DEF TypeInv, TypeOK, RunRow
<1>jobs. \A j \in JobIds : jobs[j].state # "none" =>
            jobs'[j].state # "none" /\ jobs'[j].key = jobs[j].key
  BY StepJobs
<1> DEFINE Claimed(e) ==
      /\ jobs'[e.job].state # "none"
      /\ e.pc \in {"discover", "unexpected"} => e.attempt <= run'[jobs'[e.job].key].attempt
<1>old. ASSUME NEW e \in exec, NEW f, f.job = e.job, f.attempt = e.attempt,
               f.pc \in {"discover", "unexpected"} => e.pc \in {"discover", "unexpected"}
        PROVE  Claimed(f)
  <2>1. jobs'[e.job].state # "none" /\ jobs'[e.job].key = RunOf(e)
    BY <1>exec, <1>jobs DEF ExecutionsClaimed, RunOf
  <2>2. e.attempt \in Nat
    BY <1>exec, JobQueueAssumption DEF Execution
  <2>3. e.pc \in {"discover", "unexpected"} => e.attempt <= run[RunOf(e)].attempt
    BY DEF ExecutionsClaimed
  <2> QED BY <1>old, <1>exec, <1>grow, <1>nat, <2>1, <2>2, <2>3
<1> SUFFICES \A f \in exec' : Claimed(f)
  BY DEF ExecutionsClaimed, RunOf
<1> HIDE DEF Claimed
<1>1. ASSUME NEW j \in JobIds, Fetch(j)
      PROVE  \A f \in exec' : Claimed(f)
  <2> DEFINE n == [job |-> j, attempt |-> jobs[j].attempt, pc |-> "claim", attached |-> TRUE]
  <2>1. exec' = exec \cup {n}
    BY <1>1 DEF Fetch
  <2>2. Claimed(n)
    <3>1. jobs'[j].state # "none"
      BY <1>1, <1>jobs DEF Fetch
    <3> QED BY <3>1 DEF Claimed
  <2>3. \A f \in exec : Claimed(f)
    BY <1>old
  <2> QED BY <2>1, <2>2, <2>3
<1>2. ASSUME NEW j \in JobIds, Expire(j)
      PROVE  \A f \in exec' : Claimed(f)
  <2>1. \A e \in exec : LET f == [e EXCEPT !.attached = FALSE]
                        IN  f.job = e.job /\ f.attempt = e.attempt /\ f.pc = e.pc
    BY <1>exec DEF Execution
  <2>2. \A e \in exec : Claimed(e) /\ Claimed([e EXCEPT !.attached = FALSE])
    BY <2>1, <1>old
  <2> QED BY <1>2, <2>2 DEF Expire
<1>moved. ASSUME NEW e \in exec, NEW p, Step(e, p),
                 \/ e.pc \in {"discover", "unexpected"}
                 \/ p \notin {"discover", "unexpected"}
          PROVE  \A f \in exec' : Claimed(f)
  <2> DEFINE f == [e EXCEPT !.pc = p]
  <2>1. f.job = e.job /\ f.attempt = e.attempt /\ f.pc = p
    BY <1>exec DEF Execution
  <2> HIDE DEF f
  <2>2. Claimed(f)
    BY <1>moved, <2>1, <1>old
  <2>3. \A x \in exec : Claimed(x)
    BY <1>old
  <2>4. exec' = (exec \ {e}) \cup {f}
    BY <1>moved DEF Step, f
  <2> QED BY <2>2, <2>3, <2>4
<1>3. ASSUME NEW e \in exec, Claim(e)
      PROVE  \A f \in exec' : Claimed(f)
  <2>1. CASE Step(e, "return")
    BY <2>1, <1>moved
  <2>2. CASE Step(e, "discover") /\ run' = [run EXCEPT ![RunOf(e)].status = "running",
                                                        ![RunOf(e)].attempt = e.attempt]
    <3> DEFINE f == [e EXCEPT !.pc = "discover"]
               r == RunOf(e)
    <3>1. f.job = e.job /\ f.attempt = e.attempt
      BY <1>exec DEF Execution
    <3>2. r \in RunIds /\ run[r] \in RunRow /\ run \in [RunIds -> RunRow] /\ e.attempt \in Nat
      BY <1>exec, JobQueueAssumption DEF TypeInv, TypeOK, Execution
    <3>3. jobs'[e.job].state # "none" /\ jobs'[e.job].key = r
      BY <1>exec, <1>jobs DEF ExecutionsClaimed, RunOf
    <3> HIDE DEF f, r
    <3>4. run'[r].attempt = e.attempt
      BY <2>2, <3>2 DEF RunRow, r
    <3>5. Claimed(f)
      BY <3>1, <3>2, <3>3, <3>4 DEF Claimed
    <3>6. \A x \in exec : Claimed(x)
      BY <1>old
    <3>7. exec' = (exec \ {e}) \cup {f}
      BY <2>2 DEF Step, f
    <3> QED BY <3>5, <3>6, <3>7
  <2> QED BY <1>3, <2>1, <2>2 DEF Claim
<1>4. ASSUME NEW e \in exec,
             \/ Publish(e) \/ PutAndFailRun(e) \/ FailRun(e) \/ MarkRetrying(e)
             \/ WriteRefused(e) \/ UnexpectedError(e) \/ Abort(e)
      PROVE  \A f \in exec' : Claimed(f)
  BY <1>4, <1>moved DEF Publish, PutAndFailRun, FailRun, MarkRetrying, WriteRefused,
                        UnexpectedError, Abort, Discovered
<1>other. ASSUME exec' \subseteq exec
          PROVE  \A f \in exec' : Claimed(f)
  BY <1>other, <1>old
<1> QED
  BY <1>1, <1>2, <1>3, <1>4, <1>other
  DEF Next, RequestStep, ExecutionStep, Clock, Start, Check, ReadRootCharacter,
      PutNegative, ReserveCheck, ReserveInsert, Enqueue, EnqueueThrows, Cancel,
      MarkEnqueued, RequestDies, AuthorizeSearchAllowance, VisitCreateOrReuse,
      VisitEnqueue, PassList, PassEnqueue, PassMark, PassAborts, Settle, WorkerDies,
      Suppress, SuppressionExpires, NegativeExpires, SnapshotAges, ChargeExpires,
      RunAges, AllowanceExpires

-----------------------------------------------------------------------------
(* Charges: only a reservation's insert and an authorised refresh spend,    *)
(* and both do so under the bucket's lock.                                 *)

(* No charge of a run appears or changes hands.                             *)
NoNewCharge ==
  \A r \in RunIds : run'[r].charge = "live" =>
     run[r].charge = "live" /\ run'[r].payer = run[r].payer

(* Where no charge is new, no bucket's use grows. *)
LEMMA UsageShrinks ==
  ASSUME NoNewCharge, NEW c \in Callers, allowance[c] \in Nat, allowance'[c] \in Nat,
         allowance'[c] <= allowance[c]
  PROVE  Usage(c)' <= Usage(c) /\ Usage(c) \in Nat /\ Usage(c)' \in Nat
<1>1. ChargedRuns(c)' \subseteq ChargedRuns(c)
  BY DEF NoNewCharge, ChargedRuns
<1>2. /\ IsFiniteSet(ChargedRuns(c)) /\ Cardinality(ChargedRuns(c)) \in Nat
  BY UsageType
<1>3. Cardinality(ChargedRuns(c)') <= Cardinality(ChargedRuns(c))
  BY <1>1, <1>2, FS_Subset
<1>4. Cardinality(ChargedRuns(c)') \in Nat
  BY <1>1, <1>2, FS_Subset, FS_CardinalityType
<1> QED BY <1>2, <1>3, <1>4 DEF Usage

(* Inserting a charged run adds one charge to its payer's bucket.           *)
LEMMA UsageOfInsert ==
  ASSUME TypeOK, NEW r \in RunIds, NEW c \in Callers, NEW d \in Callers,
         \A s \in RunIds : s # r => run'[s] = run[s],
         run'[r].payer = c, UNCHANGED allowance
  PROVE  /\ d # c => Usage(d)' <= Usage(d)
         /\ Usage(d)' <= Usage(d) + 1
         /\ Usage(d) \in Nat /\ Usage(d)' \in Nat
<1>1. allowance[d] \in Nat /\ allowance'[d] = allowance[d]
  BY SearchAssumption DEF TypeOK
<1>2. IsFiniteSet(ChargedRuns(d)) /\ Cardinality(ChargedRuns(d)) \in Nat
  BY UsageType
<1>3. /\ IsFiniteSet(ChargedRuns(d) \cup {r})
      /\ Cardinality(ChargedRuns(d) \cup {r}) \in Nat
      /\ Cardinality(ChargedRuns(d) \cup {r}) <= Cardinality(ChargedRuns(d)) + 1
  <2>1. CASE r \in ChargedRuns(d)
    <3>1. ChargedRuns(d) \cup {r} = ChargedRuns(d)
      BY <2>1
    <3> QED BY <1>2, <3>1
  <2>2. CASE r \notin ChargedRuns(d)
    BY <1>2, <2>2, FS_AddElement
  <2> QED BY <2>1, <2>2
<1>4. ChargedRuns(d)' \subseteq ChargedRuns(d) \cup {r}
  BY DEF ChargedRuns
<1>5. /\ Cardinality(ChargedRuns(d)') \in Nat
      /\ Cardinality(ChargedRuns(d)') <= Cardinality(ChargedRuns(d)) + 1
  <2>1. /\ IsFiniteSet(ChargedRuns(d)')
        /\ Cardinality(ChargedRuns(d)') <= Cardinality(ChargedRuns(d) \cup {r})
    BY <1>3, <1>4, FS_Subset
  <2>2. Cardinality(ChargedRuns(d)') \in Nat
    BY <2>1, FS_CardinalityType
  <2> QED BY <1>2, <1>3, <2>1, <2>2
<1>6. d # c => Cardinality(ChargedRuns(d)') <= Cardinality(ChargedRuns(d))
  <2>1. d # c => ChargedRuns(d)' \subseteq ChargedRuns(d)
    BY DEF ChargedRuns
  <2> QED BY <1>2, <2>1, FS_Subset
<1> QED BY <1>1, <1>2, <1>5, <1>6 DEF Usage

(* Every other step that writes a run leaves the charges or lowers them.    *)
LEMMA StepNoNewCharge ==
  ASSUME TypeInv, HistoryMatches, Next, \A q \in Requests : ~ReserveInsert(q)
  PROVE  NoNewCharge
<1>types. run \in [RunIds -> RunRow] /\ \A r \in RunIds : run[r] \in RunRow
  BY DEF TypeInv, TypeOK
<1>target. HasTarget
  BY DEF TypeInv
<1>set. ASSUME NEW r \in RunIds, NEW x, NEW y,
               \/ run' = [run EXCEPT ![r].job = x]
               \/ run' = [run EXCEPT ![r].aged = x]
               \/ run' = [run EXCEPT ![r].status = x]
               \/ run' = [run EXCEPT ![r].status = x, ![r].attempt = y]
               \/ run' = [run EXCEPT ![r].charge = x] /\ x # "live"
               \/ run' = [run EXCEPT ![r].status = x, ![r].charge = "none"]
               \/ /\ run' = [run EXCEPT ![r].status = x, ![r].root = y]
                  /\ run[r].charge # "live"
        PROVE  NoNewCharge
  <2>1. \A s \in RunIds : s # r => run'[s] = run[s]
    BY <1>set, <1>types
  <2>2. run'[r].charge = "live" => run[r].charge = "live" /\ run'[r].payer = run[r].payer
    <3>1. CASE run' = [run EXCEPT ![r].job = x]
      BY <3>1, <1>types DEF RunRow
    <3>2. CASE run' = [run EXCEPT ![r].aged = x]
      BY <3>2, <1>types DEF RunRow
    <3>3. CASE run' = [run EXCEPT ![r].status = x]
      BY <3>3, <1>types DEF RunRow
    <3>4. CASE run' = [run EXCEPT ![r].status = x, ![r].attempt = y]
      BY <3>4, <1>types DEF RunRow
    <3>5. CASE run' = [run EXCEPT ![r].charge = x] /\ x # "live"
      BY <3>5, <1>types DEF RunRow
    <3>6. CASE run' = [run EXCEPT ![r].status = x, ![r].charge = "none"]
      BY <3>6, <1>types DEF RunRow
    <3>7. CASE /\ run' = [run EXCEPT ![r].status = x, ![r].root = y]
               /\ run[r].charge # "live"
      BY <3>7, <1>types DEF RunRow
    <3> QED BY <1>set, <3>1, <3>2, <3>3, <3>4, <3>5, <3>6, <3>7
  <2> QED BY <2>1, <2>2 DEF NoNewCharge
<1>same. ASSUME UNCHANGED run
         PROVE  NoNewCharge
  BY <1>same DEF NoNewCharge
<1>1. ASSUME NEW q \in Requests, Cancel(q)
      PROVE  NoNewCharge
  <2>1. req[q].run \in RunIds
    BY <1>1, <1>target DEF Cancel, HasTarget
  <2>2. \/ UNCHANGED run
        \/ run' = [run EXCEPT ![req[q].run].status = "failed", ![req[q].run].charge = "none"]
    BY <1>1 DEF Cancel
  <2> QED BY <2>1, <2>2, <1>set, <1>same
<1>2. ASSUME NEW q \in Requests, MarkEnqueued(q)
      PROVE  NoNewCharge
  <2>1. req[q].run \in RunIds
    BY <1>2, <1>target DEF MarkEnqueued, HasTarget
  <2>2. UNCHANGED run \/ run' = [run EXCEPT ![req[q].run].job = req[q].job]
    BY <1>2 DEF MarkEnqueued
  <2> QED BY <2>1, <2>2, <1>set, <1>same
<1>3. ASSUME NEW v \in Visitors, VisitCreateOrReuse(v)
      PROVE  NoNewCharge
  <2>1. CASE UNCHANGED run
    BY <2>1, <1>same
  <2>2. CASE run' # run
    <3>1. PICK k \in Roots :
            /\ UnusedRuns # {}
            /\ run' = [run EXCEPT ![NextRun].status = "queued", ![NextRun].root = k]
      BY <1>3, <2>2 DEF VisitCreateOrReuse
    <3>2. NextRun \in RunIds /\ run[NextRun].charge = "none"
      BY <3>1, NextRunType DEF UnusedRuns, HistoryMatches
    <3> QED BY <3>1, <3>2, <1>set
  <2> QED BY <2>1, <2>2
<1>4. ASSUME PassMark
      PROVE  NoNewCharge
  <2>1. PassRun \in RunIds
    BY <1>4, PassRunType DEF PassMark
  <2>2. UNCHANGED run \/ run' = [run EXCEPT ![PassRun].job = pass.job]
    BY <1>4 DEF PassMark
  <2> QED BY <2>1, <2>2, <1>set, <1>same
<1>5. ASSUME NEW e \in exec,
             \/ Claim(e) \/ Publish(e) \/ PutAndFailRun(e) \/ FailRun(e) \/ MarkRetrying(e)
      PROVE  NoNewCharge
  <2>1. RunOf(e) \in RunIds
    BY RunOfType DEF TypeInv
  <2>2. \/ UNCHANGED run
        \/ \E x : run' = [run EXCEPT ![RunOf(e)].status = x]
        \/ \E x, y : run' = [run EXCEPT ![RunOf(e)].status = x, ![RunOf(e)].attempt = y]
    BY <1>5, Zenon DEF Claim, Publish, PutAndFailRun, FailRun, MarkRetrying, EndRun
  <2> QED BY <2>1, <2>2, <1>set, <1>same
<1>6. ASSUME NEW r \in RunIds, ChargeExpires(r) \/ RunAges(r)
      PROVE  NoNewCharge
  <2>1. \/ run' = [run EXCEPT ![r].charge = "expired"]
        \/ run' = [run EXCEPT ![r].charge = "none"]
        \/ run' = [run EXCEPT ![r].aged = TRUE]
    BY <1>6 DEF ChargeExpires, RunAges
  <2> QED BY <2>1, <1>set
<1> QED
  BY <1>1, <1>2, <1>3, <1>4, <1>5, <1>6, <1>same
  DEF Next, RequestStep, ExecutionStep, Clock, Start, Check, ReadRootCharacter,
      PutNegative, ReserveCheck, Enqueue, EnqueueThrows, RequestDies,
      AuthorizeSearchAllowance, VisitEnqueue, PassList, PassEnqueue, PassAborts,
      Fetch, Expire, WriteRefused, UnexpectedError, Settle, Abort, WorkerDies,
      Suppress, SuppressionExpires, NegativeExpires, SnapshotAges, AllowanceExpires

(* The locks follow the reservations: whoever is between its check and its  *)
(* insert keeps both locks, whatever the others do.                        *)
Locked(q) ==
  req[q].pc = "insert" => rootLock[req[q].root] = q /\ bucketLock[req[q].caller] = q

(* A reservation keeps both its advisory locks until it commits or rolls back. *)
LEMMA StepLocks ==
  ASSUME TypeInv, Next, \A q \in Requests : Locked(q)
  PROVE  \A q \in Requests : /\ Locked(q)'
                             /\ req'[q].pc = "insert" => \/ ReserveCheck(q)
                                                         \/ /\ req[q].pc = "insert"
                                                            /\ req'[q] = req[q]
<1>types. /\ req \in [Requests -> Request] /\ \A q \in Requests : req[q] \in Request
          /\ \A q \in Requests : req[q].root \in Roots /\ req[q].caller \in Callers
          /\ rootLock \in [Roots -> Requests \cup {Free}]
          /\ bucketLock \in [Callers -> Requests \cup {Free}]
  BY DEF TypeInv, TypeOK, Request
<1> DEFINE Kept(p) == /\ Locked(p)'
                      /\ req'[p].pc = "insert" => \/ ReserveCheck(p)
                                                  \/ /\ req[p].pc = "insert"
                                                     /\ req'[p] = req[p]
<1>1. ASSUME NEW q \in Requests, ReserveCheck(q)
      PROVE  \A p \in Requests : Kept(p)
  <2>1. \A p \in Requests : p # q => req'[p] = req[p]
    BY <1>1, <1>types DEF ReserveCheck, Goto, Finish
  <2>2. req'[q].root = req[q].root /\ req'[q].caller = req[q].caller
    BY <1>1, <1>types DEF ReserveCheck, Goto, Finish, Request
  <2>3. rootLock[req[q].root] = Free /\ bucketLock[req[q].caller] = Free
    BY <1>1 DEF ReserveCheck, RootFree
  <2>4. \/ UNCHANGED <<rootLock, bucketLock>> /\ req'[q].pc = "done"
        \/ /\ rootLock' = [rootLock EXCEPT ![req[q].root] = q]
           /\ bucketLock' = [bucketLock EXCEPT ![req[q].caller] = q]
    BY <1>1, <1>types DEF ReserveCheck, Goto, Finish, Request
  <2>5. \A p \in Requests : p # q => Locked(p)'
    BY <2>1, <2>3, <2>4, <1>types, SearchAssumption DEF Locked
  <2>6. Locked(q)'
    BY <2>2, <2>4, <1>types DEF Locked
  <2> QED BY <1>1, <2>1, <2>5, <2>6
<1>2. ASSUME NEW q \in Requests, req'[q].pc # "insert",
             \A p \in Requests : p # q => req'[p] = req[p],
             \/ UNCHANGED <<rootLock, bucketLock>>
             \/ Unlock(q) /\ req[q].pc = "insert"
      PROVE  \A p \in Requests : Kept(p)
  <2>1. \A p \in Requests : p # q => Locked(p)'
    BY <1>2, <1>types DEF Locked, Unlock
  <2>2. Locked(q)'
    BY <1>2 DEF Locked
  <2> QED BY <1>2, <2>1, <2>2 DEF Locked
<1>3. ASSUME NEW q \in Requests,
             \/ Start(q) \/ Check(q) \/ ReadRootCharacter(q) \/ PutNegative(q)
             \/ Enqueue(q) \/ EnqueueThrows(q) \/ Cancel(q) \/ MarkEnqueued(q)
      PROVE  \A p \in Requests : Kept(p)
  <2>1. /\ \A p \in Requests : p # q => req'[p] = req[p]
        /\ req'[q].pc # "insert"
    <3>1. CASE Start(q)
      BY <3>1, <1>types DEF Start, Request
    <3>2. CASE Check(q) \/ ReadRootCharacter(q) \/ PutNegative(q)
      BY <3>2, <1>types DEF Check, ReadRootCharacter, PutNegative, Goto, Finish, Request
    <3>3. CASE Enqueue(q) \/ EnqueueThrows(q)
      BY <3>3, <1>types DEF Enqueue, EnqueueThrows, Goto, Request
    <3>4. CASE Cancel(q) \/ MarkEnqueued(q)
      BY <3>4, <1>types DEF Cancel, MarkEnqueued, Finish, Request
    <3> QED BY <1>3, <3>1, <3>2, <3>3, <3>4
  <2>2. UNCHANGED <<rootLock, bucketLock>>
    BY <1>3 DEF Start, Check, ReadRootCharacter, PutNegative, Enqueue, EnqueueThrows,
                Cancel, MarkEnqueued
  <2> QED BY <2>1, <2>2, <1>2
<1>4. ASSUME NEW q \in Requests, ReserveInsert(q) \/ RequestDies(q)
      PROVE  \A p \in Requests : Kept(p)
  <2>1. /\ \A p \in Requests : p # q => req'[p] = req[p]
        /\ req'[q].pc # "insert"
    BY <1>4, <1>types DEF ReserveInsert, RequestDies, Finish, Request
  <2>2. \/ UNCHANGED <<rootLock, bucketLock>>
        \/ Unlock(q) /\ req[q].pc = "insert"
    BY <1>4 DEF ReserveInsert, RequestDies
  <2> QED BY <2>1, <2>2, <1>2
<1>other. ASSUME UNCHANGED <<req, rootLock, bucketLock>>
          PROVE  \A p \in Requests : Kept(p)
  BY <1>other DEF Locked
<1> HIDE DEF Kept
<1>5. \A p \in Requests : Kept(p)
  BY <1>1, <1>3, <1>4, <1>other
  DEF Next, RequestStep, ExecutionStep, Clock, AuthorizeSearchAllowance,
      VisitCreateOrReuse, VisitEnqueue, PassList, PassEnqueue, PassMark, PassAborts,
      Fetch, Expire, Claim, Publish, PutAndFailRun, FailRun, MarkRetrying, WriteRefused,
      UnexpectedError, Settle, Abort, WorkerDies, Suppress, SuppressionExpires,
      NegativeExpires, SnapshotAges, ChargeExpires, RunAges, AllowanceExpires
<1> QED BY <1>5 DEF Kept

(* The limit survives every step: only the holder of a bucket's lock charges it. *)
LEMMA StepCharges ==
  ASSUME TypeInv, HistoryMatches, ReservationsLocked, ChargesWithinLimit, Next
  PROVE  ReservationsLocked' /\ ChargesWithinLimit'
<1>types. /\ req \in [Requests -> Request] /\ \A q \in Requests : req[q] \in Request
          /\ \A q \in Requests : req[q].root \in Roots /\ req[q].caller \in Callers
          /\ allowance \in [Callers -> 0..SearchLimit] /\ SearchLimit \in Nat
          /\ \A c \in Callers : allowance[c] \in Nat
          /\ run \in [RunIds -> RunRow]
          /\ TypeOK
  BY SearchAssumption DEF TypeInv, TypeOK, Request
<1>locked. \A q \in Requests : Locked(q)
  BY DEF ReservationsLocked, Locked
<1>locks. \A q \in Requests : /\ Locked(q)'
                              /\ req'[q].pc = "insert" => \/ ReserveCheck(q)
                                                          \/ /\ req[q].pc = "insert"
                                                             /\ req'[q] = req[q]
  BY <1>locked, StepLocks
<1>usage. \A c \in Callers : Usage(c) \in Nat
  BY <1>types, UsageType DEF Usage
(* What is left to show of a step: how it moves the buckets.                *)
<1> DEFINE Fine == /\ \A c \in Callers : Usage(c)' <= SearchLimit
                   /\ \A q \in Requests, c \in Callers :
                        req'[q].pc = "insert" /\ req'[q].caller = c => Usage(c)' < SearchLimit
<1>1. ASSUME NEW q \in Requests, ReserveInsert(q)
      PROVE  Fine
  <2> DEFINE c == req[q].caller
  <2>1. c \in Callers /\ Usage(c) < SearchLimit /\ bucketLock[c] = q
    BY <1>1, <1>types DEF ReserveInsert, ReservationsLocked
  <2>2. \A d \in Callers : /\ d # c => Usage(d)' <= Usage(d)
                           /\ Usage(d)' <= Usage(d) + 1
                           /\ Usage(d)' \in Nat
    <3>1. CASE UNCHANGED run
      <4>1. NoNewCharge /\ UNCHANGED allowance
        BY <1>1, <3>1 DEF NoNewCharge, ReserveInsert
      <4> QED BY <4>1, <1>types, UsageShrinks
    <3>2. CASE run' # run
      <4>1. /\ UnusedRuns # {}
            /\ run' = [run EXCEPT ![NextRun].status = "queued", ![NextRun].root = req[q].root,
                                  ![NextRun].charge = "live", ![NextRun].payer = c]
        BY <1>1, <3>2 DEF ReserveInsert
      <4>2. NextRun \in RunIds
        BY <4>1, NextRunType
      <4> HIDE DEF c
      <4>3. run'[NextRun].payer = c /\ \A s \in RunIds : s # NextRun => run'[s] = run[s]
        BY <4>1, <4>2, <1>types DEF RunRow
      <4>4. UNCHANGED allowance
        BY <1>1 DEF ReserveInsert
      <4> QED BY <2>1, <4>2, <4>3, <4>4, <1>types, UsageOfInsert
    <3> QED BY <3>1, <3>2
  <2>3. \A p \in Requests : req'[p].pc = "insert" =>
           /\ p # q /\ req'[p] = req[p] /\ req[p].pc = "insert"
    <3>1. req'[q].pc # "insert"
      BY <1>1, <1>types DEF ReserveInsert, Finish, Request
    <3>2. \A p \in Requests : p # q => req'[p] = req[p]
      BY <1>1, <1>types DEF ReserveInsert, Finish
    <3> QED BY <3>1, <3>2
  <2>4. \A p \in Requests, d \in Callers : req'[p].pc = "insert" /\ req'[p].caller = d =>
           d # c /\ Usage(d) < SearchLimit
    BY <2>1, <2>3, <1>types DEF ReservationsLocked
  <2> HIDE DEF c
  <2>5. \A d \in Callers : Usage(d)' <= SearchLimit
    BY <2>1, <2>2, <1>usage, <1>types DEF ChargesWithinLimit
  <2>6. \A d \in Callers : d # c /\ Usage(d) < SearchLimit => Usage(d)' < SearchLimit
    BY <2>2, <1>usage, <1>types
  <2> QED BY <2>4, <2>5, <2>6
<1>2. ASSUME \A q \in Requests : ~ReserveInsert(q)
      PROVE  Fine
  <2>1. NoNewCharge
    BY <1>2, StepNoNewCharge
  <2>2. CASE \E c \in Callers : AuthorizeSearchAllowance(c)
    <3>1. PICK c \in Callers : AuthorizeSearchAllowance(c)
      BY <2>2
    <3>2. /\ UNCHANGED <<req, run>> /\ bucketLock[c] = Free /\ Usage(c) < SearchLimit
          /\ allowance' = [allowance EXCEPT ![c] = @ + 1]
      BY <3>1 DEF AuthorizeSearchAllowance
    <3>3. \A d \in Callers : allowance'[d] = IF d = c THEN allowance[d] + 1 ELSE allowance[d]
      BY <3>2, <1>types
    <3>4. \A d \in Callers : Usage(d)' = IF d = c THEN Usage(d) + 1 ELSE Usage(d)
      <4>1. \A d \in Callers : ChargedRuns(d)' = ChargedRuns(d)
        BY <3>2 DEF ChargedRuns
      <4>2. \A d \in Callers : Cardinality(ChargedRuns(d)) \in Nat
        BY UsageType
      <4> QED BY <3>3, <4>1, <4>2, <1>types DEF Usage
    <3>5. \A p \in Requests : req[p].pc = "insert" => req[p].caller # c
      BY <3>2, <1>types, SearchAssumption DEF ReservationsLocked
    <3>6. \A d \in Callers : Usage(d)' <= SearchLimit
      BY <3>2, <3>4, <1>usage, <1>types DEF ChargesWithinLimit
    <3>7. \A q \in Requests, d \in Callers : req[q].pc = "insert" /\ req[q].caller = d =>
             d # c /\ Usage(d) < SearchLimit
      BY <3>5 DEF ReservationsLocked
    <3> QED BY <3>2, <3>4, <3>6, <3>7
  <2>3. CASE ~\E c \in Callers : AuthorizeSearchAllowance(c)
    <3>1. \A c \in Callers : allowance'[c] \in Nat /\ allowance'[c] <= allowance[c]
      <4>1. CASE UNCHANGED allowance
        BY <4>1, <1>types
      <4>2. CASE \E c \in Callers : AllowanceExpires(c)
        BY <4>2, <1>types DEF AllowanceExpires
      <4> QED
        BY <1>2, <2>3, <4>1, <4>2
        DEF Next, RequestStep, ExecutionStep, Clock, Start, Check, ReadRootCharacter,
            PutNegative, ReserveCheck, Enqueue, EnqueueThrows, Cancel,
            MarkEnqueued, RequestDies, VisitCreateOrReuse, VisitEnqueue, PassList,
            PassEnqueue, PassMark, PassAborts, Fetch, Expire, Claim, Publish,
            PutAndFailRun, FailRun, MarkRetrying, WriteRefused, UnexpectedError, Settle,
            Abort, WorkerDies, Suppress, SuppressionExpires, NegativeExpires,
            SnapshotAges, ChargeExpires, RunAges
    <3>2. \A c \in Callers : Usage(c)' <= Usage(c) /\ Usage(c)' \in Nat
      BY <2>1, <3>1, <1>types, UsageShrinks
    <3>3. \A q \in Requests, c \in Callers : req'[q].pc = "insert" /\ req'[q].caller = c =>
             Usage(c) < SearchLimit
      <4>1. ASSUME NEW q \in Requests, ReserveCheck(q), req'[q].pc = "insert"
            PROVE  Usage(req[q].caller) < SearchLimit /\ req'[q].caller = req[q].caller
        <5>1. req'[q].caller = req[q].caller
          BY <4>1, <1>types DEF ReserveCheck, Goto, Finish, Request
        <5>2. ~NothingToReserve(req[q].caller, req[q].root)
          BY <4>1, <1>types DEF ReserveCheck, Finish, Request
        <5> QED BY <5>1, <5>2, <1>types, <1>usage DEF NothingToReserve
      <4> QED BY <4>1, <1>locks, <1>types DEF ReservationsLocked
    <3>4. \A c \in Callers : /\ Usage(c)' <= SearchLimit
                             /\ Usage(c) < SearchLimit => Usage(c)' < SearchLimit
      BY <3>2, <1>usage, <1>types DEF ChargesWithinLimit
    <3> QED BY <3>3, <3>4
  <2> QED BY <2>2, <2>3
<1>3. Fine
  BY <1>1, <1>2
<1>4. ChargesWithinLimit'
  BY <1>3 DEF ChargesWithinLimit
<1>5. \A q \in Requests : req'[q].caller \in Callers
  BY StepTypeOK DEF TypeOK, Request
<1>6. ASSUME NEW q \in Requests, req'[q].pc = "insert"
      PROVE  (Usage(req[q].caller) < SearchLimit)'
  BY <1>3, <1>5, <1>6 DEF Usage, ChargedRuns
<1> QED BY <1>4, <1>6, <1>locks DEF ReservationsLocked, Locked

-----------------------------------------------------------------------------
(* The inductive invariant and what follows from it *)

Inductive == IInv /\ HasTarget

(* The initial state satisfies the inductive invariant. *)
LEMMA InitInductive == Init => Inductive
<1> SUFFICES ASSUME Init PROVE Inductive
  OBVIOUS
<1>1. TypeInv
  BY InitType
<1>2. \A r \in RunIds : /\ run[r].status = "absent" /\ run[r].attempt = 0
                        /\ run[r].charge = "none" /\ finisher[r] = 0
  BY DEF Init
<1>3. HistoryMatches /\ EndedByLatestAttempt /\ OneActiveRunPerRoot
  BY <1>2 DEF HistoryMatches, EndedByLatestAttempt, OneActiveRunPerRoot, ActiveRuns,
              Active, ActiveStatus
<1>4. ExecutionsClaimed /\ RefundedRunNeverRuns
  BY DEF Init, ExecutionsClaimed, RefundedRunNeverRuns
<1>5. ReservationsLocked
  BY DEF Init, ReservationsLocked
<1>6. ChargesWithinLimit
  <2>1. \A c \in Callers : ChargedRuns(c) = {}
    BY <1>2 DEF ChargedRuns
  <2>2. \A c \in Callers : Usage(c) = 0
    <3>1. Cardinality({}) = 0
      BY FS_EmptySet
    <3>2. \A c \in Callers : allowance[c] = 0
      BY DEF Init
    <3> QED BY <2>1, <3>1, <3>2 DEF Usage
  <2> QED BY <2>2, SearchAssumption DEF ChargesWithinLimit
<1> QED BY <1>1, <1>3, <1>4, <1>5, <1>6 DEF Inductive, IInv, TypeInv

(* Every step of Next keeps the inductive invariant. *)
LEMMA StepInductive ==
  ASSUME Inductive, [Next]_vars
  PROVE  Inductive'
<1> USE DEF Inductive, IInv
<1>1. CASE UNCHANGED vars
  <2>1. TypeInv'
    BY <1>1, StepType DEF TypeInv
  <2>2. /\ ExecutionsClaimed' /\ HistoryMatches' /\ OneActiveRunPerRoot'
        /\ RefundedRunNeverRuns' /\ EndedByLatestAttempt'
    BY <1>1 DEF vars, ExecutionsClaimed, RunOf, HistoryMatches, OneActiveRunPerRoot,
                ActiveRuns, Active, RefundedRunNeverRuns, EndedByLatestAttempt
  <2>3. ReservationsLocked' /\ ChargesWithinLimit'
    BY <1>1 DEF vars, ReservationsLocked, ChargesWithinLimit, Usage, ChargedRuns
  <2> QED BY <2>1, <2>2, <2>3 DEF TypeInv
<1>2. CASE Next
  <2>1. TypeInv'
    BY <1>2, StepType DEF TypeInv
  <2>2. ExecutionsClaimed'
    BY <1>2, StepExecutions DEF TypeInv
  <2>3. ReservationsLocked' /\ ChargesWithinLimit'
    BY <1>2, StepCharges DEF TypeInv
  <2>4. OneActiveRunPerRoot' /\ HistoryMatches' /\ RefundedRunNeverRuns'
          /\ EndedByLatestAttempt'
    <3>1. CASE UNCHANGED <<run, finisher, refunded>>
      BY <3>1 DEF OneActiveRunPerRoot, ActiveRuns, Active, HistoryMatches,
                  RefundedRunNeverRuns, EndedByLatestAttempt
    <3>2. CASE \E r \in RunIds : RowStep(r)
      BY <3>2, RowOneActive, RowHistory, RowRefund
    <3> QED BY <1>2, <3>1, <3>2, StepRow DEF TypeInv
  <2> QED BY <2>1, <2>2, <2>3, <2>4 DEF TypeInv
<1> QED BY <1>1, <1>2

(* The inductive invariant holds in every reachable state. *)
LEMMA InductiveInvariant == Spec => []Inductive
BY InitInductive, StepInductive, PTL DEF Spec

(* Two creators under different locks never leave two active runs of one    *)
(* root.                                                                   *)
THEOREM OneActiveRun == Spec => []OneActiveRunPerRoot
<1>1. Inductive => OneActiveRunPerRoot
  BY DEF Inductive, IInv
<1> QED BY <1>1, InductiveInvariant, PTL

(* However many requests and refreshes of a caller race, its live charges   *)
(* stay within the limit.                                                  *)
THEOREM ChargesBounded == Spec => []ChargesWithinLimit
<1>1. Inductive => ChargesWithinLimit
  BY DEF Inductive, IInv
<1> QED BY <1>1, InductiveInvariant, PTL

(* A run whose charge cancel() gave back was never claimed, never published *)
(* and never will be.                                                      *)
THEOREM RefundIsFinal == Spec => []RefundedRunNeverRuns
<1>1. Inductive => RefundedRunNeverRuns
  BY DEF Inductive, IInv
<1> QED BY <1>1, InductiveInvariant, PTL

(* Whatever deliveries of a run overlap, only the latest to have claimed it *)
(* ends it.                                                                *)
THEOREM LatestAttemptEnds == Spec => []EndedByLatestAttempt
<1>1. Inductive => EndedByLatestAttempt
  BY DEF Inductive, IInv
<1> QED BY <1>1, InductiveInvariant, PTL

(* An ended run keeps its status and its attempt.                          *)
THEOREM EndedStaysEnded == Spec => TerminalIsFinal
<1>1. ASSUME Inductive, [Next]_vars
      PROVE  [\A r \in RunIds : run[r].status \in TerminalStatus =>
                run'[r].status = run[r].status /\ run'[r].attempt = run[r].attempt]_vars
  <2>1. CASE UNCHANGED vars
    BY <2>1
  <2>2. CASE Next
    <3>1. TypeInv /\ ExecutionsClaimed
      BY <1>1 DEF Inductive, IInv, TypeInv
    <3>2. CASE UNCHANGED <<run, finisher, refunded>>
      BY <3>2
    <3>3. ASSUME NEW x \in RunIds, RowStep(x)
          PROVE  \A r \in RunIds : run[r].status \in TerminalStatus =>
                   run'[r].status = run[r].status /\ run'[r].attempt = run[r].attempt
      <4>1. \A s \in RunIds : s # x => run'[s] = run[s]
        BY <3>3 DEF RowStep
      <4>2. run[x].status \in TerminalStatus => RowKept(x)
        BY <3>3 DEF RowStep, RowCreated, RowRefunded, RowClaimed, RowEnded, Active,
                    ActiveStatus, TerminalStatus
      <4> QED BY <4>1, <4>2 DEF RowKept
    <3> QED BY <2>2, <3>1, <3>2, <3>3, StepRow
  <2> QED BY <1>1, <2>1, <2>2
<1> QED BY <1>1, InductiveInvariant, PTL DEF Spec, TerminalIsFinal

-----------------------------------------------------------------------------
(* A charge is made where it is needed.  Between its check and its insert  *)
(* a reservation holds the root's lock, so what it saw of the root stands. *)

Needed(k) == k \notin suppressed /\ k \notin negative /\ snap[k] # "fresh"

ChecksStand == \A q \in Requests : req[q].pc = "insert" => Needed(req[q].root)

(* Whoever suppresses a root, publishes it or finds it missing holds its   *)
(* lock.                                                                   *)
LEMMA StepFacts ==
  ASSUME TypeInv, Next, NEW k \in Roots, rootLock[k] # Free, Needed(k)
  PROVE  Needed(k)'
<1>types. snap \in [Roots -> {"none", "stale", "fresh"}]
  BY DEF TypeInv, TypeOK
<1>1. ASSUME NEW j \in Roots, Suppress(j) PROVE Needed(k)'
  <2>1. j # k /\ suppressed' = suppressed \cup {j} /\ UNCHANGED <<snap, negative>>
    BY <1>1 DEF Suppress, RootFree
  <2> QED BY <2>1 DEF Needed
<1>2. ASSUME NEW q \in Requests, PutNegative(q) PROVE Needed(k)'
  <2>1. /\ req[q].root # k /\ negative' = negative \cup {req[q].root}
        /\ UNCHANGED <<snap, suppressed>>
    BY <1>2 DEF PutNegative, RootFree
  <2> QED BY <2>1 DEF Needed
<1>3. ASSUME NEW e \in exec, PutAndFailRun(e) PROVE Needed(k)'
  <2>1. /\ run[RunOf(e)].root # k /\ negative' = negative \cup {run[RunOf(e)].root}
        /\ UNCHANGED <<snap, suppressed>>
    BY <1>3 DEF PutAndFailRun, Discovered, CanWrite, RootFree
  <2> QED BY <2>1 DEF Needed
<1>4. ASSUME NEW e \in exec, Publish(e) PROVE Needed(k)'
  <2>1. /\ run[RunOf(e)].root # k /\ UNCHANGED <<negative, suppressed>>
        /\ UNCHANGED snap \/ snap' = [snap EXCEPT ![run[RunOf(e)].root] = "fresh"]
    BY <1>4 DEF Publish, Discovered, CanWrite, RootFree
  <2>2. snap'[k] = snap[k]
    BY <2>1, <1>types
  <2> QED BY <2>1, <2>2 DEF Needed
<1>5. ASSUME NEW j \in Roots, SuppressionExpires(j) \/ NegativeExpires(j) \/ SnapshotAges(j)
      PROVE  Needed(k)'
  <2>1. /\ suppressed' \subseteq suppressed /\ negative' \subseteq negative
        /\ UNCHANGED snap \/ snap' = [snap EXCEPT ![j] = "stale"]
    BY <1>5 DEF SuppressionExpires, NegativeExpires, SnapshotAges
  <2>2. snap'[k] \in {snap[k], "stale"}
    BY <2>1, <1>types
  <2> QED BY <2>1, <2>2 DEF Needed
<1>6. ASSUME UNCHANGED <<suppressed, negative, snap>> PROVE Needed(k)'
  BY <1>6 DEF Needed
<1> HIDE DEF Needed
<1> QED
  BY <1>1, <1>2, <1>3, <1>4, <1>5, <1>6
  DEF Next, RequestStep, ExecutionStep, Clock, Start, Check, ReadRootCharacter,
      ReserveCheck, ReserveInsert, Enqueue, EnqueueThrows, Cancel, MarkEnqueued, RequestDies,
      AuthorizeSearchAllowance, VisitCreateOrReuse, VisitEnqueue, PassList, PassEnqueue,
      PassMark, PassAborts, Fetch, Expire, Claim, FailRun, MarkRetrying, WriteRefused,
      UnexpectedError, Settle, Abort, WorkerDies, ChargeExpires, RunAges, AllowanceExpires

LEMMA StepChecks ==
  ASSUME Inductive, ChecksStand, [Next]_vars
  PROVE  ChecksStand'
<1>1. CASE UNCHANGED vars
  BY <1>1 DEF vars, ChecksStand, Needed
<1>2. CASE Next
  <2>1. TypeInv /\ \A q \in Requests : Locked(q)
    BY DEF Inductive, IInv, TypeInv, ReservationsLocked, Locked
  <2>2. /\ req \in [Requests -> Request] /\ \A q \in Requests : req[q] \in Request
        /\ \A q \in Requests : req[q].root \in Roots
    BY <2>1 DEF TypeInv, TypeOK, Request
  <2>3. ASSUME NEW q \in Requests, req'[q].pc = "insert"
        PROVE  /\ req'[q].root \notin suppressed' /\ req'[q].root \notin negative'
               /\ snap'[req'[q].root] # "fresh"
    <3>1. CASE ReserveCheck(q)
      <4>1. req'[q].root = req[q].root /\ ~NothingToReserve(req[q].caller, req[q].root)
        BY <2>2, <2>3, <3>1 DEF ReserveCheck, Goto, Finish, Request
      <4>2. UNCHANGED <<suppressed, negative, snap>>
        BY <3>1 DEF ReserveCheck
      <4> QED BY <4>1, <4>2 DEF NothingToReserve, Needed
    <3>2. CASE req[q].pc = "insert" /\ req'[q] = req[q]
      <4>1. rootLock[req[q].root] # Free /\ Needed(req[q].root)
        BY <2>1, <3>2, SearchAssumption DEF Locked, ChecksStand
      <4>2. \A k \in Roots : rootLock[k] # Free /\ Needed(k) =>
               k \notin suppressed' /\ k \notin negative' /\ snap'[k] # "fresh"
        BY <1>2, <2>1, StepFacts DEF Needed
      <4> QED BY <2>2, <3>2, <4>1, <4>2
    <3> QED BY <1>2, <2>1, <2>3, <3>1, <3>2, StepLocks
  <2> QED BY <2>3 DEF ChecksStand, Needed
<1> QED BY <1>1, <1>2

(* A charged run is never started for a root that is at that moment        *)
(* suppressed, freshly searched or known not to exist (reserve).           *)
THEOREM ChargedOnlyWhenNeeded == Spec => NoNeedlessCharge
<1>1. Init => ChecksStand
  BY DEF Init, ChecksStand
<1>2. Spec => []ChecksStand
  BY <1>1, StepChecks, InductiveInvariant, PTL DEF Spec
<1>3. ASSUME Inductive, ChecksStand, [Next]_vars
      PROVE  [\A r \in RunIds :
                run[r].charge = "none" /\ run'[r].charge = "live" =>
                  /\ run'[r].root \notin suppressed /\ run'[r].root \notin negative
                  /\ snap[run'[r].root] # "fresh"]_vars
  <2>1. CASE UNCHANGED vars
    BY <2>1
  <2>2. CASE Next
    <3>1. TypeInv /\ HistoryMatches /\ run \in [RunIds -> RunRow]
      BY <1>3 DEF Inductive, IInv, TypeInv, TypeOK
    <3>2. CASE \A q \in Requests : ~ReserveInsert(q)
      <4>1. NoNewCharge
        BY <2>2, <3>1, <3>2, StepNoNewCharge
      <4> QED BY <4>1 DEF NoNewCharge
    <3>3. ASSUME NEW q \in Requests, ReserveInsert(q), NEW r \in RunIds,
                 run[r].charge = "none", run'[r].charge = "live"
          PROVE  /\ run'[r].root \notin suppressed /\ run'[r].root \notin negative
                 /\ snap[run'[r].root] # "fresh"
      <4>1. Needed(req[q].root)
        BY <1>3, <3>3 DEF ChecksStand, ReserveInsert
      <4>2. /\ UnusedRuns # {}
            /\ run' = [run EXCEPT ![NextRun].status = "queued", ![NextRun].root = req[q].root,
                                  ![NextRun].charge = "live", ![NextRun].payer = req[q].caller]
        BY <3>3 DEF ReserveInsert
      <4>3. NextRun \in RunIds
        BY <4>2, NextRunType
      <4>4. run'[r].root = req[q].root
        BY <3>1, <3>3, <4>2, <4>3 DEF RunRow
      <4> QED BY <4>1, <4>4 DEF Needed
    <3> QED BY <3>2, <3>3
  <2> QED BY <1>3, <2>1, <2>2
<1> QED BY <1>2, <1>3, InductiveInvariant, PTL DEF Spec, NoNeedlessCharge

=============================================================================
