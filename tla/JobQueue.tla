------------------------------ MODULE JobQueue ------------------------------
(***************************************************************************)
(* The pg-boss queue as packages/database/src/queue.ts configures and uses *)
(* it: a table of jobs with the `exclusive' policy (at most one job that   *)
(* has not ended per singleton key), a retry limit, and an expiry that     *)
(* hands an active job to its next attempt.  These are operators on a      *)
(* queue q : JobIds -> Job; the modules that own a queue use them in their *)
(* actions.                                                                *)
(***************************************************************************)
EXTENDS Naturals

CONSTANTS MaxJobs,      \* bound: how many jobs are ever created
          MaxAttempts   \* retryLimit + 1; 5 in the deployed configuration

ASSUME JobQueueAssumption == MaxJobs \in Nat /\ MaxAttempts \in Nat \ {0}

JobIds == 1..MaxJobs
NoJob  == 0

LiveJobStates == {"created", "retry", "active"}
JobStates     == LiveJobStates \cup {"none", "completed", "failed"}

(* attempt is retryCount + 1, the number the next or current delivery      *)
(* reports to its handler.                                                 *)
Job(Keys) == [state : JobStates, key : Keys, attempt : 1..MaxAttempts]

NeverSent(key) == [state |-> "none", key |-> key, attempt |-> 1]

(* existingSingletonJobId: the job the exclusive index would collide with. *)
LiveJobs(q, key) ==
  {j \in JobIds : q[j].key = key /\ q[j].state \in LiveJobStates}

UnusedJobs(q) == {j \in JobIds : q[j].state = "none"}

CanSend(q, key) == LiveJobs(q, key) # {} \/ UnusedJobs(q) # {}

NextJob(q) == CHOOSE j \in UnusedJobs(q) : TRUE

(* boss.send: a second send for a key with a live job creates nothing.     *)
Send(q, key) ==
  IF LiveJobs(q, key) # {}
  THEN q
  ELSE [q EXCEPT ![NextJob(q)] =
          [state |-> "created", key |-> key, attempt |-> 1]]

(* The id enqueue() reports: the new job's, or the existing one's.         *)
SentJob(q, key) ==
  IF LiveJobs(q, key) # {}
  THEN CHOOSE j \in LiveJobs(q, key) : TRUE
  ELSE NextJob(q)

Deliver(q, j) == [q EXCEPT ![j].state = "active"]

Complete(q, j) == [q EXCEPT ![j].state = "completed"]

(* A failed or expired delivery is retried until the limit.                *)
FailJob(q, j) ==
  IF q[j].attempt < MaxAttempts
  THEN [q EXCEPT ![j].state = "retry", ![j].attempt = @ + 1]
  ELSE [q EXCEPT ![j].state = "failed"]

=============================================================================
