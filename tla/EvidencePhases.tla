--------------------------- MODULE EvidencePhases ---------------------------
(***************************************************************************)
(* The progress ledger of one evidence run: what a reader is shown while   *)
(* attempt after attempt works on it, the earlier ones perhaps still at it.*)
(*                                                                         *)
(*   - application/src/evidence-phase-ledger.ts: the in-memory ledger of   *)
(*     one attempt, loaded from the rows when the attempt begins;          *)
(*   - recordPhaseTransitions of database/src/evidence/repository.ts: one  *)
(*     statement per row, any of which may fail or be refused, with its    *)
(*     own idea of a legal change; the publication row, written in the     *)
(*     transaction that settles the run;                                   *)
(*   - the operations applicant-evidence-job-handler.ts asks for.  Each is *)
(*     best effort: its failure is swallowed, and only what it had still   *)
(*     to write is left out.                                               *)
(***************************************************************************)
EXTENDS Naturals, FiniteSets, Sequences

CONSTANTS Scans,        \* phases of Warcraft Logs queries: history, tier bests, parses...
          Providers,    \* phases of the other providers
          Limits,       \* phases that may end limited; the others complete
          MaxDeliveries,  \* deliveries of the run
          MaxMishaps      \* bound: storage failures and lost workers

ASSUME PhaseAssumption ==
  Scans \in Nat \ {0, 1} /\ Providers \in Nat /\ MaxDeliveries \in Nat \ {0} /\ MaxMishaps \in Nat

Identity      == 1
History       == 2
TierBests     == 3
Publication   == Scans + Providers + 2
ScanPhases    == 2..(Scans + 1)
OtherPhases   == (Scans + 2)..(Publication - 1)
Plan          == 1..Publication             \* fullEvidencePhasePlan, in order
Deliveries    == 1..MaxDeliveries

Terminal    == {"completed", "skipped", "limited", "failed", "cancelled"}
PhaseStates == Terminal \cup {"pending", "active"}

(* What the handler asks of the ledger: to move one phase, or to skip what *)
(* is pending before a phase ("rest").                                     *)
Operations == [p : Plan \ {Publication}, to : PhaseStates \ {"pending"}]
                \cup [p : Plan, to : {"rest"}]

VARIABLES
  rows,       \* character_evidence_run_phases of the run
  open,       \* the run is queued, running or retrying
  staged,     \* the delivery whose collection is staged, or 0
  published,  \* the delivery whose collection was published, or 0
  mishaps,    \* storage failures and lost workers still to come
  pc,         \* where a delivery is
  source,     \* the delivery whose collection it publishes, or 0
  has,        \* it has a ledger: phaseLedger is not undefined
  mem,        \* its ledger
  cur,        \* activePhase, then the provider it last came to
  ops,        \* the operations it awaits, one after the other
  left,       \* the rows its transition has still to write
  missed      \* a write of its ledger failed or was refused

shared     == <<rows, open, staged, published>>
ledger     == <<has, mem, ops, left, missed>>
phasesVars == <<shared, mishaps, pc, source, cur, ledger>>

Steps == {"new", "load", "identity", "resolve", "begin", "scan", "providers",
          "provider", "publish", "staged", "retry", "stop", "over"}

PhasesTypeOK ==
  /\ rows \in [Plan -> PhaseStates] /\ open \in BOOLEAN
  /\ staged \in Deliveries \cup {0} /\ published \in Deliveries \cup {0}
  /\ mishaps \in 0..MaxMishaps
  /\ pc \in [Deliveries -> Steps] /\ source \in [Deliveries -> Deliveries \cup {0}]
  /\ has \in [Deliveries -> BOOLEAN] /\ missed \in [Deliveries -> BOOLEAN]
  /\ mem \in [Deliveries -> [Plan -> PhaseStates]]
  /\ cur \in [Deliveries -> 0..(Publication - 1)]
  /\ ops \in [Deliveries -> Seq(Operations)] /\ left \in [Deliveries -> SUBSET Plan]

Unstarted == [p \in Plan |-> "pending"]

PhasesInit ==
  /\ rows = Unstarted /\ open = TRUE /\ staged = 0 /\ published = 0
  /\ mishaps \in 0..MaxMishaps
  /\ pc = [d \in Deliveries |-> "new"] /\ source = [d \in Deliveries |-> 0]
  /\ has = [d \in Deliveries |-> FALSE] /\ missed = has
  /\ mem = [d \in Deliveries |-> Unstarted] /\ cur = source
  /\ ops = [d \in Deliveries |-> <<>>] /\ left = [d \in Deliveries |-> {}]

-----------------------------------------------------------------------------
(* isLegalTransition.                                                      *)
Legal(from, to) ==
  \/ from = to
  \/ from = "pending" /\ to \in {"active", "skipped"}
  \/ from = "active" /\ to \in Terminal
  \/ from = "completed" /\ to = "limited"
  \/ from = "limited" /\ to = "active"

(* The WHERE clause of recordPhaseTransitions: an active row is never      *)
(* skipped, and no row of a settled run is written.                        *)
Storable(from, to) == Legal(from, to) /\ ~(from = "active" /\ to = "skipped")

First(S) == CHOOSE p \in S : \A q \in S : p <= q

(* A mutant of PendingBefore: the last of them is left out.                *)
PendingBeforeShort(l, p) == {q \in Plan : q < p - 1 /\ l[q] = "pending"}

PendingBefore(l, p) == {q \in Plan : q < p /\ l[q] = "pending"}

(* transition refuses to enter or to settle a phase while an earlier one   *)
(* is still at work; a phase that is already there, or completed and       *)
(* entered again, is left as it is.                                        *)
Moves(l, p, to) ==
  /\ Legal(l[p], to) /\ l[p] # to
  /\ to = "active" => \A q \in Plan : q < p => l[q] # "active"
  /\ to \notin {"active", "skipped"} => \A q \in Plan : q < p => l[q] \in Terminal

(* The rows of the next transition of operation o: the phase it moves and, *)
(* when it enters it, the pending ones before; or the first phase that a   *)
(* loop of skips still finds pending.  None, and the operation is over.    *)
Batch(l, o) ==
  IF o.to = "rest" THEN {q \in PendingBefore(l, o.p) : q = First(PendingBefore(l, o.p))}
  ELSE IF ~Moves(l, o.p, o.to) THEN {}
  ELSE {o.p} \cup (IF o.to = "active" THEN PendingBefore(l, o.p) ELSE {})

(* What the operation makes of a phase of its batch.                       *)
Becomes(o, q) == IF o.to = "rest" \/ q # o.p THEN "skipped" ELSE o.to

Todo(d) == IF left[d] = {} THEN Batch(mem[d], Head(ops[d])) ELSE left[d]

Written(d) ==
  [q \in Plan |-> IF q \in Batch(mem[d], Head(ops[d])) THEN Becomes(Head(ops[d]), q)
                  ELSE mem[d][q]]

(* One UPDATE of recordPhaseTransitions; after the last of a transition    *)
(* the ledger takes it over, and a loop of skips goes on to the next.      *)
WriteRow(d) ==
  /\ ops[d] # <<>> /\ open /\ Todo(d) # {}
  /\ LET o == Head(ops[d])  q == First(Todo(d)) IN
     /\ Storable(rows[q], Becomes(o, q))
     /\ rows' = [rows EXCEPT ![q] = Becomes(o, q)]
     /\ left' = [left EXCEPT ![d] = Todo(d) \ {q}]
     /\ IF Todo(d) # {q} THEN UNCHANGED <<mem, ops>>
        ELSE /\ mem' = [mem EXCEPT ![d] = Written(d)]
             /\ ops' = IF o.to = "rest" THEN ops ELSE [ops EXCEPT ![d] = Tail(@)]
  /\ UNCHANGED <<open, staged, published, mishaps, pc, source, has, cur, missed>>

Mishap == mishaps > 0 /\ mishaps' = mishaps - 1

(* A mutant of LoseRow: the ledger takes over what it did not store.       *)
LoseRowUnseen(d) ==
  /\ ops[d] # <<>> /\ Todo(d) # {}
  /\ IF open /\ Storable(rows[First(Todo(d))], Becomes(Head(ops[d]), First(Todo(d))))
     THEN Mishap ELSE UNCHANGED mishaps
  /\ mem' = [mem EXCEPT ![d] = Written(d)]
  /\ ops' = [ops EXCEPT ![d] = Tail(@)] /\ left' = [left EXCEPT ![d] = {}]
  /\ missed' = [missed EXCEPT ![d] = TRUE]
  /\ UNCHANGED <<shared, pc, source, has, cur>>

(* The UPDATE fails, or finds no row it may change: the operation ends     *)
(* there, the rest of its loop included.                                   *)
LoseRow(d) ==
  /\ ops[d] # <<>> /\ Todo(d) # {}
  /\ IF open /\ Storable(rows[First(Todo(d))], Becomes(Head(ops[d]), First(Todo(d))))
     THEN Mishap ELSE UNCHANGED mishaps
  /\ ops' = [ops EXCEPT ![d] = Tail(@)] /\ left' = [left EXCEPT ![d] = {}]
  /\ missed' = [missed EXCEPT ![d] = TRUE]
  /\ UNCHANGED <<shared, pc, source, has, mem, cur>>

(* Nothing to write: the ledger refused the change, or all is skipped.     *)
EndOperation(d) ==
  /\ ops[d] # <<>> /\ Todo(d) = {}
  /\ ops' = [ops EXCEPT ![d] = Tail(@)]
  /\ UNCHANGED <<shared, mishaps, pc, source, has, mem, cur, left, missed>>

-----------------------------------------------------------------------------
To(p, to)   == [p |-> p, to |-> to]
SkipUpTo(p) == To(p, "rest")

(* phaseLedger?.: without a ledger nothing is asked of it.                 *)
Ask(d, q) ==
  /\ ops[d] = <<>>
  /\ ops' = [ops EXCEPT ![d] = IF has[d] THEN q ELSE <<>>]
  /\ UNCHANGED <<shared, mishaps, has, mem, left, missed>>

Turns(d, from, to) == pc[d] = from /\ pc' = [pc EXCEPT ![d] = to]

(* cancelActive, failActive: the first phase of the plan that is active.   *)
EndActive(d, to) ==
  LET active == {p \in Plan : mem[d][p] = "active"}
  IN  IF active = {} THEN <<>> ELSE <<To(First(active), to)>>

(* The phase at work is settled, limited when its query was, and o follows.*)
SettleAnd(d, to, o) == IF cur[d] = 0 THEN <<o>> ELSE <<To(cur[d], to), o>>

Endings(p) == {"completed"} \cup (IF p \in Limits THEN {"limited"} ELSE {})

(* A later delivery claims an active run whatever the earlier ones do, and *)
(* publishes what one of them staged.                                      *)
ClaimRun(d) ==
  /\ open /\ \A e \in Deliveries : e < d => pc[e] # "new"
  /\ Turns(d, "new", IF staged = 0 THEN "load" ELSE "staged")
  /\ source' = [source EXCEPT ![d] = IF staged = 0 THEN d ELSE staged]
  /\ UNCHANGED <<shared, mishaps, cur, ledger>>

(* listPhases, whose failure leaves the attempt without a ledger, as a     *)
(* plan that is not whole does.                                            *)
Load(d) ==
  /\ Turns(d, "load", "identity")
  /\ \E loaded \in BOOLEAN :
       /\ has' = [has EXCEPT ![d] = loaded]
       /\ IF loaded THEN mem' = [mem EXCEPT ![d] = rows] /\ UNCHANGED mishaps
          ELSE Mishap /\ UNCHANGED mem
  /\ UNCHANGED <<shared, source, cur, ops, left, missed>>

(* The identity is resolved, or there is nobody to ask...                  *)
EnterIdentity(d) ==
  /\ \/ Turns(d, "identity", "resolve") /\ Ask(d, <<To(Identity, "active")>>)
     \/ Turns(d, "identity", "begin") /\ Ask(d, <<To(Identity, "skipped")>>)
  /\ UNCHANGED <<source, cur>>

ResolveIdentity(d) ==
  /\ Turns(d, "resolve", "begin")
  /\ \E to \in Endings(Identity) : Ask(d, <<To(Identity, to)>>)
  /\ UNCHANGED <<source, cur>>

(* ... and the scan begins with the history, or resumes after it.          *)
BeginScan(d) ==
  /\ Turns(d, "begin", "scan")
  /\ \/ Ask(d, <<To(History, "active")>>) /\ cur' = [cur EXCEPT ![d] = History]
     \/ Ask(d, <<To(History, "skipped"), To(TierBests, "skipped")>>) /\ UNCHANGED cur
  /\ UNCHANGED source

(* observePhase: the first request, or limitation, of another phase.       *)
Observe(d, p) ==
  /\ Turns(d, "scan", "scan") /\ p # cur[d]
  /\ \E to \in Endings(cur[d]) : Ask(d, SettleAnd(d, to, To(p, "active")))
  /\ cur' = [cur EXCEPT ![d] = p]
  /\ UNCHANGED source

(* The gateway returned: the phase at work ends and what is left of the    *)
(* scan is skipped; all that is left, when the answer is only a limitation,*)
(* which is published as it is, or the search was for one raid.            *)
EndScan(d) ==
  /\ \E to \in Endings(cur[d]) :
       \/ /\ Turns(d, "scan", "publish")
          /\ Ask(d, SettleAnd(d, to, SkipUpTo(Publication)))
       \/ /\ Turns(d, "scan", "providers")
          /\ \E p \in {Scans + 2, Publication} : Ask(d, SettleAnd(d, to, SkipUpTo(p)))
  /\ cur' = [cur EXCEPT ![d] = Scans + 1]
  /\ UNCHANGED source

(* A provider with nothing to be asked is skipped.                         *)
EnterProvider(d, p) ==
  /\ p > cur[d]
  /\ \/ Turns(d, "providers", "provider") /\ Ask(d, <<To(p, "active")>>)
     \/ Turns(d, "providers", "providers") /\ Ask(d, <<To(p, "skipped")>>)
  /\ cur' = [cur EXCEPT ![d] = p]
  /\ UNCHANGED source

LeaveProvider(d) ==
  /\ Turns(d, "provider", "providers")
  /\ \E to \in Endings(cur[d]) : Ask(d, <<To(cur[d], to)>>)
  /\ UNCHANGED <<source, cur>>

EndProviders(d) ==
  /\ Turns(d, "providers", "publish") /\ Ask(d, <<SkipUpTo(Publication)>>)
  /\ UNCHANGED <<source, cur>>

(* stageCollection, over what an overlapping attempt may have staged.      *)
StageRun(d) ==
  /\ Turns(d, "publish", "staged") /\ ops[d] = <<>> /\ open
  /\ staged' = d
  /\ UNCHANGED <<rows, open, published, mishaps, source, cur, ledger>>

(* What an attempt held in memory is gone with it.                         *)
Gone(d) ==
  /\ pc' = [pc EXCEPT ![d] = "over"] /\ cur' = [cur EXCEPT ![d] = 0]
  /\ ops' = [ops EXCEPT ![d] = <<>>] /\ left' = [left EXCEPT ![d] = {}]
  /\ mem' = [mem EXCEPT ![d] = Unstarted]
  /\ UNCHANGED <<source, has, missed>>

(* Settling the run, and the row of the publication, in one transaction.   *)
Settle(to) ==
  /\ open' = FALSE /\ staged' = 0
  /\ rows' = [rows EXCEPT ![Publication] = to]

PublishRun(d) ==
  /\ pc[d] = "staged" /\ open
  /\ Settle("completed") /\ published' = source[d]
  /\ Gone(d) /\ UNCHANGED mishaps

(* The recovery sweep publishes the stage of a run nobody works on by its  *)
(* reckoning, or fails it.                                                 *)
RecoverRun ==
  /\ open
  /\ IF staged = 0 THEN Settle("failed") /\ published' = 0
     ELSE Settle("completed") /\ published' = staged
  /\ UNCHANGED <<mishaps, pc, source, cur, ledger>>

AtWork == Steps \ {"new", "retry", "stop", "over"}

(* The catch block: cancelActive after an abort, which the queue retries,  *)
(* nothing when it retries another error...                                *)
AttemptRetried(d) ==
  /\ \E from \in AtWork : Turns(d, from, "retry")
  /\ Ask(d, <<>>) \/ Ask(d, EndActive(d, "cancelled"))
  /\ UNCHANGED <<source, cur>>

(* ... or failActive, and publishStopped or its fail, which find the run   *)
(* active or are refused.                                                  *)
AttemptStopped(d) ==
  /\ \E from \in AtWork : Turns(d, from, "stop")
  /\ Ask(d, EndActive(d, "failed"))
  /\ UNCHANGED <<source, cur>>

StopRun(d) ==
  /\ pc[d] = "stop" /\ ops[d] = <<>>
  /\ \/ open /\ Settle("failed")
     \/ ~open /\ UNCHANGED <<rows, open, staged>>
  /\ Gone(d) /\ UNCHANGED <<published, mishaps>>

EndAttempt(d) ==
  /\ pc[d] = "retry" /\ ops[d] = <<>> /\ Gone(d)
  /\ UNCHANGED <<shared, mishaps>>

(* The worker is lost, between two writes or anywhere else.                *)
Lost(d) ==
  /\ pc[d] \notin {"new", "over"} /\ Gone(d)
  /\ Mishap /\ UNCHANGED shared

DeliverySteps(d) ==
  \/ WriteRow(d) \/ LoseRow(d) \/ EndOperation(d)
  \/ ClaimRun(d) \/ Load(d) \/ EnterIdentity(d) \/ ResolveIdentity(d) \/ BeginScan(d)
  \/ \E p \in ScanPhases : Observe(d, p)
  \/ EndScan(d)
  \/ \E p \in OtherPhases : EnterProvider(d, p)
  \/ LeaveProvider(d) \/ EndProviders(d)
  \/ StageRun(d) \/ PublishRun(d)
  \/ AttemptRetried(d) \/ AttemptStopped(d) \/ EndAttempt(d) \/ StopRun(d) \/ Lost(d)

PhasesNext == RecoverRun \/ \E d \in Deliveries : DeliverySteps(d)

PhasesSpec == PhasesInit /\ [][PhasesNext]_phasesVars

-----------------------------------------------------------------------------
(* A run that publishes what an attempt collected shows a reader no phase  *)
(* that is still to come, whatever other attempts, earlier ones still at   *)
(* it included, do to the same rows, and whoever publishes it from the     *)
(* stage: provided that attempt had a ledger and every write of it was     *)
(* stored (skipPending and skipPendingBefore).  Otherwise the code lets    *)
(* the run be published with phases pending.                               *)
PublishedShowsNothingPending ==
  published # 0 /\ has[published] /\ ~missed[published] =>
    \A p \in Plan : rows[p] # "pending"

(* What an attempt's ledger says of a phase was stored, and the row has    *)
(* since only gone where recordPhaseTransitions lets a row go, although    *)
(* writes fail between two rows of one transition and other attempts write *)
(* the same rows.  So what the ledger holds for settled is not shown to a  *)
(* reader as still to come.                                                *)
Onward(from) ==
  CASE from = "pending" -> PhaseStates
    [] from \in {"active", "completed", "limited"} -> PhaseStates \ {"pending", "skipped"}
    [] OTHER -> {from}

LedgerBehindRows ==
  \A d \in Deliveries, p \in Plan : rows[p] \in Onward(mem[d][p])

(* What keeps the two.  The row of the publication waits for the run to    *)
(* settle, and no ledger touches it; a transition half written has stored  *)
(* what it will make of the phases before the rows it has left.  And what  *)
(* is handed to the publication by an attempt that stored all it asked for *)
(* has no phase to come: its last loop of skips found none, and no row     *)
(* ever goes back.                                                         *)
PublicationStates == {"pending", "completed", "failed"}

PublicationWaits ==
  /\ rows[Publication] \in PublicationStates
  /\ open => rows[Publication] = "pending"
  /\ \A d \in Deliveries : mem[d][Publication] \in PublicationStates

HalfWritten(d) == LET o == Head(ops[d]) IN
  /\ ops[d] # <<>> /\ left[d] \subseteq Batch(mem[d], o)
  /\ \A q \in Batch(mem[d], o) \ left[d] : rows[q] \in Onward(Becomes(o, q))

WritesAreKept ==
  /\ LedgerBehindRows
  /\ \A d \in Deliveries : left[d] # {} => HalfWritten(d)

Collects == {"load", "identity", "resolve", "begin", "scan", "providers", "provider", "publish"}

Placed ==
  \A d \in Deliveries :
    /\ pc[d] \in {"new", "load"} => ops[d] = <<>>
    /\ pc[d] \in Collects => source[d] = d
    /\ pc[d] = "provider" => cur[d] # 0

NothingPending(l) == \A p \in Plan \ {Publication} : l[p] # "pending"

StoredAll(d) == has[d] /\ ~missed[d]

(* What delivery d collected may be published.                             *)
Handed(d) ==
  /\ pc[d] \notin {"new", "load"}
  /\ StoredAll(d) => NothingPending(rows)

HandedOver ==
  /\ staged # 0 => Handed(staged)
  /\ published # 0 => Handed(published) /\ ~open /\ rows[Publication] # "pending"
  /\ \A d \in Deliveries :
       /\ pc[d] = "staged" => source[d] # 0 /\ Handed(source[d])
       /\ pc[d] = "publish" =>
            IF ops[d] = <<>> THEN StoredAll(d) => NothingPending(mem[d])
            ELSE ops[d][Len(ops[d])] = SkipUpTo(Publication)

Inductive ==
  PhasesTypeOK /\ PublicationWaits /\ WritesAreKept /\ Placed /\ HandedOver

(* Doc: a phase is terminalised before the next one begins (the comment    *)
(* before the providers), so at most one is shown at work.                 *)
OnePhaseAtATime == Cardinality({p \in Plan : rows[p] = "active"}) <= 1

=============================================================================
