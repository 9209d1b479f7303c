# SlashWho in TLA+

SlashWho finds the other characters of a World of Warcraft player and collects what is public about them.  A search
for a *root* character becomes a *discovery run*; a worker asks Raider.IO, Blizzard and Warcraft Logs about it and
publishes a *snapshot*.  The *dossier* of a player shows the characters of a group, and *evidence runs* collect each
character's raid history.  Nearly all of the program's state is in one PostgreSQL database, and nearly everything that
can go wrong is an interleaving of transactions: web requests, worker deliveries, pg-boss retries and expiries,
scheduled recovery passes, and processes that die between two of them.  The modules here model that core and the
providers' side of it; TLC checks them on small instances and TLAPS proves the central parts for every instance.

Paths below are relative to `src/`.

## The system's parts

| Part | State | Operations | Interacts with |
|---|---|---|---|
| Search service (`packages/application/src/search-service.ts`) | a map of pending lookups | create, refresh allowance, connected-character visit, recoverPendingSearches | reserves runs in the database, sends jobs, asks Raider.IO |
| Discovery runs (`packages/database/src/discovery-runs.ts`) | `discovery_runs`, `rate_limit_events` | reserve, cancel, markEnqueued, createOrReuse, claim, markRetrying, fail | the root and bucket advisory locks, the unique index on active roots |
| Job queue (`packages/database/src/queue.ts`, pg-boss) | `pgboss.job` | enqueue with a singleton key, work, retry, expire | the worker's handlers |
| Discovery job handler (`discovery-job-handler.ts`) | one delivery's locals | claim, discover, sweep, publish, retry, fail | runs, snapshots, admissions, evidence queue |
| Fingerprint sweep (`fingerprint-sweeps.ts`) and its fenced delivery (`fingerprint-delivery.ts`) | sweep states, admissions, reservations, request events; token and attempt of an admission | requestAdmission, recordRequest, finish, release, requeueContinuation; boundAdmission, fencedPool, recoverTerminal | the hourly Blizzard budget shared by all workers; every write of a delivery |
| Evidence runs (`packages/database/src/evidence/repository.ts`, `applicant-evidence-job-handler.ts`) | runs, stages, phases, kills, wipes, terminal marks, scan cursors | reserve, claim, stage, publish, fail, defer, recover | Warcraft Logs and Raider.IO; the points allowance of a credential |
| Reading Warcraft Logs (`packages/warcraftlogs/src`) | bookmarks and cursors kept between runs | history scans per name, ranked walk, attendance search, parse hydration, report decoding | evidence runs |
| Provider gateways (`token-source.ts`, `transport.ts`, `request-limiter.ts`, `bounded-cache.ts`, Raider.IO client) | a cached token, a queue of callers, a map of loaded values, reservations of profile reads | token, invalidate, acquire, release, read, resolve | every collection and discovery |
| Character groups (`character-connections.ts`, `observation-writes.ts`) | observed and manual links, decisions ledger, stored groups | write, recompute, maintenance pass, rebuild, group pages | discovery and the manual links of a dossier |
| Applicant sheet (`apps/worker/src/applicant-watcher.ts`, `applicant-links.ts`) | counts, intents, applications | poll, drain, link, clean up | evidence runs, groups |
| Accounts and their mail (`accounts.ts`, `account-mail.ts`) | accounts, tokens, sessions, provider credentials, outbox | register, verify, reset, change, sign in, administer, deliver | the web API |
| Dossier page (`use-authoritative-poll.ts`, `evidence-run-watch.ts`, `search-dossier-tier.ts`) | what is shown, one timer, reads in flight | poll, watch, press, read back | the web API |
| Pure algorithms of `packages/domain`, contracts, rendering | none | classification, ordering, validation | everything above |

What is hard: several writers reach a run under different locks; the queue may deliver a job again while an earlier
execution still runs; a send may take effect although it reports an error; a process may die between a committed
transaction and the message that should follow it; budgets are shared by all callers and workers; a walk over a
provider's pages is cut short by a cap and goes on in another run, while the pages move.

## Modules

Constants are parameters, bounds are named `Max...` (or say "bound:" beside their declaration), each handler is one
action or, where it awaits, one action per step between two awaits.  `PROJECT.json` maps every definition to its lines.

### Searches: `JobQueue`, `SearchAdmission`

`JobQueue` is pg-boss as `queue.ts` uses it: at most one job that has not ended per singleton key, `retryLimit + 1`
attempts, expiry.

In `SearchAdmission`, `run[r]` is a `discovery_runs` row together with its `rate_limit_events` row: status, root,
`attempt`, `queue_job_id`, charge (none, live, or expired and not yet deleted), paying bucket, and whether the run is
older than `maxJobLifetimeMs`.  `jobs` is the queue; `snap`, `suppressed` and `negative` are what the database knows of
a root; `rootLock` and `bucketLock` are the two advisory locks, held across steps only by a reservation that is between
its checks and its insert.  Every other transaction is one step and is enabled only while the locks it takes are free.

| Actions | Code |
|---|---|
| `Start`, `Check`, `ReadRootCharacter`, `PutNegative` | `create()` up to the reservation: each await is a step, each early answer ends the request |
| `ReserveCheck`, `ReserveInsert` | the reservation transaction; two steps, because `createOrReuse`, `cancel` and the clock take neither lock.  The insert meets `discovery_runs_one_active_root_idx` and rolls back |
| `Enqueue`, `EnqueueThrows`, `Cancel`, `MarkEnqueued` | dispatch; the send may throw before or after it took effect, and `cancel` refunds a run that is still queued |
| `RequestDies` | the web process is lost; an open transaction rolls back |
| `AuthorizeSearchAllowance` | a refresh charges the same bucket |
| `VisitCreateOrReuse`, `VisitEnqueue` | `scheduleConnectedCharacterSweep`; whether the visit is due is left open |
| `PassList`, `PassEnqueue`, `PassMark`, `PassAborts` | `recoverPendingSearches`, which works through a list that may be stale |
| `Fetch`, `Claim`, `Publish`, `PutAndFailRun`, `FailRun`, `MarkRetrying`, `UnexpectedError`, `WriteRefused`, `Abort`, `Settle` | one delivery of the run's job; `Fenced` is the fence in `fingerprint-delivery.ts` |
| `WorkerDies`, `Expire` | the worker is lost; the job outlives `expireInSeconds` and goes to its next attempt, while the old execution may go on |
| `Suppress` and the clock | an operator hides a root; suppressions, negative entries, charges, freshness and lifetimes run out |

Left out: the public-read bucket and the contents of a snapshot; the fingerprint-sweep block of the handler is in
`FingerprintSweep`.

### Sweeps: `SweepBudget`, `FingerprintSweep`

In `SweepBudget` a reservation is `Cap` slots; a slot is unused, or carries the time of its request.  `used_count`, the
sum the admission query computes and the rows of `fingerprint_sweep_request_events` are then sets of slots.  Every
operation works with a timestamp taken before its transaction waited for the fingerprint lock, at most `Lag` behind the
clock.  `late` is a history variable: the slots recorded after their reservation's hour had ended.  `Request`, `Admit`
(FIFO by `requested_at` and `queue_order`), `RecordRequest`, `releaseRest` and `CleanupExpired` are the functions of
`fingerprint-sweeps.ts`.

`FingerprintSweep` is one character's sweep.  `adm` is a sequence of admission rows, each with its reservation; the
position is `queue_order`.  `root` is the character's cursor, the run whose snapshot it extends, the count of cycles
without progress and whether the last publication is within the cadence.  An execution's `adm` is the admission its
fence names, its `res` the one whose reservation it sweeps on: the code keeps them apart, and so does the model.  The
room in the budget is left open, so it covers every answer `SweepBudget` may give.  `live` says that the reservation had
time left when its sweep began: past its hour `recordRequest` refuses every request, so such a sweep publishes nothing.
Without `live` a run could get two admissions in play, which larger bounds and the proof both show.  A chain that gave
up gets no further continuation; a late second execution of the run's first job may still ask for a new ordinary
admission.

| Actions | Code |
|---|---|
| `Fetch`, `Accept`, `Identify`, `Claim` | a delivery up to its claim: `boundAdmission`, `execute`, `isIdentifiedRun`, `executeOriginal`; the awaits between them are separate steps |
| `Valid`, `Retired`, `Commit`, `Stale` | `lockAndCheck` and the commit hook of `fencedPool`, around every write of an execution |
| `AdmitExisting`, `AdmitNotDue`, `AdmitNow`, `AdmitLater`, `Bind` | `requestAdmission` and what it may answer |
| `EnqueueAdmission`, `CompleteNotDue`, `PublishFirst`, `PublishNext`, `SweepEnds`, `Release`, `RecordFailure`, `Requeue`, `MarkRetrying`, `FailRun`, `RunEnded` | the handler after the answer |
| `StartAdmission`, `AdmitWaiting`, `AdmitWaits`, `SendDelivery`, `MarkDispatched` | the admission queue's handler and its dispatcher |
| `BootStart`, `RecoverTerminal`, `RecoverStranded`, `RedriveWaiting`, `BootDispatch` | the recovery of a worker that starts, while others run |
| faults and lapses | at most `MaxFaults` of them in a behaviour |

Left out: `recoverLegacy` (a one-time migration), the linked-evidence dispatch, the observations a publication writes.

### Collections: `CollectionSlot`, `EvidenceRuns`, `EvidencePhases`, `EvidenceHistory`, `EvidenceBudget`

`CollectionSlot` is abstract: a character has one slot; a collection takes it when it is reserved and gives it back
once, published or failed, and it is always given back.  `EvidenceRuns` implements it (`Slot` is the instance):
reservation and its joins, tier searches, enqueueing, claims and their expiry, stages, publication, failure, alias
edits with their invalidations, terminal marks, and the recovery sweep of `recover-abandoned-evidence-runs.ts`, each of
whose statements is a step.

`EvidencePhases` is the ledger of the phases of one run.  `mem[d]` is the map of a delivery, `rows` the stored rows.
What the handler asks of the ledger is a queue of operations (`ops`): move one phase, or skip what is pending before
one.  An operation is transitions, and a transition is one UPDATE for each row (`WriteRow`), any of which may fail or
find its row in a state it may not leave (`LoseRow`): the operation ends there, the failure is swallowed, rows already
written stay, and the map takes a transition over only when its last row is stored.  The map is loaded from the rows
when a delivery begins, and may fail to load, which leaves it without a ledger.  Deliveries follow one another with
mishaps or overlap; any of them, or the recovery sweep, may publish what another staged.

| Actions | Code |
|---|---|
| `WriteRow`, `LoseRow`, `EndOperation` | `recordPhaseTransitions` and `transition`, row by row |
| `ClaimRun`, `Load` | the claim and `listPhases`; a staged collection is published at once |
| `EnterIdentity` ... `EndProviders` | the handler's calls of the ledger, from the identity to the last `skipPending` |
| `StageRun`, `PublishRun`, `RecoverRun` | the stage, the publication with its own row, the recovery sweep |
| `AttemptRetried`, `AttemptStopped`, `EndAttempt`, `StopRun`, `Lost` | the catch block, `publishStopped`, the end of a worker |

`EvidenceHistory` is what a publication merges and what the next run reads: kills found, parsed and re-read, the page
bookmark, the terminal marks and the window of runs a dossier shows.  `EvidenceBudget` is a run's admission on a reading
of its credential's allowance, its caps, its cost and its deferral; what other runs spend and the hour's reset come from
the environment.

### Reading: `AliasScans`, `RankedWalk`, `AttendanceWalk`, `ParseHydration`, `ReportDecoding`

`AliasScans` shares one request cap between the scans of a character's names and keeps a bookmark for each; a page holds
one report, and a name's scan is evaluated in one step (`Order`, `Admitted` and `Shares` are fixed before the first of
them).  `RankedWalk` walks from the rankings to the reports behind them, with a cursor kept across capped runs; its
`left` is a history variable, the reports an earlier run of the walk left unread.  `AttendanceWalk` gallops, bisects and
reads the pages of a guild's attendance, and replays a kept walk.  `ParseHydration` asks for the parses of reports and
settles the raids it had no trouble with.  `ReportDecoding` decodes a page fight by fight.

### Gateways: `UpstreamTokens`, `RequestLimiter`, `BoundedCache`, `RosterPresence`, `RaiderIoReads`

`UpstreamTokens` is the token source and the transport above it: requests share one token request, a refused token is
dropped and the request tried once more.  `RequestLimiter` is the sliding window with one timer, `BoundedCache` the map
in the order of use with one load per key.  `RosterPresence` is a pass that resolves roster profiles by leased reads
that overlapping passes share; `RaiderIoReads` the walk over tiers by a few workers and the pair of rank endpoints.
Time is kept as ages, or as ticks left, so that it needs no bound.

### Links: `ConnectionWrites`, `CharacterGroups`, `PathStrengths`, `LinkGraphs`, `GroupPages`

`ConnectionWrites` is what the publications of one root write about one family of links or the other, and when: a write
may come late or never, and the newest marker keeps an older one out.  `CharacterGroups` is the stored partition:
writers, recomputes round by round under the groups lock, and maintenance passes that may overlap.  `PathStrengths` is
the labelling algorithm (Tarjan's blocks and their tree) beside a reference that enumerates simple paths; `LinkGraphs`
runs the two over every small graph.  `GroupPages` is the page read from a group beside the page of today.

### People: `ApplicantIntake`, `ApplicantDrain`, `ApplicantLinks`, `Accounts`, `AccountMail`

The three applicant modules follow a response: `ApplicantIntake` compares counts of identities with the sheet and admits
or defers each rise; `ApplicantDrain` claims intents, charges the day's budget and starts a discovery and a collection:
`coll` has the latest run of each kind, which may be reserved and then unavailable, cancelled, sent although the send
threw, published, failed or partial, and how many runs came to stay.  `ApplicantLinks` links an application's members.
A worker locks the application, but reads the groups and adds the link on other connections, in two steps: a second
worker on another application comes in between.  `raced` is a history variable, that a link rests on groups older than
another's link.  `Accounts` is a request that
reads an account and writes in a later transaction, every write repeating in SQL what must still hold; a token's id is
some id no token has yet, an account's `own` counts the password changes made in a session.  `AccountMail`
is the outbox and the loops that empty it; a claim is a lease, and nothing is locked during delivery.

### The page: `TierPress`, `DossierPage`

`TierPress` is a press of "search this tier" over the characters of a dossier and what the control shows of it;
`DossierPage` the poll loop, the watch of runs and the reads after a press, with answers in any order.

## Runs

The search runs check `SearchAdmission` alone, one of them up to a permutation of its callers' requests
(`RequestSymmetry`).  The others are *bundles*: components that share no state with one another are brought together in
one module (`MCEvidence`, `MCUpstream`, ...), a behaviour's variable `part`, fixed in its initial state and drawn from
the constant `Parts`, says which of them the behaviour is about under which bounds, and the others stand still.  The
state space of a bundle is the sum of those of its parts.  A bundle EXTENDS the components whose properties are
theorems, so that the run checks the very definition that is proved, in every part (a component at rest keeps its
invariants and takes no step); the other components are instances, and their properties are conjunctions of what their
modules state, each behind `part = ...`.  The comment above a property names the code it is about.

| Run | Instances | Shows |
|---|---|---|
| `search_reserve` | 2 requests, 1 visit, 1 root, 1 caller with one charge, 2 runs, 1 job of 1 attempt | one active run per root, charges within the limit, a refunded run never runs, no needless charge, an ended run stays as it is |
| `search_live` | 1 request, 1 run, 1 job of 2 attempts, fair | a run left without a job is dispatched; a run ends unless its attempts were lost; only its latest attempt ends it |
| `evidence` | phases: 2 scans, 1 provider, 2 deliveries that overlap, or follow one another with a lost write or worker; runs: 2 or 3 runs with tier searches, alias edits or both | a published run shows no phase pending when its collector's writes were stored, rows are never behind the map of a delivery, no stage outlives its publication, the stored scan follows the aliases, each step takes or settles the slot or leaves both |
| `upstream` | 3 requests with a revocation, an expiry and a failure; 4 callers of a limiter of 2 and 3 per window; 3 keys in a cache of 2; 1 or 2 roster passes, 1 or 2 workers; 4 tiers by 3 workers | tokens are shared and dropped only when refused, the rate and the size hold, a verdict rests on answers of its pass, what is said of the provider is what it did, and three rules about steps (`UpstreamSteps`) |
| `connections` | 2 runs and 1 cycle of writes, 2 of them late; 3 characters in 4 groups; pages of 3 characters; every graph of 4 characters and up to 5 links | retractions hold, old writes stay out, drift is something a cycle still owes, pages agree, labels are exact |
| `people` | 2 mails and 2 workers; 1 or 2 accounts; 2 responses and 3 polls, rows removed in one part; 2 intents: 1 character by 2 ticks, 1 character of 1 poll, 2 characters; 2 applications that share a member, by 2 workers or beside the cleanup | one sender per mail, credentials are current, responses and members are counted, a replay starts nothing twice, and rules about steps of accounts and applicants |
| `reading` | 3 names and a cap of 4; 2 or 3 fights in 2 raids, 2 or 3 runs, one part with rebuilds between them; 3 fights in 3 reports of 2 raids; pages of 2 fights | the cap is shared, no name is dropped, the history shown is the window that was read, raids settled are answered, other runs only add |
| `sweeps` | 2 admissions of 2 requests; 1 or 2 runs of 2 to 4 admissions; 2 ranked reports and 2 zones, read at once or continued by another run; 4 or 5 reports of attendance; the configured caps of a run | what is committed fits the hour, one live admission, the cursor only advances, "searched" means read where a search is not cut short, one continued passes over nothing and stores what it accepted, a run's cost fits its allowance |
| `live` | 1 slot with 2 jobs of 2 attempts and 1 fault; 2 characters and a limit of 1, by 1 tab with reservations that throw and reads that fail, or by 2 tabs; 2 watched runs; 2 mails, one of them poison; 2 applications, one broken; 3 names; 2 requests; 3 profiles, two broken | `EvidenceRuns` implements `CollectionSlot`, its liveness included; everyone is reached and every wait is served |
| `evidence_marks`, `reading_light`, `sweep_resume` | one part each | violated: three statements of comments and documents (findings) |

Why the bounds are enough: every lock, index, slot and bucket is per root, per character or per caller, so one of each
suffices for contention, and two actors are the smallest set that races.  Two jobs of two attempts are the smallest set
with a zombie of one attempt beside a newer one and a second job for a run whose first has failed.  Three runs are the
fewest with a complete one, a partial one and one that reads both.  Four admissions of two runs are the fewest in which
a superseded cycle could end the chain that replaced its own.  Five links of four characters make every shape in which a
walk may double back over a bridge or into a cycle.  A cache of two with three keys is the smallest that evicts the
wrong entry.

Bundles check no deadlock: a component whose bounds are used up is at rest.  The search runs do check it.

Symmetry is used only for sets whose members no definition tells apart, and not in the runs with liveness.

### Fairness

`search_live`: the event loop runs the next step of a live request or execution, pg-boss fetches and expires jobs, and
the hourly pass is scheduled for ever; its steps get strong fairness, because a pass may be aborted any number of times
but not every time.  `live` states, per component and only while the behaviour is about it, what its code schedules:
the recovery sweep and the ageing of a run (`EvidenceRuns!Fairness`), the page's timers and its fetches, the delivery
loop and its three waits (strong fairness of the claim, the acceptance and the mark: each may fail again and again, but
not always), the linking pass, the runs over a character's names, the token request and the roster pass.  The reader of
a dossier is assumed to press while the control allows it, because that is what the control's text asks of them.
Nothing is assumed of operators, revocations, uploads or the sheet.

## Proofs

TLAPS proves, for every value of the constants that the named assumptions allow:

| Module | Theorem | States |
|---|---|---|
| `SearchAdmissionProofs` | `TypeCorrect` | `TypeOK` |
| | `OneActiveRun` | `OneActiveRunPerRoot` |
| | `ChargesBounded` | `ChargesWithinLimit` |
| | `RefundIsFinal` | `RefundedRunNeverRuns` |
| | `LatestAttemptEnds` | `EndedByLatestAttempt` |
| | `EndedStaysEnded` | `TerminalIsFinal` |
| | `ChargedOnlyWhenNeeded` | `NoNeedlessCharge` |
| `SweepProofs` | `BudgetKept` | `WithinBudget`, for every lag |
| | `RollingBudgetKept` | `RollingBudget` when `Lag = 0`: the lag is the only way past the budget |
| | `SweepsStayHeld` | `SweepsHeld` |
| | `SweepStepsHold` | `SweepSteps` |
| `EvidenceProofs` | `NothingIsShownPending` | `PublishedShowsNothingPending` |
| | `LedgersStayBehindRows` | `LedgerBehindRows` |
| | `EvidenceTyped` | `TypeOK` |
| | `StageAndScanHold` | `RunsKeepStageAndScan`: `PublishedHasNoStage` and `ScanFollowsAliases` |
| | `SlotAlwaysSteps` | `SlotIsKept` |
| | `SlotImplemented` | `Slot!SlotSafe`, the safety half of `SlotRefined` |
| `UpstreamTokensProofs` | `TokensAreSharedAlways` | `TokensAreShared` |
| | `OneTokenAlways` | `TypeOK` and `OneToken` |
| `PeopleProofs` | `OneSenderAlways` | `OneSender` |
| | `LeaseCoversDelivery` | `TypeOK` and `LeaseLeft` of every loop |
| | `CredentialsStayCurrent` | `CredentialsAreCurrent` |
| | `AccountStepsHold` | `AccountSteps` |
| `AliasScansProofs` | `CapIsAlwaysShared` | `CapIsShared` |
| | `NoNameIsEverDropped` | `NoNameIsDropped` |
| `RosterPresenceProofs` | `VerdictsAreProofs` | `VerdictIsProof` and `ReadsBounded` |
| | `ReadsAreAllowed` | `CooldownKept`, `StoppedReadsNothing` and `AnswerStands` |
| `ConnectionWritesProofs` | `WritesHoldAlways` | `WritesHold` |
| | `OldWritesStayOutAlways` | `OldWritesStayOut` |

In each module the invariant that is proved is called `IInv`, `Inductive` or `SweepIInv`; TLC checked it as an invariant
of the component's own instance before it was proved.

**Searches.**  Assumed: `JobQueueAssumption` and `SearchAssumption` (finite, non-empty roots and callers; positive
bounds).  None of the invariants is inductive alone.  `IInv` adds that an execution past its claim belongs to a job that
exists and carries an attempt the run has reached (`ExecutionsClaimed`), that a queued run was never claimed
(`HistoryMatches`), and that a reservation about to insert holds both locks and has room (`ReservationsLocked`);
`HasTarget` adds that whoever dispatches names a run.  Lemma `StepRow` reduces all the actions to the four things a step
may do to a run's row, and the invariants about runs follow from that summary; the charge bound is a cardinality
argument over the bucket's runs.  `NoNeedlessCharge` is a property of the step that charges: only an insert makes a
charge live, and the reservation it ends has held the root's lock since it looked (`ChecksStand`).

**The hour's budget.**  Assumed: `BudgetAssumption` (`Cap <= Budget`, as `assertFingerprintAdmissionInput` demands).
`WithinBudget` needs `PrunedIsOld`, that a deleted event no longer counts; with it the query's count and the true one
agree, an admission adds at most `Cap` slots to a count that leaves room for them, and every other step only removes
slots or turns an unused one into a used one.

**Sweeps.**  Assumed: `JobQueueAssumption` and `SweepAssumption` (at least one run and one failure).  `SweepIInv` says of
the rows of a run that all but the newest are consumed (`OlderConsumed`) and of each row by itself that what is consumed
holds nothing and what waits has no reservation (`RowOrderly`); that the chain's run has published (`OwnerIsDone`) and
of a chain that gave up no continuation is in play (`ChainOver`); that a job's key names a row of its run (`Keyed`); and
of an execution (`Links`) that the rows it names are its run's, that a continuation sweeps on its own row's reservation
unless that was past its hour, and that the cursor is no further than where it resumed as long as its row is in play.  A
publication consumes one row and may append another, so it needs that the row it swept on is the newest: a continuation
has it from `Links`, a first publication from the fence.  `SweepSteps` follows from what `Links` says of the cursor and
from `Grows`: rows are never removed, never unconsumed, and never added to a chain that gave up.

**Phases of a collection.**  Assumed: `PhaseAssumption` (two scans and one delivery at least).  The two do not agree: a
write that fails leaves earlier rows of its transition changed and the map as it was, and other deliveries write the
same rows.  What holds is an order: `Onward` are the states a row may reach from another by the writes
`recordPhaseTransitions` lets through and no path leads back to pending.  `LedgerBehindRows`, that each row is onward of
every map, needs `HalfWritten`: of the transition being written, the rows already stored are onward of what it
makes of them.  So when the last of them is stored and the map takes it over, the rows are still onward of it, whatever
anyone else wrote between.  `PublicationWaits` keeps every ledger off the publication's row.  For
`PublishedShowsNothingPending` the last loop of skips counts: where each write was stored it ended only because the map
had nothing pending before the publication, so by `LedgerBehindRows` no row has either, and none goes back before the
run is settled (`HandedOver`, which follows the collection from the delivery through the stage to whoever publishes it).

**Tokens.**  Assumed: finite requests.  Tokens are numbered, and `OneToken` says that the newest is the only one cached
or about to be.  `TokensAreShared` is not inductive: `Accounted` counts a token in play as one more than the events so
far pay for, `Carries` and `SecondTry` say that a second try holds a token issued after the first was taken, and
`Fresh` that whatever token is newer than that and no longer valid was revoked after the request began.

**Account mail.**  Assumed: every lease outlasts the three waits of a delivery (`MailAssumption`; 60 seconds against
three times ten in the code).  Only the lease keeps two loops apart, so the invariant is arithmetic: `LeaseLeft` says
that the lease of the mail a loop works on exceeds the waits this step and the following ones may still take, and
`OnOpenMail` that the row is still a queued one.  Then the mail is not due, and no other loop can claim it.  The order
in which rows came due is the relation `before`.

**Accounts.**  Assumed: finitely many accounts, addresses and browsers.  A request carries what it read, so `IInv` says
what is still true of that when it writes: `SignInsAgree` that a sign-in whose version is still the account's has the
password and role of the row, `SessionsAgree` the same of sessions, `ReplacementsSaw` that a client about to replace a
provider credential holds the present row if the version it read is still the row's.  Of tokens it says that a live
reset is at its account's present address (`ResetGoesToOwner`), that each password change is one made in a session or
one used reset (`ResetWorksOnce`), and that the proofs of an address change come in pairs of one flow, neither live once
the other is withdrawn (`FlowsPaired`); operator sessions of a rotated credential carry an older version (`OldIsOlder`).
With `FlowsPaired` the step that uses the second proof of a flow finds the first one used, which is what
`EmailMovesOnBothProofs` asks of it.

**Names' scans.**  Assumed: `AliasAssumption` (two names and two requests at least).  `Paid` says that what a run has
spent and the slots of the names still to come fit the cap; a scan spends no more than its name's slots.  That the
shares fit to begin with is `SharesFit`: the rounds of admission leave what the minimums did not take (`RoundsFit`, from
the least round that would fail), and the remainder is dealt in strides, one number for each extra slot, so that the
slots map one to one into the requests left.  `NoNameIsDropped` needs `Whole`, that a full run not yet limited has found
what was stored of the names behind it: such a scan began at the top and read to the end, and what is stored are reports
that exist (`ReadSoFar`).  `MarksHeld` says that the page a bookmark was left behind is still there.

**Roster passes.**  Assumed: `PresenceAssumption` (finite profiles and passes; a profile resolves to a character or to
none, never to a failure).  The theorems assume it themselves: the bundle evaluates it of each of its instances.
`RowsHold` says that a stored answer is the true one and was proved, and that no reservation lies under one still used,
so that a late answer finds no token of its own; `PassHolds` says of a pass that each of its judgements is of a proved
profile (`Judged`), that a worker carries the provider's answer or a failure (`AnswersAreReal`), and that the reads made
and the reservations on their way are counted (`Counted`).  Only a granted reservation leads to a read
(`ReadsAreReserved`).  `ReadsTellTheTruth` and `UpstreamSteps` check the same of the instances of the run.

**Observation writes.**  Assumed: finitely many characters.  The invariant orders run starts: the marker of a family is
at least as new as every run that has retracted, and no retraction, made or still owed, is newer than the snapshot a
rebuild would pin (`RetractionsCovered`, `Due`), which is why a rebuild may lower a marker and still let nothing old in.
`NoOldRow` is stronger than the audit's check: a link is dated at or after the start of every run that retracted.  The
newest retraction exists because a bounded, non-empty set of numbers has a greatest member (lemma `Greatest`, from the
well-foundedness of `<`).

**Collections.**  Assumed: `JobQueueAssumption` and `EvidenceAssumption` (one run and one attempt at least).  Every
statement writes one row, and lemma `OneRowChanges` leaves three ways to move its status: none, taken by a reservation,
or settled (`StatusStep`).  One active run at a time and the slot specification follow from that summary alone; the
mapping of `slot` is a CHOOSE, which `SlotMeaning` ties to the active run.  `ScanFollowsAliases` is not inductive: what
is still to be published counts too, so `GensAreCurrent` says of the stage, the attempts and the sweep that what they
hold for a run that is still active was read from today's aliases, while no request is pending.  It needs that nobody
holds anything for a run yet to be reserved: `HasTarget` follows the run's id from the client through the job to the
attempt, and `StagesAreSettled` adds the stage.  The next row is the least unused number (well-foundedness of `<`).

Model-checked only:

- liveness: `PendingIsDispatched`, `RunSettles`, `EveryoneIsReached`, `WaitsAreServed`, the liveness half of
  `SlotRefined`: fairness and ENABLED are out of the prover's reach;
- the conjunctions of bundles (`LimitsHold`, `PagesHold`, `ApplicantsAreCounted`, ...), which speak of components that
  have no proof: `EvidenceHistory`, `CharacterGroups`, the applicant modules, the limiter, the cache, the reads of
  Raider.IO and the page;
- `PathStrengths`, `LinkGraphs`, `GroupPages`, which use RECURSIVE operators, and what the walks and decoders compute
  (`RankedWalk`, `AttendanceWalk`, `ParseHydration`, `ReportDecoding`).

## Disagreements met

Checked by a run, with the statement as a property and a counterexample:

- `evidence_marks`: terminal marks written after an alias edit, for the aliases before it, survive the reservation that
  should clear them.
- `reading_light`: a light refresh whose single page holds the whole history ends its scan as a complete one, and drops
  a kill that is public.
- `sweep_resume`: a search after a chain gave up starts at the first candidate, not at the cursor.

Found with TLC while the modules were written, each by a run of its component alone.  The definitions named here stay in
their modules and no run checks them, as they do not hold:

- `SweepsOnOwnReservation`, `WaitingNeverFails` (`FingerprintSweep`): an original delivery that looked for an admission
  just before its expired predecessor bound one sweeps on that reservation beside it; a run that waited longer than
  `maxJobLifetimeMs` for capacity fails on the delivery it waited for.
- `RollingBudget` (`SweepBudget`): with a lag, a request is recorded after its reservation ended.
- `AliasRequestReachesAFullRun`, `WalkIsRemembered`, `StagedCollectionIsPublished` (`EvidenceRuns`): a continuation
  consumes the request an alias edit left; one early end of a continuation ends the walk; a refused publication throws
  its stage away.
- `OnePhaseAtATime` (`EvidencePhases`): an attempt lost in the history phase leaves it active beside the next one's.
- A run is published with phases pending when a write of its ledger failed or was refused, or when `listPhases` failed
  (`applicant-evidence-job-handler.ts:675-689, 1548-1556`; both are swallowed on purpose).  That the map and the rows
  agree is false for the same reason, and for overlapping deliveries (`evidence/repository.ts:698-729` writes row by
  row).  `PublishedShowsNothingPending` and `LedgerBehindRows` say what is left.
- `BookmarkKept`, `FrozenIsWhole` (`EvidenceHistory`): a run stopped before its scan moves the bookmark; a report
  withdrawn between two pages freezes a raid with a kill unread.
- `SkippedChainOnlyAdds` holds only where no write is lost, `Presence` only where writes come in order
  (`ConnectionWrites`); `IncludeShows` (`GroupPages`): two exclusions of one character need two inclusions.
- `MemberIntentInTime` (`ApplicantIntake`), `DuplicateSpendsNothing` (`ApplicantDrain`): an older deferred occurrence
  may give a newer response its member's intent; a duplicate resolved first is charged twice.  `OutcomesAddUp`
  (`ApplicantLinks`) holds only without the hourly cleanup.
- `GroupsStayApart` (`ApplicantLinks`) holds only where no two workers race: between the reading of the groups
  (`applicant-links.ts:303`) and `manualConnections.add` (325) a second worker, kept off the application but not off its
  members (351), may link one of them, and two groups that both had others are joined.
- A rebuild clears the terminal marks without a lock (`refresh-character.ts:138-140`), and a publication reads them when
  it merges (`evidence/repository.ts:899-915`).  A rebuild while a run that skipped settled raids is under way, or
  between the request of a stale run and its beginning, makes that run drop kills that were public, although
  `refresh-character.ts:133` and `evidence/repository.ts:1545` say that nothing stored is deleted.  `HistoryStep` is
  checked with rebuilds while no run is in hand.
- `OrderNeverMatters`, `SearchedAlwaysMeansRead` (`RankedWalk`), for a search that another run continues: the cursor
  holds neither the names proved nor that reports were left unread, so a raid may read as searched and empty with
  reports unread, against `ranked-backfill.ts:117-118` ("Unread is not the same as searched and found empty").
  `WindowIsAlwaysCovered` (`AttendanceWalk`): an upload between gallop and bisection.
- The control of a tier search reads "Searched" while a character has no search of it (`TierPress`): one whose
  reservation threw counts as answered when another was searched (`search-dossier-tier.ts:113-118`,
  `dossier-tier-search-control.tsx:141-156` against its comment at 110-111), and an answer "no evidence" stays after the
  character got evidence, until the page is loaded again.  `SearchedMeansAll` says what is left: a character
  without a search is one the page's last answer says could not be reserved, or one that answer or the dossier's last
  read says nothing was collected for.
- The Blizzard client never calls `invalidate` on a 401 and takes its token before it waits for a slot.
- The branch of `fight-parses.ts` that finds no request left for the identity lookup cannot be reached: a request is
  held back for it (`LookupIsPaid`).

## Limits of the models

- A search is one step in `FingerprintSweep` and a collection a few in `TierPress`: their own modules have the steps.
- `AliasScans` takes a name's scan as one step and does not model the split of the parse cap; at most `Lights` light
  refreshes.
- `RankedWalk` assumes that the rankings agree with the reports behind them; with a cap of one request a walk never gets
  past reading the ranking, so bounds start at two, which `planCaps` gives from a scan cap of eight.
- `EvidencePhases` in `evidence` is explored with a priority: a delivery whose next step reads and writes only its own
  variables takes it before any other steps, which commutes with what the others do (`OnItsOwn`).  Overlap and mishaps
  are two parts, not one, and in the part on overlap the identity is asked for, never skipped; the proofs have none of
  these restrictions.
- Further bounds of parts: `chain` and `retry` of `sweeps` start a worker again only after their fault (`takeover` at
  any time, and the theorems on the sweep have no such bound), and `drain` of `people` stays within a day that has room for both intents; days that pass and a
  cap that is reached are in its parts `twins` and `others`.
- `ApplicantLinks` takes one application per pass (the code's batch is 50, one transaction for all), and only its passes
  add links.  `EveryOccurrenceOnce` and `AnnouncedWhenSeen` hold where no row of the sheet is removed; with removals
  `NoneTwice` and `PollCoversSheet` are checked.
- `RosterPresence.reserve` merges the commit of a reservation and its reply.  `AttendanceWalk` starts from one guild
  whose history is asked for; the query of a character's guilds is left out.  `Accounts.removeProvider` is the call
  without an expected version.  The page of `WaitsAreServed` (`follow`) has no failing read after a press
  (`ReadBackFails` is FALSE); `PageSteps` is checked with them.
- `EvidenceHistory` requests a stale run and begins it in one step.
- `RosterPresence` shows that everyone is resolved with one worker; `EvidenceBudget` takes other runs' spending and the
  hour's reset from the environment.
- `CharacterGroups`: a manual link that is removed leaves a drift only the maintenance cycle finds.
- `TierPress` has one name per character and no tick while a request is in flight; its two days are the fewest in which
  a search may be repeated.
- `DossierPage`: `NeverGoesBack` holds where full reads are served in order (they are answered by one process); the wait
  for a run is checked in any order.  The research job's poll, retry times and the collection monitor are left out.
- Rows' order and the display cap of group pages, sheet cells and alerts' wording, hashing, cookies and attempt limits,
  telemetry, URLs and the shapes of provider bodies are left out.

Not modelled: the classification algorithms of `packages/domain`, the read models of `dossier` services (they read rows
other components own), contracts and web rendering, operational scripts.
