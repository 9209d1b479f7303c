------------------------------- MODULE MCSweeps -------------------------------
(* What walks a provider under a budget: the fingerprint sweeps of a       *)
(* roster, in chains of deliveries, and the searches of one tier over the  *)
(* rankings and over a guild's attendance.  Each behaviour is about one of *)
(* these, under one choice of bounds.                                      *)
EXTENDS SweepBudget, FingerprintSweep

CONSTANT Parts   \* the parts a behaviour may be about

VARIABLES
    part,   \* the part this behaviour is about
    world, pos, accepted, kills, refs, names, unread, unproved, readHere,
    vain, ranking, walkSpent, pc, cursor, credited, verdict, runs, everRead,
    unreadEver, refusals, losses,   \* RankedWalk
    at, log, shared, who, searching, before, first, number, answers, reading,
    hydrated, searchSpent, attendanceAsked, replay, base, searched, searches,
    lost,   \* AttendanceWalk
    limit, whose, runKind, used, budgetStage, attempt, opening, grant,
    historyRequests, cost, repeated, cancels   \* EvidenceBudget

Chain == INSTANCE FingerprintSweep WITH
    MaxJobs <- 3, MaxAttempts <- 1, MaxRuns <- 1, MaxAdmissions <- 3,
    MaxCursor <- 2, MaxFailures <- 1, MaxFaults <- 1
Retry == INSTANCE FingerprintSweep WITH
    MaxJobs <- 2, MaxAttempts <- 2, MaxRuns <- 1, MaxAdmissions <- 2,
    MaxCursor <- 1, MaxFailures <- 1, MaxFaults <- 1
Takeover == INSTANCE FingerprintSweep WITH
    MaxJobs <- 3, MaxAttempts <- 1, MaxRuns <- 2, MaxAdmissions <- 4,
    MaxCursor <- 1, MaxFailures <- 1, MaxFaults <- 0
AnyOrder == INSTANCE RankedWalk WITH
    Names <- {"now", "old"}, FormerNames <- {}, UnprovableReads <- 1, Zones <-
    2, Bosses <- 1, Reports <- 2, Kinds <- {"list", "others", "null", "gone"},
    SpecsMatch <- BOOLEAN, RequestCap <- 20, Outages <- 0, Losses <- 0, spent
    <- walkSpent, stored <- credited, outages <- refusals, outcome <- verdict,
    read <- readHere, left <- unreadEver
Resumed == INSTANCE RankedWalk WITH
    Names <- {"now", "old"}, FormerNames <- {}, UnprovableReads <- 1, Zones <-
    1, Bosses <- 2, Reports <- 2, Kinds <- {"list", "null", "gone"},
    SpecsMatch <- {TRUE}, RequestCap <- 2, Outages <- 1, Losses <- 1, spent <-
    walkSpent, stored <- credited, outages <- refusals, outcome <- verdict,
    read <- readHere, left <- unreadEver
Pages == INSTANCE AttendanceWalk WITH
    Midway <- FALSE, Lo <- 3, Hi <- 3, Overlap <- 1, Reports <- 5, Uploads <-
    0, PageSize <- 1, Times <- 1..5, Chars <- {"listed"}, Listed <-
    {"listed"}, RequestCap <- 12, Searches <- 1, Outages <- 0, stage <-
    searching, spent <- searchSpent, outages <- lost, outcome <- searched,
    kept <- shared, pages <- answers, asked <- attendanceAsked
Replay == INSTANCE AttendanceWalk WITH
    Midway <- FALSE, Lo <- 3, Hi <- 3, Overlap <- 1, Reports <- 4, Uploads <-
    1, PageSize <- 2, Times <- {1, 3, 5}, Chars <- {"listed", "unlisted"},
    Listed <- {"listed"}, RequestCap <- 4, Searches <- 2, Outages <- 1, stage
    <- searching, spent <- searchSpent, outages <- lost, outcome <- searched,
    kept <- shared, pages <- answers, asked <- attendanceAsked
Spending == INSTANCE EvidenceBudget WITH
    Credentials <- {"own", "visitor"}, Kinds <- {"full", "light", "tier",
    "parse"}, RequestCap <- 500, ParseRequestCap <- 24, TierRequestCap <- 60,
    PointsReserve <- 3500, CostCeiling <- 250, PagePoints <- 30, ParsePoints
    <- 14, MaxAttempts <- 2, MidwayReset <- FALSE, Limits <- {3600}, Elsewhere
    <- {0, 2520, 2521}, Cancels <- 1, stage <- budgetStage, requests <-
    historyRequests, kind <- runKind
Small == INSTANCE EvidenceBudget WITH
    Credentials <- {"own", "visitor"}, Kinds <- {"full", "light", "tier",
    "parse"}, RequestCap <- 500, ParseRequestCap <- 24, TierRequestCap <- 60,
    PointsReserve <- 3500, CostCeiling <- 250, PagePoints <- 30, ParsePoints
    <- 14, MaxAttempts <- 3, MidwayReset <- FALSE, Limits <- {600}, Elsewhere
    <- {0, 420, 421}, Cancels <- 0, stage <- budgetStage, requests <-
    historyRequests, kind <- runKind

ASSUME MCAssumption ==
  /\ Chain!SweepAssumption
  /\ Retry!SweepAssumption
  /\ Takeover!SweepAssumption
  /\ AnyOrder!WalkAssumption
  /\ Resumed!WalkAssumption
  /\ Pages!AttendanceAssumption
  /\ Replay!AttendanceAssumption
  /\ Spending!BudgetAssumption
  /\ Small!BudgetAssumption

(* A component no step of the behaviour is about.                         *)
Idle == "unused"

RankedOff ==
    /\ world = Idle /\ pos = Idle /\ accepted = Idle /\ kills = Idle
    /\ refs = Idle /\ names = Idle /\ unread = Idle /\ unproved = Idle
    /\ readHere = Idle /\ vain = Idle /\ ranking = Idle /\ walkSpent = Idle
    /\ pc = Idle /\ cursor = Idle /\ credited = Idle /\ verdict = Idle
    /\ runs = Idle /\ everRead = Idle /\ unreadEver = Idle
    /\ refusals = Idle /\ losses = Idle
AttendanceOff ==
    /\ at = Idle /\ log = Idle /\ shared = Idle /\ who = Idle
    /\ searching = Idle /\ before = Idle /\ first = Idle /\ number = Idle
    /\ answers = Idle /\ reading = Idle /\ hydrated = Idle
    /\ searchSpent = Idle /\ attendanceAsked = Idle /\ replay = Idle
    /\ base = Idle /\ searched = Idle /\ searches = Idle /\ lost = Idle
BudgetOff ==
    /\ limit = Idle /\ whose = Idle /\ runKind = Idle /\ used = Idle
    /\ budgetStage = Idle /\ attempt = Idle /\ opening = Idle /\ grant = Idle
    /\ historyRequests = Idle /\ cost = Idle /\ repeated = Idle
    /\ cancels = Idle

rankedVars == <<world, pos, accepted, kills, refs, names, unread, unproved,
      readHere, vain, ranking, walkSpent, pc, cursor, credited, verdict, runs,
      everRead, unreadEver, refusals, losses>>
attendanceVars == <<at, log, shared, who, searching, before, first, number,
      answers, reading, hydrated, searchSpent, attendanceAsked, replay, base,
      searched, searches, lost>>
evidenceVars == <<limit, whose, runKind, used, budgetStage, attempt, opening,
      grant, historyRequests, cost, repeated, cancels>>

MCInit ==
    /\ part \in Parts
    /\ BudgetInit
    /\ \/ part = "chain" /\ Chain!Init
       \/ part = "retry" /\ Retry!Init
       \/ part = "takeover" /\ Takeover!Init
       \/ part \notin {"chain", "retry", "takeover"} /\ Init
    /\ \/ part = "any_order" /\ AnyOrder!Init
       \/ part = "resumed" /\ Resumed!Init
       \/ part \notin {"any_order", "resumed"} /\ RankedOff
    /\ \/ part = "pages" /\ Pages!Init
       \/ part = "replay" /\ Replay!Init
       \/ part \notin {"pages", "replay"} /\ AttendanceOff
    /\ \/ part = "spending" /\ Spending!Init
       \/ part = "small" /\ Small!Init
       \/ part \notin {"spending", "small"} /\ BudgetOff

(* In parts chain and retry a worker starts again only after the fault, in *)
(* takeover at any time; the theorems on the sweep have no such bound.     *)
MCNext ==
    \/ /\ part = "budget" /\ BudgetNext
       /\ UNCHANGED <<part, vars, rankedVars, attendanceVars,
                    evidenceVars>>
    \/ /\ part = "chain" /\ Chain!Next /\ (Chain!BootStart => faults = 1)
       /\ UNCHANGED <<part, budgetVars, rankedVars, attendanceVars, evidenceVars>>
    \/ /\ part = "retry" /\ Retry!Next /\ (Retry!BootStart => faults = 1)
       /\ UNCHANGED <<part, budgetVars, rankedVars, attendanceVars, evidenceVars>>
    \/ /\ part = "takeover" /\ Takeover!Next
       /\ UNCHANGED <<part, budgetVars, rankedVars, attendanceVars, evidenceVars>>
    \/ /\ part = "any_order" /\ AnyOrder!Next
       /\ UNCHANGED <<part, budgetVars, vars, attendanceVars, evidenceVars>>
    \/ /\ part = "resumed" /\ Resumed!Next
       /\ UNCHANGED <<part, budgetVars, vars, attendanceVars, evidenceVars>>
    \/ /\ part = "pages" /\ Pages!Next
       /\ UNCHANGED <<part, budgetVars, vars, rankedVars, evidenceVars>>
    \/ /\ part = "replay" /\ Replay!Next
       /\ UNCHANGED <<part, budgetVars, vars, rankedVars, evidenceVars>>
    \/ /\ part = "spending" /\ Spending!Next
       /\ UNCHANGED <<part, budgetVars, vars, rankedVars, attendanceVars>>
    \/ /\ part = "small" /\ Small!Next
       /\ UNCHANGED <<part, budgetVars, vars, rankedVars, attendanceVars>>

mcVars == <<part, budgetVars, vars, rankedVars, attendanceVars, evidenceVars>>

MCSpec == MCInit /\ [][MCNext]_mcVars

(* Whatever order rankings and reports are read in, a search that ends in  *)
(* one run says searched only if it read every report, and credits all the *)
(* answers prove.  One that was cut short and continued passes over no     *)
(* report it neither read nor left unread, and keeps what it accepted; it  *)
(* may call itself searched though an earlier run left reports unread.     *)
(* What a search costs fits the points it may spend, and a repeat is cheap *)
(* (ranked-backfill.ts, attendance.ts, evidence-run-budget.ts).            *)
SearchesTellTheTruth ==
    /\ part = "any_order" => AnyOrder!OrderDoesNotMatter /\ AnyOrder!SearchedMeansRead
                             /\ AnyOrder!NothingKeptIsProvable
    /\ part = "resumed" => Resumed!AcceptedIsStored /\ Resumed!NoneIsPassedOver
                            /\ Resumed!NothingKeptIsProvable
    /\ part = "pages" => Pages!WindowIsCovered
    /\ part = "replay" => Replay!WindowIsCovered /\ Replay!ReplayIsFree
    /\ part = "small" => Small!ParseOnlyFits /\ Small!SearchFitsScanCap
    /\ part = "spending" =>
        /\ Spending!RepeatsAreCheap /\ Spending!VisitorIsNotOverdrawn /\ Spending!ParseOnlyFits
        /\ Spending!SearchFitsScanCap /\ Spending!OnlyCancelledIsLeft

===============================================================================
