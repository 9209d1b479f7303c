---------------------------- MODULE EvidenceBudget --------------------------
(***************************************************************************)
(* What one evidence run may spend of a Warcraft Logs allowance, and which *)
(* failed attempts earn another one.  The allowance is an hour's points,   *)
(* spent by other runs too; the handler reads it before and after an       *)
(* attempt and judges the attempt by the difference.                       *)
(***************************************************************************)
EXTENDS Integers, FiniteSets, FiniteSetsExt

CONSTANTS
    Limits,          \* allowances an account may have, in points an hour
    Credentials,     \* whose account: "own", "visitor"
    Kinds,           \* of run: "full", "light", "tier", "parse"
    RequestCap, ParseRequestCap, TierRequestCap, PointsReserve, CostCeiling,
    PagePoints,      \* HISTORY_SCAN_POINTS_PER_REQUEST
    ParsePoints,     \* FIGHT_PARSE_POINT_BOUND
    MaxAttempts,
    Elsewhere,       \* points other runs may have spent
    MidwayReset,     \* whether the hour may end during an attempt
    Cancels          \* bound: cancelled attempts

BudgetAssumption ==
    /\ Limits \subseteq Nat \ {0} /\ Elsewhere \subseteq Nat
    /\ Credentials \subseteq {"own", "visitor"}
    /\ Kinds \subseteq {"full", "light", "tier", "parse"}
    /\ {RequestCap, ParseRequestCap, PagePoints, ParsePoints, MaxAttempts,
        PointsReserve, CostCeiling} \subseteq Nat \ {0}
    /\ {TierRequestCap, Cancels} \subseteq Nat /\ MidwayReset \in BOOLEAN

VARIABLES
    limit, whose, kind,
    used,        \* points spent this hour
    stage,       \* queued, deferred, collecting, published, stopped, failed, left
    attempt,
    opening,     \* the reading before the attempt, Unread without one
    grant,       \* the plan's caps
    requests,    \* history requests, attendance and ranked reads of the attempt
    cost,        \* points the attempt has really spent
    repeated,    \* what the dearest attempt that was repeated cost
    cancels

vars == <<limit, whose, kind, used, stage, attempt, opening, grant, requests, cost,
          repeated, cancels>>

Unread == -1000000    \* below any difference of two readings
NoGrant == [scan |-> 0, history |-> 0, attendance |-> 0, ranked |-> 0, parses |-> 0]

EffectiveReserve == Min({PointsReserve, (limit * 3) \div 10})

BelowReserve == limit - used < EffectiveReserve

(* evidenceRunBudget: the pages of a share of the allowance.               *)
Share == IF whose = "visitor" THEN 15 ELSE 50
ScanPages == Max({1, Min({RequestCap, (limit * Share) \div (100 * PagePoints)})})

ParseOnlyCap == Max({1, EffectiveReserve \div ParsePoints})

(* tierSearchRequestCaps                                                   *)
TierCaps(scan) ==
    LET tier == Min({TierRequestCap, scan \div 2})
    IN IF scan < 4 THEN [history |-> Max({1, scan}), tier |-> 0]
       ELSE [history |-> scan - tier, tier |-> tier]

(* planCaps, with attendance asked for or finished by an earlier run.      *)
Grant(read, walked) ==
    LET scan == IF kind = "parse" THEN 0 ELSE IF read THEN ScanPages ELSE RequestCap
        tier == TierCaps(scan)
        ranked == Min({tier.history, Max({1, tier.tier \div 2})})
        search == kind = "tier" /\ tier.tier > 0
    IN [scan |-> scan,
        history |-> CASE kind = "tier" -> 0 [] kind = "light" -> 1 [] OTHER -> scan,
        attendance |-> IF search /\ ~walked THEN tier.tier ELSE 0,
        ranked |-> IF search THEN ranked + (IF walked THEN tier.tier ELSE 0) ELSE 0,
        parses |-> IF kind = "parse" /\ read THEN ParseOnlyCap ELSE ParseRequestCap]

Begin(read) ==
    /\ stage' = "collecting" /\ opening' = (IF read THEN used ELSE Unread)
    /\ \E walked \in BOOLEAN : grant' = Grant(read, walked)
    /\ requests' = 0 /\ cost' = 0
    /\ UNCHANGED <<limit, whose, kind, used, attempt, repeated, cancels>>

(* admitOrRefuse.  A reading that fails refuses nothing.                   *)
Admit ==
    /\ stage = "queued" /\ ~BelowReserve
    /\ Begin(TRUE)

AdmitUnread == stage = "queued" /\ Begin(FALSE)

(* Too little is left: deferred to the end of the hour, or failed at the   *)
(* last attempt, as the queue is about to give up.                         *)
Refuse ==
    /\ stage = "queued" /\ BelowReserve
    /\ IF attempt < MaxAttempts THEN stage' = "deferred" /\ attempt' = attempt + 1
       ELSE stage' = "failed" /\ attempt' = attempt
    /\ UNCHANGED <<limit, whose, kind, used, opening, grant, requests, cost, repeated,
                   cancels>>

(* The attempt makes nothing of a cap, one request of it, or all of it.    *)
Some(n) == {0, 1, n} \cap 0 .. n
Collect ==
    /\ stage = "collecting" /\ cost = 0
    /\ \E h \in Some(grant.history), a \in Some(grant.attendance), r \in Some(grant.ranked),
          p \in Some(grant.parses) :
          /\ requests' = h + a + r
          /\ cost' = (h + a + r) * PagePoints + p * ParsePoints
    /\ used' = used + cost'
    /\ UNCHANGED <<limit, whose, kind, stage, attempt, opening, grant, repeated, cancels>>

(* The attempt is over, and its readings with it.                          *)
Over ==
    /\ opening' = Unread /\ grant' = NoGrant /\ requests' = 0 /\ cost' = 0
    /\ UNCHANGED <<limit, whose, kind, used>>

Publish ==
    /\ stage = "collecting" /\ stage' = "published" /\ Over
    /\ UNCHANGED <<attempt, repeated, cancels>>

(* An attempt whose cost could not be read is taken to be dear.            *)
TooExpensive(spent) == spent = Unread \/ spent > CostCeiling

(* evidenceRetryDecision of an attempt that failed after it began to       *)
(* collect.                                                                *)
Retries(class, spent) ==
    /\ attempt < MaxAttempts /\ ~TooExpensive(spent)
    /\ class = "transient" \/ (class = "unclassified" /\ attempt <= 1)

Again == stage' = "queued" /\ attempt' = attempt + 1

(* The closing reading may fail; an hour that ended meanwhile makes the    *)
(* difference small, or negative.                                          *)
Fail(class) ==
    /\ stage = "collecting" /\ Over /\ UNCHANGED cancels
    /\ \E read \in BOOLEAN :
          IF Retries(class, IF read /\ opening # Unread THEN used - opening ELSE Unread)
          THEN Again /\ repeated' = Max({repeated, cost})
          ELSE stage' = "stopped" /\ UNCHANGED <<attempt, repeated>>

(* A shutdown: always retried, its cost unmeasured.                        *)
Cancel ==
    /\ stage = "collecting" /\ cancels < Cancels /\ cancels' = cancels + 1 /\ Over
    /\ IF attempt < MaxAttempts THEN Again ELSE stage' = "left" /\ attempt' = attempt
    /\ UNCHANGED repeated

(* Another run of the account spends while this one collects.              *)
OthersSpend ==
    /\ stage = "collecting" /\ used' \in {n \in Elsewhere : n > used}
    /\ UNCHANGED <<limit, whose, kind, stage, attempt, opening, grant, requests, cost,
                   repeated, cancels>>

(* The hour ends, and a deferred attempt starts again.                     *)
HourEnds ==
    /\ stage \in {"queued", "deferred"} \/ (stage = "collecting" /\ MidwayReset)
    /\ used' \in Elsewhere
    /\ stage' = IF stage = "deferred" THEN "queued" ELSE stage
    /\ UNCHANGED <<limit, whose, kind, attempt, opening, grant, requests, cost, repeated,
                   cancels>>

Init ==
    /\ limit \in Limits /\ whose \in Credentials /\ kind \in Kinds
    /\ used \in Elsewhere /\ stage = "queued" /\ attempt = 1 /\ opening = Unread
    /\ grant = NoGrant /\ requests = 0 /\ cost = 0 /\ repeated = 0 /\ cancels = 0

Handler == \/ Admit \/ AdmitUnread \/ Refuse \/ Collect \/ Publish
           \/ \E c \in {"transient", "unclassified", "deterministic"} : Fail(c)
Next == Handler \/ Cancel \/ OthersSpend \/ HourEnds

Spec == Init /\ [][Next]_vars
(* The queue hands out every attempt, and the hour ends.                   *)
FairSpec == Spec /\ WF_vars(Handler) /\ WF_vars(stage = "deferred" /\ HourEnds)
-----------------------------------------------------------------------------
Ended == stage \in {"published", "stopped", "failed", "left"}

(* An attempt that cost more than the ceiling is not repeated, unless it   *)
(* was cancelled; nor when its cost cannot be told                         *)
(* (tooExpensiveToRepeat, #292).                                           *)
RepeatsAreCheap == repeated <= CostCeiling

(* A visitor's run, admitted on a reading, never overdraws the visitor's   *)
(* allowance of the default size (evidence-run-budget.ts).                 *)
VisitorIsNotOverdrawn ==
    whose = "visitor" /\ limit = 3600 /\ opening # Unread /\ stage = "collecting" =>
        opening + cost <= limit

(* A run that only resumes parses fits in what admission left, whatever    *)
(* the allowance and whosever it is.                                       *)
ParseOnlyFits ==
    kind = "parse" /\ opening # Unread /\ stage = "collecting" => opening + cost <= limit

(* A tier search takes its reads out of the run's scan cap.                *)
SearchFitsScanCap == kind # "light" /\ stage = "collecting" => requests <= grant.scan

(* Only a cancelled attempt leaves a run that nothing has settled.         *)
OnlyCancelledIsLeft == stage = "left" => cancels > 0

=============================================================================
