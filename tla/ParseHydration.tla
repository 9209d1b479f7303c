--------------------------- MODULE ParseHydration ---------------------------
(***************************************************************************)
(* The parse work of a character's collections: the best parses of each    *)
(* raid zone, one request a zone, then the rankings of each report that    *)
(* holds a fight not yet answered, one request a report, then one request  *)
(* that confirms the identities they ranked.  All draw on one cap, so a    *)
(* veteran's work takes several runs; the ledger says which raids a run    *)
(* had trouble with, and the others are finished with for good.            *)
(*                                                                         *)
(* A fight is a number in the order of time, in a report and of a boss of  *)
(* a raid.  All fights are in their raid's window, all raids concluded and *)
(* ranked, and discovery has found every fight before the first run.       *)
(***************************************************************************)
EXTENDS Naturals, Sequences, FiniteSets, FiniteSetsExt, SequencesExt

CONSTANTS
    Fights,            \* number of fights
    Reports, Raids,    \* numbers of reports and raids
    Bosses,            \* of a raid
    ParseRequestCap,
    Outages            \* bound: answers that are not usable

HydrationAssumption ==
    /\ {Fights, Reports, Raids, Bosses, ParseRequestCap} \subseteq Nat \ {0}
    /\ Outages \in Nat

VARIABLES
    world,       \* each fight's report, raid and boss
    parsed,      \* fights an earlier run got an answer about
    collected,   \* raids whose best parses are stored
    terminal,    \* raids finished with, by domain
    stage,       \* idle, zones, groups, or identity
    todo,        \* zones or reports still to ask for
    asked,       \* reports asked for in this run
    decoded,     \* reports whose rankings were decoded
    ranked,      \* those among them that rank the character's name
    best,        \* raids whose best parses this run read
    spent,       \* parseRequests
    marked,      \* parsedFightUrls of the run
    trouble,     \* troubledRaidIds of the run
    seen,        \* limitation codes of the run
    outages

run == <<asked, decoded, ranked, best, spent, marked, trouble, seen>>
stores == <<parsed, collected, terminal>>
vars == <<world, stores, stage, todo, run, outages>>

F == 1 .. Fights
Domains == {"parses", "tierBests"}

(* Reports are numbered by time, as a night's fights share one.            *)
Worlds ==
    {w \in [F -> [report : 1 .. Reports, raid : 1 .. Raids, boss : 1 .. Bosses]] :
        \A f, g \in F : f < g => w[f].report <= w[g].report}

FightsOf(r) == {f \in F : world[f].report = r}
FightsIn(z) == {f \in F : world[f].raid = z}
Zones == {world[f].raid : f \in F}

(* tierZonePlan: the newest zones within half of the cap, and the rest.    *)
ZoneRequestCap == (ParseRequestCap - 1) \div 2
ZonePlan ==
    SetToSortSeq(Zones \ (terminal.tierBests \cup collected),
                 LAMBDA y, z : \/ Max(FightsIn(y)) > Max(FightsIn(z))
                               \/ Max(FightsIn(y)) = Max(FightsIn(z)) /\ y < z)

(* parseGroupPlan                                                          *)
FirstKills == {f \in F : \A g \in F : <<world[g].raid, world[g].boss>>
                                      = <<world[f].raid, world[f].boss>> => f <= g}
Candidates == {f \in F : f \notin parsed /\ world[f].raid \notin terminal.parses}
HasFirst(r) == FightsOf(r) \cap Candidates \cap FirstKills # {}
NewestIn(r) == Max(FightsOf(r) \cap Candidates)

Before(r, s) == \/ HasFirst(r) /\ ~HasFirst(s)
                \/ HasFirst(r) = HasFirst(s) /\ NewestIn(r) > NewestIn(s)

GroupPlan == SetToSortSeq({world[f].report : f \in Candidates}, LAMBDA r, s : Before(r, s))

(* What the ledger blames and marks for the reports rs.                    *)
Planned(rs) == UNION {FightsOf(r) \cap Candidates : r \in rs}
Blamed(rs) == {world[f].raid : f \in Planned(rs)}
TroubleParses(rs) == trouble' = [trouble EXCEPT !.parses = @ \cup Blamed(rs)]
Mark(rs) == marked' = marked \cup Planned(rs)

Rest == ToSet(todo)

(* A collection reaches its parse work: what collectTierBests plans.       *)
Begin ==
    /\ stage = "idle"
    /\ stage' = "zones"
    /\ todo' = SubSeq(ZonePlan, 1, Min({ZoneRequestCap, Len(ZonePlan)}))
    /\ LET unreached == ToSet(ZonePlan) \ ToSet(todo')
       IN /\ trouble' = [parses |-> {}, tierBests |-> unreached]
          /\ seen' = IF unreached = {} THEN {} ELSE {"parse_request_cap"}
    /\ asked' = {} /\ decoded' = {} /\ ranked' = {} /\ best' = {} /\ spent' = 0
    /\ marked' = {}
    /\ UNCHANGED <<world, stores, outages>>

Fault == outages < Outages /\ outages' = outages + 1

(* A zone's answer: read, or drifted, which is about that zone only, or a  *)
(* failure, at which the zones after it stay unread.                       *)
ZoneRead ==
    /\ stage = "zones" /\ todo # <<>>
    /\ spent' = spent + 1
    /\ \/ best' = best \cup {Head(todo)} /\ todo' = Tail(todo)
          /\ UNCHANGED <<trouble, seen, outages>>
       \/ /\ Fault /\ seen' = seen \cup {"parse_schema_drift"} /\ todo' = Tail(todo)
          /\ trouble' = [trouble EXCEPT !.tierBests = @ \cup {Head(todo)}]
          /\ best' = best
       \/ /\ Fault /\ seen' = seen \cup {"parse_unavailable"} /\ todo' = <<>>
          /\ trouble' = [trouble EXCEPT !.tierBests = @ \cup Rest]
          /\ best' = best
    /\ UNCHANGED <<world, stores, stage, asked, decoded, ranked, marked>>

PlanGroups ==
    /\ stage = "zones" /\ todo = <<>>
    /\ stage' = "groups" /\ todo' = GroupPlan
    /\ UNCHANGED <<world, stores, run, outages>>

HeldBack == spent + 1 >= ParseRequestCap

(* hydrateFightParses stops where only the identity lookup is left.        *)
CapReached ==
    /\ stage = "groups" /\ todo # <<>> /\ HeldBack
    /\ seen' = seen \cup {"parse_request_cap"}
    /\ TroubleParses(Rest)
    /\ stage' = "identity" /\ todo' = <<>>
    /\ UNCHANGED <<world, stores, asked, decoded, ranked, best, spent, marked, outages>>

AsksGroup ==
    /\ stage = "groups" /\ todo # <<>> /\ ~HeldBack
    /\ spent' = spent + 1 /\ asked' = asked \cup {Head(todo)}
    /\ UNCHANGED <<world, stores, stage, best>>

(* Rankings that name the character, or nobody at all.                     *)
GroupRead(named) ==
    /\ AsksGroup /\ todo' = Tail(todo)
    /\ decoded' = decoded \cup {Head(todo)}
    /\ ranked' = IF named THEN ranked \cup {Head(todo)} ELSE ranked
    /\ UNCHANGED <<marked, trouble, seen, outages>>

(* Rankings of others only: an answer, though one that is reported.        *)
GroupUnmatched ==
    /\ AsksGroup /\ todo' = Tail(todo)
    /\ seen' = seen \cup {"parse_identity_unmatched"}
    /\ Mark({Head(todo)}) /\ TroubleParses({Head(todo)})
    /\ UNCHANGED <<decoded, ranked, outages>>

GroupDrifts ==
    /\ AsksGroup /\ Fault /\ todo' = Tail(todo)
    /\ seen' = seen \cup {"parse_schema_drift"}
    /\ TroubleParses({Head(todo)})
    /\ UNCHANGED <<decoded, ranked, marked>>

(* mutant: only the report that failed is blamed, not the ones after it.   *)
GroupFailsAlone ==
    /\ AsksGroup /\ Fault /\ todo' = <<>>
    /\ seen' = seen \cup {"parse_unavailable"}
    /\ TroubleParses({Head(todo)})
    /\ UNCHANGED <<decoded, ranked, marked>>

GroupFails ==
    /\ AsksGroup /\ Fault /\ todo' = <<>>
    /\ seen' = seen \cup {"parse_unavailable"}
    /\ TroubleParses(Rest)
    /\ UNCHANGED <<decoded, ranked, marked>>

GroupsEnd ==
    /\ stage = "groups" /\ todo = <<>>
    /\ stage' = "identity"
    /\ UNCHANGED <<world, stores, todo, run, outages>>

(* The end of the run, whose evidence is published and whose untroubled    *)
(* raids are terminal (terminalTiersFrom).                                 *)
Publish ==
    /\ stage' = "idle"
    /\ parsed' = parsed \cup marked'
    /\ collected' = collected \cup best
    /\ terminal' = [d \in Domains |-> terminal[d] \cup (Zones \ trouble'[d])]
    /\ UNCHANGED <<world, todo, asked, decoded, ranked, best>>

(* applyCanonicalIdentities: every group is confirmed but those refused,   *)
(* whose identity is ambiguous, or from the one whose rows drift on; a     *)
(* group that ranks nobody has its answer.                                 *)
Confirm ==
    /\ stage = "identity" /\ ranked # {} /\ spent < ParseRequestCap
    /\ \E refused \in SUBSET decoded :
          /\ \/ refused = {} /\ UNCHANGED <<seen, outages>>
             \/ refused # {} /\ Fault /\ seen' = seen \cup {"parse_schema_drift"}
          /\ Mark(decoded \ refused)
          /\ TroubleParses(refused)
    /\ UNCHANGED spent
    /\ Publish

NobodyRanked ==
    /\ stage = "identity" /\ ranked = {}
    /\ Mark(decoded)
    /\ UNCHANGED <<spent, trouble, seen, outages>>
    /\ Publish

(* The lookup fails, or there is no request left for it.                   *)
LookupFails ==
    /\ stage = "identity" /\ ranked # {}
    /\ IF spent < ParseRequestCap
       THEN Fault /\ seen' = seen \cup {"parse_unavailable"}
       ELSE UNCHANGED outages /\ seen' = seen \cup {"parse_request_cap"}
    /\ TroubleParses(decoded)
    /\ UNCHANGED <<marked, spent>>
    /\ Publish

(* The caller's cancellation throws, and nothing is published.             *)
Abort ==
    /\ stage # "idle" /\ Fault
    /\ stage' = "idle" /\ todo' = <<>>
    /\ UNCHANGED <<world, stores, run>>

Init ==
    /\ world \in Worlds
    /\ parsed = {} /\ collected = {} /\ terminal = [d \in Domains |-> {}]
    /\ stage = "idle" /\ todo = <<>> /\ asked = {} /\ decoded = {} /\ ranked = {}
    /\ best = {} /\ spent = 0 /\ marked = {} /\ seen = {} /\ outages = 0
    /\ trouble = [d \in Domains |-> {}]

Work == \/ Begin \/ ZoneRead \/ PlanGroups \/ CapReached
        \/ (\E n \in BOOLEAN : GroupRead(n)) \/ GroupUnmatched \/ GroupDrifts
        \/ GroupFails \/ GroupsEnd \/ Confirm \/ NobodyRanked \/ LookupFails
Next == Work \/ Abort

Spec == Init /\ [][Next]_vars
(* Collections are retried while parse work is outstanding.                *)
FairSpec == Spec /\ WF_vars(Work)
-----------------------------------------------------------------------------
(* A raid that is never asked about again has nothing left to ask: every   *)
(* fight of it has been answered, and its best parses are stored           *)
(* (fight-parses.ts, tier-bests.ts, terminal-tiers.ts).                    *)
FrozenIsAnswered ==
    /\ \A z \in terminal.parses : FightsIn(z) \subseteq parsed
    /\ terminal.tierBests \subseteq collected

(* Whenever a run has identities to confirm it still has the request for   *)
(* it, after any zones and reports it asked for.                           *)
LookupIsPaid == stage = "identity" /\ ranked # {} => spent < ParseRequestCap

(* Once a run asks for a report with only repeat kills it has asked for    *)
(* every report that holds an unanswered first kill of a boss.             *)
FirstKillsFirst ==
    stage = "groups" =>
        \A r \in asked : (Planned({r}) \cap FirstKills = {}) =>
            \A f \in FirstKills \cap Candidates : world[f].report \in asked

=============================================================================
