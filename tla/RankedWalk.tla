----------------------------- MODULE RankedWalk -----------------------------
(***************************************************************************)
(* The ranked backfill of the Warcraft Logs client: a walk over the zones, *)
(* encounters and metrics a character is ranked in, to the reports behind  *)
(* the rankings, under a cap of requests.  A capped walk saves a cursor    *)
(* and a later run continues from it; what else the walk has learnt - the  *)
(* names it proved, the reports it read and could not prove, that it left  *)
(* some unread - lives in one run.                                         *)
(*                                                                         *)
(* The world, chosen at the start, is what Warcraft Logs would answer:     *)
(* each report lies in one zone, holds kills of some of its bosses, and    *)
(* ranks this character, only others or nobody, or is gone.  A ranking     *)
(* lists every report of the zone that holds the boss, with the spec of    *)
(* the ranked fight, which may or may not be the one logged.               *)
(***************************************************************************)
EXTENDS Naturals, Sequences, FiniteSets, SequencesExt

CONSTANTS
    Zones,             \* number of zone and partition scopes
    Bosses,            \* number of encounters in a zone
    Reports,           \* number of reports, numbered in the order of rankings
    Kinds,             \* of reports: "list", "others", "null", "gone"
    Names,             \* the character's names, "now" among them
    FormerNames,       \* the ones linked to it
    SpecsMatch,        \* whether a ranking's spec may match, TRUE, FALSE
    RequestCap,
    UnprovableReads,   \* UNPROVABLE_READS
    Outages,           \* bound: requests that fail
    Losses             \* bound: kills storage loses between two runs

WalkAssumption ==
    /\ {Zones, Bosses, Reports, RequestCap, UnprovableReads} \subseteq Nat \ {0}
    /\ {Outages, Losses} \subseteq Nat
    /\ "now" \in Names /\ FormerNames \subseteq Names /\ SpecsMatch \subseteq BOOLEAN

VARIABLES
    world,
    pos,        \* progress: where the walk is
    accepted,   \* acceptedFights
    kills,      \* this run's kills
    refs,       \* whether the ranking of the position has been read
    names,      \* rankedNames
    unread,     \* unreadReports
    unproved,   \* reports kept, each with whether a ranking's spec matched
    read,       \* readReports of this visit of the zone
    vain,       \* unprovableReads
    ranking,    \* rankingReports
    spent,
    pc,         \* idle, walking, or done
    cursor,     \* the saved cursor, None without
    stored,     \* kills in storage
    outcome,    \* of the tier search after the last run
    runs,       \* number of runs so far, up to 2
    everRead,   \* reports some run has read
    left,       \* reports some run has left unread
    outages, losses

local == <<kills, names, unread, unproved, read, vain, ranking>>
vars == <<world, pos, accepted, local, refs, spent, pc, cursor, stored, outcome,
          runs, everRead, left, outages, losses>>

R == 1 .. Reports
Metrics == {"hps", "dps"}

(* The name of the night matters to a report that is there, the spec to    *)
(* one that ranks nobody.                                                  *)
Worlds ==
    [R -> {r \in [zone : 1 .. Zones, kind : Kinds, name : Names,
                  kills : (SUBSET (1 .. Bosses)) \ {{}}, spec : [Metrics -> SpecsMatch]] :
             /\ r.kind \in {"gone", "others"} => r.name = "now"
             /\ r.kind # "null" => \A m \in Metrics : r.spec[m]}]

Top == [zones |-> FALSE, parts |-> FALSE, zone |-> 1, loaded |-> FALSE, boss |-> 1,
        metric |-> "hps", report |-> 1]
None == [pos |-> [Top EXCEPT !.zone = 0], accepted |-> {}]

(* A cursor of the first version of the walk names zones, no partitions.   *)
OldCursor == [pos |-> [Top EXCEPT !.zones = TRUE, !.zone = Zones], accepted |-> {}]

Fights(r) == {r} \X world[r].kills

(* historicReportRefs: the rows of one ranking.                            *)
Refs(z, b) == SetToSortSeq({r \in R : world[r].zone = z /\ b \in world[r].kills}, <)
Here == Refs(pos.zone, pos.boss)

(* decodedRankedKills: by canonical id where the report ranks characters,  *)
(* else by a known name on the ranked fight whose spec is the ranking's.   *)
Known(ns) == {"now"} \cup FormerNames \cup ns
Proved(r, matched, ns) ==
    \/ world[r].kind = "list"
    \/ world[r].kind = "null" /\ matched /\ world[r].name \in Known(ns)

(* searchTierIfRaided                                                      *)
Verdict(ks, limited, un) ==
    CASE stored # {} \/ ks # {} -> "walked"
      [] limited = "none" -> IF un THEN "unprovable" ELSE "complete"
      [] limited = "drift" -> "walked"
      [] OTHER -> "deferred"

(* The handler resumes only if every accepted fight is still stored.       *)
ResumesAt(c) == c # None /\ c.accepted \subseteq stored

Restarted(p) == IF p.zones /\ ~p.parts THEN Top ELSE p

(* A run begins: getRankedKillReports up to its first request.             *)
Begin ==
    /\ pc = "idle"
    /\ LET c == IF ResumesAt(cursor) THEN cursor ELSE [pos |-> Top, accepted |-> {}]
       IN pos' = Restarted(c.pos) /\ accepted' = c.accepted
    /\ kills' = {} /\ names' = {} /\ unread' = FALSE /\ unproved' = <<>>
    /\ read' = {} /\ vain' = 0 /\ ranking' = FALSE
    /\ refs' = FALSE /\ spent' = 0 /\ pc' = "walking"
    /\ runs' = IF runs = 2 THEN 2 ELSE runs + 1
    /\ UNCHANGED <<world, cursor, stored, outcome, everRead, left, outages, losses>>

(* The end of a run, its publication and the tier search's verdict: what   *)
(* the run found and the carried kills are stored with the cursor.         *)
Publish(limited) ==
    /\ stored' = stored \cup kills
    /\ cursor' = IF limited = "none" THEN None ELSE [pos |-> pos, accepted |-> accepted]
    /\ outcome' = Verdict(kills, limited, unread)
    /\ pc' = IF limited \in {"none", "drift"} THEN "done" ELSE "idle"
    /\ UNCHANGED <<world, pos, accepted, local, refs, runs, everRead, left, losses>>

(* What the next step of the walk is.                                      *)
InZone == pos.zones /\ pos.zone <= Zones
AtRanking == InZone /\ pos.loaded /\ pos.boss <= Bosses /\ ~refs
AtReport == InZone /\ refs /\ pos.report <= Len(Here)
Ref == Here[pos.report]
Skippable == <<Ref, pos.boss>> \in accepted \/ Ref \in read
Hopeless == vain >= UnprovableReads /\ ~ranking /\ accepted = {}
AtHydration == AtReport /\ ~Skippable /\ ~Hopeless
Asks == ~pos.zones \/ (InZone /\ ~pos.loaded) \/ AtRanking \/ AtHydration

(* request: refused at the cap, otherwise paid for, answered or not.       *)
Capped ==
    /\ pc = "walking" /\ Asks /\ spent >= RequestCap
    /\ Publish("cap")
    /\ UNCHANGED <<spent, outages>>

Pays == pc = "walking" /\ spent < RequestCap /\ spent' = spent + 1

Fails(limited) ==
    /\ Asks /\ Pays
    /\ outages < Outages /\ outages' = outages + 1
    /\ Publish(limited)

LoadZones ==
    /\ ~pos.zones
    /\ \/ Pays
       \/ pc = "walking" /\ spent' = spent    \* the catalogue is cached
    /\ pos' = [pos EXCEPT !.zones = TRUE, !.parts = TRUE]
    /\ UNCHANGED <<world, accepted, local, refs, pc, cursor, stored, outcome, runs,
                   everRead, left, outages, losses>>

LoadEncounters ==
    /\ InZone /\ ~pos.loaded /\ Pays
    /\ pos' = [pos EXCEPT !.loaded = TRUE]
    /\ UNCHANGED <<world, accepted, local, refs, pc, cursor, stored, outcome, runs,
                   everRead, left, outages, losses>>

ReadRanking ==
    /\ AtRanking /\ Pays
    /\ refs' = TRUE
    /\ UNCHANGED <<world, pos, accepted, local, pc, cursor, stored, outcome, runs,
                   everRead, left, outages, losses>>

Credit(rs) ==
    /\ accepted' = accepted \cup UNION {Fights(r) : r \in rs}
    /\ kills' = kills \cup UNION {Fights(r) : r \in rs}

Without(f, rs) == [r \in DOMAIN f \ rs |-> f[r]]
NextReport == pos' = [pos EXCEPT !.report = @ + 1]

(* A row whose fight is accepted, or whose report this visit has read: a   *)
(* kept report is decoded once more, with this row's spec.                 *)
ReadBefore ==
    /\ pc = "walking" /\ AtReport /\ Skippable /\ NextReport
    /\ LET fresh == <<Ref, pos.boss>> \notin accepted /\ Ref \in DOMAIN unproved
           spec == world[Ref].spec[pos.metric]
           now == {r \in {Ref} : fresh /\ Proved(r, spec, names)}
           kept == IF fresh THEN [unproved EXCEPT ![Ref] = @ \/ spec] ELSE unproved
       IN unproved' = Without(kept, now) /\ Credit(now)
    /\ UNCHANGED <<world, refs, names, unread, read, vain, ranking, spent, pc, cursor,
                   stored, outcome, runs, everRead, left, outages, losses>>

LeaveUnread ==
    /\ pc = "walking" /\ AtReport /\ ~Skippable /\ Hopeless /\ NextReport
    /\ unread' = TRUE /\ left' = left \cup {Ref}
    /\ UNCHANGED <<world, accepted, kills, names, unproved, read, vain, ranking, refs,
                   spent, pc, cursor, stored, outcome, runs, everRead, outages, losses>>

(* A kept report is decoded again with every name the walk knows by now.   *)
ProveAgain(kept, ns) == {r \in DOMAIN kept : Proved(r, kept[r], ns)}

Hydrate ==
    /\ AtHydration /\ Pays /\ NextReport
    /\ LET r == Ref
           spec == world[r].spec[pos.metric]
           now == {x \in {r} : Proved(x, spec, names)}
           learnt == names \cup {world[x].name : x \in {y \in now : world[y].kind = "list"}}
           vainly == world[r].kind = "null" /\ now = {}
           kept == IF vainly THEN [x \in DOMAIN unproved \cup {r} |->
                                     IF x = r THEN spec ELSE unproved[x]]
                   ELSE unproved
           again == IF learnt # names THEN ProveAgain(kept, learnt) ELSE {}
       IN /\ read' = read \cup {r} /\ everRead' = everRead \cup {r}
          /\ names' = learnt
          /\ ranking' = (ranking \/ world[r].kind \in {"list", "others"})
          /\ vain' = IF vainly /\ vain < UnprovableReads THEN vain + 1 ELSE vain
          /\ unproved' = Without(kept, again)
          /\ Credit(now \cup again)
    /\ UNCHANGED <<world, unread, refs, pc, cursor, stored, outcome, runs, left, outages, losses>>

(* The ends of a ranking, of an encounter and of a zone.                   *)
Advance ==
    /\ pc = "walking" /\ InZone /\ pos.loaded
    /\ \/ /\ refs /\ pos.report > Len(Here)
          /\ pos' = IF pos.metric = "hps"
                    THEN [pos EXCEPT !.metric = "dps", !.report = 1]
                    ELSE [pos EXCEPT !.metric = "hps", !.report = 1, !.boss = @ + 1]
          /\ UNCHANGED <<read, vain, ranking>>
       \/ /\ pos.boss > Bosses
          /\ pos' = [Top EXCEPT !.zones = TRUE, !.parts = TRUE, !.zone = pos.zone + 1]
          /\ read' = {} /\ vain' = 0 /\ ranking' = FALSE
    /\ refs' = FALSE
    /\ UNCHANGED <<world, accepted, kills, names, unread, unproved, spent, pc, cursor,
                   stored, outcome, runs, everRead, left, outages, losses>>

Finish ==
    /\ pc = "walking" /\ pos.zones /\ pos.zone > Zones
    /\ Publish("none")
    /\ UNCHANGED <<spent, outages>>

(* Another publication of the character drops a kill it did not find.      *)
Lose(f) ==
    /\ pc = "idle" /\ losses < Losses
    /\ stored' = stored \ {f} /\ losses' = losses + 1
    /\ UNCHANGED <<world, pos, accepted, local, refs, spent, pc, cursor, outcome, runs,
                   everRead, left, outages>>

Init ==
    /\ world \in Worlds
    /\ cursor \in {None, OldCursor}
    /\ pos = Top /\ accepted = {} /\ kills = {} /\ refs = FALSE /\ names = {}
    /\ unread = FALSE /\ unproved = <<>> /\ read = {} /\ vain = 0 /\ ranking = FALSE
    /\ spent = 0 /\ pc = "idle" /\ stored = {} /\ outcome = "none" /\ runs = 0
    /\ everRead = {} /\ left = {} /\ outages = 0 /\ losses = 0

Walk == \/ Begin \/ Capped \/ LoadZones \/ LoadEncounters \/ ReadRanking
        \/ ReadBefore \/ LeaveUnread \/ Hydrate \/ Advance \/ Finish
Next == Walk \/ (\E l \in {"rate", "drift"} : Fails(l)) \/ (\E f \in stored : Lose(f))

Spec == Init /\ [][Next]_vars
(* A continued run is queued by the retry sweep and its steps are taken.   *)
FairSpec == Spec /\ WF_vars(Walk)
-----------------------------------------------------------------------------
Finished == pc = "done" /\ cursor = None

(* The fights the answers prove, however the walk met them: those of a     *)
(* report that ranks the character, and those of a report that ranks       *)
(* nobody with one of the names, all proved ones included, on a fight      *)
(* whose spec agrees.                                                      *)
Provable ==
    LET listed == {r \in R : world[r].kind = "list"}
        ns == {world[r].name : r \in listed} \cup FormerNames \cup {"now"}
        matched == {r \in R : \E m \in Metrics : world[r].spec[m]}
    IN UNION {Fights(r) : r \in listed \cup {r \in matched :
                                 world[r].kind = "null" /\ world[r].name \in ns}}

(* What a walk that finishes in one run credits does not depend on the     *)
(* order it met the reports in: it is all the answers prove, unless the    *)
(* walk says that it left reports unread (ranked-backfill.ts, #742).       *)
OrderDoesNotMatter == Finished /\ runs = 1 /\ ~unread => stored = Provable

(* The same of a walk that was continued.                                  *)
OrderNeverMatters == Finished /\ ~unread => stored = Provable

(* A tier is reported searched only if the walk, in one run, read every    *)
(* report of every ranking: unread is not searched.                        *)
SearchedMeansRead == Finished /\ runs = 1 /\ outcome = "complete" => everRead = R

(* The same of a walk that was continued.                                  *)
SearchedAlwaysMeansRead == Finished /\ outcome = "complete" => everRead = R

(* No report of any ranking is passed over, in however many runs the walk  *)
(* ended: one of them read it, or left it unread for good cause.           *)
NoneIsPassedOver == Finished => everRead \cup left = R

(* The cursor never lets a finished walk skip a fight it accepted in an    *)
(* earlier run and storage has lost since.                                 *)
AcceptedIsStored == Finished => accepted \subseteq stored

(* Within a run the walk credits only what it can prove, and credits every *)
(* kept report as soon as it knows the name: none is left over at the end. *)
NothingKeptIsProvable ==
    pc = "walking" => /\ accepted \subseteq Provable \cup cursor.accepted
                      /\ \A r \in DOMAIN unproved : ~Proved(r, unproved[r], names)

=============================================================================
