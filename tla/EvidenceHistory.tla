-------------------------- MODULE EvidenceHistory --------------------------
(***************************************************************************)
(* What the publications of one character make of its evidence: the scan   *)
(* of its Warcraft Logs report history, page by page and resumable, the    *)
(* merge of what a run found with what is stored, the bookmark the next    *)
(* scan resumes from, and the marks that stop a finished raid being read.  *)
(*                                                                         *)
(* A fight is a number that is also its time, in a report of its own; one  *)
(* report is one page.  The collection slot (EvidenceRuns) admits one run  *)
(* at a time, so a single run is in hand.  Settling times are left out:    *)
(* every stored kill is old enough for its rankings to be final.           *)
(***************************************************************************)
EXTENDS Naturals, Sequences, FiniteSets, FiniteSetsExt

CONSTANTS
    Fights,     \* positive numbers, newest greatest
    RaidOf,     \* the raid of each fight
    Concluded,  \* raids whose content window has closed
    Ranked,     \* fights Warcraft Logs ranks the character in
    Caps,       \* history requests a full run may be given
    MaxPage,    \* RECENT_REPORTS_MAX_PAGE
    MaxRuns,    \* bound: publications
    Modes,      \* which kinds of run are requested
    Faults      \* which disturbances happen

Raids == {RaidOf[f] : f \in Fights}
NoRaid == "none"
Nothing == 0

HistoryAssumption ==
    /\ Fights \subseteq Nat \ {0} /\ IsFiniteSet(Fights)
    /\ RaidOf \in [Fights -> Raids] /\ NoRaid \notin Raids
    /\ Concluded \subseteq Raids /\ Ranked \subseteq Fights
    /\ Caps \subseteq Nat \ {0} /\ MaxPage \in Nat \ {0} /\ MaxRuns \in Nat
    /\ Modes \subseteq {"full", "light", "stale", "tier", "parse"}
    /\ Faults \subseteq {"withdraw", "stop", "rebuild", "rebuild_idle"}

VARIABLES
    report,   \* upstream: each fight's report is none, listed, unlisted, gone
    rows,     \* the character's published runs, oldest first
    terminal, \* raids marked terminal for kills
    run       \* the attempt in hand

vars == <<report, rows, terminal, run>>

Idle == [st |-> "idle"]
Listed == {f \in Fights : report[f] = "listed"}
Public == {f \in Fights : report[f] \in {"listed", "unlisted"}}

---------------------------------------------------------------------------
(* The stored evidence, as load.ts reads it.                               *)

Row == [status : {"complete", "partial"}, raid : Raids \cup {NoRaid},
        kills : SUBSET Fights, parsed : SUBSET Fights, read : SUBSET Fights,
        skipped : BOOLEAN, lim : BOOLEAN, plim : BOOLEAN,
        page : Nat, anchor : Fights \cup {Nothing}]

(* The newest row, by completion, that a query's WHERE admits; 0 if none.  *)
NewestOf(S) == IF S = {} THEN 0 ELSE Max(S)

Snapshot == Len(rows)
Shown == IF rows = <<>> THEN {} ELSE rows[Snapshot].kills
ShownParsed == IF rows = <<>> THEN {} ELSE rows[Snapshot].parsed
ShownRead == IF rows = <<>> THEN {} ELSE rows[Snapshot].read

(* The newest full publication, from which freshness and shortfalls come.  *)
FullRun ==
    LET i == NewestOf({j \in DOMAIN rows : rows[j].raid = NoRaid})
    IN  IF i = 0 THEN Snapshot ELSE i

(* Newest back to and including the newest complete run.                   *)
Window ==
    LET base == NewestOf({j \in DOMAIN rows : rows[j].status = "complete"})
    IN  {j \in DOMAIN rows : j >= base}

Positive == UNION {rows[j].kills : j \in Window}

(* The row that holds the newest stored copy of a fight.                   *)
CopyOf(f) == NewestOf({j \in DOMAIN rows : f \in rows[j].kills})

StoredParsed == {f \in Fights : CopyOf(f) # 0 /\ f \in rows[CopyOf(f)].parsed}
StoredRead == UNION {rows[j].read : j \in DOMAIN rows}

(* Kills of the latest published search of each raid, as that run's copy.  *)
LatestSearch(r) == NewestOf({j \in DOMAIN rows : rows[j].raid = r})
SearchKills ==
    {f \in Fights : LET j == LatestSearch(RaidOf[f])
                    IN  j # 0 /\ f \in rows[j].kills}
SearchParsed == {f \in SearchKills : f \in rows[LatestSearch(RaidOf[f])].parsed}

(* The bookmark comes from the newest row that read history.               *)
Resume ==
    LET i == NewestOf({j \in DOMAIN rows : ~rows[j].skipped})
    IN  IF i = 0 THEN [page |-> 0, anchor |-> Nothing]
        ELSE [page |-> rows[i].page, anchor |-> rows[i].anchor]

CleanScan == \E j \in DOMAIN rows : ~rows[j].skipped /\ ~rows[j].lim

(* Shown with a percentile, or asked about and answered with nothing.      *)
Hydrated == ShownParsed \cup ShownRead

---------------------------------------------------------------------------
(* The merge of one publication, merge.ts.                                 *)

(* A partial publication starts from the newest run alone, tier or not,    *)
(* and a complete tier search from what it found.                          *)
CarriedOnlyPartial(status, targeted) ==
    IF status = "partial"
    THEN Positive
    ELSE SearchKills \cup {f \in Positive : RaidOf[f] \in terminal}

Carried(status, targeted) ==
    IF status = "partial" \/ targeted
    THEN Positive
    ELSE SearchKills \cup {f \in Positive : RaidOf[f] \in terminal}

(* Of the carried copies, those with a percentile: a terminal raid's copy  *)
(* is the newest, any other kept by a search is the search's own.          *)
CarriedParsed(status, targeted) ==
    {f \in Carried(status, targeted) :
        IF status = "partial" \/ targeted \/ (RaidOf[f] \in terminal /\ f \in Positive)
        THEN f \in StoredParsed
        ELSE f \in SearchParsed}

Merged(status, targeted, kills, answered) ==
    LET carried == Carried(status, targeted)
        base    == CarriedParsed(status, targeted)
                     \cup {f \in kills \ carried : f \in StoredParsed}
        all     == carried \cup kills
        asked   == IF targeted THEN answered \cap kills ELSE answered
    IN  [kills |-> all, parsed |-> base \cup (answered \cap kills \cap Ranked),
         read |-> all \cap (asked \cup StoredRead)]

Published(status, raid, kills, answered, skipped, lim, plim, page, anchor) ==
    LET m == Merged(status, raid # NoRaid, kills, answered)
    IN  rows' = Append(rows,
            [status |-> status, raid |-> raid, kills |-> m.kills,
             parsed |-> m.parsed, read |-> m.read,
             skipped |-> skipped \/ raid # NoRaid, lim |-> lim, plim |-> plim,
             page |-> page, anchor |-> anchor])

---------------------------------------------------------------------------
(* A run reads what it needs and begins its scan.                          *)

(* killScanFloorFrom: the oldest kill outside a terminal raid, or the      *)
(* newest held when every raid is terminal; 0 for no early stop.           *)
Floor ==
    LET outstanding == {f \in Shown : RaidOf[f] \notin terminal}
    IN  IF terminal = {} \/ Shown = {} THEN 0
        ELSE IF outstanding # {} THEN Min(outstanding) ELSE Max(Shown)

(* staleReadNeedsOnlyNewestPage: only then does a stale read queue a light *)
(* run.                                                                    *)
Settled ==
    /\ rows # <<>>
    /\ ~rows[FullRun].lim /\ ~rows[FullRun].plim
    /\ \A f \in Shown : RaidOf[f] \in terminal
    /\ CleanScan /\ Resume.page = 0
    /\ Shown \subseteq Hydrated

(* A cursor past the last page Warcraft Logs serves restarts the scan but  *)
(* still counts as resumed.                                                *)
Begin(mode, cap) ==
    LET resumes == mode = "full" /\ Resume.page # 0 /\ Resume.anchor # Nothing
        past    == resumes /\ Resume.page > MaxPage
        start   == IF resumes /\ ~past THEN Resume.page ELSE 1
    IN  /\ run = Idle /\ mode \in Modes /\ Len(rows) < MaxRuns
        /\ run' = [st |-> IF start > 1 THEN "probe" ELSE "scan",
                   mode |-> mode, cap |-> cap, requests |-> 0,
                   page |-> start, anchor |-> IF past \/ ~resumes THEN Nothing ELSE Resume.anchor,
                   resumed |-> past, moved |-> past,
                   decoded |-> 0, finished |-> FALSE, lim |-> FALSE, limit |-> FALSE,
                   found |-> {}, scanned |-> {}, floor |-> Floor,
                   codes |-> IF cap > 1
                             THEN {f \in Shown : RaidOf[f] \notin terminal} ELSE {},
                   held |-> Resume, skip |-> Hydrated, had |-> Listed]
        /\ UNCHANGED <<report, rows, terminal>>

BeginFull == \E cap \in Caps : Begin("full", cap)
BeginLight == Begin("light", 1)
BeginStale == Settled /\ Begin("stale", 1)

(* The report on the p-th page of the history, newest first.               *)
OnPage(p) == {f \in Listed : Cardinality({g \in Listed : g > f}) = p - 1}

(* The page before the bookmark must still end in its anchor.              *)
Probe ==
    /\ run.st = "probe"
    /\ LET seen  == OnPage(run.page - 1)
           holds == seen = {run.anchor}
       IN  run' = [run EXCEPT !.st = "scan", !.requests = 1,
                              !.found = @ \cup seen, !.scanned = @ \cup seen,
                              !.resumed = holds, !.moved = ~holds,
                              !.page = IF holds THEN @ ELSE 1,
                              !.anchor = IF holds THEN @ ELSE Nothing,
                              !.decoded = IF holds THEN run.page - 1 ELSE 0]
    /\ UNCHANGED <<report, rows, terminal>>

(* A probe that fails ends the read; nothing was decoded.                  *)
ProbeFails ==
    /\ run.st = "probe"
    /\ run' = [run EXCEPT !.st = "limited"]
    /\ UNCHANGED <<report, rows, terminal>>

(* One decoded page: below the floor, the last page and the page limit end *)
(* the scan; a spent budget limits it.                                     *)
ReadPage ==
    /\ run.st = "scan" /\ run.requests < run.cap
    /\ LET seen   == OnPage(run.page)
           below  == seen # {} /\ \A f \in seen : f < run.floor
           more   == Cardinality(Listed) > run.page
           stops  == below \/ ~more \/ run.page = MaxPage
           spent  == run.requests + 1 = run.cap
           anchor == ~below /\ seen # {}
       IN  run' = [run EXCEPT
               !.requests = @ + 1, !.page = @ + 1,
               !.found = @ \cup seen, !.scanned = @ \cup seen,
               !.finished = below \/ ~more,
               !.limit = ~below /\ more /\ run.page = MaxPage,
               !.lim = (~below /\ more) /\ (run.page = MaxPage \/ spent),
               !.decoded = IF anchor THEN run.page ELSE @,
               !.anchor = IF anchor THEN CHOOSE f \in seen : TRUE ELSE @,
               !.st = IF stops \/ spent THEN "reread" ELSE @]
    /\ UNCHANGED <<report, rows, terminal>>

(* The probe alone may spend the budget.                                   *)
NothingLeft ==
    /\ run.st = "scan" /\ run.requests >= run.cap
    /\ run' = [run EXCEPT !.lim = TRUE, !.st = "reread"]
    /\ UNCHANGED <<report, rows, terminal>>

PageFails ==
    /\ run.st = "scan" /\ run.requests < run.cap
    /\ run' = [run EXCEPT !.lim = TRUE, !.st = "reread"]
    /\ UNCHANGED <<report, rows, terminal>>

(* After a fresh scan that finished, each stored kill outside a terminal   *)
(* raid that the scan did not meet is read again by its report's code.     *)
Reread ==
    /\ run.st = "reread"
    /\ LET asks == ~run.resumed /\ run.finished /\ ~run.lim
           todo == IF asks THEN run.codes \ run.scanned ELSE {}
           n    == Cardinality(todo)
       IN  IF run.requests + n <= run.cap
           THEN run' = [run EXCEPT !.st = "recover", !.requests = @ + n,
                                   !.found = @ \cup (todo \cap Public),
                                   !.scanned = @ \cup todo]
           ELSE run' = [run EXCEPT !.st = "recover", !.requests = run.cap, !.lim = TRUE]
    /\ UNCHANGED <<report, rows, terminal>>

(* Guild reports on the night of a kill Raider.IO names; finds what it     *)
(* finds and limits nothing.                                               *)
Recover ==
    /\ run.st = "recover"
    /\ \E f \in {{}} \cup {{g} : g \in Public} :
        /\ f # {} => run.cap > 1 /\ run.requests + 2 <= run.cap
        /\ run' = [run EXCEPT !.st = "publish", !.found = @ \cup f]
    /\ UNCHANGED <<report, rows, terminal>>

(* Where the next run resumes, as first-kill.ts and the handler decide it. *)
Bookmark ==
    LET restart == run.resumed /\ ~run.lim
        none    == [page |-> 0, anchor |-> Nothing]
    IN  IF run.limit THEN none
        ELSE IF run.mode # "full" THEN run.held
        ELSE IF restart THEN [page |-> 1, anchor |-> Nothing]
        ELSE IF ~run.lim THEN none
        ELSE IF run.decoded # 0
             THEN [page |-> run.decoded + 1, anchor |-> run.anchor]
        ELSE IF run.moved THEN [page |-> 1, anchor |-> Nothing]
        ELSE run.held

(* A resumed scan that reached the end is still partial.  The parse budget *)
(* reaches all the fights asked about or none.                             *)
Publish ==
    /\ run.st = "publish"
    /\ \E reached \in BOOLEAN :
        LET todo == run.found \ run.skip
            ans  == IF reached THEN todo ELSE {}
            plim == ans # todo
            lim  == run.lim \/ run.resumed
            done == ~lim /\ ~plim
        IN  /\ Published(IF done THEN "complete" ELSE "partial", NoRaid, run.found, ans,
                         FALSE, lim, plim, Bookmark.page, Bookmark.anchor)
            /\ run' = IF lim THEN Idle ELSE [run EXCEPT !.st = "mark"]
    /\ UNCHANGED <<report, terminal>>

(* A read that answered with nothing but a limitation carries the bookmark.*)
PublishLimitation ==
    /\ run.st = "limited"
    /\ Published("partial", NoRaid, {}, {}, FALSE, TRUE, FALSE,
                 run.held.page, run.held.anchor)
    /\ run' = Idle
    /\ UNCHANGED <<report, terminal>>

(* terminalTiersFrom: only after publication, only from what the run found.*)
Mark ==
    /\ run.st = "mark"
    /\ terminal' = terminal \cup ({RaidOf[f] : f \in run.found} \cap Concluded)
    /\ run' = Idle
    /\ UNCHANGED <<report, rows>>

(* The process may die before it marks, and before it publishes.           *)
Die ==
    /\ run # Idle
    /\ run' = Idle
    /\ UNCHANGED <<report, rows, terminal>>

(* publishStopped: a fault no retry is expected to survive publishes an    *)
(* empty partial, with no bookmark of its own.                             *)
Stop ==
    /\ "stop" \in Faults /\ run.st \notin {"idle", "mark"}
    /\ Published("partial", NoRaid, {}, {}, FALSE, TRUE, FALSE, 0, Nothing)
    /\ run' = Idle
    /\ UNCHANGED <<report, terminal>>

---------------------------------------------------------------------------
(* The runs that read no history.                                          *)

(* An explicit search of one raid, admitted only over stored evidence.     *)
TierSearch ==
    /\ run = Idle /\ "tier" \in Modes /\ rows # <<>> /\ Len(rows) < MaxRuns
    /\ \E r \in Raids, reached, lim \in BOOLEAN :
       \E found \in SUBSET {f \in Public : RaidOf[f] = r} :
        LET todo == found \ Hydrated
            ans  == IF reached THEN todo ELSE {}
        IN  Published(IF lim \/ ans # todo THEN "partial" ELSE "complete", r, found, ans,
                      TRUE, lim, ans # todo, 0, Nothing)
    /\ UNCHANGED <<report, terminal, run>>

(* Only parses were outstanding and the last clean scan is recent: the     *)
(* stored kills are hydrated without a scan.                               *)
ParseOnly ==
    /\ run = Idle /\ "parse" \in Modes /\ rows # <<>> /\ Len(rows) < MaxRuns
    /\ CleanScan /\ ~rows[FullRun].lim /\ rows[FullRun].plim
    /\ \E reached \in BOOLEAN :
        LET ans == IF reached THEN Shown \ Hydrated ELSE {}
        IN  Published("partial", NoRaid, Shown, ans, TRUE, FALSE,
                      ans # Shown \ Hydrated, 0, Nothing)
    /\ UNCHANGED <<report, terminal, run>>

(* An operator's rebuild forgets the marks, whatever is running; with      *)
(* "rebuild_idle" it comes between two runs alone.                         *)
Rebuild ==
    /\ terminal # {}
    /\ "rebuild" \in Faults \/ ("rebuild_idle" \in Faults /\ run = Idle)
    /\ terminal' = {}
    /\ UNCHANGED <<report, rows, run>>

---------------------------------------------------------------------------
(* Upstream: reports are uploaded, new or backdated, with or without       *)
(* appearing in the character's own history, and are taken away.           *)

Upload ==
    /\ \E f \in Fights, how \in {"listed", "unlisted"} :
        report[f] = "none" /\ report' = [report EXCEPT ![f] = how]
    /\ UNCHANGED <<rows, terminal, run>>

Withdraw ==
    /\ "withdraw" \in Faults
    /\ \E f \in Public : report' = [report EXCEPT ![f] = "gone"]
    /\ UNCHANGED <<rows, terminal, run>>

Init ==
    /\ report \in [Fights -> {"none", "listed", "unlisted"}]
    /\ rows = <<>> /\ terminal = {} /\ run = Idle

Next ==
    \/ BeginFull \/ BeginLight \/ BeginStale
    \/ Probe \/ ProbeFails \/ ReadPage \/ NothingLeft \/ PageFails
    \/ Reread \/ Recover \/ Publish \/ PublishLimitation \/ Mark \/ Die \/ Stop
    \/ TierSearch \/ ParseOnly \/ Rebuild \/ Upload \/ Withdraw

Spec == Init /\ [][Next]_vars

---------------------------------------------------------------------------
(* Properties.                                                             *)

(* Every stored row, mark and attempt keeps its shape: a percentile and an *)
(* answer time belong to a kill of the same row, and a request count never *)
(* passes the cap the run was given.                                       *)
TypeOK ==
    /\ report \in [Fights -> {"none", "listed", "unlisted", "gone"}]
    /\ \A j \in DOMAIN rows :
        /\ rows[j] \in Row
        /\ rows[j].parsed \cup rows[j].read \subseteq rows[j].kills
    /\ terminal \subseteq Concluded
    /\ run # Idle => /\ run.requests <= run.cap
                     /\ run.found \subseteq Fights /\ run.scanned \subseteq Fights

(* The rows a partial publication carries forward are exactly what the     *)
(* dossier shows: the window back to the newest complete run holds no kill *)
(* the newest snapshot lacks, and none is a percentile the snapshot lost.  *)
(* load.ts reads them from two different sets of runs.                     *)
SnapshotIsWindow ==
    rows # <<>> => /\ Positive = Shown
                   /\ Shown \cap StoredParsed = ShownParsed

(* Only a complete ordinary run may drop a shown kill: a partial run, a    *)
(* stopped one and a tier search only ever add.                            *)
OthersOnlyAdd ==
    rows' # rows /\ ~(rows'[Len(rows')].status = "complete"
                      /\ rows'[Len(rows')].raid = NoRaid)
    => /\ Shown \subseteq Shown'
       /\ ShownRead \subseteq ShownRead'

(* A kill the dossier shows whose report is still public stays shown over  *)
(* every publication, however the pages shift while they are read and      *)
(* wherever the scan stops.  So only without light runs, and without a     *)
(* rebuild that clears the marks between a run's read and its publication. *)
KeepsPublicKills ==
    rows' # rows => Shown \cap Public \subseteq Shown'

(* A fight is immutable, so a percentile once shown for it is shown as     *)
(* long as the fight is.                                                   *)
ParseNeverLost ==
    ShownParsed \cap Shown' \subseteq ShownParsed'

(* A search of one tier moves nothing the ordinary collection resumes      *)
(* from: the bookmark, the last clean scan and the run that speaks for the *)
(* character's freshness stay as they were.                                *)
SearchMovesNothing ==
    rows' # rows /\ rows'[Len(rows')].raid # NoRaid
    => Resume' = Resume /\ CleanScan' = CleanScan /\ FullRun' = FullRun

(* A run that decoded no page of history leaves the bookmark where it was. *)
BookmarkKept ==
    rows' # rows /\ run.st # "idle" /\ run.decoded = 0 /\ ~run.moved
    /\ ~run.finished /\ run.found = {} => Resume' = Resume

(* A raid is marked finished only when every kill of it that the history   *)
(* listed all through the scan is stored.                                  *)
FrozenIsWhole ==
    \A r \in terminal' \ terminal :
        \A f \in run.had \cap Listed : RaidOf[f] = r => f \in Shown

=============================================================================
