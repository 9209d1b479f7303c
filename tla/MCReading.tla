------------------------------ MODULE MCReading -------------------------------
(* What a collection reads from Warcraft Logs and keeps: the names'        *)
(* bookmarks, the history a dossier shows, the parses, and the decoding of *)
(* a page of reports.  Each behaviour is about one of these, under one     *)
(* choice of bounds.                                                       *)
EXTENDS AliasScans

CONSTANT Parts   \* the parts a behaviour may be about

(* The newest fight is in the current raid, the others in a finished one.  *)
RaidOf2 == <<"old", "new">>
RaidOf3 == <<"old", "old", "new">>

(* Pages of two reports: both fights are of one, or one is of each.        *)
TwoAndNone == <<2, 0>>
OneEach == <<1, 1>>
NewestFirst == <<6, 2>>

VARIABLES
    part,   \* the part this behaviour is about
    report, rows, terminal, collection,   \* EvidenceHistory
    fights, answered, collected, finished, asking, toAsk, asked, decoded,
    ranked, best, parseRequests, marked, trouble, seen, unusable,   \* ParseHydration
    fightPage, pageKills, wipes, omitted, decoding   \* ReportDecoding

Window == INSTANCE EvidenceHistory WITH
    Concluded <- {"old"}, MaxPage <- 3, Fights <- 1..2, RaidOf <- RaidOf2,
    Ranked <- {1}, Caps <- {2}, MaxRuns <- 3, Modes <- {"full", "light",
    "stale", "tier", "parse"}, Faults <- {"withdraw", "stop", "rebuild"}, run
    <- collection
Kept == INSTANCE EvidenceHistory WITH
    Concluded <- {"old"}, MaxPage <- 3, Fights <- 1..2, RaidOf <- RaidOf2,
    Ranked <- {1}, Caps <- {3}, MaxRuns <- 3, Modes <- {"full", "stale",
    "tier", "parse"}, Faults <- {"withdraw", "stop", "rebuild_idle"}, run <-
    collection
Parsed == INSTANCE EvidenceHistory WITH
    Concluded <- {"old"}, MaxPage <- 1, Fights <- 1..2, RaidOf <- RaidOf2,
    Ranked <- {2}, Caps <- {2}, MaxRuns <- 3, Modes <- {"full", "stale",
    "parse", "light"}, Faults <- {"withdraw", "stop", "rebuild"}, run <-
    collection
Refreshed == INSTANCE EvidenceHistory WITH
    Concluded <- {"old"}, MaxPage <- 3, Fights <- 1..3, RaidOf <- RaidOf3,
    Ranked <- {1, 3}, Caps <- {2}, MaxRuns <- 3, Modes <- {"full", "light"},
    Faults <- {}, run <- collection
Parses == INSTANCE ParseHydration WITH
    Fights <- 3, Reports <- 3, Raids <- 2, Bosses <- 1, ParseRequestCap <- 3,
    Outages <- 2, world <- fights, stage <- asking, todo <- toAsk, spent <-
    parseRequests, outages <- unusable, parsed <- answered, terminal <-
    finished
OneReport == INSTANCE ReportDecoding WITH
    Limits <- TwoAndNone, Start <- NewestFirst, Bosses <- 0..2, Ends <- {0, 1,
    9}, MaxDate <- 10, page <- fightPage, kills <- pageKills, result <-
    decoding
TwoReports == INSTANCE ReportDecoding WITH
    Limits <- OneEach, Start <- NewestFirst, Bosses <- 0..2, Ends <- {0, 1,
    9}, MaxDate <- 10, page <- fightPage, kills <- pageKills, result <-
    decoding

ASSUME MCAssumption ==
  /\ Window!HistoryAssumption
  /\ Kept!HistoryAssumption
  /\ Parsed!HistoryAssumption
  /\ Refreshed!HistoryAssumption
  /\ Parses!HydrationAssumption
  /\ OneReport!DecodingAssumption
  /\ TwoReports!DecodingAssumption

(* A component no step of the behaviour is about.                         *)
Unused == "unused"

HistoryOff ==
    /\ report = Unused /\ rows = Unused /\ terminal = Unused
    /\ collection = Unused
ParsesOff ==
    /\ fights = Unused /\ answered = Unused /\ collected = Unused
    /\ finished = Unused /\ asking = Unused /\ toAsk = Unused
    /\ asked = Unused /\ decoded = Unused /\ ranked = Unused /\ best = Unused
    /\ parseRequests = Unused /\ marked = Unused /\ trouble = Unused
    /\ seen = Unused /\ unusable = Unused
DecodingOff ==
    /\ fightPage = Unused /\ pageKills = Unused /\ wipes = Unused
    /\ omitted = Unused /\ decoding = Unused

historyVars == <<report, rows, terminal, collection>>
parsesVars == <<fights, answered, collected, finished, asking, toAsk, asked,
      decoded, ranked, best, parseRequests, marked, trouble, seen, unusable>>
decodingVars == <<fightPage, pageKills, wipes, omitted, decoding>>

MCInit ==
    /\ part \in Parts
    /\ Init
    /\ part # "names" => size = [i \in I |-> 1]
    /\ \/ part = "window" /\ Window!Init
       \/ part = "kept" /\ Kept!Init
       \/ part = "parsed" /\ Parsed!Init
       \/ part = "refreshed" /\ Refreshed!Init
       \/ part \notin {"window", "kept", "parsed", "refreshed"} /\ HistoryOff
    /\ IF part = "parses" THEN Parses!Init ELSE ParsesOff
    /\ \/ part = "one_report" /\ OneReport!Init
       \/ part = "two_reports" /\ TwoReports!Init
       \/ part \notin {"one_report", "two_reports"} /\ DecodingOff

MCNext ==
    \/ /\ part = "names" /\ Next
       /\ UNCHANGED <<part, historyVars, parsesVars, decodingVars>>
    \/ /\ part = "window" /\ Window!Next
       /\ UNCHANGED <<part, vars, parsesVars, decodingVars>>
    \/ /\ part = "kept" /\ Kept!Next
       /\ UNCHANGED <<part, vars, parsesVars, decodingVars>>
    \/ /\ part = "parsed" /\ Parsed!Next
       /\ UNCHANGED <<part, vars, parsesVars, decodingVars>>
    \/ /\ part = "refreshed" /\ Refreshed!Next
       /\ UNCHANGED <<part, vars, parsesVars, decodingVars>>
    \/ /\ part = "parses" /\ Parses!Next
       /\ UNCHANGED <<part, vars, historyVars, decodingVars>>
    \/ /\ part = "one_report" /\ OneReport!Next
       /\ UNCHANGED <<part, vars, historyVars, parsesVars>>
    \/ /\ part = "two_reports" /\ TwoReports!Next
       /\ UNCHANGED <<part, vars, historyVars, parsesVars>>

mcVars == <<part, vars, historyVars, parsesVars, decodingVars>>

MCSpec == MCInit /\ [][MCNext]_mcVars

(* A partial run and a tier search only add to what is stored, a tier      *)
(* search moves no bookmark, and a parse that was stored is not lost to a  *)
(* run that did not ask for it, whatever is rebuilt meanwhile.  A shown    *)
(* kill whose report is public stays over the publications of full, stale  *)
(* and parse runs and tier searches, one at a time, with rebuilds between  *)
(* two of them (merge.ts, repository.ts); not with light runs, or with a   *)
(* rebuild during a run.                                                   *)
HistoryStep ==
    [][/\ part = "window" => Window!OthersOnlyAdd /\ Window!SearchMovesNothing
       /\ part = "kept" => Kept!KeepsPublicKills
       /\ part = "parsed" => Parsed!ParseNeverLost]_mcVars

(* Doc: a light refresh keeps the kills that are public                    *)
(* (docs: evidence-run-cost.md).                                           *)
LightKeepsPublicKills == [][part = "refreshed" => Refreshed!KeepsPublicKills]_mcVars

(* The history on show is the window of kills that was read; a raid marked *)
(* as answered for good is answered, each fight of a report ends up in one *)
(* place, and a report that left fights out is not counted as covered      *)
(* (merge.ts, fight-parses.ts, reports.ts).                                *)
HistoryIsWhole ==
    /\ part = "window" => Window!SnapshotIsWindow
    /\ part = "parses" => Parses!FrozenIsAnswered /\ Parses!LookupIsPaid /\ Parses!FirstKillsFirst
    /\ part = "one_report" => OneReport!OmittedIsNotCovered /\ OneReport!EveryFightHasAFate
         /\ OneReport!NoWipeBesideAKillWhenClean
    /\ part = "two_reports" => TwoReports!OmittedIsNotCovered /\ TwoReports!EveryFightHasAFate
         /\ TwoReports!NoWipeBesideAKillWhenClean

===============================================================================
