---------------------------- MODULE MCConnections -----------------------------
(* The connected characters: the writes of observed links, the stored      *)
(* groups, the strengths of the paths between them and the pages that show *)
(* them.  Each behaviour is about one of these, under one choice of        *)
(* bounds.                                                                 *)
EXTENDS ConnectionWrites, TLC

CONSTANTS
    Parts,   \* the parts a behaviour may be about
    other, k1, k2, k3

Alike == Permutations({k1, k2, k3})

Keys == {k1, k2, k3}
BothFamilies == {"raiderio", "fingerprint"}

VARIABLES
    part,   \* the part this behaviour is about
    born, observed, manual, member, groups, maint, tx, todo, passes, owed,
    edits,   \* CharacterGroups
    known, snap, order, seen, added, exclusions, suppressed, wcl, groupOf,
    answered, changes,   \* GroupPages
    links   \* LinkGraphs

Audit == INSTANCE CharacterGroups WITH
    Chars <- 2..4, Unborn <- {4}, GroupIds <- 1..4, Writers <- {"w"}, Passes
    <- {"p"}, Edits <- {"write", "manual", "birth"}, MaxEdits <- 2, pass <-
    passes
Cycle == INSTANCE CharacterGroups WITH
    Chars <- 2..4, Unborn <- {}, GroupIds <- 1..4, Writers <- {"w"}, Passes <-
    {"p", "q"}, Edits <- {"manual", "unmanual", "rebuild"}, MaxEdits <- 2,
    pass <- passes
Today == INSTANCE GroupPages WITH
    Edits <- {"publish", "manual", "remove", "exclude", "suppress",
    "resolve"}, Sources <- BothFamilies, Codes <- {"limited"}, Keeps <-
    {FALSE}, PendingIds <- FALSE, MaxEdits <- 3, edits <- changes, manual <-
    added, observed <- seen
Shared == INSTANCE GroupPages WITH
    Edits <- {"publish", "manual", "exclude", "suppress", "resolve",
    "recompute"}, Sources <- {"raiderio"}, Codes <- {"none"}, Keeps <-
    BOOLEAN, PendingIds <- FALSE, MaxEdits <- 3, edits <- changes, manual <-
    added, observed <- seen
Graphs == INSTANCE LinkGraphs WITH
    Chars <- 1..4, Origin <- 1, AnyOrder <- 3, MaxLinks <- 5
Rebuilt == INSTANCE ConnectionWrites WITH
    MaxCycles <- 0, Faults <- {"lose", "rebuild"}
InTurn == INSTANCE ConnectionWrites WITH
    MaxLate <- 1, Faults <- {"rebuild"}

ASSUME MCAssumption ==
  /\ Audit!GroupsAssumption
  /\ Cycle!GroupsAssumption
  /\ Today!PagesAssumption
  /\ Shared!PagesAssumption
  /\ Graphs!StrengthAssumption

(* A component no step of the behaviour is about.                         *)
Unused == "unused"

GroupsOff ==
    /\ born = Unused /\ observed = Unused /\ manual = Unused
    /\ member = Unused /\ groups = Unused /\ maint = Unused /\ tx = Unused
    /\ todo = Unused /\ passes = Unused /\ owed = Unused /\ edits = Unused
PagesOff ==
    /\ known = Unused /\ snap = Unused /\ order = Unused /\ seen = Unused
    /\ added = Unused /\ exclusions = Unused /\ suppressed = Unused
    /\ wcl = Unused /\ groupOf = Unused /\ answered = Unused
    /\ changes = Unused
GraphsOff ==
    /\ links = Unused

groupsVars == <<born, observed, manual, member, groups, maint, tx, todo,
      passes, owed, edits>>
pagesVars == <<known, snap, order, seen, added, exclusions, suppressed, wcl,
      groupOf, answered, changes>>
graphsVars == <<links>>

MCInit ==
    /\ part \in Parts
    /\ Init
    /\ \/ part = "audit" /\ Audit!Init
       \/ part = "cycle" /\ Cycle!Init
       \/ part \notin {"audit", "cycle"} /\ GroupsOff
    /\ \/ part = "today" /\ Today!Init
       \/ part = "shared" /\ Shared!Init
       \/ part \notin {"today", "shared"} /\ PagesOff
    /\ IF part = "graphs" THEN Graphs!Init ELSE GraphsOff

MCNext ==
    \/ /\ part = "writes" /\ Next
       /\ UNCHANGED <<part, groupsVars, pagesVars, graphsVars>>
    \/ /\ part = "rebuilt" /\ Rebuilt!Next
       /\ UNCHANGED <<part, groupsVars, pagesVars, graphsVars>>
    \/ /\ part = "in_turn" /\ InTurn!Next
       /\ UNCHANGED <<part, groupsVars, pagesVars, graphsVars>>
    \/ /\ part = "audit" /\ Audit!Next
       /\ UNCHANGED <<part, vars, pagesVars, graphsVars>>
    \/ /\ part = "cycle" /\ Cycle!Next
       /\ UNCHANGED <<part, vars, pagesVars, graphsVars>>
    \/ /\ part = "today" /\ Today!Next
       /\ UNCHANGED <<part, vars, groupsVars, graphsVars>>
    \/ /\ part = "shared" /\ Shared!Next
       /\ UNCHANGED <<part, vars, groupsVars, graphsVars>>
    \/ /\ part = "graphs" /\ Graphs!Next
       /\ UNCHANGED <<part, vars, groupsVars, pagesVars>>

mcVars == <<part, vars, groupsVars, pagesVars, graphsVars>>

MCSpec == MCInit /\ [][MCNext]_mcVars

(* Where writes are made in order, once none is outstanding everyone the   *)
(* latest snapshot holds is linked (observation-writes.ts).                *)
WritesInTurn == part = "in_turn" => Presence

(* While groups differ from what the links say, the maintenance cycle has  *)
(* the change still to come (character-groups-audit.ts).                   *)
GroupsSettle == part = "audit" => Audit!DriftIsPending

(* A chain that skipped a guild retracts nothing; a group that is split or *)
(* merged leaves its id to the larger side, and a finished cycle has       *)
(* looked at every group (observation-writes.ts, character-connections.ts).*)
GraphSteps ==
    [][/\ part = "in_turn" => SkippedChainOnlyAdds
       /\ part = "audit" => Audit!MajorityKeepsId /\ Audit!CycleCovers
       /\ part = "cycle" => Cycle!MajorityKeepsId /\ Cycle!CycleCovers]_mcVars

(* A group's page follows the group of today, hidden members stay hidden   *)
(* on it, its members' pages agree and an exclusion counts for all; the    *)
(* strength of each path is that of its strongest route                    *)
(* (group-subjects.ts, character-connections.ts).                          *)
PagesHold ==
    /\ part = "today" => Today!GroupPageKeepsToday /\ Today!HiddenStaysHidden
    /\ part = "shared" => Shared!PagesAgree /\ Shared!ExclusionShared
    /\ part = "graphs" => Graphs!BlocksPartition /\ Graphs!StrengthsAreExact

===============================================================================
