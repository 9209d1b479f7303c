------------------------------- MODULE MCPeople -------------------------------
(* The parts that deal with people: accounts and their mail, and the       *)
(* applicants of a guild sheet from the poll that sees them to the links   *)
(* their characters get.  Each behaviour is about one of these, under one  *)
(* choice of bounds.                                                       *)
EXTENDS AccountMail, Accounts, TLC

CONSTANTS
    Parts,   \* the parts a behaviour may be about
    a1, a2, e1, e2, c1, c2, w1, w2, m1, m2, p, q

Alike == Permutations({a1, a2}) \cup Permutations({e1, e2}) \cup Permutations({c1, c2})
         \cup Permutations({w1, w2})

(* Two groups, and two applications that both name "r": one may link it to *)
(* either group, the other to the second.                                  *)
RootOf == p :> "r" @@ q :> "z"
MembersOf == p :> {"m", "n"} @@ q :> {"r", "k"}
GroupLinks == {{"m", "y"}, {"n", "z"}}
All == {"r", "m", "n", "k", "y", "z"}

(* A character and a Warcraft Logs id, alone and together in either order. *)
PairForms == {<<"a">>, <<"n">>, <<"a", "n">>, <<"n", "a">>}

(* Two intents, for one character or for two, of one poll or of two.       *)
OneName == <<"x", "x">>
OnePoll == <<1, 1>>
TwoPolls == <<1, 2>>
TwoNames == <<"x", "y">>

VARIABLES
    part,   \* the part this behaviour is about
    sheet, rows, source, counts, intents, apps, barred, polls, alerts,
    absorbed, given,   \* ApplicantIntake
    intent, tick, coll, clock,   \* ApplicantDrain
    app, links, exists, pass, raced, cleanup   \* ApplicantLinks

Reset == INSTANCE Accounts WITH
    Ops <- {"register", "verify", "reset", "email"}, MaxAccounts <- 2, MaxPw <- 3,
    MaxVersion <- 3, MaxTokens <- 3
Move == INSTANCE Accounts WITH
    Ops <- {"register", "verify", "email", "session"}, MaxAccounts <- 1, MaxPw <- 1,
    MaxVersion <- 3, MaxTokens <- 5
Session == INSTANCE Accounts WITH
    Ops <- {"session", "password", "admin"}, MaxAccounts <- 2, MaxPw <- 2,
    MaxVersion <- 3, MaxTokens <- 0
Secrets == INSTANCE Accounts WITH
    Ops <- {"admin", "provider", "operator"}, MaxAccounts <- 1, MaxPw <- 3,
    MaxVersion <- 3, MaxTokens <- 0
Parser == INSTANCE ApplicantIntake WITH
    Ids <- {"a", "n"}, Numeric <- {"n"}, Forms <- PairForms, Edits <-
    {"parser"}, BacklogLimit <- 1, HiddenLimit <- 1, LinkCap <- 2, MaxRows <- 2, MaxPolls <- 3
Deleted == INSTANCE ApplicantIntake WITH
    Ids <- {"a", "n"}, Numeric <- {"n"}, Forms <- PairForms, Edits <-
    {"delete", "parser"}, BacklogLimit <- 2, HiddenLimit <- 1, LinkCap <- 1, MaxRows <- 2, MaxPolls <- 2
Drain == INSTANCE ApplicantDrain WITH
    N <- 2, Name <- OneName, Seen <- TwoPolls, Numeric <- {}, Lost <- {},
    Ticks <- {w1, w2}, PerDay <- 2, Claim <- 1, Doublings <- 0, Window <- 0
Twins == INSTANCE ApplicantDrain WITH
    N <- 2, Name <- OneName, Seen <- OnePoll, Numeric <- {1}, Lost <- {},
    Ticks <- {w1, w2}, PerDay <- 1, Claim <- 1, Doublings <- 0, Window <- 0
Others == INSTANCE ApplicantDrain WITH
    N <- 2, Name <- TwoNames, Seen <- TwoPolls, Numeric <- {1}, Lost <- {},
    Ticks <- {w1}, PerDay <- 1, Claim <- 1, Doublings <- 0, Window <- 0
Linked == INSTANCE ApplicantLinks WITH
    Chars <- All, Apps <- {p, q}, Root <- RootOf, Members <- MembersOf, Given
    <- GroupLinks, Broken <- {}, Stale <- {p}, Barred <- {"k"}, Faults <-
    TRUE, Cleans <- FALSE, Workers <- {w1, w2}
Cleaned == INSTANCE ApplicantLinks WITH
    Chars <- All, Apps <- {p, q}, Root <- RootOf, Members <- MembersOf, Given
    <- GroupLinks, Broken <- {}, Stale <- {p}, Barred <- {"k"}, Faults <-
    FALSE, Cleans <- TRUE, Workers <- {w1}

ASSUME MCAssumption ==
  /\ Parser!IntakeAssumption
  /\ Deleted!IntakeAssumption
  /\ Drain!DrainAssumption
  /\ Twins!DrainAssumption
  /\ Others!DrainAssumption
  /\ Linked!LinksAssumption
  /\ Cleaned!LinksAssumption

(* A component no step of the behaviour is about.                         *)
Unused == "unused"

IntakeOff ==
    /\ sheet = Unused /\ rows = Unused /\ source = Unused /\ counts = Unused
    /\ intents = Unused /\ apps = Unused /\ barred = Unused /\ polls = Unused
    /\ alerts = Unused /\ absorbed = Unused /\ given = Unused
DrainOff ==
    /\ intent = Unused /\ tick = Unused /\ coll = Unused /\ clock = Unused
LinksOff ==
    /\ app = Unused /\ links = Unused /\ exists = Unused /\ pass = Unused
    /\ raced = Unused /\ cleanup = Unused

intakeVars == <<sheet, rows, source, counts, intents, apps, barred, polls,
      alerts, absorbed, given>>
drainVars == <<intent, tick, coll, clock>>
linksVars == <<app, links, exists, pass, raced, cleanup>>

MCInit ==
    /\ part \in Parts
    /\ Init
    /\ AccountsInit
    /\ \/ part = "parser" /\ Parser!Init
       \/ part = "deleted" /\ Deleted!Init
       \/ part \notin {"parser", "deleted"} /\ IntakeOff
    /\ \/ part = "drain" /\ Drain!Init
       \/ part = "twins" /\ Twins!Init
       \/ part = "others" /\ Others!Init
       \/ part \notin {"drain", "twins", "others"} /\ DrainOff
    /\ \/ part = "linked" /\ Linked!Init
       \/ part = "cleaned" /\ Cleaned!Init
       \/ part \notin {"linked", "cleaned"} /\ LinksOff

(* Part drain replays jobs within one day; the days pass in the two parts *)
(* beside it.                                                              *)
MCNext ==
    \/ /\ part = "mail" /\ Next
       /\ UNCHANGED <<part, accountsVars, intakeVars, drainVars, linksVars>>
    \/ /\ part = "reset" /\ Reset!AccountsNext
       /\ UNCHANGED <<part, vars, intakeVars, drainVars, linksVars>>
    \/ /\ part = "move" /\ Move!AccountsNext
       /\ UNCHANGED <<part, vars, intakeVars, drainVars, linksVars>>
    \/ /\ part = "session" /\ Session!AccountsNext
       /\ UNCHANGED <<part, vars, intakeVars, drainVars, linksVars>>
    \/ /\ part = "secrets" /\ Secrets!AccountsNext
       /\ UNCHANGED <<part, vars, intakeVars, drainVars, linksVars>>
    \/ /\ part = "parser" /\ Parser!Next
       /\ UNCHANGED <<part, vars, accountsVars, drainVars, linksVars>>
    \/ /\ part = "deleted" /\ Deleted!Next
       /\ UNCHANGED <<part, vars, accountsVars, drainVars, linksVars>>
    \/ /\ part = "drain" /\ Drain!Next /\ ~Drain!NewDay
       /\ UNCHANGED <<part, vars, accountsVars, intakeVars, linksVars>>
    \/ /\ part = "twins" /\ Twins!Next
       /\ UNCHANGED <<part, vars, accountsVars, intakeVars, linksVars>>
    \/ /\ part = "others" /\ Others!Next
       /\ UNCHANGED <<part, vars, accountsVars, intakeVars, linksVars>>
    \/ /\ part = "linked" /\ Linked!Next
       /\ UNCHANGED <<part, vars, accountsVars, intakeVars, drainVars>>
    \/ /\ part = "cleaned" /\ Cleaned!Next
       /\ UNCHANGED <<part, vars, accountsVars, intakeVars, drainVars>>

mcVars == <<part, vars, accountsVars, intakeVars, drainVars, linksVars>>

MCSpec == MCInit /\ [][MCNext]_mcVars

(* While responses are only added each occurrence is counted once, and     *)
(* none is admitted twice though rows are removed and the parser changes   *)
(* between polls; a day charges no more than its cap, and intents that are *)
(* replayed, or of one poll and found to be one character, start no second *)
(* discovery or collection beside one that stays (applicant-watcher.ts,    *)
(* start-applicant-collection.ts).  An application joins two groups only   *)
(* when two workers judge at once, and while no cleanup runs every member  *)
(* is counted under one outcome (applicant-links.ts).                      *)
ApplicantsAreCounted ==
    /\ part = "parser" => Parser!EveryOccurrenceOnce /\ Parser!BacklogBounded
                          /\ Parser!OneApplicationPerResponse
    /\ part = "deleted" => Deleted!NoneTwice /\ Deleted!BacklogBounded
    /\ part = "drain" => Drain!DailyCap /\ Drain!ReplayStartsOnce
    /\ part = "twins" => Twins!DailyCap /\ Twins!ReplayStartsOnce
    /\ part = "others" => Others!DailyCap /\ Others!ReplayStartsOnce
    /\ part = "linked" => Linked!GroupsStayApart /\ Linked!LinkIsCounted /\ Linked!OutcomesAddUp
    /\ part = "cleaned" => Cleaned!GroupsStayApart /\ Cleaned!LinkIsCounted

(* While no row is removed a response is announced by the poll that first  *)
(* sees it; a new parser admits only what was deferred before it; a poll's *)
(* counts and deferrals cover the sheet though rows are removed; and a     *)
(* settled intent stays settled (applicant-watcher.ts).                    *)
ApplicantSteps ==
    [][/\ part = "parser" => Parser!AnnouncedWhenSeen /\ Parser!ReparseAdmitsDeferred
       /\ part = "deleted" => Deleted!PollCoversSheet /\ Deleted!ReparseAdmitsDeferred
       /\ part = "drain" => Drain!SettledStays
       /\ part = "twins" => Twins!SettledStays
       /\ part = "others" => Others!SettledStays]_mcVars

===============================================================================
