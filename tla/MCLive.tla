-------------------------------- MODULE MCLive --------------------------------
(* What must happen in the end: a character's slot is given back, a press  *)
(* of "search this tier" reaches everyone, a page catches up with the runs *)
(* it waits for, and mail, links, names, requests and profiles are got     *)
(* through.  Each behaviour is about one of these.                         *)
EXTENDS EvidenceRuns

CONSTANT Parts   \* the parts a behaviour may be about

(* Two applications that share a member; two characters are linked already.*)
RootOf == [a \in {"p", "q"} |-> IF a = "p" THEN "r" ELSE "s"]
MembersOf == [a \in {"p", "q"} |-> IF a = "p" THEN {"m", "n"} ELSE {"n", "k"}]
GroupLinks == {{"m", "y"}, {"n", "z"}}
All == {"r", "s", "m", "n", "k", "y", "z"}

Profiles == <<"x", "y", "gone">>
Subjects == [a \in {"p"} |-> "x"]

VARIABLES
    part,   \* the part this behaviour is about
    now, search, other, bare, press, answer, view, refusals, failures,
    ordinary,   \* TierPress
    runs, shown, sent, applied, stopped, hidden, timer, read, ghost, watched,
    deadline, back, asked, faults, hides,   \* DossierPage
    mail, before, worker,   \* AccountMail
    app, links, exists, pass, raced, cleanup,   \* ApplicantLinks
    size, resume, turn, stored, scanning, caps, todo, next, found, limited,
    spent, uploads, lights, outages,   \* AliasScans
    valid, cached, asking, req, seen,   \* UpstreamTokens
    row, tried, passes, proved   \* RosterPresence

Tier == INSTANCE TierPress WITH
    N <- 2, Tabs <- {1}, Limit <- 1, Day <- 1, Horizon <- 2, Refusals <- 1,
    Failures <- 1, Ordinary <- 1, Bare <- {2}
Tabbed == INSTANCE TierPress WITH
    N <- 2, Tabs <- {1, 2}, Limit <- 1, Day <- 1, Horizon <- 2, Refusals <- 1,
    Failures <- 0, Ordinary <- 0, Bare <- {2}
Follow == INSTANCE DossierPage WITH
    Runs <- {"r1", "r2"}, Presses <- {"p1", "p2"}, Faults <- 1, InOrder <-
    FALSE, ReadBackFails <- FALSE, Hides <- 0
Ordered == INSTANCE DossierPage WITH
    Runs <- {"r1", "r2"}, Presses <- {"p1", "p2"}, Faults <- 1, InOrder <-
    TRUE, ReadBackFails <- TRUE, Hides <- 1
Mail == INSTANCE AccountMail WITH
    Mails <- {"m1", "m2"}, Poison <- {"m2"}, Workers <- {"w1"}, LeaseBase <-
    4, LeaseCap <- 5, Doublings <- 1
Links == INSTANCE ApplicantLinks WITH
    Chars <- All, Apps <- {"p", "q"}, Root <- RootOf, Members <- MembersOf,
    Given <- GroupLinks, Broken <- {"p"}, Barred <- {"s"}, Faults <- FALSE,
    Cleans <- FALSE, Stale <- {}, Workers <- {"w"}
Scans == INSTANCE AliasScans WITH
    Names <- 3, Reports <- 2, Uploads <- 0, RequestCap <- 3, Lights <- 0,
    Outages <- 1, stage <- scanning
Tokens == INSTANCE UpstreamTokens WITH
    Requests <- {"a", "b"}, Hidden <- {"b"}, MaxRevokes <- 1, MaxExpiries <-
    1, MaxFails <- 1, pending <- asking
Presence == INSTANCE RosterPresence WITH
    Locators <- 1..3, Real <- Profiles, Broken <- {1, 2}, Passes <- {"p"},
    Subject <- Subjects, Workers <- 1, MaxReads <- 1, Lease <- 2, Lifetime <-
    2, Faults <- FALSE, pass <- passes

ASSUME MCAssumption ==
  /\ Slot!SlotAssumption
  /\ Tier!TierAssumption
  /\ Tabbed!TierAssumption
  /\ Follow!PageAssumption
  /\ Ordered!PageAssumption
  /\ Mail!MailAssumption
  /\ Links!LinksAssumption
  /\ Scans!AliasAssumption
  /\ Tokens!TokensAssumption
  /\ Presence!PresenceAssumption

(* A component no step of the behaviour is about.                         *)
Unused == "unused"

TierOff ==
    /\ now = Unused /\ search = Unused /\ other = Unused /\ bare = Unused
    /\ press = Unused /\ answer = Unused /\ view = Unused
    /\ refusals = Unused /\ failures = Unused /\ ordinary = Unused
PageOff ==
    /\ runs = Unused /\ shown = Unused /\ sent = Unused /\ applied = Unused
    /\ stopped = Unused /\ hidden = Unused /\ timer = Unused /\ read = Unused
    /\ ghost = Unused /\ watched = Unused /\ deadline = Unused
    /\ back = Unused /\ asked = Unused /\ faults = Unused /\ hides = Unused
MailOff ==
    /\ mail = Unused /\ before = Unused /\ worker = Unused
LinksOff ==
    /\ app = Unused /\ links = Unused /\ exists = Unused /\ pass = Unused
    /\ raced = Unused /\ cleanup = Unused
NamesOff ==
    /\ size = Unused /\ resume = Unused /\ turn = Unused /\ stored = Unused
    /\ scanning = Unused /\ caps = Unused /\ todo = Unused /\ next = Unused
    /\ found = Unused /\ limited = Unused /\ spent = Unused
    /\ uploads = Unused /\ lights = Unused /\ outages = Unused
TokensOff ==
    /\ valid = Unused /\ cached = Unused /\ asking = Unused /\ req = Unused
    /\ seen = Unused
PresenceOff ==
    /\ row = Unused /\ tried = Unused /\ passes = Unused /\ proved = Unused

tierVars == <<now, search, other, bare, press, answer, view, refusals,
      failures, ordinary>>
pageVars == <<runs, shown, sent, applied, stopped, hidden, timer, read, ghost,
      watched, deadline, back, asked, faults, hides>>
mailVars == <<mail, before, worker>>
linksVars == <<app, links, exists, pass, raced, cleanup>>
namesVars == <<size, resume, turn, stored, scanning, caps, todo, next, found,
      limited, spent, uploads, lights, outages>>
tokensVars == <<valid, cached, asking, req, seen>>
presenceVars == <<row, tried, passes, proved>>

MCInit ==
    /\ part \in Parts
    /\ Init
    /\ \/ part = "tier" /\ Tier!Init
       \/ part = "tabs" /\ Tabbed!Init
       \/ part \notin {"tier", "tabs"} /\ TierOff
    /\ \/ part = "follow" /\ Follow!Init
       \/ part = "ordered" /\ Ordered!Init
       \/ part \notin {"follow", "ordered"} /\ PageOff
    /\ IF part = "mail" THEN Mail!Init ELSE MailOff
    /\ IF part = "links" THEN Links!Init ELSE LinksOff
    /\ IF part = "names" THEN Scans!Init ELSE NamesOff
    /\ IF part = "tokens" THEN Tokens!Init ELSE TokensOff
    /\ IF part = "presence" THEN Presence!Init ELSE PresenceOff

MCNext ==
    \/ /\ part = "slot" /\ Next
       /\ UNCHANGED <<part, tierVars, pageVars, mailVars, linksVars,
                    namesVars, tokensVars, presenceVars>>
    \/ /\ part = "tier" /\ Tier!Next
       /\ UNCHANGED <<part, vars, pageVars, mailVars, linksVars, namesVars,
                    tokensVars, presenceVars>>
    \/ /\ part = "tabs" /\ Tabbed!Next
       /\ UNCHANGED <<part, vars, pageVars, mailVars, linksVars, namesVars,
                    tokensVars, presenceVars>>
    \/ /\ part = "follow" /\ Follow!Next
       /\ UNCHANGED <<part, vars, tierVars, mailVars, linksVars, namesVars,
                    tokensVars, presenceVars>>
    \/ /\ part = "ordered" /\ Ordered!Next
       /\ UNCHANGED <<part, vars, tierVars, mailVars, linksVars, namesVars,
                    tokensVars, presenceVars>>
    \/ /\ part = "mail" /\ Mail!Next
       /\ UNCHANGED <<part, vars, tierVars, pageVars, linksVars, namesVars,
                    tokensVars, presenceVars>>
    \/ /\ part = "links" /\ Links!Next
       /\ UNCHANGED <<part, vars, tierVars, pageVars, mailVars, namesVars,
                    tokensVars, presenceVars>>
    \/ /\ part = "names" /\ Scans!Next
       /\ UNCHANGED <<part, vars, tierVars, pageVars, mailVars, linksVars,
                    tokensVars, presenceVars>>
    \/ /\ part = "tokens" /\ Tokens!Next
       /\ UNCHANGED <<part, vars, tierVars, pageVars, mailVars, linksVars,
                    namesVars, presenceVars>>
    \/ /\ part = "presence" /\ Presence!Next
       /\ UNCHANGED <<part, vars, tierVars, pageVars, mailVars, linksVars,
                    namesVars, tokensVars>>

mcVars ==
    <<part, vars, tierVars, pageVars, mailVars, linksVars, namesVars,
      tokensVars, presenceVars>>

MCSpec == MCInit /\ [][MCNext]_mcVars

(* Each component's own fairness, of its steps alone: see its module.      *)
LiveSpec ==
    /\ MCSpec
    /\ Fairness
    /\ WF_tierVars(part = "tier" /\ (Tier!Request(1) \/ Tier!Press(1)))
    /\ WF_tierVars(part = "tier" /\ Tier!Reload(1))
    /\ \A c \in 1..2 : WF_tierVars(part = "tier" /\ Tier!Runs(c))
    /\ WF_pageVars(part = "follow" /\ Follow!TimerFires)
    /\ WF_pageVars(part = "follow" /\ Follow!DeadlinePasses)
    /\ WF_pageVars(part = "follow" /\ Follow!Show)
    /\ WF_pageVars(part = "follow" /\ Follow!ServeLoop)
    /\ WF_pageVars(part = "follow" /\ Follow!AskArrives)
    /\ WF_pageVars(part = "follow" /\ Follow!FullArrives)
    /\ \A p \in {"p1", "p2"} :
        /\ WF_pageVars(part = "follow" /\ Follow!ServeBack(p))
        /\ WF_pageVars(part = "follow" /\ Follow!BackArrives(p))
    /\ WF_mailVars(part = "mail" /\ Mail!Tick)
    /\ WF_mailVars(part = "mail" /\ Mail!startAccountMailWorker("w1"))
    /\ WF_mailVars(part = "mail" /\ Mail!sendFailed("w1", "m2"))
    /\ SF_mailVars(part = "mail" /\ \E x \in {"m1", "m2"} : Mail!claimDue("w1", x))
    /\ WF_mailVars(part = "mail" /\ Mail!sendFailed("w1", "m1"))
    /\ SF_mailVars(part = "mail" /\ Mail!sendAccepted("w1", "m1"))
    /\ SF_mailVars(part = "mail" /\ Mail!markSent("w1", "m1"))
    /\ WF_linksVars(part = "links" /\ Links!settleApplicantApplications)
    /\ WF_linksVars(part = "links" /\ Links!Create)
    /\ WF_linksVars(part = "links" /\ Links!linkApplicantApplications("w"))
    /\ WF_linksVars(part = "links" /\ Links!PassStep("w"))
    /\ WF_namesVars(part = "names" /\ Scans!Runs)
    /\ \A r \in {"a", "b"} : WF_tokensVars(part = "tokens" /\ Tokens!Step(r))
    /\ WF_tokensVars(part = "tokens" /\ Tokens!Issue)
    /\ WF_tokensVars(part = "tokens" /\ Tokens!fetchToken)
    /\ WF_presenceVars(part = "presence" /\ Presence!Tick)
    /\ WF_presenceVars(part = "presence" /\ Presence!Work("p"))
    /\ WF_presenceVars(part = "presence" /\ Presence!Again("p"))

(* A press reserves no more searches than its limit though a reservation   *)
(* throws or the queue fails, the control of either of two pages says      *)
(* Searched only when everyone is, but for those it was told failed or     *)
(* have nothing collected, and a page has one poll loop                    *)
(* (search-dossier-tier.ts, dossier-tier-search-control.tsx,               *)
(* use-authoritative-poll.ts).                                             *)
PressesHold ==
    /\ part = "tier" => Tier!PressWithinLimit /\ Tier!SearchedMeansAll
    /\ part = "tabs" => Tabbed!PressWithinLimit /\ Tabbed!SearchedMeansAll
    /\ part = "ordered" => Ordered!OneLoop

(* A tier is searched at most once a day whatever became of the search     *)
(* and whichever of two pages asked, and what a page has shown stays       *)
(* shown, whatever answers are in flight                                   *)
(* (tier-search.ts, dossier-page-client.tsx).                              *)
PageSteps ==
    [][/\ part = "tier" => Tier!OneADay
       /\ part = "tabs" => Tabbed!OneADay
       /\ part = "ordered" => Ordered!NeverGoesBack]_mcVars

(* Presses limited to fewer searches than the dossier has characters reach *)
(* all of them, an application whose processing throws does not hold up    *)
(* the others, every name is read though one run cannot read them all, and *)
(* profiles that never answer keep none of the others unread               *)
(* (search-dossier-tier.ts, applicant-links.ts,                            *)
(* applicant-evidence-job-handler.ts, roster-profile-presence.ts).         *)
EveryoneIsReached ==
    <>(/\ part = "tier" => Tier!Reached
       /\ part = "links" => Links!Closed("q")
       /\ part = "names" => Scans!EveryReport
       /\ part = "presence" => Presence!Resolved(3))

(* A run the reader started or the page watches comes to be shown though   *)
(* another never ends (evidence-run-watch.ts, #690), readable mail is      *)
(* delivered beside mail that cannot be read (account-mail.ts), and a      *)
(* request ends however often its token is revoked (transport.ts).         *)
Waits(i) ==
    \/ part = "follow" /\ Follow!Awaited(IF i = 1 THEN "r1" ELSE "r2")
    \/ part = "mail" /\ Mail!Queued("m1")
    \/ part = "tokens" /\ Tokens!Begun(IF i = 1 THEN "a" ELSE "b")
IsServed(i) ==
    /\ part = "follow" => Follow!Told(IF i = 1 THEN "r1" ELSE "r2")
    /\ part = "mail" => Mail!Settled("m1")
    /\ part = "tokens" => Tokens!Ended(IF i = 1 THEN "a" ELSE "b")
WaitsAreServed == \A i \in 1..2 : Waits(i) ~> IsServed(i)

===============================================================================
