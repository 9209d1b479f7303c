------------------------------ MODULE TierPress ------------------------------
(***************************************************************************)
(* "Search this tier": a press of the dossier's control asks for one       *)
(* search of the tier for every character of the dossier, each refused or  *)
(* queued on its own, and the control shows what the dossier's last read   *)
(* and the press's answer say together.  One tier; a character goes under  *)
(* one name; the run a search becomes is abbreviated (see EvidenceRuns).   *)
(***************************************************************************)
EXTENDS Integers, FiniteSets, FiniteSetsExt

CONSTANTS
    N,           \* characters, in the dossier's order
    Tabs,        \* open pages
    Limit,       \* DOSSIER_TIER_SEARCH_CHARACTER_LIMIT
    Day,         \* TIER_SEARCH_SPACING_MS, in ticks
    Horizon,     \* bound: ticks
    Refusals,    \* bound: reservations that throw
    Failures,    \* bound: queue calls that throw
    Ordinary,    \* bound: other collections of a character
    Bare         \* characters nothing was collected for at first

TierAssumption ==
    /\ {N, Limit, Day} \subseteq Nat \ {0}
    /\ {Horizon, Refusals, Failures, Ordinary} \subseteq Nat
    /\ Bare \subseteq 1 .. N

C == 1 .. N

VARIABLES
    now,
    search,      \* the newest search of each character: its status, job and start
    other,       \* characters another collection is in flight for
    bare,        \* characters with nothing collected
    press,       \* per tab: how far the request got, Idle without one
    answer,      \* per tab: what the last press said of each character
    view,        \* per tab: what the dossier's last read said of each
    refusals, failures, ordinary

tab == <<press, answer, view>>
bounds == <<refusals, failures, ordinary>>
vars == <<now, search, other, bare, tab, bounds>>

Never == [status |-> "none", job |-> FALSE, at |-> 0]
Idle == [next |-> 0, tried |-> 0, made |-> 0, said |-> [c \in C |-> "none"]]
Live == {"queued", "running"}

(* tierSearchStates; a tier nobody has a search for is absent.             *)
Standing(c) ==
    LET s == search[c]
        idle == IF c \in bare THEN "unreachable" ELSE "not_searched"
    IN CASE s.status \in Live -> s.status
         [] s.status \in {"complete", "failed"} /\ s.at + Day > now ->
               (IF s.status = "complete" THEN "searched" ELSE "failed")
         [] OTHER -> idle
Absent == [c \in C |-> "absent"]
Dossier ==
    LET states == [c \in C |-> Standing(c)]
    IN IF \A c \in C : states[c] \in {"not_searched", "unreachable"} THEN Absent ELSE states

(* tierSearchView: the dossier speaks for a character it has a search for, *)
(* the answer for the others.                                              *)
Row(t, c) ==
    IF view[t][c] \in {"absent", "not_searched"} /\ answer[t][c] # "none"
    THEN IF answer[t][c] = "already" THEN "queued" ELSE answer[t][c]
    ELSE view[t][c]
Rows(t, s) == {c \in C : Row(t, c) = s}

SettledButSkipped(t) ==    \* mutant: a skipped character counts as settled
    /\ Rows(t, "searched") \cup Rows(t, "failed") # {}
    /\ \A c \in C : Row(t, c) \in {"searched", "failed", "unreachable", "skipped", "absent"}

Settled(t) ==
    /\ Rows(t, "searched") \cup Rows(t, "failed") # {}
    /\ \A c \in C : Row(t, c) \in {"searched", "failed", "unreachable", "absent"}

Searched(t) == Rows(t, "running") \cup Rows(t, "queued") = {} /\ Settled(t)
Disabled(t) == press[t] # Idle \/ Rows(t, "running") \cup Rows(t, "queued") # {} \/ Settled(t)

Press(t) ==
    /\ ~Disabled(t)
    /\ press' = [press EXCEPT ![t] = [Idle EXCEPT !.next = 1]]
    /\ UNCHANGED <<now, search, other, bare, answer, view, bounds>>

AnyCounts(outcome) == TRUE    \* mutant: a refusal takes a place

(* What takes a place of the limit.                                        *)
Counts(outcome) == outcome \in {"queued", "failed"}

Told(t, outcome, said, made) ==
    press' = [press EXCEPT ![t] =
                [@ EXCEPT !.next = @ + 1, !.said[press[t].next] = said,
                          !.tried = @ + (IF Counts(outcome) THEN 1 ELSE 0),
                          !.made = @ + made]]

At(t, c) == press[t].next = c /\ c \in C

OverLimit(t) ==
    \E c \in C :
       /\ At(t, c) /\ press[t].tried >= Limit
       /\ Told(t, "over_limit", "skipped", 0)
       /\ UNCHANGED <<now, search, other, bare, answer, view, bounds>>

Reaches(t, c) == At(t, c) /\ press[t].tried < Limit

(* One run in flight per character: another search is left to it, and the  *)
(* queue is asked for the run's job again when it has none.                *)
Busy(t) ==
    \E c \in C :
       /\ Reaches(t, c) /\ (c \in other \/ search[c].status \in Live)
       /\ Told(t, "busy", CASE c \in other -> "skipped"
                            [] search[c].status = "queued" -> "already"
                            [] OTHER -> "running", 0)
       /\ search' = IF c \in other THEN search ELSE [search EXCEPT ![c].job = TRUE]
       /\ UNCHANGED <<now, other, bare, answer, view, bounds>>

Recent(c, since) == search[c].status # "none" /\ search[c].at >= since

InFlight(c) == c \in other \/ search[c].status \in Live

Refuse(t) ==
    \E c \in C :
       LET recent == Recent(c, now - Day)
       IN /\ Reaches(t, c) /\ ~InFlight(c) /\ (recent \/ c \in bare)
          /\ IF recent THEN Told(t, "recent", "searched", 0)
             ELSE Told(t, "no_evidence", "unreachable", 0)
          /\ UNCHANGED <<now, search, other, bare, answer, view, bounds>>

(* Reserved and given to the queue, which may fail.                        *)
Reserve(t) ==
    \E c \in C, sent \in BOOLEAN :
       /\ Reaches(t, c) /\ ~InFlight(c) /\ ~Recent(c, now - Day) /\ c \notin bare
       /\ sent \/ failures < Failures
       /\ failures' = IF sent THEN failures ELSE failures + 1
       /\ search' = [search EXCEPT ![c] = [status |-> "queued", job |-> sent, at |-> now]]
       /\ IF sent THEN Told(t, "queued", "queued", 1) ELSE Told(t, "failed", "failed", 1)
       /\ UNCHANGED <<now, other, bare, answer, view, refusals, ordinary>>

(* The reservation itself throws: this character's alone.                  *)
Throws(t) ==
    \E c \in C :
       /\ Reaches(t, c) /\ refusals < Refusals /\ refusals' = refusals + 1
       /\ Told(t, "failed", "failed", 0)
       /\ UNCHANGED <<now, search, other, bare, answer, view, failures, ordinary>>

(* The answer.  A press that only failed is an error and leaves the last   *)
(* one; a press that says queued reads the dossier again before it shows.  *)
Respond(t) ==
    LET said == press[t].said
        heard == \E c \in C : said[c] # "failed"
        Has(s) == \E c \in C : said[c] = s
        reads == Has("queued") \/ (Has("already") /\ ~Has("running"))
    IN /\ press[t].next = N + 1 /\ press' = [press EXCEPT ![t] = Idle]
       /\ answer' = IF heard THEN [answer EXCEPT ![t] = said] ELSE answer
       /\ view' = IF reads THEN [view EXCEPT ![t] = Dossier] ELSE view
       /\ UNCHANGED <<now, search, other, bare, bounds>>

(* The page reads the dossier again.                                       *)
Poll(t) ==
    /\ view' = [view EXCEPT ![t] = Dossier]
    /\ UNCHANGED <<now, search, other, bare, press, answer, bounds>>

(* A fresh page has no answer.                                             *)
Reload(t) ==
    /\ press[t] = Idle
    /\ answer' = [answer EXCEPT ![t] = Idle.said] /\ view' = [view EXCEPT ![t] = Dossier]
    /\ UNCHANGED <<now, search, other, bare, press, bounds>>

(* A search without a job is found by the worker's recovery.               *)
Recover(c) ==
    /\ search[c].status = "queued" /\ ~search[c].job
    /\ search' = [search EXCEPT ![c].job = TRUE]
    /\ UNCHANGED <<now, other, bare, tab, bounds>>

Collect(c) ==
    /\ \/ /\ search[c].status = "queued" /\ search[c].job
          /\ search' = [search EXCEPT ![c].status = "running"]
       \/ /\ search[c].status = "running"
          /\ \E s \in {"complete", "failed"} : search' = [search EXCEPT ![c].status = s]
    /\ UNCHANGED <<now, other, bare, tab, bounds>>

(* Another collection of the character begins; its end leaves evidence.    *)
Begins(c) ==
    /\ ordinary < Ordinary /\ ordinary' = ordinary + 1
    /\ ~InFlight(c) /\ other' = other \cup {c}
    /\ UNCHANGED <<now, search, bare, tab, refusals, failures>>
Ends(c) ==
    /\ c \in other /\ other' = other \ {c} /\ bare' = bare \ {c}
    /\ UNCHANGED <<now, search, tab, bounds>>

(* A tick is the best part of a day: no request is that slow.              *)
Tick ==
    /\ now < Horizon /\ (\A t \in Tabs : press[t] = Idle) /\ now' = now + 1
    /\ UNCHANGED <<search, other, bare, tab, bounds>>

Init ==
    /\ now = 0 /\ search = [c \in C |-> Never] /\ other = {} /\ bare = Bare
    /\ press = [t \in Tabs |-> Idle] /\ answer = [t \in Tabs |-> Idle.said]
    /\ view = [t \in Tabs |-> Absent]
    /\ refusals = 0 /\ failures = 0 /\ ordinary = 0

Request(t) == OverLimit(t) \/ Busy(t) \/ Refuse(t) \/ Reserve(t) \/ Respond(t)
Runs(c) == Recover(c) \/ Collect(c) \/ Ends(c)
Next == \/ \E t \in Tabs : Press(t) \/ Request(t) \/ Throws(t) \/ Poll(t) \/ Reload(t)
        \/ (\E c \in C : Runs(c) \/ Begins(c)) \/ Tick

Spec == Init /\ [][Next]_vars
(* A reader who presses while the control allows it and reloads the page;  *)
(* requests are answered and runs end.                                     *)
FairSpec ==
    /\ Spec
    /\ \A t \in Tabs : WF_vars(Request(t)) /\ SF_vars(Press(t)) /\ WF_vars(Reload(t))
    /\ \A c \in C : WF_vars(Runs(c))
-----------------------------------------------------------------------------
(* However its reservations and queue calls fail, one press reserves no    *)
(* more searches than its limit                                            *)
(* (search-dossier-tier.ts: DOSSIER_TIER_SEARCH_CHARACTER_LIMIT).          *)
PressWithinLimit == \A t \in Tabs : press[t].made <= Limit

(* A character's tier is searched at most once a day, whatever became of   *)
(* the search and whichever page asked (#435).                             *)
OneADay ==
    \A c \in C : search'[c].at # search[c].at /\ search[c].status # "none" =>
           search'[c].at > search[c].at + Day

(* The control says "Searched" only when every character has been, but for *)
(* those the page's last answer says could not be reserved, and those the  *)
(* answer or the dossier's last read says nothing was collected for: what  *)
(* an answer says of them stands until the page is loaded again            *)
(* (dossier-tier-search-control.tsx: tierSearchView).                      *)
SearchedMeansAll ==
    \A t \in Tabs : Searched(t) =>
        \A c \in C : \/ search[c].status # "none"
                    \/ answer[t][c] \in {"failed", "unreachable"}
                    \/ view[t][c] = "unreachable"

(* Presses that may queue fewer searches than the dossier has characters   *)
(* reach all of them in the end: those that were refused take no place.    *)
Reached == \A c \in C : c \notin bare => search[c].status # "none"
=============================================================================
