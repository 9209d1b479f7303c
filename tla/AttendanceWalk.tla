--------------------------- MODULE AttendanceWalk ---------------------------
(***************************************************************************)
(* The search of one tier in a guild's attendance: gallop to the tier's    *)
(* window, bisect for its first page, then read the pages across it and    *)
(* each report there that may list the character.  A walk that finished    *)
(* is kept for a while and replayed for the next character of the dossier. *)
(*                                                                         *)
(* Attendance is a list of reports, newest first but for an overlap of a   *)
(* few hours; a report may be undated.  Reports are uploaded meanwhile,    *)
(* which moves the older ones down.                                        *)
(***************************************************************************)
EXTENDS Integers, Sequences, FiniteSets, FiniteSetsExt, SequencesExt

CONSTANTS
    Reports,       \* number of reports at the start
    Uploads,       \* bound: reports uploaded later
    Midway,        \* whether they may be uploaded while a walk goes on
    PageSize,
    Times,         \* start times; 0 is undated
    Lo, Hi,        \* earliestStart and latestStart of the window
    Overlap,       \* ATTENDANCE_PAGE_OVERLAP_MS
    Chars,         \* characters that search, in turn
    Listed,        \* those whom attendance lists
    RequestCap,
    Searches,      \* bound: searches
    Outages        \* bound: requests that fail

AttendanceAssumption ==
    /\ {Reports, PageSize, RequestCap, Searches} \subseteq Nat \ {0}
    /\ {Uploads, Overlap, Outages} \subseteq Nat
    /\ Times \subseteq Nat \ {0} /\ Lo \in Nat /\ Hi \in Nat /\ Lo <= Hi
    /\ Listed \subseteq Chars /\ Midway \in BOOLEAN

VARIABLES
    at,         \* start time of each report
    log,        \* the guild's attendance
    kept,       \* sharedAttendanceWalks: the pages of a finished walk
    who, stage, \* the character that searches, and where it is
    before, first,    \* bounds of the bisection
    number,     \* page of the walk
    pages,      \* answers of this walk
    reading,    \* reports of the page still to judge
    hydrated,   \* scannedReportCodes
    spent, asked,     \* requests, and those of them for attendance
    replay,     \* pages of the walk being replayed
    base,       \* reports that were there when the walk in use began
    outcome, searches, outages

walk == <<before, first, number, pages, reading, hydrated, spent, asked, replay, base>>
vars == <<at, log, kept, who, stage, walk, outcome, searches, outages>>

Ids == 1 .. (Reports + Uploads)
Undated == 0
NoWalk == [pages |-> <<>>, base |-> {}]

(* No report lies more than the overlap above an older one.                *)
Ordered(l) ==
    \A i, j \in DOMAIN l : i < j /\ at[l[i]] # Undated /\ at[l[j]] # Undated
                             => at[l[j]] <= at[l[i]] + Overlap

(* guildAttendancePage, of the list as it is now.                          *)
Page(n) == [ids |-> SubSeq(log, (n - 1) * PageSize + 1, Min({n * PageSize, Len(log)})),
            more |-> n * PageSize < Len(log)]

(* mutant: a page just above the window is taken to be past it.            *)
NewerAtOnce(p) == p.ids # <<>> /\ \A i \in ToSet(p.ids) : at[i] # Undated /\ at[i] > Hi - Overlap

Newer(p) == p.ids # <<>> /\ \A i \in ToSet(p.ids) : at[i] # Undated /\ at[i] > Hi + Overlap

Older(p) == p.ids # <<>> /\ \A i \in ToSet(p.ids) : at[i] # Undated /\ at[i] < Lo - Overlap

Wanted(i) == at[i] = Undated \/ (at[i] >= Lo /\ at[i] <= Hi)
ToHydrate(i) == who \in Listed /\ Wanted(i) /\ i \notin hydrated

(* The page the search asks for next.                                      *)
Middle == (before + first) \div 2
Wants == CASE stage = "gallop" -> first
           [] stage = "bisect" -> Middle
           [] OTHER -> number
Asking == stage \in {"gallop", "bisect"} \/ (stage = "walk" /\ reading = <<>>)
Free == Wants \in DOMAIN pages \/ Wants \in DOMAIN replay
Answer(n) == IF n \in DOMAIN pages THEN pages[n]
             ELSE IF n \in DOMAIN replay THEN replay[n] ELSE Page(n)

Whole == IF outcome = "none" THEN "complete" ELSE outcome

End(o) ==
    /\ stage' = "idle" /\ outcome' = o
    /\ before' = 0 /\ first' = 1 /\ number' = 1 /\ reading' = <<>>
    /\ UNCHANGED <<at, log, who, hydrated, searches>>

(* finished: a walk that was not replayed is kept.                         *)
Finished(ps) == kept' = IF replay # <<>> THEN kept ELSE [pages |-> ps, base |-> base]

(* searchTierAttendance begins, with the walk kept if it has not expired.  *)
Begin(c) ==
    /\ stage = "idle" /\ searches < Searches
    /\ searches' = searches + 1 /\ who' = c /\ stage' = "gallop"
    /\ before' = 0 /\ first' = 1 /\ number' = 1 /\ pages' = <<>> /\ reading' = <<>>
    /\ hydrated' = {} /\ spent' = 0 /\ asked' = 0 /\ outcome' = "none"
    /\ replay' = kept.pages
    /\ base' = IF kept = NoWalk THEN ToSet(log) ELSE kept.base
    /\ UNCHANGED <<at, log, kept, outages>>

(* spend refuses: the whole search ends.                                   *)
Spends == (Asking /\ ~Free) \/ (stage = "walk" /\ reading # <<>> /\ ToHydrate(Head(reading)))

Capped ==
    /\ Spends /\ spent >= RequestCap
    /\ End("request_cap")
    /\ UNCHANGED <<kept, pages, spent, asked, replay, base, outages>>

(* A page that cannot be read ends the walk of the guild.                  *)
PageFails ==
    /\ Asking /\ ~Free /\ spent < RequestCap
    /\ outages < Outages /\ outages' = outages + 1
    /\ spent' = spent + 1 /\ asked' = asked + 1
    /\ End("incomplete")
    /\ UNCHANGED <<kept, pages, replay, base>>

(* A page is read, or taken from the walk replayed or from this walk.      *)
Reads ==
    /\ Asking /\ (Free \/ spent < RequestCap)
    /\ spent' = IF Free THEN spent ELSE spent + 1
    /\ asked' = IF Free THEN asked ELSE asked + 1
    /\ pages' = [n \in DOMAIN pages \cup {Wants} |-> Answer(n)]
    /\ UNCHANGED <<hydrated, replay, base, outages>>

NextStage == IF first' - before' > 1 THEN "bisect" ELSE "walk"

Gallop ==
    /\ stage = "gallop" /\ Reads
    /\ LET p == Answer(first)
       IN \/ /\ ~Newer(p)
             /\ UNCHANGED <<before, first, kept, outcome, reading>>
             /\ stage' = NextStage /\ number' = first
             /\ UNCHANGED <<at, log, who, searches>>
          \/ Newer(p) /\ ~p.more /\ Finished(pages') /\ End(Whole)
          \/ /\ Newer(p) /\ p.more
             /\ before' = first /\ first' = first * 2
             /\ UNCHANGED <<at, log, kept, who, stage, number, reading, outcome, searches>>

Bisect ==
    /\ stage = "bisect" /\ Reads
    /\ IF Newer(Answer(Middle)) THEN before' = Middle /\ first' = first
       ELSE first' = Middle /\ before' = before
    /\ stage' = NextStage /\ number' = first'
    /\ UNCHANGED <<at, log, kept, who, reading, outcome, searches>>

(* The pages from the first on: their reports are judged one by one, then  *)
(* the next page is asked for, until one is past the window or the last.   *)
ReadPage ==
    /\ stage = "walk" /\ reading = <<>> /\ Reads
    /\ LET p == Answer(number)
           stop == Older(p) \/ (p.ids = <<>> /\ ~p.more)
       IN \/ stop /\ Finished(pages') /\ End(Whole)
          \/ /\ ~stop
             /\ reading' = p.ids
             /\ UNCHANGED <<at, log, kept, who, stage, before, first, number, outcome, searches>>

(* A report that may list the character is read, or cannot be, which       *)
(* leaves the search incomplete but does not stop it.                      *)
Judge ==
    /\ stage = "walk" /\ reading # <<>>
    /\ LET i == Head(reading)
           last == Len(reading) = 1
           over == last /\ ~pages[number].more
           fails == outages' # outages
       IN /\ IF ToHydrate(i)
             THEN /\ spent < RequestCap /\ spent' = spent + 1
                  /\ hydrated' = hydrated \cup {i}
                  /\ outages' \in {n \in {outages, outages + 1} : n <= Outages}
             ELSE UNCHANGED <<spent, hydrated, outages>>
          /\ reading' = Tail(reading)
          /\ number' = IF last /\ ~over THEN number + 1 ELSE number
          /\ stage' = IF over THEN "idle" ELSE stage
          /\ outcome' = IF fails THEN "incomplete" ELSE IF over THEN Whole ELSE outcome
          /\ IF over THEN Finished(pages) ELSE kept' = kept
    /\ UNCHANGED <<at, log, who, before, first, pages, asked, replay, base, searches>>

(* The kept walk grows too old, or is dropped for newer ones.              *)
Expire ==
    /\ stage = "idle" /\ kept # NoWalk
    /\ kept' = NoWalk
    /\ UNCHANGED <<at, log, who, stage, walk, outcome, searches, outages>>

(* A report is uploaded, of this night or an older one.                    *)
Upload ==
    /\ Len(log) < Reports + Uploads /\ (stage = "idle" \/ Midway)
    /\ \E i \in 0 .. Len(log) :
          log' = SubSeq(log, 1, i) \o <<Len(log) + 1>> \o SubSeq(log, i + 1, Len(log))
    /\ Ordered(log')
    /\ UNCHANGED <<at, kept, who, stage, walk, outcome, searches, outages>>

Init ==
    /\ at \in [Ids -> Times \cup {Undated}]
    /\ log = [i \in 1 .. Reports |-> i] /\ Ordered(log)
    /\ kept = NoWalk /\ who \in Chars /\ stage = "idle" /\ before = 0 /\ first = 1
    /\ number = 1 /\ pages = <<>> /\ reading = <<>> /\ hydrated = {} /\ spent = 0
    /\ asked = 0 /\ replay = <<>> /\ base = {} /\ outcome = "none" /\ searches = 0
    /\ outages = 0

Search == Capped \/ Gallop \/ Bisect \/ ReadPage \/ Judge
Next == Search \/ (\E c \in Chars : Begin(c)) \/ PageFails \/ Expire \/ Upload

Spec == Init /\ [][Next]_vars
FairSpec == Spec /\ WF_vars(Search)
-----------------------------------------------------------------------------
(* A search reported complete has read every dated report of the window    *)
(* that lists the character and was there when its walk began, its own     *)
(* walk or a kept one; while nothing is uploaded during a walk.            *)
WindowIsCovered ==
    stage = "idle" /\ outcome = "complete" /\ who \in Listed =>
        \A i \in base : at[i] # Undated /\ Wanted(i) => i \in hydrated

(* The same whatever is uploaded during the walk.                          *)
WindowIsAlwaysCovered == WindowIsCovered

(* A replayed walk asks the guild's attendance for nothing: which pages a  *)
(* walk reads depends on start times alone, so all it needs were kept.     *)
ReplayIsFree == replay # <<>> => asked = 0

=============================================================================
