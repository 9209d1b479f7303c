------------------------------ MODULE AliasScans ----------------------------
(***************************************************************************)
(* The history scans of a character and its former names: one request cap, *)
(* shared between the names in turn, each with a bookmark of its own.      *)
(* Name 0 is the current one.  A page holds one report, newest first; a    *)
(* bookmark is the next page and the report that ended the page before it, *)
(* which a resumed scan proves with a request.                             *)
(***************************************************************************)
EXTENDS Naturals, Sequences, FiniteSets, FiniteSetsExt

CONSTANTS
    Names,        \* number of names, the current one included
    Reports,      \* most reports of a name at the start
    Uploads,      \* bound: reports uploaded later
    RequestCap,
    Lights,       \* bound: light refreshes
    Outages       \* bound: scans that fail, and runs that crash

ASSUME AliasAssumption ==
    /\ Names \in Nat /\ Names > 1 /\ Reports \in Nat \ {0}
    /\ RequestCap \in Nat /\ RequestCap > 1
    /\ {Uploads, Lights, Outages} \subseteq Nat

VARIABLES
    size,       \* number of reports of each name
    resume,     \* bookmarks as stored
    turn,       \* identityScanTurn, modulo the names
    stored,     \* reports whose kills are stored, each <<name, report>>
    stage,      \* idle, or the kind of run: full, light
    caps,       \* historyCaps
    todo,       \* names still to scan
    next,       \* bookmarks the run will publish
    found,      \* what the run has read
    limited,    \* whether a scan was limited
    spent,
    uploads, lights, outages

run == <<caps, todo, next, found, limited, spent>>
bounds == <<uploads, lights, outages>>
vars == <<size, resume, turn, stored, stage, run, bounds>>

I == 0 .. Names - 1
NoMark == [page |-> 0, boundary |-> 0]
FromTop == [page |-> 1, boundary |-> 0]

(* The report on page p of name i.                                         *)
ReportAt(i, p) == size[i] - p + 1

(* A resumed scan spends one request proving its saved boundary.           *)
Minimum(i) == IF resume[i].boundary # 0 THEN 2 ELSE 1

(* The names admitted, from the one whose turn it is on, while their       *)
(* minimum fits; what is left goes round those admitted.                   *)
Order == [k \in 1 .. Names |-> (turn + k - 1) % Names]
Admit(prev, i) ==
    IF Minimum(i) > prev.left THEN prev
    ELSE [names |-> Append(prev.names, i), left |-> prev.left - Minimum(i)]
Round[k \in 0 .. Names] ==
    IF k = 0 THEN [names |-> <<>>, left |-> RequestCap] ELSE Admit(Round[k - 1], Order[k])
Admitted == Round[Names]

SharesAll(a) ==    \* mutant: everyone is given the remainder
    [i \in {a.names[k] : k \in DOMAIN a.names} |-> Minimum(i) + a.left]

Shares(a) ==
    LET n == Len(a.names)
        extra(k) == (a.left \div n) + (IF k <= a.left % n THEN 1 ELSE 0)
    IN [i \in {a.names[k] : k \in 1 .. n} |->
          Minimum(i) + extra(CHOOSE k \in 1 .. n : a.names[k] = i)]

Starts(kind, cs) ==
    /\ stage = "idle" /\ stage' = kind
    /\ caps' = cs /\ todo' = DOMAIN cs
    /\ next' = resume /\ found' = {} /\ limited' = FALSE /\ spent' = 0
    /\ UNCHANGED <<size, resume, turn, stored, uploads, outages>>

Full == Starts("full", Shares(Admitted)) /\ UNCHANGED lights

(* A light refresh reads the newest page of the current name.              *)
Light ==
    /\ lights < Lights /\ lights' = lights + 1
    /\ Starts("light", [i \in {0} |-> 1])

(* Names are scanned one after another, the current one first.             *)
Turn(i) == i \in todo /\ i = Min(todo) /\ todo' = todo \ {i}

(* scanHistory: the bookmark is proved or given up, then pages are read    *)
(* to the end or the cap.  A resumed scan that ends has not finished: the  *)
(* next one starts from the top.                                           *)
Scan(i) ==
    /\ Turn(i)
    /\ LET mark == IF stage = "light" THEN NoMark ELSE resume[i]
           probed == IF mark.boundary = 0 THEN {} ELSE {mark.page - 1}
           proved == \E p \in probed : ReportAt(i, p) = mark.boundary
           start == IF proved THEN mark.page ELSE 1
           last == Min({size[i], start + caps[i] - Cardinality(probed) - 1})
           ended == last = size[i] /\ start <= last
           reach == IF last >= start THEN last ELSE IF proved THEN start - 1 ELSE 0
       IN /\ found' = found \cup {<<i, ReportAt(i, p)>> : p \in probed \cup (start .. last)}
          /\ spent' = spent + Cardinality(probed) + Cardinality(start .. last)
          /\ limited' = (limited \/ ~ended \/ start > 1)
          /\ next' = IF stage = "light" THEN next
                     ELSE [next EXCEPT ![i] =
                             CASE ended /\ start = 1 -> NoMark
                               [] ended \/ reach = 0 -> FromTop
                               [] OTHER -> [page |-> reach + 1, boundary |-> ReportAt(i, reach)]]
    /\ UNCHANGED <<size, resume, turn, stored, stage, caps, bounds>>

(* The scan of a name fails at its first request: its bookmark stays.      *)
ScanFails(i) ==
    /\ Turn(i) /\ outages < Outages /\ outages' = outages + 1
    /\ spent' = spent + 1 /\ limited' = TRUE
    /\ UNCHANGED <<size, resume, turn, stored, stage, caps, next, found, uploads, lights>>

(* mutant: a name that was not scanned does not limit the run.             *)
PublishUndeferred ==
    /\ stage # "idle" /\ todo = {}
    /\ stored' = IF limited THEN stored \cup found ELSE found
    /\ resume' = next /\ turn' = (turn + 1) % Names /\ stage' = "idle"
    /\ UNCHANGED <<size, run, bounds>>

(* A run that was not limited and deferred no name is complete, and keeps  *)
(* only what it found; any other is partial and keeps what was stored.     *)
Publish ==
    /\ stage # "idle" /\ todo = {}
    /\ LET partial == limited \/ DOMAIN caps # I
       IN stored' = IF partial THEN stored \cup found ELSE found
    /\ resume' = next /\ turn' = (turn + 1) % Names /\ stage' = "idle"
    /\ UNCHANGED <<size, run, bounds>>

Crash ==
    /\ stage # "idle" /\ outages < Outages /\ outages' = outages + 1
    /\ stage' = "idle" /\ todo' = {}
    /\ UNCHANGED <<size, resume, turn, stored, caps, next, found, limited, spent,
                   uploads, lights>>

(* A report is uploaded between two requests, before the older ones.       *)
Upload(i) ==
    /\ uploads < Uploads /\ uploads' = uploads + 1
    /\ size' = [size EXCEPT ![i] = @ + 1]
    /\ UNCHANGED <<resume, turn, stored, stage, run, lights, outages>>

Init ==
    /\ size \in [I -> 1 .. Reports]
    /\ resume = [i \in I |-> NoMark] /\ turn = 0 /\ stored = {} /\ stage = "idle"
    /\ caps = <<>> /\ todo = {} /\ next = resume /\ found = {} /\ limited = FALSE
    /\ spent = 0 /\ uploads = 0 /\ lights = 0 /\ outages = 0

Runs == Full \/ (\E i \in I : Scan(i)) \/ Publish
Next == Runs \/ Light \/ Crash \/ \E i \in I : ScanFails(i) \/ Upload(i)

Spec == Init /\ [][Next]_vars
(* The retry sweep queues another run while one was limited, and the stale *)
(* read of a dossier after that; the steps of a run are taken.             *)
FairSpec == Spec /\ WF_vars(Runs)
-----------------------------------------------------------------------------
(* A run never makes more history requests than its cap, however many      *)
(* names share it and whatever their bookmarks cost to prove.              *)
CapIsShared == spent <= RequestCap

(* What is stored stays stored: a run that did not read a name, or not all *)
(* of it, never drops the kills only that name holds                       *)
(* (evidence-run-cost.md, light refresh).                                  *)
NoNameIsDropped == [][stored \subseteq stored']_vars

(* Every report of every name comes to be stored, though the names'        *)
(* bookmarks together may need more requests than a run has.               *)
EveryReport == \A i \in I : \A r \in 1 .. size[i] : <<i, r>> \in stored
=============================================================================
