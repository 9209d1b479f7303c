-------------------------- MODULE ConnectionWrites -------------------------
(***************************************************************************)
(* The observation writes of one root: after a discovery run or a cycle of *)
(* its fingerprint sweep has published, the handler writes what was seen   *)
(* as observed links, per family, and may retract earlier ones.  The write *)
(* is best effort and may come late, after a newer run's, or never.  A     *)
(* marker per family keeps a late write of an older run out, a ledger      *)
(* records every decision, and an operator's rebuild starts both over from *)
(* the snapshots.                                                          *)
(*                                                                         *)
(* The root's lock makes one write atomic.  Times are event numbers.       *)
(***************************************************************************)
EXTENDS Naturals, Sequences, FiniteSets, FiniteSetsExt

CONSTANTS
    Others,     \* characters that may be linked to the root
    MaxRuns,    \* bound: discovery runs
    MaxCycles,  \* bound: sweep cycles after the first of a run
    MaxLate,    \* bound: publications whose write is outstanding
    Faults      \* "lose": a write fails; "rebuild": the operator rebuilds

ASSUME WritesAssumption ==
    /\ IsFiniteSet(Others) /\ MaxRuns \in Nat /\ MaxCycles \in Nat /\ MaxLate \in Nat
    /\ Faults \subseteq {"lose", "rebuild"}

VARIABLES
    now,       \* the clock
    runs,      \* the start time of every discovery run, in order
    active,    \* whether the newest run has yet to publish
    chain,     \* the run whose sweep goes on in cycles, 0 for none
    cycles,    \* continuation cycles published so far
    skipped,   \* runs some cycle of which skipped a guild
    latest,    \* the latest snapshot
    swept,     \* the latest snapshot a sweep published
    late,      \* writes not made yet
    rows,      \* observed links: family -> other -> [run, at], run 0 for none
    marker,    \* family -> the run of the newest write, 0 for none
    ledger     \* the write log

vars == <<now, runs, active, chain, cycles, skipped, latest, swept, late, rows, marker, ledger>>

Families == {"raiderio", "fingerprint"}
NoRow == [run |-> 0, at |-> 0]
NoSnapshot == [run |-> 0, at |-> 0, rio |-> {}, fp |-> {}]

StartOf(r) == IF r = 0 THEN 0 ELSE runs[r]

---------------------------------------------------------------------------
(* What a publication lets its write do.                                   *)

raiderIoDecision(limited) ==
    IF limited THEN [decision |-> "added_only", reason |-> "raiderio_limited"]
    ELSE [decision |-> "replaced", reason |-> "raiderio_complete"]

(* A skipped guild wins over a cap, so that the seal can find it.          *)
fingerprintDecision(kind, unread, skips) ==
    IF skips THEN [decision |-> "added_only", reason |-> "skipped_guild"]
    ELSE IF kind = "capped" THEN [decision |-> "added_only", reason |-> "capped"]
    ELSE IF unread THEN [decision |-> "added_only", reason |-> "unread"]
    ELSE [decision |-> "replaced", reason |-> "matched"]

Family(f, d, seen) == [family |-> f, decision |-> d.decision, reason |-> d.reason, seen |-> seen]

Owes(run, families) ==
    /\ Cardinality(late) < MaxLate
    /\ late' = late \cup {[run |-> run, families |-> families, at |-> now]}
    /\ now' = now + 1

---------------------------------------------------------------------------
(* Publications.  One run of the root is active at a time; while a sweep   *)
(* goes on in cycles, runs complete against its snapshot.                  *)

StartRun ==
    /\ ~active /\ Len(runs) < MaxRuns
    /\ active' = TRUE
    /\ runs' = Append(runs, now) /\ now' = now + 1
    /\ UNCHANGED <<chain, cycles, skipped, latest, swept, late, rows, marker, ledger>>

(* raiderIoPublicationWrite: no sweep is due.                              *)
PublishPlain ==
    /\ active /\ active' = FALSE /\ chain = 0
    /\ \E seen \in SUBSET Others, limited \in BOOLEAN :
        /\ latest' = [run |-> Len(runs), at |-> now, rio |-> seen, fp |-> {}]
        /\ Owes(Len(runs), <<Family("raiderio", raiderIoDecision(limited), seen)>>)
    /\ UNCHANGED <<runs, chain, cycles, skipped, swept, rows, marker, ledger>>

(* firstSweepCycleWrite: both families.  A capped cycle opens a chain.     *)
PublishFirst ==
    /\ active /\ active' = FALSE /\ chain = 0
    /\ \E seen, match \in SUBSET Others, limited, unread, skips \in BOOLEAN,
          kind \in {"matched", "capped"} :
        /\ latest' = [run |-> Len(runs), at |-> now, rio |-> seen, fp |-> match \ seen]
        /\ swept' = latest'
        /\ chain' = IF kind = "capped" THEN Len(runs) ELSE 0
        /\ skipped' = IF skips THEN skipped \cup {Len(runs)} ELSE skipped
        /\ Owes(Len(runs),
                <<Family("raiderio", raiderIoDecision(limited), seen),
                  Family("fingerprint", fingerprintDecision(kind, unread, skips), match)>>)
    /\ UNCHANGED <<runs, cycles, rows, marker, ledger>>

(* continuationCycleWrite: the chain's snapshot is amended under the run   *)
(* that began it; a matched cycle is the seal.                             *)
PublishCycle ==
    /\ chain # 0 /\ cycles < MaxCycles
    /\ \E match \in SUBSET Others, unread, skips \in BOOLEAN, kind \in {"matched", "capped"} :
        /\ latest' = [latest EXCEPT !.fp = @ \cup (match \ latest.rio)]
        /\ swept' = latest'
        /\ chain' = IF kind = "capped" THEN chain ELSE 0
        /\ skipped' = IF skips THEN skipped \cup {chain} ELSE skipped
        /\ Owes(chain, <<Family("fingerprint", fingerprintDecision(kind, unread, skips), match)>>)
    /\ cycles' = cycles + 1
    /\ UNCHANGED <<runs, active, rows, marker, ledger>>

(* liveSweepCompletionWrite: the chain's snapshot stands, nothing retracts.*)
PublishLive ==
    /\ active /\ active' = FALSE /\ chain # 0 /\ chain # Len(runs)
    /\ \E seen \in SUBSET Others :
        Owes(Len(runs), <<Family("raiderio",
                [decision |-> "added_only", reason |-> "live_sweep_completion"], seen)>>)
    /\ UNCHANGED <<runs, chain, cycles, skipped, latest, swept, rows, marker, ledger>>

---------------------------------------------------------------------------
(* writeObservations.                                                      *)

(* No marker is consulted.                                                 *)
BlockedNever(run, f) == FALSE

Blocked(run, f) == StartOf(marker[f]) > StartOf(run)

(* The seal of a chain that skipped a guild finds it in the ledger.        *)
Decided(run, fam) ==
    LET skip == \E i \in DOMAIN ledger : /\ ledger[i].run = run
                                         /\ ledger[i].family = "fingerprint"
                                         /\ ledger[i].reason = "skipped_guild"
    IN  IF fam.family = "fingerprint" /\ fam.decision = "replaced" /\ skip
        THEN [fam EXCEPT !.decision = "added_only", !.reason = "skipped_guild"]
        ELSE fam

(* The rows of the newest earlier write are spared.                        *)
RetractsOlder(run, f, c) ==
    rows[f][c].run \notin {0, run, marker[f]} /\ rows[f][c].at < StartOf(run)

(* The retraction takes this run's own earlier rows too.                   *)
RetractsOwn(run, f, c) == rows[f][c].run # 0

(* The retraction spares this run's rows and those observed since it began.*)
Retracts(run, f, c) == rows[f][c].run \notin {0, run} /\ rows[f][c].at < StartOf(run)

WroteFamily(run, fam) ==
    LET d == Decided(run, fam)
    IN  [c \in Others |->
            IF c \in fam.seen THEN [run |-> run, at |-> now]
            ELSE IF d.decision = "replaced" /\ Retracts(run, fam.family, c) THEN NoRow
            ELSE rows[fam.family][c]]

LogRow(run, f, decision, reason) ==
    [run |-> run, family |-> f, decision |-> decision, reason |-> reason, at |-> now]

Write ==
    \E w \in late :
        LET open == {f \in Families : ~Blocked(w.run, f)}
            part(f) == CHOOSE i \in DOMAIN w.families : w.families[i].family = f
            has(f) == \E i \in DOMAIN w.families : w.families[i].family = f
            does(f) == has(f) /\ f \in open
            log(fam) == IF fam.family \in open
                        THEN LET d == Decided(w.run, fam)
                             IN  LogRow(w.run, fam.family, d.decision, d.reason)
                        ELSE LogRow(w.run, fam.family, "blocked", "blocked_by_newer")
        IN  /\ rows' = [f \in Families |->
                    IF does(f) THEN WroteFamily(w.run, w.families[part(f)]) ELSE rows[f]]
            /\ marker' = [f \in Families |-> IF does(f) THEN w.run ELSE marker[f]]
            /\ ledger' = ledger \o [i \in DOMAIN w.families |-> log(w.families[i])]
            /\ late' = late \ {w}
            /\ now' = now + 1
            /\ UNCHANGED <<runs, active, chain, cycles, skipped, latest, swept>>

(* The write fails: it is logged and never tried again.                    *)
Lose ==
    /\ "lose" \in Faults
    /\ \E w \in late : late' = late \ {w}
    /\ UNCHANGED <<now, runs, active, chain, cycles, skipped, latest, swept, rows, marker, ledger>>

(* rebuild: links, markers and a ledger row per family from the pinned     *)
(* snapshots.                                                              *)
Rebuild ==
    /\ "rebuild" \in Faults /\ latest.run # 0
    /\ \A i \in DOMAIN ledger : ledger[i].reason # "rebuild"   \* bound: once
    /\ LET pinned == [f \in Families |-> IF f = "raiderio" THEN latest ELSE swept]
           seen(f) == IF f = "raiderio" THEN latest.rio ELSE swept.fp
           log(f)  == IF pinned[f].run = 0 THEN <<>>
                      ELSE <<LogRow(pinned[f].run, f, "replaced", "rebuild")>>
       IN  /\ rows' = [f \in Families |-> [c \in Others |->
                    IF c \in seen(f) THEN [run |-> pinned[f].run, at |-> pinned[f].at]
                    ELSE NoRow]]
           /\ marker' = [f \in Families |-> pinned[f].run]
           /\ ledger' = ledger \o log("raiderio") \o log("fingerprint")
    /\ now' = now + 1
    /\ UNCHANGED <<runs, active, chain, cycles, skipped, latest, swept, late>>

Init ==
    /\ now = 1 /\ runs = <<>> /\ active = FALSE /\ chain = 0 /\ cycles = 0 /\ skipped = {}
    /\ latest = NoSnapshot /\ swept = NoSnapshot /\ late = {}
    /\ rows = [f \in Families |-> [c \in Others |-> NoRow]]
    /\ marker = [f \in Families |-> 0] /\ ledger = <<>>

Next == StartRun \/ PublishPlain \/ PublishFirst \/ PublishCycle \/ PublishLive
        \/ Write \/ Lose \/ Rebuild

Spec == Init /\ [][Next]_vars

---------------------------------------------------------------------------
(* Properties: the checks of the replay, auditLedger, and the two rules    *)
(* the writer states of itself.                                            *)

Linked(c) == \E f \in Families : rows[f][c].run # 0

(* The newest row of a family that replaced, by run start and then time of *)
(* writing, and the runs written since.                                    *)
Later(i, j) == \/ StartOf(ledger[i].run) > StartOf(ledger[j].run)
               \/ ledger[i].run = ledger[j].run /\ i > j
Replaced(f) == {i \in DOMAIN ledger : ledger[i].family = f /\ ledger[i].decision = "replaced"}
NewestReplaced(f) == CHOOSE i \in Replaced(f) : \A j \in Replaced(f) \ {i} : Later(i, j)
AllowedRuns(f) ==
    LET n == NewestReplaced(f)
    IN  {ledger[i].run : i \in {j \in DOMAIN ledger :
            ledger[j].family = f /\ ledger[j].decision # "blocked" /\ (j = n \/ Later(j, n))}}

(* Rows, markers and the ledger name runs that exist, and a row of a run   *)
(* is never dated before the run.                                          *)
TypeOK ==
    /\ \A f \in Families : marker[f] \in 0..Len(runs)
    /\ \A f \in Families, c \in Others :
        /\ rows[f][c].run \in 0..Len(runs)
        /\ rows[f][c].run # 0 => rows[f][c].at >= StartOf(rows[f][c].run)
    /\ latest.rio \cap latest.fp = {} /\ Cardinality(late) <= MaxLate

(* Check (c): every observed link's run has a ledger row of its family.    *)
Provenance ==
    \A f \in Families, c \in Others : rows[f][c].run # 0 =>
        \E i \in DOMAIN ledger : ledger[i].run = rows[f][c].run /\ ledger[i].family = f

(* Check (d): whatever order late writes, seals and rebuilds come in, no   *)
(* link survives that the newest retraction of its family covers.          *)
RetractionHolds ==
    \A f \in Families : Replaced(f) # {} =>
        \A c \in Others :
            rows[f][c].run # 0 /\ rows[f][c].at < StartOf(ledger[NewestReplaced(f)].run)
            => rows[f][c].run \in AllowedRuns(f)

(* What auditLedger checks of the observed links after any write           *)
(* (character-connections.ts: writeObservations).                          *)
WritesHold == Provenance /\ RetractionHolds

(* A write that comes after a newer run proved a link absent does not      *)
(* bring the link back, not even after a rebuild reset the markers.        *)
OldWriteStaysOut ==
    \A f \in Families, c \in Others :
        rows[f][c].run = 0 /\ rows'[f][c].run # 0 =>
            \A i \in Replaced(f) : StartOf(ledger[i].run) <= StartOf(rows'[f][c].run)

OldWritesStayOut == [][OldWriteStaysOut]_vars

(* The states these rest on.  Runs start one after another; a retraction   *)
(* is due of no run newer than the snapshot a rebuild would pin, and the   *)
(* marker is at least as new as every run that has retracted.              *)
Snapshots == [run : Nat, at : Nat, rio : SUBSET Others, fp : SUBSET Others]
Reasons == {"raiderio_limited", "raiderio_complete", "skipped_guild", "capped", "unread",
            "matched", "live_sweep_completion", "blocked_by_newer", "rebuild"}
FamilyWrites == [family : Families, decision : {"added_only", "replaced"},
                 reason : Reasons, seen : SUBSET Others]
LogRows == [run : Nat, family : Families, decision : {"added_only", "replaced", "blocked"},
            reason : Reasons, at : Nat]

Types ==
    /\ now \in Nat \ {0} /\ runs \in Seq(Nat) /\ chain \in Nat
    /\ latest \in Snapshots /\ swept \in Snapshots
    /\ late \subseteq [run : Nat, families : Seq(FamilyWrites), at : Nat]
    /\ rows \in [Families -> [Others -> [run : Nat, at : Nat]]]
    /\ marker \in [Families -> Nat] /\ ledger \in Seq(LogRows)

Pinned(f) == IF f = "raiderio" THEN latest ELSE swept

RunsInOrder ==
    /\ \A i \in 1 .. Len(runs) : 0 < runs[i] /\ runs[i] < now
    /\ \A i, j \in 1 .. Len(runs) : i < j => runs[i] < runs[j]

RunsExist ==
    /\ active => Len(runs) # 0
    /\ chain <= Len(runs) /\ latest.run <= Len(runs) /\ swept.run <= latest.run
    /\ chain # 0 => latest.run = chain /\ swept.run = chain
    /\ \A w \in late : w.run \in 1 .. Len(runs)
    /\ \A i \in DOMAIN ledger : ledger[i].run \in 1 .. Len(runs)
    /\ \A f \in Families : marker[f] <= Len(runs)
    /\ \A f \in Families, c \in Others : rows[f][c].run <= Len(runs)

Dated ==
    /\ \A f \in Families, c \in Others :
          rows[f][c].run # 0 => rows[f][c].at >= StartOf(rows[f][c].run)
    /\ \A f \in Families :
          IF Pinned(f).run = 0 THEN Pinned(f).rio = {} /\ Pinned(f).fp = {}
          ELSE Pinned(f).at >= StartOf(Pinned(f).run)

(* A write names a family once.                                            *)
Due(w) ==
    /\ \A i, j \in DOMAIN w.families : w.families[i].family = w.families[j].family => i = j
    /\ \A i \in DOMAIN w.families :
          w.families[i].decision = "replaced" => w.run <= Pinned(w.families[i].family).run

RetractionsCovered ==
    \A f \in Families : \A i \in Replaced(f) :
        ledger[i].run <= marker[f] /\ ledger[i].run <= Pinned(f).run

NoOldRow ==
    \A f \in Families, c \in Others : \A i \in Replaced(f) :
        rows[f][c].run # 0 => rows[f][c].at >= StartOf(ledger[i].run)

Inductive ==
    /\ Types /\ RunsInOrder /\ RunsExist /\ Dated /\ (\A w \in late : Due(w))
    /\ RetractionsCovered /\ NoOldRow /\ Provenance

(* Check (b): once every publication has been written, each member of the  *)
(* latest snapshot is linked to the root.                                  *)
Presence == late = {} => \A c \in latest.rio \cup latest.fp : Linked(c)

(* A chain one cycle of which skipped a guild read less than a full match: *)
(* its seal retracts nothing.                                              *)
SkippedChainOnlyAdds ==
    \A c \in Others :
        rows["fingerprint"][c].run # 0 /\ rows'["fingerprint"][c].run = 0
        /\ Len(ledger') > Len(ledger) /\ ledger'[Len(ledger')].reason # "rebuild"
        => ledger'[Len(ledger')].run \notin skipped

=============================================================================
