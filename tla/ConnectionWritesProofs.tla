------------------------- MODULE ConnectionWritesProofs -------------------------
(***************************************************************************)
(* WritesHold and OldWritesStayOut for any number of characters, runs,     *)
(* cycles and outstanding writes, with writes lost and rebuilds.           *)
(*                                                                         *)
(* The argument is about the order of run starts.  The marker of a family  *)
(* is at least as new as every run that has retracted, also after a        *)
(* rebuild, because a rebuild pins a snapshot no retraction is newer than. *)
(* So a write that is let through is as new as every retraction, and the   *)
(* rows a retraction leaves are dated after its run began.                 *)
(***************************************************************************)
EXTENDS ConnectionWrites, SequenceTheorems, WellFoundedInduction, TLAPS

---------------------------------------------------------------------------
(* Numbers and sequences.                                                  *)

(* Every set of naturals that is not empty has a least element.            *)
LEMMA Least ==
  ASSUME NEW T \in SUBSET Nat, T # {}
  PROVE  \E x \in T : \A y \in T : x <= y
<1>1. IsWellFoundedOn(OpToRel(<, Nat), Nat)
  BY NatLessThanWellFounded
<1>2. PICK x \in T : \A y \in T : ~(<<y, x>> \in OpToRel(<, Nat))
  BY <1>1, WFMin
<1>3. ASSUME NEW y \in T PROVE x <= y
  <2>1. x \in Nat /\ y \in Nat
    OBVIOUS
  <2>2. <<y, x>> \in OpToRel(<, Nat) <=> y < x
    BY <2>1 DEF OpToRel
  <2>3. ~(y < x)
    BY <1>2, <2>2, Zenon
  <2> QED BY <2>1, <2>3
<1> QED BY <1>3

(* And one that is bounded has a greatest.                                 *)
LEMMA Greatest ==
  ASSUME NEW T \in SUBSET Nat, T # {}, NEW b \in Nat, \A y \in T : y <= b
  PROVE  \E x \in T : \A y \in T : y <= x
<1> DEFINE Bounds == {n \in Nat : \A y \in T : y <= n}
<1>1. Bounds \in SUBSET Nat /\ Bounds # {}
  OBVIOUS
<1>2. PICK n \in Bounds : \A m \in Bounds : n <= m
  BY <1>1, Least
<1>3. n \in T
  <2> SUFFICES ASSUME n \notin T PROVE FALSE
    OBVIOUS
  <2>1. n \in Nat /\ \A y \in T : y <= n
    BY <1>2
  <2>2. \A y \in T : y # n /\ y \in Nat
    OBVIOUS
  <2>3. PICK y \in T : TRUE
    OBVIOUS
  <2>4. y \in Nat /\ y <= n /\ y # n
    BY <2>1, <2>2
  <2> HIDE DEF Bounds
  <2>5. n - 1 \in Nat /\ \A z \in T : z <= n - 1
    BY <2>1, <2>2, <2>4
  <2>6. n <= n - 1
    BY <1>2, <2>5 DEF Bounds
  <2> QED BY <2>1, <2>6
<1> QED BY <1>2, <1>3

(* What is appended to the ledger is there and nothing else is new.        *)
LEMMA LedgerGrows ==
  ASSUME ledger \in Seq(LogRows), NEW more \in Seq(LogRows), ledger' = ledger \o more
  PROVE  /\ ledger' \in Seq(LogRows)
         /\ \A i \in DOMAIN ledger : i \in DOMAIN ledger' /\ ledger'[i] = ledger[i]
         /\ \A i \in DOMAIN ledger' : \/ i \in DOMAIN ledger /\ ledger'[i] = ledger[i]
                                      \/ \E k \in DOMAIN more : ledger'[i] = more[k]
         /\ \A k \in DOMAIN more : \E i \in DOMAIN ledger' : ledger'[i] = more[k]
<1>1. /\ ledger' \in Seq(LogRows) /\ Len(ledger') = Len(ledger) + Len(more)
      /\ \A i \in 1 .. Len(ledger) + Len(more) :
            ledger'[i] = IF i <= Len(ledger) THEN ledger[i] ELSE more[i - Len(ledger)]
  BY ConcatProperties
<1>2. /\ Len(ledger) \in Nat /\ Len(more) \in Nat
      /\ DOMAIN ledger = 1 .. Len(ledger) /\ DOMAIN more = 1 .. Len(more)
      /\ DOMAIN ledger' = 1 .. Len(ledger) + Len(more)
  BY <1>1, LenProperties
<1>3. ASSUME NEW k \in DOMAIN more PROVE \E i \in DOMAIN ledger' : ledger'[i] = more[k]
  <2>1. Len(ledger) + k \in DOMAIN ledger' /\ ledger'[Len(ledger) + k] = more[k]
    BY <1>1, <1>2
  <2> QED BY <2>1
<1>4. ASSUME NEW i \in DOMAIN ledger', i \notin DOMAIN ledger
      PROVE  \E k \in DOMAIN more : ledger'[i] = more[k]
  <2>1. i - Len(ledger) \in DOMAIN more /\ ledger'[i] = more[i - Len(ledger)]
    BY <1>1, <1>2, <1>4
  <2> QED BY <2>1
<1>5. \A i \in DOMAIN ledger : i \in DOMAIN ledger' /\ ledger'[i] = ledger[i]
  BY <1>1, <1>2
<1> QED BY <1>1, <1>3, <1>4, <1>5

(* A write is made of writes of families.                                  *)
LEMMA Named ==
  ASSUME NEW s \in Seq(FamilyWrites), NEW i \in DOMAIN s
  PROVE  s[i] \in FamilyWrites /\ s[i].family \in Families
<1>1. i \in 1 .. Len(s)
  BY LenProperties
<1>2. s[i] \in FamilyWrites
  BY <1>1, ElementOfSeq
<1> QED BY <1>2 DEF FamilyWrites

---------------------------------------------------------------------------
(* Runs start in the order of their numbers.                               *)

LEMMA StartsInOrder ==
  ASSUME Types, RunsInOrder, NEW r \in 0 .. Len(runs), NEW s \in 0 .. Len(runs)
  PROVE  /\ StartOf(r) \in Nat /\ StartOf(r) < now
         /\ StartOf(r) <= StartOf(s) <=> r <= s
<1>1. Len(runs) \in Nat /\ \A i \in 1 .. Len(runs) : runs[i] \in Nat
  BY LenProperties DEF Types
<1>2. now \in Nat \ {0}
  BY DEF Types
<1>3. StartOf(r) \in Nat /\ StartOf(s) \in Nat /\ StartOf(r) < now
  BY <1>1, <1>2 DEF StartOf, RunsInOrder
<1>4. CASE r = s
  BY <1>3, <1>4
<1>5. CASE r < s
  BY <1>1, <1>3, <1>5 DEF StartOf, RunsInOrder
<1>6. CASE s < r
  BY <1>1, <1>3, <1>6 DEF StartOf, RunsInOrder
<1> QED BY <1>4, <1>5, <1>6

(* At first nothing has run.                                               *)
LEMMA InitInductive == Init => Inductive
<1> SUFFICES ASSUME Init PROVE Inductive
  OBVIOUS
<1>1. runs = <<>> /\ Len(runs) = 0 /\ ledger = <<>> /\ DOMAIN ledger = {} /\ late = {}
  BY DEF Init
<1>2. \A f \in Families, c \in Others : rows[f][c].run = 0
  BY DEF Init, NoRow
<1>3. Types
  <2>1. NoSnapshot \in Snapshots
    BY DEF NoSnapshot, Snapshots
  <2>2. runs \in Seq(Nat) /\ ledger \in Seq(LogRows)
    BY <1>1, EmptySeq
  <2>3. NoRow \in [run : Nat, at : Nat]
    BY DEF NoRow
  <2> QED BY <2>1, <2>2, <2>3 DEF Init, Types
<1>4. \A f \in Families : Replaced(f) = {}
  BY <1>1 DEF Replaced
<1>5. RunsInOrder
  BY <1>1 DEF RunsInOrder
<1>6. RunsExist
  BY <1>1, <1>2 DEF Init, RunsExist, NoSnapshot
<1>7. Dated
  BY <1>2 DEF Dated, Pinned, Init, NoSnapshot
<1> QED BY <1>1, <1>2, <1>3, <1>4, <1>5, <1>6, <1>7
        DEF Inductive, RetractionsCovered, NoOldRow, Provenance

---------------------------------------------------------------------------
(* A run begins.                                                           *)

LEMMA StartRunKeeps == Inductive /\ StartRun => Inductive'
<1> SUFFICES ASSUME Inductive, StartRun PROVE Inductive'
  OBVIOUS
<1> USE DEF Inductive
<1>1. /\ active' /\ runs' = Append(runs, now) /\ now' = now + 1
      /\ UNCHANGED <<chain, cycles, skipped, latest, swept, late, rows, marker, ledger>>
  BY DEF StartRun
<1>2. /\ Len(runs) \in Nat /\ runs' \in Seq(Nat) /\ Len(runs') = Len(runs) + 1
      /\ \A i \in 1 .. Len(runs) : runs'[i] = runs[i] /\ runs[i] \in Nat
      /\ runs'[Len(runs) + 1] = now /\ now \in Nat \ {0}
  BY <1>1, LenProperties, ElementOfSeq DEF Types
<1>3. \A r \in 0 .. Len(runs) : StartOf(r)' = StartOf(r)
  BY <1>2 DEF StartOf
<1>4. Types'
  BY <1>1, <1>2 DEF Types
<1>5. RunsInOrder'
  BY <1>1, <1>2 DEF RunsInOrder
<1>6. RunsExist'
  <2>1. latest.run \in Nat /\ swept.run \in Nat /\ chain \in Nat
    BY DEF Types, Snapshots
  <2>2. \A f \in Families : marker[f] \in Nat /\ \A c \in Others : rows[f][c].run \in Nat
    BY DEF Types
  <2> QED BY <1>1, <1>2, <2>1, <2>2 DEF RunsExist
<1>7. Dated'
  <2>1. ASSUME NEW f \in Families, NEW c \in Others, rows[f][c].run # 0
        PROVE  rows[f][c].at >= StartOf(rows[f][c].run)'
    <3>1. rows[f][c].run \in 0 .. Len(runs)
      BY <1>2 DEF Types, RunsExist
    <3>2. rows[f][c].at >= StartOf(rows[f][c].run)
      BY <2>1 DEF Dated
    <3>3. StartOf(rows[f][c].run)' = StartOf(rows[f][c].run)
      BY <1>1, <1>2, <3>1 DEF StartOf
    <3> QED BY <3>2, <3>3
  <2>2. ASSUME NEW f \in Families, Pinned(f).run # 0
        PROVE  Pinned(f).at >= StartOf(Pinned(f).run)'
    <3>1. Pinned(f).run \in 0 .. Len(runs)
      BY <1>2 DEF Types, Snapshots, RunsExist, Pinned
    <3>2. Pinned(f).at >= StartOf(Pinned(f).run)
      BY <2>2 DEF Dated
    <3>3. StartOf(Pinned(f).run)' = StartOf(Pinned(f).run)
      BY <1>1, <1>2, <3>1 DEF StartOf, Pinned
    <3> QED BY <3>2, <3>3
  <2>3. \A f \in Families : Pinned(f)' = Pinned(f)
    BY <1>1 DEF Pinned
  <2> QED BY <1>1, <2>1, <2>2, <2>3 DEF Dated
<1>8. (\A w \in late : Due(w))'
  BY <1>1 DEF Due, Pinned
<1>9. RetractionsCovered' /\ Provenance'
  BY <1>1 DEF RetractionsCovered, Provenance, Replaced, Pinned
<1>10. NoOldRow'
  <2>1. ASSUME NEW f \in Families, NEW i \in Replaced(f)
        PROVE  StartOf(ledger[i].run)' = StartOf(ledger[i].run)
    <3>1. ledger[i].run \in 1 .. Len(runs)
      BY <2>1 DEF RunsExist, Replaced
    <3> QED BY <1>1, <1>2, <3>1 DEF StartOf
  <2>2. \A f \in Families : Replaced(f)' = Replaced(f)
    BY <1>1 DEF Replaced
  <2> QED BY <1>1, <2>1, <2>2 DEF NoOldRow
<1> QED BY <1>4, <1>5, <1>6, <1>7, <1>8, <1>9, <1>10

---------------------------------------------------------------------------
(* A publication.  What it owes a write is due of the snapshots it leaves. *)

LEMMA PublishKeeps ==
  ASSUME Inductive, UNCHANGED <<runs, rows, marker, ledger>>, now' = now + 1,
         NEW r \in 1 .. Len(runs), NEW fs \in Seq(FamilyWrites),
         late' = late \cup {[run |-> r, families |-> fs, at |-> now]},
         latest' \in Snapshots, swept' \in Snapshots, chain' \in 0 .. Len(runs),
         latest.run <= latest'.run, swept.run <= swept'.run,
         latest'.run <= Len(runs), swept'.run <= latest'.run,
         chain' # 0 => latest'.run = chain' /\ swept'.run = chain',
         \A f \in Families :
            IF Pinned(f)'.run = 0 THEN Pinned(f)'.rio = {} /\ Pinned(f)'.fp = {}
            ELSE Pinned(f)'.at >= StartOf(Pinned(f)'.run),
         \A i, j \in DOMAIN fs : fs[i].family = fs[j].family => i = j,
         \A i \in DOMAIN fs : fs[i].decision = "replaced" => r <= Pinned(fs[i].family)'.run
  PROVE  Inductive'
<1> USE DEF Inductive
<1> DEFINE new == [run |-> r, families |-> fs, at |-> now]
<1>1. Len(runs) \in Nat /\ now \in Nat \ {0}
  BY LenProperties DEF Types
<1>2. Types'
  <2>1. new \in [run : Nat, families : Seq(FamilyWrites), at : Nat]
    BY <1>1
  <2> QED BY <1>1, <2>1 DEF Types
<1>3. RunsInOrder'
  <2>1. \A i \in 1 .. Len(runs) : runs[i] \in Nat
    BY DEF Types
  <2> QED BY <1>1, <2>1 DEF RunsInOrder
<1>4. RunsExist'
  BY <1>1 DEF RunsExist
<1>5. Dated'
  BY DEF Dated, StartOf
<1>7. \A f \in Families : Pinned(f).run <= Pinned(f)'.run
                          /\ Pinned(f).run \in Nat /\ Pinned(f)'.run \in Nat
  BY DEF Pinned, Types, Snapshots
<1>8. (\A w \in late : Due(w))'
  <2>1. ASSUME NEW w \in late' PROVE Due(w)'
    <3>1. CASE w \in late
      <4>1. Due(w) /\ w.run \in Nat /\ w.families \in Seq(FamilyWrites)
        BY <3>1 DEF Types
      <4>2. \A i \in DOMAIN w.families : w.families[i].family \in Families
        BY <4>1, Named
      <4> QED BY <4>1, <4>2, <1>7 DEF Due
    <3>2. CASE w = new
      BY <3>2 DEF Due
    <3> QED BY <2>1, <3>1, <3>2
  <2> QED BY <2>1
<1>9. RetractionsCovered'
  <2>1. \A f \in Families : Replaced(f)' = Replaced(f)
    BY DEF Replaced
  <2>2. \A f \in Families : \A i \in Replaced(f) : ledger[i].run \in Nat
    BY DEF Replaced, RunsExist
  <2> QED BY <1>7, <2>1, <2>2 DEF RetractionsCovered
<1>10. NoOldRow' /\ Provenance'
  BY DEF NoOldRow, Provenance, Replaced, StartOf
<1> QED BY <1>2, <1>3, <1>4, <1>5, <1>8, <1>9, <1>10

(* The five publications.                                                  *)
LEMMA PublishPlainKeeps == Inductive /\ PublishPlain => Inductive'
<1> SUFFICES ASSUME Inductive, PublishPlain PROVE Inductive'
  OBVIOUS
<1>1. PICK seen \in SUBSET Others, limited \in BOOLEAN :
        /\ latest' = [run |-> Len(runs), at |-> now, rio |-> seen, fp |-> {}]
        /\ Owes(Len(runs), <<Family("raiderio", raiderIoDecision(limited), seen)>>)
  BY DEF PublishPlain
<1> DEFINE fam == Family("raiderio", raiderIoDecision(limited), seen)
           fs == <<fam>>
<1>2. /\ active /\ chain = 0
      /\ UNCHANGED <<runs, chain, cycles, skipped, swept, rows, marker, ledger>>
  BY DEF PublishPlain
<1>3. fam \in FamilyWrites /\ fam.family = "raiderio"
  BY DEF Family, raiderIoDecision, FamilyWrites, Reasons, Families
<1>4. /\ Len(runs) \in Nat /\ now \in Nat \ {0} /\ Types /\ RunsInOrder /\ RunsExist /\ Dated
      /\ latest \in Snapshots /\ swept \in Snapshots
  BY LenProperties DEF Inductive, Types
<1>5. Len(runs) \in 1 .. Len(runs) /\ fs \in Seq(FamilyWrites) /\ DOMAIN fs = {1}
  BY <1>2, <1>3, <1>4 DEF RunsExist
<1>6. late' = late \cup {[run |-> Len(runs), families |-> fs, at |-> now]} /\ now' = now + 1
  BY <1>1 DEF Owes
<1>7. latest' \in Snapshots /\ swept' \in Snapshots /\ chain' \in 0 .. Len(runs)
  BY <1>1, <1>2, <1>4 DEF Snapshots
<1>8. /\ latest.run <= latest'.run /\ swept.run <= swept'.run
      /\ latest'.run <= Len(runs) /\ swept'.run <= latest'.run
  BY <1>1, <1>2, <1>4 DEF Snapshots, RunsExist
<1>9. StartOf(Len(runs)) < now /\ StartOf(Len(runs)) \in Nat
  BY <1>4, <1>5, StartsInOrder
<1>10. \A f \in Families :
          IF Pinned(f)'.run = 0 THEN Pinned(f)'.rio = {} /\ Pinned(f)'.fp = {}
          ELSE Pinned(f)'.at >= StartOf(Pinned(f)'.run)
  <2>1. Pinned("raiderio")' = latest' /\ Pinned("fingerprint")' = swept
    BY <1>2 DEF Pinned
  <2>2. latest'.run # 0 /\ latest'.at >= StartOf(latest'.run)
    BY <1>1, <1>4, <1>5, <1>9
  <2>3. IF swept.run = 0 THEN swept.rio = {} /\ swept.fp = {}
        ELSE swept.at >= StartOf(swept.run)
    BY <1>4 DEF Dated, Pinned, Families
  <2> QED BY <2>1, <2>2, <2>3 DEF Families
<1>11. \A i \in DOMAIN fs : Len(runs) <= Pinned(fs[i].family)'.run
  BY <1>1, <1>3, <1>4, <1>5 DEF Pinned
<1>12. \A i, j \in DOMAIN fs : fs[i].family = fs[j].family => i = j
  BY <1>5
<1> HIDE DEF fs, fam
<1> QED BY <1>2, <1>5, <1>6, <1>7, <1>8, <1>10, <1>11, <1>12, PublishKeeps

LEMMA PublishFirstKeeps == Inductive /\ PublishFirst => Inductive'
<1> SUFFICES ASSUME Inductive, PublishFirst PROVE Inductive'
  OBVIOUS
<1>1. PICK seen \in SUBSET Others, match \in SUBSET Others, limited \in BOOLEAN,
           unread \in BOOLEAN, skips \in BOOLEAN, kind \in {"matched", "capped"} :
        /\ latest' = [run |-> Len(runs), at |-> now, rio |-> seen, fp |-> match \ seen]
        /\ swept' = latest'
        /\ chain' = IF kind = "capped" THEN Len(runs) ELSE 0
        /\ skipped' = IF skips THEN skipped \cup {Len(runs)} ELSE skipped
        /\ Owes(Len(runs),
                <<Family("raiderio", raiderIoDecision(limited), seen),
                  Family("fingerprint", fingerprintDecision(kind, unread, skips), match)>>)
  BY Zenon DEF PublishFirst
<1> DEFINE rio == Family("raiderio", raiderIoDecision(limited), seen)
           fp == Family("fingerprint", fingerprintDecision(kind, unread, skips), match)
           fs == <<rio, fp>>
<1>2. active /\ UNCHANGED <<runs, cycles, rows, marker, ledger>>
  BY DEF PublishFirst
<1>3. rio \in FamilyWrites /\ rio.family = "raiderio"
  BY DEF Family, raiderIoDecision, FamilyWrites, Reasons, Families
<1>4. fp \in FamilyWrites /\ fp.family = "fingerprint"
  BY DEF Family, fingerprintDecision, FamilyWrites, Reasons, Families
<1>5. /\ Len(runs) \in Nat /\ now \in Nat \ {0} /\ Types /\ RunsInOrder /\ RunsExist /\ Dated
      /\ latest \in Snapshots /\ swept \in Snapshots
  BY LenProperties DEF Inductive, Types
<1>6. /\ Len(runs) \in 1 .. Len(runs) /\ fs \in Seq(FamilyWrites) /\ DOMAIN fs = {1, 2}
      /\ fs[1] = rio /\ fs[2] = fp
  BY <1>2, <1>3, <1>4, <1>5 DEF RunsExist
<1>7. late' = late \cup {[run |-> Len(runs), families |-> fs, at |-> now]} /\ now' = now + 1
  BY <1>1 DEF Owes
<1>8. /\ latest' \in Snapshots /\ swept' \in Snapshots /\ chain' \in 0 .. Len(runs)
      /\ chain' # 0 => latest'.run = chain' /\ swept'.run = chain'
  BY <1>1, <1>5 DEF Snapshots
<1>9. /\ latest.run <= latest'.run /\ swept.run <= swept'.run
      /\ latest'.run <= Len(runs) /\ swept'.run <= latest'.run
  BY <1>1, <1>5 DEF Snapshots, RunsExist
<1>10. StartOf(Len(runs)) < now /\ StartOf(Len(runs)) \in Nat
  BY <1>5, <1>6, StartsInOrder
<1>11. \A f \in Families : Pinned(f)' = latest'
  BY <1>1 DEF Pinned
<1>12. \A f \in Families :
          IF Pinned(f)'.run = 0 THEN Pinned(f)'.rio = {} /\ Pinned(f)'.fp = {}
          ELSE Pinned(f)'.at >= StartOf(Pinned(f)'.run)
  <2>1. latest'.run # 0 /\ latest'.at >= StartOf(latest'.run)
    BY <1>1, <1>5, <1>6, <1>10
  <2> QED BY <2>1, <1>11
<1>13. \A i \in DOMAIN fs : Len(runs) <= Pinned(fs[i].family)'.run
  BY <1>1, <1>5 DEF Pinned
<1>14. \A i, j \in DOMAIN fs : fs[i].family = fs[j].family => i = j
  BY <1>3, <1>4, <1>6
<1> HIDE DEF fs, rio, fp
<1> QED BY <1>2, <1>6, <1>7, <1>8, <1>9, <1>12, <1>13, <1>14, PublishKeeps

LEMMA PublishCycleKeeps == Inductive /\ PublishCycle => Inductive'
<1> SUFFICES ASSUME Inductive, PublishCycle PROVE Inductive'
  OBVIOUS
<1>1. PICK match \in SUBSET Others, unread \in BOOLEAN, skips \in BOOLEAN,
           kind \in {"matched", "capped"} :
        /\ latest' = [latest EXCEPT !.fp = latest.fp \cup (match \ latest.rio)]
        /\ swept' = latest'
        /\ chain' = IF kind = "capped" THEN chain ELSE 0
        /\ Owes(chain, <<Family("fingerprint", fingerprintDecision(kind, unread, skips), match)>>)
  BY DEF PublishCycle
<1> DEFINE fp == Family("fingerprint", fingerprintDecision(kind, unread, skips), match)
           fs == <<fp>>
<1>2. chain # 0 /\ UNCHANGED <<runs, active, rows, marker, ledger>>
  BY DEF PublishCycle
<1>3. fp \in FamilyWrites /\ fp.family = "fingerprint"
  BY DEF Family, fingerprintDecision, FamilyWrites, Reasons, Families
<1>4. /\ Len(runs) \in Nat /\ now \in Nat \ {0} /\ chain \in Nat /\ RunsExist /\ Dated
      /\ latest \in Snapshots /\ swept \in Snapshots
  BY LenProperties DEF Inductive, Types
<1>5. /\ chain \in 1 .. Len(runs) /\ latest.run = chain /\ swept.run = chain
  BY <1>2, <1>4 DEF RunsExist
<1>6. fs \in Seq(FamilyWrites) /\ DOMAIN fs = {1} /\ fs[1] = fp
  BY <1>3
<1>7. late' = late \cup {[run |-> chain, families |-> fs, at |-> now]} /\ now' = now + 1
  BY <1>1 DEF Owes
<1>8. latest' \in Snapshots /\ latest'.run = chain /\ latest'.at = latest.at
  BY <1>1, <1>4, <1>5 DEF Snapshots
<1>9. /\ swept' \in Snapshots /\ swept'.run = chain /\ chain' \in 0 .. Len(runs)
      /\ chain' # 0 => chain' = chain
  BY <1>1, <1>5, <1>8
<1>10. latest.at >= StartOf(chain)
  BY <1>2, <1>4, <1>5 DEF Dated, Pinned, Families
<1>11. \A f \in Families : Pinned(f)' = latest'
  BY <1>1 DEF Pinned
<1>12. \A f \in Families :
          IF Pinned(f)'.run = 0 THEN Pinned(f)'.rio = {} /\ Pinned(f)'.fp = {}
          ELSE Pinned(f)'.at >= StartOf(Pinned(f)'.run)
  BY <1>2, <1>8, <1>10, <1>11
<1>13. \A i \in DOMAIN fs : chain <= Pinned(fs[i].family)'.run
  BY <1>4, <1>8, <1>9 DEF Pinned
<1>14. \A i, j \in DOMAIN fs : fs[i].family = fs[j].family => i = j
  BY <1>6
<1>15. /\ latest.run <= latest'.run /\ swept.run <= swept'.run
       /\ latest'.run <= Len(runs) /\ swept'.run <= latest'.run
       /\ chain' # 0 => latest'.run = chain' /\ swept'.run = chain'
  BY <1>4, <1>5, <1>8, <1>9
<1> HIDE DEF fs, fp
<1> QED BY <1>2, <1>5, <1>6, <1>7, <1>8, <1>9, <1>12, <1>13, <1>14, <1>15, PublishKeeps

LEMMA PublishLiveKeeps == Inductive /\ PublishLive => Inductive'
<1> SUFFICES ASSUME Inductive, PublishLive PROVE Inductive'
  OBVIOUS
<1>1. PICK seen \in SUBSET Others :
        Owes(Len(runs), <<Family("raiderio",
                [decision |-> "added_only", reason |-> "live_sweep_completion"], seen)>>)
  BY DEF PublishLive
<1> DEFINE rio == Family("raiderio",
                [decision |-> "added_only", reason |-> "live_sweep_completion"], seen)
           fs == <<rio>>
<1>2. active /\ UNCHANGED <<runs, chain, cycles, skipped, latest, swept, rows, marker, ledger>>
  BY DEF PublishLive
<1>3. rio \in FamilyWrites /\ rio.decision = "added_only"
  BY DEF Family, FamilyWrites, Reasons, Families
<1>4. /\ Len(runs) \in Nat /\ now \in Nat \ {0} /\ chain \in Nat /\ RunsExist /\ Dated
      /\ latest \in Snapshots /\ swept \in Snapshots
  BY LenProperties DEF Inductive, Types
<1>5. /\ Len(runs) \in 1 .. Len(runs) /\ chain' \in 0 .. Len(runs)
      /\ latest.run \in Nat /\ swept.run \in Nat
  BY <1>2, <1>4 DEF RunsExist, Snapshots
<1>6. fs \in Seq(FamilyWrites) /\ DOMAIN fs = {1} /\ fs[1] = rio
  BY <1>3
<1>7. late' = late \cup {[run |-> Len(runs), families |-> fs, at |-> now]} /\ now' = now + 1
  BY <1>1 DEF Owes
<1>8. \A f \in Families :
          IF Pinned(f)'.run = 0 THEN Pinned(f)'.rio = {} /\ Pinned(f)'.fp = {}
          ELSE Pinned(f)'.at >= StartOf(Pinned(f)'.run)
  BY <1>2, <1>4 DEF Dated, Pinned
<1>9. \A i \in DOMAIN fs : fs[i].decision # "replaced"
  BY <1>3, <1>6
<1>10. \A i, j \in DOMAIN fs : fs[i].family = fs[j].family => i = j
  BY <1>6
<1>11. /\ latest.run <= latest'.run /\ swept.run <= swept'.run
       /\ latest'.run <= Len(runs) /\ swept'.run <= latest'.run
       /\ chain' # 0 => latest'.run = chain' /\ swept'.run = chain'
       /\ latest' \in Snapshots /\ swept' \in Snapshots
  BY <1>2, <1>4, <1>5 DEF RunsExist
<1> HIDE DEF fs, rio
<1> QED BY <1>2, <1>5, <1>6, <1>7, <1>8, <1>9, <1>10, <1>11, PublishKeeps

---------------------------------------------------------------------------
(* A write: the families it names and may write, and what it logs.         *)

Part(w, f) == CHOOSE i \in DOMAIN w.families : w.families[i].family = f
Does(w, f) == (\E i \in DOMAIN w.families : w.families[i].family = f) /\ ~Blocked(w.run, f)
Logs(w, fam) ==
    IF ~Blocked(w.run, fam.family)
    THEN LogRow(w.run, fam.family, Decided(w.run, fam).decision, Decided(w.run, fam).reason)
    ELSE LogRow(w.run, fam.family, "blocked", "blocked_by_newer")

Writes(w) ==
    /\ \A f \in Families : rows'[f] =
          IF Does(w, f) THEN WroteFamily(w.run, w.families[Part(w, f)]) ELSE rows[f]
    /\ \A f \in Families : marker'[f] = IF Does(w, f) THEN w.run ELSE marker[f]
    /\ rows' = [f \in Families |-> rows'[f]]
    /\ marker' = [f \in Families |-> marker'[f]]
    /\ ledger' = ledger \o [i \in DOMAIN w.families |-> Logs(w, w.families[i])]
    /\ late' = late \ {w}
    /\ now' = now + 1
    /\ UNCHANGED <<runs, active, chain, cycles, skipped, latest, swept>>

LEMMA WriteWrites == ASSUME Types, Write PROVE \E w \in late : Writes(w)
<1>1. PICK w \in late :
        /\ rows' = [f \in Families |->
              IF (\E i \in DOMAIN w.families : w.families[i].family = f)
                 /\ f \in {g \in Families : ~Blocked(w.run, g)}
              THEN WroteFamily(w.run, w.families[Part(w, f)]) ELSE rows[f]]
        /\ marker' = [f \in Families |->
              IF (\E i \in DOMAIN w.families : w.families[i].family = f)
                 /\ f \in {g \in Families : ~Blocked(w.run, g)}
              THEN w.run ELSE marker[f]]
        /\ ledger' = ledger \o [i \in DOMAIN w.families |->
              IF w.families[i].family \in {g \in Families : ~Blocked(w.run, g)}
              THEN LogRow(w.run, w.families[i].family, Decided(w.run, w.families[i]).decision,
                          Decided(w.run, w.families[i]).reason)
              ELSE LogRow(w.run, w.families[i].family, "blocked", "blocked_by_newer")]
        /\ late' = late \ {w}
        /\ now' = now + 1
        /\ UNCHANGED <<runs, active, chain, cycles, skipped, latest, swept>>
  BY Zenon DEF Write, Part
<1>2. ASSUME NEW f \in Families
      PROVE  /\ (\E i \in DOMAIN w.families : w.families[i].family = f)
                /\ f \in {g \in Families : ~Blocked(w.run, g)} <=> Does(w, f)
             /\ rows'[f] = IF Does(w, f) THEN WroteFamily(w.run, w.families[Part(w, f)])
                           ELSE rows[f]
             /\ marker'[f] = IF Does(w, f) THEN w.run ELSE marker[f]
  <2>1. (\E i \in DOMAIN w.families : w.families[i].family = f)
        /\ f \in {g \in Families : ~Blocked(w.run, g)} <=> Does(w, f)
    BY Zenon DEF Does
  <2> QED BY <1>1, <2>1, Zenon
<1>3. rows' = [f \in Families |-> rows'[f]] /\ marker' = [f \in Families |-> marker'[f]]
  BY <1>1, Zenon
<1>4. [i \in DOMAIN w.families |->
              IF w.families[i].family \in {g \in Families : ~Blocked(w.run, g)}
              THEN LogRow(w.run, w.families[i].family, Decided(w.run, w.families[i]).decision,
                          Decided(w.run, w.families[i]).reason)
              ELSE LogRow(w.run, w.families[i].family, "blocked", "blocked_by_newer")]
      = [i \in DOMAIN w.families |-> Logs(w, w.families[i])]
  <2>1. w.families \in Seq(FamilyWrites)
    BY DEF Types
  <2>2. \A i \in DOMAIN w.families :
          w.families[i].family \in {g \in Families : ~Blocked(w.run, g)}
          <=> ~Blocked(w.run, w.families[i].family)
    BY <2>1, Named
  <2> QED BY <2>2, Zenon DEF Logs
<1>5. ledger' = ledger \o [i \in DOMAIN w.families |-> Logs(w, w.families[i])]
  BY <1>1, <1>4, Zenon
<1> QED BY <1>1, <1>2, <1>3, <1>5, Zenon DEF Writes

(* What a write logs of a family: a retraction only of a family it may     *)
(* write and that was due of one.                                          *)
LEMMA LogsFacts ==
  ASSUME Types, NEW w \in late, NEW k \in DOMAIN w.families
  PROVE  LET fam == w.families[k]
             l   == Logs(w, fam)
         IN  /\ l \in LogRows /\ l.run = w.run /\ l.family = fam.family
             /\ l.decision = "replaced" =>
                   /\ ~Blocked(w.run, fam.family) /\ fam.decision = "replaced"
                   /\ Decided(w.run, fam).decision = "replaced"
<1> DEFINE fam == w.families[k]
           d == Decided(w.run, fam)
<1>1. w.run \in Nat /\ w.families \in Seq(FamilyWrites) /\ now \in Nat
  BY DEF Types
<1>2. fam \in FamilyWrites
  BY <1>1, Named
<1>3. /\ d.decision \in {"added_only", "replaced"} /\ d.reason \in Reasons
      /\ d.decision = "replaced" => fam.decision = "replaced"
  <2>1. \/ d = fam
        \/ d = [fam EXCEPT !.decision = "added_only", !.reason = "skipped_guild"]
    BY Zenon DEF Decided
  <2> HIDE DEF d, fam
  <2> QED BY <1>2, <2>1 DEF FamilyWrites, Reasons
<1> HIDE DEF fam, d
<1>4. CASE ~Blocked(w.run, fam.family)
  <2>1. Logs(w, fam) = LogRow(w.run, fam.family, d.decision, d.reason)
    BY <1>4, Zenon DEF Logs, d
  <2>2. /\ Logs(w, fam) \in LogRows /\ Logs(w, fam).run = w.run
        /\ Logs(w, fam).family = fam.family /\ Logs(w, fam).decision = d.decision
    BY <1>1, <1>2, <1>3, <2>1 DEF LogRow, LogRows, FamilyWrites
  <2> QED BY <1>3, <1>4, <2>2, Zenon DEF fam, d
<1>5. CASE Blocked(w.run, fam.family)
  <2>1. Logs(w, fam) = LogRow(w.run, fam.family, "blocked", "blocked_by_newer")
    BY <1>5, Zenon DEF Logs
  <2>2. /\ Logs(w, fam) \in LogRows /\ Logs(w, fam).run = w.run
        /\ Logs(w, fam).family = fam.family /\ Logs(w, fam).decision # "replaced"
    BY <1>1, <1>2, <2>1 DEF LogRow, LogRows, FamilyWrites, Reasons
  <2> QED BY <2>2, Zenon DEF fam
<1> QED BY <1>4, <1>5, Zenon

LEMMA PartFacts ==
  ASSUME NEW w, NEW f, \E i \in DOMAIN w.families : w.families[i].family = f
  PROVE  Part(w, f) \in DOMAIN w.families /\ w.families[Part(w, f)].family = f
BY Zenon DEF Part

(* A write that is let through is as new as the marker, and what it leaves *)
(* of a family is its own rows of now or rows that were there.             *)
LEMMA DoesFacts ==
  ASSUME Inductive, NEW w \in late, Writes(w), NEW f \in Families, Does(w, f)
  PROVE  /\ marker[f] <= w.run /\ marker'[f] = w.run
         /\ rows'[f] = [c \in Others |-> rows'[f][c]]
         /\ \A c \in Others :
              \/ rows'[f][c] = [run |-> w.run, at |-> now]
              \/ rows'[f][c] = NoRow
              \/ /\ rows'[f][c] = rows[f][c]
                 /\ \/ Decided(w.run, w.families[Part(w, f)]).decision # "replaced"
                    \/ ~Retracts(w.run, f, c)
<1>1. Types /\ RunsInOrder /\ RunsExist
  BY DEF Inductive
<1>2. w.run \in 1 .. Len(runs) /\ marker[f] \in Nat /\ marker[f] <= Len(runs)
      /\ Len(runs) \in Nat
  BY <1>1, LenProperties DEF Types, RunsExist
<1>3. ~(StartOf(marker[f]) > StartOf(w.run))
  BY Zenon DEF Does, Blocked
<1>4. /\ StartOf(marker[f]) \in Nat /\ StartOf(w.run) \in Nat
      /\ StartOf(marker[f]) <= StartOf(w.run) <=> marker[f] <= w.run
  <2>1. marker[f] \in 0 .. Len(runs) /\ w.run \in 0 .. Len(runs)
    BY <1>2
  <2> QED BY <1>1, <2>1, StartsInOrder
<1>5. marker[f] <= w.run
  BY <1>3, <1>4
<1> DEFINE fam == w.families[Part(w, f)]
<1>6. fam.family = f
  BY PartFacts, Zenon DEF Does
<1>7. rows'[f] = WroteFamily(w.run, fam) /\ marker'[f] = w.run
  BY Zenon DEF Writes
<1>8. rows'[f] = [c \in Others |->
            IF c \in fam.seen THEN [run |-> w.run, at |-> now]
            ELSE IF Decided(w.run, fam).decision = "replaced" /\ Retracts(w.run, f, c) THEN NoRow
            ELSE rows[f][c]]
  BY <1>6, <1>7, Zenon DEF WroteFamily
<1> HIDE DEF fam
<1>9. rows'[f] = [c \in Others |-> rows'[f][c]]
  BY <1>8, Zenon
<1>10. \A c \in Others :
              \/ rows'[f][c] = [run |-> w.run, at |-> now]
              \/ rows'[f][c] = NoRow
              \/ /\ rows'[f][c] = rows[f][c]
                 /\ \/ Decided(w.run, fam).decision # "replaced"
                    \/ ~Retracts(w.run, f, c)
  BY <1>8, Zenon
<1> QED BY <1>5, <1>7, <1>9, <1>10, Zenon DEF fam

(* The ledger after a write.                                               *)
LEMMA WriteLogs ==
  ASSUME Inductive, NEW w \in late, Writes(w)
  PROVE  /\ ledger' \in Seq(LogRows)
         /\ \A i \in DOMAIN ledger : i \in DOMAIN ledger' /\ ledger'[i] = ledger[i]
         /\ \A i \in DOMAIN ledger' :
              \/ i \in DOMAIN ledger /\ ledger'[i] = ledger[i]
              \/ \E k \in DOMAIN w.families : ledger'[i] = Logs(w, w.families[k])
         /\ \A k \in DOMAIN w.families : \E i \in DOMAIN ledger' :
              ledger'[i] = Logs(w, w.families[k])
<1> DEFINE more == [k \in DOMAIN w.families |-> Logs(w, w.families[k])]
<1>1. Types /\ ledger \in Seq(LogRows) /\ w.families \in Seq(FamilyWrites)
  BY DEF Inductive, Types
<1>2. DOMAIN w.families = 1 .. Len(w.families) /\ Len(w.families) \in Nat
  BY <1>1, LenProperties
<1>3. \A k \in DOMAIN w.families : Logs(w, w.families[k]) \in LogRows
  BY <1>1, LogsFacts
<1>4. more \in Seq(LogRows)
  <2>1. more \in [1 .. Len(w.families) -> LogRows]
    BY <1>2, <1>3, Zenon
  <2> HIDE DEF more
  <2> QED BY <1>2, <2>1, SeqDef
<1>5. ledger' = ledger \o more
  BY Zenon DEF Writes
<1>6. \A k \in DOMAIN more : more[k] = Logs(w, w.families[k])
  BY Zenon
<1>7. DOMAIN more = DOMAIN w.families
  BY Zenon
<1> HIDE DEF more
<1>8. /\ ledger' \in Seq(LogRows)
      /\ \A i \in DOMAIN ledger : i \in DOMAIN ledger' /\ ledger'[i] = ledger[i]
      /\ \A i \in DOMAIN ledger' : \/ i \in DOMAIN ledger /\ ledger'[i] = ledger[i]
                                   \/ \E k \in DOMAIN more : ledger'[i] = more[k]
      /\ \A k \in DOMAIN more : \E i \in DOMAIN ledger' : ledger'[i] = more[k]
  BY <1>1, <1>4, <1>5, LedgerGrows
<1>9. \A i \in DOMAIN ledger' :
              \/ i \in DOMAIN ledger /\ ledger'[i] = ledger[i]
              \/ \E k \in DOMAIN w.families : ledger'[i] = Logs(w, w.families[k])
  BY <1>6, <1>7, <1>8
<1>10. \A k \in DOMAIN w.families : \E i \in DOMAIN ledger' :
              ledger'[i] = Logs(w, w.families[k])
  BY <1>6, <1>7, <1>8
<1> QED BY <1>8, <1>9, <1>10

LEMMA WriteKeeps == Inductive /\ Write => Inductive'
<1> SUFFICES ASSUME Inductive, Write PROVE Inductive'
  OBVIOUS
<1>1. /\ Types /\ RunsInOrder /\ RunsExist /\ Dated /\ (\A v \in late : Due(v))
      /\ RetractionsCovered /\ NoOldRow /\ Provenance
  BY DEF Inductive
<1>2. PICK w \in late : Writes(w)
  BY <1>1, WriteWrites
<1>3. /\ late' = late \ {w} /\ now' = now + 1
      /\ UNCHANGED <<runs, active, chain, cycles, skipped, latest, swept>>
      /\ \A f \in Families : ~Does(w, f) => rows'[f] = rows[f] /\ marker'[f] = marker[f]
  BY <1>2, Zenon DEF Writes
<1>4. w.run \in 1 .. Len(runs) /\ Len(runs) \in Nat /\ now \in Nat \ {0} /\ w.run \in 0 .. Len(runs)
  BY <1>1, <1>2, LenProperties DEF RunsExist, Types
<1>5. \A r \in 0 .. Len(runs) : StartOf(r) \in Nat /\ StartOf(r) < now
  BY <1>1, StartsInOrder
<1>6. \A f \in Families, c \in Others :
         /\ rows[f][c] \in [run : Nat, at : Nat] /\ rows[f][c].run \in 0 .. Len(runs)
         /\ marker[f] \in Nat /\ marker[f] <= Len(runs)
  BY <1>1, <1>4 DEF Types, RunsExist
<1>7. ASSUME NEW f \in Families, NEW c \in Others
      PROVE  \/ Does(w, f) /\ rows'[f][c] = [run |-> w.run, at |-> now]
             \/ rows'[f][c] = NoRow
             \/ /\ rows'[f][c] = rows[f][c]
                /\ Does(w, f) => \/ Decided(w.run, w.families[Part(w, f)]).decision # "replaced"
                                 \/ ~Retracts(w.run, f, c)
  <2>1. CASE Does(w, f)
    BY <1>2, <2>1, DoesFacts, Zenon
  <2>2. CASE ~Does(w, f)
    BY <1>3, <2>2, Zenon
  <2> QED BY <2>1, <2>2
<1>8. /\ ledger' \in Seq(LogRows)
      /\ \A i \in DOMAIN ledger : i \in DOMAIN ledger' /\ ledger'[i] = ledger[i]
      /\ \A i \in DOMAIN ledger' :
              \/ i \in DOMAIN ledger /\ ledger'[i] = ledger[i]
              \/ \E k \in DOMAIN w.families : ledger'[i] = Logs(w, w.families[k])
      /\ \A k \in DOMAIN w.families : \E i \in DOMAIN ledger' :
              ledger'[i] = Logs(w, w.families[k])
  BY <1>2, WriteLogs
<1>9. \A f \in Families : Does(w, f) => marker[f] <= w.run /\ marker'[f] = w.run
  BY <1>2, DoesFacts
<1>10. Types'
  <2>1. ASSUME NEW f \in Families PROVE rows'[f] \in [Others -> [run : Nat, at : Nat]]
    <3>1. CASE Does(w, f)
      <4>1. rows'[f] = [c \in Others |-> rows'[f][c]]
        BY <1>2, <3>1, DoesFacts
      <4>2. \A c \in Others : rows'[f][c] \in [run : Nat, at : Nat]
        <5>1. NoRow \in [run : Nat, at : Nat] /\ [run |-> w.run, at |-> now] \in [run : Nat, at : Nat]
          BY <1>4 DEF NoRow
        <5> QED BY <1>6, <1>7, <5>1, Zenon
      <4> QED BY <4>1, <4>2, Zenon
    <3>2. CASE ~Does(w, f)
      BY <1>1, <1>3, <3>2 DEF Types
    <3> QED BY <3>1, <3>2
  <2>2. \A f \in Families : marker'[f] \in Nat
    BY <1>1, <1>3, <1>4, <1>9 DEF Types
  <2>3. rows' = [f \in Families |-> rows'[f]] /\ marker' = [f \in Families |-> marker'[f]]
    BY <1>2, Zenon DEF Writes
  <2>4. rows' \in [Families -> [Others -> [run : Nat, at : Nat]]] /\ marker' \in [Families -> Nat]
    BY <2>1, <2>2, <2>3, Zenon
  <2>5. now' \in Nat \ {0} /\ late' \subseteq late
    BY <1>3, <1>4
  <2> QED BY <1>1, <1>3, <1>8, <2>4, <2>5 DEF Types
<1>11. RunsInOrder'
  <2>1. \A i \in 1 .. Len(runs) : runs[i] \in Nat
    BY <1>1 DEF Types
  <2> QED BY <1>1, <1>3, <1>4, <2>1 DEF RunsInOrder
<1>12. \A k \in DOMAIN w.families :
          /\ Logs(w, w.families[k]).run = w.run
          /\ Logs(w, w.families[k]).family = w.families[k].family
  BY <1>1, LogsFacts
<1>13. RunsExist'
  <2>1. \A i \in DOMAIN ledger' : ledger'[i].run \in 1 .. Len(runs)
    BY <1>1, <1>4, <1>8, <1>12 DEF RunsExist
  <2>2. \A f \in Families : marker'[f] <= Len(runs)
    BY <1>1, <1>3, <1>4, <1>9 DEF RunsExist
  <2>3. \A f \in Families, c \in Others : rows'[f][c].run <= Len(runs)
    BY <1>4, <1>6, <1>7 DEF NoRow
  <2> QED BY <1>1, <1>3, <2>1, <2>2, <2>3 DEF RunsExist
<1>14. Dated'
  <2>1. ASSUME NEW f \in Families, NEW c \in Others, rows'[f][c].run # 0
        PROVE  rows'[f][c].at >= StartOf(rows'[f][c].run)
    <3>1. CASE rows'[f][c] = [run |-> w.run, at |-> now]
      BY <1>4, <1>5, <3>1
    <3>2. CASE rows'[f][c] = rows[f][c]
      BY <1>1, <2>1, <3>2 DEF Dated
    <3> QED BY <1>7, <2>1, <3>1, <3>2 DEF NoRow
  <2>2. \A x \in Nat : StartOf(x)' = StartOf(x)
    BY <1>3 DEF StartOf
  <2> QED BY <1>1, <1>3, <2>1 DEF Dated, Pinned, StartOf
<1>15. (\A v \in late : Due(v))'
  BY <1>1, <1>3 DEF Due, Pinned
<1>16. ASSUME NEW f \in Families, NEW i \in Replaced(f)'
       PROVE  /\ ledger'[i].run \in 0 .. Len(runs)
              /\ \/ i \in Replaced(f) /\ ledger'[i] = ledger[i]
                 \/ /\ ledger'[i].run = w.run /\ Does(w, f) /\ w.run <= Pinned(f).run
                    /\ Decided(w.run, w.families[Part(w, f)]).decision = "replaced"
  <2>1. i \in DOMAIN ledger' /\ ledger'[i].family = f /\ ledger'[i].decision = "replaced"
    BY <1>16 DEF Replaced
  <2>2. CASE i \in DOMAIN ledger /\ ledger'[i] = ledger[i]
    <3>1. i \in Replaced(f)
      BY <2>1, <2>2 DEF Replaced
    <3>2. ledger[i].run \in 0 .. Len(runs)
      BY <1>1, <1>4, <2>2 DEF RunsExist
    <3> QED BY <2>2, <3>1, <3>2
  <2>3. ASSUME NEW k \in DOMAIN w.families, ledger'[i] = Logs(w, w.families[k])
        PROVE  /\ ledger'[i].run = w.run /\ Does(w, f) /\ w.run <= Pinned(f).run
               /\ Decided(w.run, w.families[Part(w, f)]).decision = "replaced"
    <3>1. /\ Logs(w, w.families[k]).run = w.run /\ w.families[k].family = f
          /\ ~Blocked(w.run, f) /\ w.families[k].decision = "replaced"
          /\ Decided(w.run, w.families[k]).decision = "replaced"
      BY <1>1, <2>1, <2>3, LogsFacts
    <3>2. Does(w, f)
      BY <3>1, Zenon DEF Does
    <3>3. Due(w)
      BY <1>1
    <3>4. Part(w, f) = k
      <4>1. Part(w, f) \in DOMAIN w.families /\ w.families[Part(w, f)].family = f
        BY <3>1, PartFacts, Zenon
      <4> QED BY <3>1, <3>3, <4>1, Zenon DEF Due
    <3>5. w.run <= Pinned(f).run
      BY <3>1, <3>3, Zenon DEF Due
    <3> QED BY <2>3, <3>1, <3>2, <3>4, <3>5, Zenon
  <2> QED BY <1>4, <1>8, <2>1, <2>2, <2>3
<1>17. RetractionsCovered'
  <2>1. ASSUME NEW f \in Families, NEW i \in Replaced(f)'
        PROVE  ledger'[i].run <= marker'[f] /\ ledger'[i].run <= Pinned(f).run
    <3>1. CASE i \in Replaced(f) /\ ledger'[i] = ledger[i]
      <4>1. ledger[i].run <= marker[f] /\ ledger[i].run <= Pinned(f).run
        BY <1>1, <3>1 DEF RetractionsCovered
      <4>2. marker[f] <= marker'[f] /\ marker[f] \in Nat /\ marker'[f] \in Nat
        <5>1. marker[f] \in Nat
          BY <1>1 DEF Types
        <5>2. CASE Does(w, f)
          BY <1>4, <1>9, <5>1, <5>2
        <5>3. CASE ~Does(w, f)
          BY <1>3, <5>1, <5>3
        <5> QED BY <5>1, <5>2, <5>3
      <4>3. ledger'[i].run \in Nat
        BY <1>4, <1>16
      <4> QED BY <3>1, <4>1, <4>2, <4>3
    <3>2. CASE ledger'[i].run = w.run /\ Does(w, f) /\ w.run <= Pinned(f).run
      BY <1>4, <1>9, <3>2
    <3> QED BY <1>16, <3>1, <3>2
  <2>2. \A f \in Families : Pinned(f)' = Pinned(f)
    BY <1>3 DEF Pinned
  <2> QED BY <2>1, <2>2 DEF RetractionsCovered
<1>18. NoOldRow'
  <2>1. ASSUME NEW f \in Families, NEW c \in Others, NEW i \in Replaced(f)',
               rows'[f][c].run # 0
        PROVE  rows'[f][c].at >= StartOf(ledger'[i].run)
    <3>1. ledger'[i].run \in 0 .. Len(runs)
      BY <1>16
    <3>2. CASE rows'[f][c] = [run |-> w.run, at |-> now]
      BY <1>4, <1>5, <3>1, <3>2
    <3>3. CASE rows'[f][c] = rows[f][c] /\ i \in Replaced(f) /\ ledger'[i] = ledger[i]
      BY <1>1, <2>1, <3>3 DEF NoOldRow
    <3>4. CASE /\ rows'[f][c] = rows[f][c] /\ ~Retracts(w.run, f, c)
               /\ ledger'[i].run = w.run
      <4>1. rows[f][c].run = w.run \/ ~(rows[f][c].at < StartOf(w.run))
        BY <2>1, <3>4 DEF Retracts
      <4>2. CASE rows[f][c].run = w.run
        BY <1>1, <1>4, <3>4, <4>2 DEF Dated
      <4>3. CASE ~(rows[f][c].at < StartOf(w.run))
        BY <1>4, <1>5, <1>6, <3>4, <4>3
      <4> QED BY <4>1, <4>2, <4>3
    <3>5. rows'[f][c] # NoRow
      BY <2>1 DEF NoRow
    <3> QED BY <1>7, <1>16, <3>2, <3>3, <3>4, <3>5
  <2> QED BY <1>3, <2>1 DEF NoOldRow, StartOf
<1>19. Provenance'
  <2>1. ASSUME NEW f \in Families, NEW c \in Others, rows'[f][c].run # 0
        PROVE  \E i \in DOMAIN ledger' : /\ ledger'[i].run = rows'[f][c].run
                                         /\ ledger'[i].family = f
    <3>1. CASE Does(w, f) /\ rows'[f][c] = [run |-> w.run, at |-> now]
      <4>1. Part(w, f) \in DOMAIN w.families /\ w.families[Part(w, f)].family = f
        BY <3>1, PartFacts, Zenon DEF Does
      <4>2. PICK i \in DOMAIN ledger' : ledger'[i] = Logs(w, w.families[Part(w, f)])
        BY <1>8, <4>1
      <4>3. ledger'[i].run = w.run /\ ledger'[i].family = f
        BY <1>12, <4>1, <4>2
      <4> QED BY <3>1, <4>2, <4>3
    <3>2. CASE rows'[f][c] = rows[f][c]
      <4>1. PICK i \in DOMAIN ledger : ledger[i].run = rows[f][c].run /\ ledger[i].family = f
        BY <1>1, <2>1, <3>2 DEF Provenance
      <4> QED BY <1>8, <3>2, <4>1
    <3>3. rows'[f][c] # NoRow
      BY <2>1 DEF NoRow
    <3> QED BY <1>7, <3>1, <3>2, <3>3
  <2> QED BY <2>1 DEF Provenance
<1> QED BY <1>10, <1>11, <1>13, <1>14, <1>15, <1>17, <1>18, <1>19 DEF Inductive

---------------------------------------------------------------------------
(* A write that fails, and a rebuild.                                      *)

LEMMA LoseKeeps == Inductive /\ Lose => Inductive'
<1> SUFFICES ASSUME Inductive, Lose PROVE Inductive'
  OBVIOUS
<1>1. /\ late' \subseteq late
      /\ UNCHANGED <<now, runs, active, chain, cycles, skipped, latest, swept, rows,
                     marker, ledger>>
  BY DEF Lose
<1>2. Types' /\ RunsInOrder' /\ RunsExist' /\ Dated'
  BY <1>1 DEF Inductive, Types, RunsInOrder, RunsExist, Dated, Pinned, StartOf
<1>3. (\A w \in late : Due(w))'
  BY <1>1 DEF Inductive, Due, Pinned
<1>4. RetractionsCovered' /\ NoOldRow' /\ Provenance'
  BY <1>1 DEF Inductive, RetractionsCovered, NoOldRow, Provenance, Replaced, Pinned, StartOf
<1> QED BY <1>2, <1>3, <1>4 DEF Inductive

(* What the rebuild logs of a family.                                      *)
Relogs(f) == IF Pinned(f).run = 0 THEN <<>>
             ELSE <<LogRow(Pinned(f).run, f, "replaced", "rebuild")>>

LEMMA RelogsFacts ==
  ASSUME Types, NEW f \in Families
  PROVE  /\ Relogs(f) \in Seq(LogRows)
         /\ \A k \in DOMAIN Relogs(f) :
              /\ Relogs(f)[k].run = Pinned(f).run /\ Relogs(f)[k].family = f
              /\ Pinned(f).run # 0
         /\ Pinned(f).run # 0 => DOMAIN Relogs(f) # {}
<1>1. Pinned(f).run \in Nat /\ now \in Nat
  BY DEF Types, Pinned, Snapshots
<1> DEFINE l == LogRow(Pinned(f).run, f, "replaced", "rebuild")
<1>2. l \in LogRows /\ l.run = Pinned(f).run /\ l.family = f
  BY <1>1 DEF LogRow, LogRows, Reasons
<1>3. CASE Pinned(f).run = 0
  <2>1. Relogs(f) = <<>>
    BY <1>3, Zenon DEF Relogs
  <2> QED BY <1>3, <2>1
<1>4. CASE Pinned(f).run # 0
  <2>1. Relogs(f) = <<l>>
    BY <1>4, Zenon DEF Relogs
  <2> HIDE DEF l
  <2>2. <<l>> \in Seq(LogRows) /\ DOMAIN <<l>> = {1} /\ <<l>>[1] = l
    BY <1>2
  <2> QED BY <1>2, <1>4, <2>1, <2>2
<1> QED BY <1>3, <1>4

LEMMA RebuildRebuilds ==
  ASSUME Types, Rebuild
  PROVE  /\ \A f \in Families :
              /\ marker'[f] = Pinned(f).run
              /\ rows'[f] = [c \in Others |-> rows'[f][c]]
              /\ \A c \in Others :
                   \/ rows'[f][c] = [run |-> Pinned(f).run, at |-> Pinned(f).at]
                      /\ c \in Pinned(f).rio \cup Pinned(f).fp
                   \/ rows'[f][c] = NoRow
         /\ rows' = [f \in Families |-> rows'[f]] /\ marker' = [f \in Families |-> marker'[f]]
         /\ ledger' = ledger \o (Relogs("raiderio") \o Relogs("fingerprint"))
         /\ now' = now + 1
         /\ UNCHANGED <<runs, active, chain, cycles, skipped, latest, swept, late>>
<1> DEFINE Seen(f) == IF f = "raiderio" THEN latest.rio ELSE swept.fp
<1>1. /\ rows' = [f \in Families |-> [c \in Others |->
              IF c \in Seen(f)
              THEN [run |-> [g \in Families |-> IF g = "raiderio" THEN latest ELSE swept][f].run,
                    at |-> [g \in Families |-> IF g = "raiderio" THEN latest ELSE swept][f].at]
              ELSE NoRow]]
      /\ marker' = [f \in Families |->
              [g \in Families |-> IF g = "raiderio" THEN latest ELSE swept][f].run]
      /\ now' = now + 1
      /\ UNCHANGED <<runs, active, chain, cycles, skipped, latest, swept, late>>
  BY Zenon DEF Rebuild
<1>2. \A f \in Families : [g \in Families |-> IF g = "raiderio" THEN latest ELSE swept][f]
                          = Pinned(f)
  BY Zenon DEF Pinned
<1>3. ASSUME NEW f \in Families
      PROVE  /\ marker'[f] = Pinned(f).run
             /\ rows'[f] = [c \in Others |->
                   IF c \in Seen(f) THEN [run |-> Pinned(f).run, at |-> Pinned(f).at] ELSE NoRow]
  BY <1>1, <1>2, Zenon
<1>4. \A f \in Families : \A c \in Seen(f) : c \in Pinned(f).rio \cup Pinned(f).fp
  BY DEF Pinned
<1> HIDE DEF Seen
<1>5. \A f \in Families :
              /\ rows'[f] = [c \in Others |-> rows'[f][c]]
              /\ \A c \in Others :
                   \/ rows'[f][c] = [run |-> Pinned(f).run, at |-> Pinned(f).at]
                      /\ c \in Pinned(f).rio \cup Pinned(f).fp
                   \/ rows'[f][c] = NoRow
  BY <1>3, <1>4, Zenon
<1>6. rows' = [f \in Families |-> rows'[f]] /\ marker' = [f \in Families |-> marker'[f]]
  BY <1>1, Zenon
<1>7. ledger' = ledger \o Relogs("raiderio") \o Relogs("fingerprint")
  <2>1. "raiderio" \in Families /\ "fingerprint" \in Families
    BY DEF Families
  <2> QED BY <2>1, Zenon DEF Rebuild, Relogs, Pinned
<1>8. Relogs("raiderio") \in Seq(LogRows) /\ Relogs("fingerprint") \in Seq(LogRows)
      /\ ledger \in Seq(LogRows)
  BY RelogsFacts DEF Families, Types
<1>9. ledger' = ledger \o (Relogs("raiderio") \o Relogs("fingerprint"))
  BY <1>7, <1>8, ConcatAssociative
<1> QED BY <1>1, <1>3, <1>5, <1>6, <1>9, Zenon

(* The ledger after a rebuild: one row more of each family with a snapshot.*)
LEMMA RebuildLogs ==
  ASSUME Inductive, Rebuild
  PROVE  /\ ledger' \in Seq(LogRows)
         /\ \A i \in DOMAIN ledger : i \in DOMAIN ledger' /\ ledger'[i] = ledger[i]
         /\ \A i \in DOMAIN ledger' :
              \/ i \in DOMAIN ledger /\ ledger'[i] = ledger[i]
              \/ \E f \in Families : /\ ledger'[i].run = Pinned(f).run
                                     /\ ledger'[i].family = f /\ Pinned(f).run # 0
         /\ \A f \in Families : Pinned(f).run # 0 =>
              \E i \in DOMAIN ledger' : ledger'[i].run = Pinned(f).run /\ ledger'[i].family = f
<1> DEFINE rio == Relogs("raiderio")
           fp == Relogs("fingerprint")
           more == rio \o fp
<1>1. Types /\ ledger \in Seq(LogRows)
  BY DEF Inductive, Types
<1>2. ledger' = ledger \o more
  BY <1>1, RebuildRebuilds
<1>3. /\ \A f \in Families : Pinned(f).run # 0 => DOMAIN Relogs(f) # {}
      /\ \A f \in Families : \A k \in DOMAIN Relogs(f) :
            /\ Relogs(f)[k].run = Pinned(f).run /\ Relogs(f)[k].family = f
            /\ Pinned(f).run # 0
      /\ \A f \in Families : Relogs(f) \in Seq(LogRows)
  BY <1>1, RelogsFacts
<1>4. "raiderio" \in Families /\ "fingerprint" \in Families
      /\ \A f \in Families : f = "raiderio" \/ f = "fingerprint"
  BY DEF Families
<1>5. rio \in Seq(LogRows) /\ fp \in Seq(LogRows)
  BY <1>3, <1>4
<1> HIDE DEF rio, fp
<1>6. /\ more \in Seq(LogRows) /\ Len(more) = Len(rio) + Len(fp)
      /\ \A i \in 1 .. Len(rio) + Len(fp) :
            more[i] = IF i <= Len(rio) THEN rio[i] ELSE fp[i - Len(rio)]
  BY <1>5, ConcatProperties
<1>7. /\ Len(rio) \in Nat /\ Len(fp) \in Nat
      /\ DOMAIN rio = 1 .. Len(rio) /\ DOMAIN fp = 1 .. Len(fp)
      /\ DOMAIN more = 1 .. Len(rio) + Len(fp)
  BY <1>5, <1>6, LenProperties
<1> HIDE DEF more
<1>8. /\ ledger' \in Seq(LogRows)
      /\ \A i \in DOMAIN ledger : i \in DOMAIN ledger' /\ ledger'[i] = ledger[i]
      /\ \A i \in DOMAIN ledger' : \/ i \in DOMAIN ledger /\ ledger'[i] = ledger[i]
                                   \/ \E k \in DOMAIN more : ledger'[i] = more[k]
      /\ \A k \in DOMAIN more : \E i \in DOMAIN ledger' : ledger'[i] = more[k]
  BY <1>1, <1>2, <1>6, LedgerGrows
<1>9. ASSUME NEW k \in DOMAIN more
      PROVE  \E f \in Families : /\ more[k].run = Pinned(f).run
                                 /\ more[k].family = f /\ Pinned(f).run # 0
  <2>1. CASE k <= Len(rio)
    <3>1. k \in DOMAIN rio /\ more[k] = rio[k]
      BY <1>6, <1>7, <2>1
    <3> QED BY <1>3, <1>4, <3>1 DEF rio
  <2>2. CASE ~(k <= Len(rio))
    <3>1. k - Len(rio) \in DOMAIN fp /\ more[k] = fp[k - Len(rio)]
      BY <1>6, <1>7, <2>2
    <3> QED BY <1>3, <1>4, <3>1 DEF fp
  <2> QED BY <2>1, <2>2
<1>10. ASSUME NEW f \in Families, Pinned(f).run # 0
       PROVE  \E k \in DOMAIN more : more[k].run = Pinned(f).run /\ more[k].family = f
  <2>1. CASE f = "raiderio"
    <3>1. PICK k \in DOMAIN rio : TRUE
      BY <1>3, <1>10, <2>1 DEF rio
    <3>2. k \in DOMAIN more /\ more[k] = rio[k]
      BY <1>6, <1>7
    <3> QED BY <1>3, <2>1, <3>1, <3>2 DEF rio
  <2>2. CASE f = "fingerprint"
    <3>1. PICK k \in DOMAIN fp : TRUE
      BY <1>3, <1>10, <2>2 DEF fp
    <3>2. Len(rio) + k \in DOMAIN more /\ more[Len(rio) + k] = fp[k]
      BY <1>6, <1>7
    <3> QED BY <1>3, <2>2, <3>1, <3>2 DEF fp
  <2> QED BY <1>4, <2>1, <2>2
<1>11. \A i \in DOMAIN ledger' :
              \/ i \in DOMAIN ledger /\ ledger'[i] = ledger[i]
              \/ \E f \in Families : /\ ledger'[i].run = Pinned(f).run
                                     /\ ledger'[i].family = f /\ Pinned(f).run # 0
  BY <1>8, <1>9
<1>12. \A f \in Families : Pinned(f).run # 0 =>
              \E i \in DOMAIN ledger' : ledger'[i].run = Pinned(f).run /\ ledger'[i].family = f
  BY <1>8, <1>10
<1> QED BY <1>8, <1>11, <1>12

LEMMA RebuildKeeps == Inductive /\ Rebuild => Inductive'
<1> SUFFICES ASSUME Inductive, Rebuild PROVE Inductive'
  OBVIOUS
<1>1. /\ Types /\ RunsInOrder /\ RunsExist /\ Dated /\ (\A v \in late : Due(v))
      /\ RetractionsCovered /\ NoOldRow /\ Provenance
  BY DEF Inductive
<1>2. /\ \A f \in Families :
              /\ marker'[f] = Pinned(f).run
              /\ rows'[f] = [c \in Others |-> rows'[f][c]]
              /\ \A c \in Others :
                   \/ rows'[f][c] = [run |-> Pinned(f).run, at |-> Pinned(f).at]
                      /\ c \in Pinned(f).rio \cup Pinned(f).fp
                   \/ rows'[f][c] = NoRow
      /\ rows' = [f \in Families |-> rows'[f]] /\ marker' = [f \in Families |-> marker'[f]]
      /\ now' = now + 1
      /\ UNCHANGED <<runs, active, chain, cycles, skipped, latest, swept, late>>
  BY <1>1, RebuildRebuilds
<1>3. /\ ledger' \in Seq(LogRows)
      /\ \A i \in DOMAIN ledger : i \in DOMAIN ledger' /\ ledger'[i] = ledger[i]
      /\ \A i \in DOMAIN ledger' :
              \/ i \in DOMAIN ledger /\ ledger'[i] = ledger[i]
              \/ \E f \in Families : /\ ledger'[i].run = Pinned(f).run
                                     /\ ledger'[i].family = f /\ Pinned(f).run # 0
      /\ \A f \in Families : Pinned(f).run # 0 =>
              \E i \in DOMAIN ledger' : ledger'[i].run = Pinned(f).run /\ ledger'[i].family = f
  BY RebuildLogs
<1>4. now \in Nat \ {0} /\ Len(runs) \in Nat
  BY <1>1, LenProperties DEF Types
<1>5. \A f \in Families : /\ Pinned(f)' = Pinned(f) /\ Pinned(f).run \in 0 .. Len(runs)
                          /\ Pinned(f).run \in Nat /\ Pinned(f).at \in Nat
  BY <1>1, <1>2, <1>4 DEF Types, Snapshots, RunsExist, Pinned
<1>6. NoRow \in [run : Nat, at : Nat] /\ NoRow.run = 0
  BY DEF NoRow
<1>7. Types'
  <2>1. ASSUME NEW f \in Families, NEW c \in Others PROVE rows'[f][c] \in [run : Nat, at : Nat]
    <3>1. \/ rows'[f][c] = [run |-> Pinned(f).run, at |-> Pinned(f).at]
          \/ rows'[f][c] = NoRow
      BY <1>2, Zenon
    <3> QED BY <1>5, <1>6, <3>1
  <2>2. \A f \in Families : rows'[f] \in [Others -> [run : Nat, at : Nat]]
    BY <1>2, <2>1, Zenon
  <2>3. rows' \in [Families -> [Others -> [run : Nat, at : Nat]]] /\ marker' \in [Families -> Nat]
    BY <1>2, <1>5, <2>2, Zenon
  <2> QED BY <1>1, <1>2, <1>3, <1>4, <2>3 DEF Types
<1>8. RunsInOrder'
  <2>1. \A i \in 1 .. Len(runs) : runs[i] \in Nat
    BY <1>1 DEF Types
  <2> QED BY <1>1, <1>2, <1>4, <2>1 DEF RunsInOrder
<1>9. RunsExist'
  <2>1. \A i \in DOMAIN ledger' : ledger'[i].run \in 1 .. Len(runs)
    BY <1>1, <1>3, <1>4, <1>5 DEF RunsExist
  <2>2. ASSUME NEW f \in Families, NEW c \in Others PROVE rows'[f][c].run <= Len(runs)
    <3>1. \/ rows'[f][c] = [run |-> Pinned(f).run, at |-> Pinned(f).at]
          \/ rows'[f][c] = NoRow
      BY <1>2, Zenon
    <3> QED BY <1>4, <1>5, <1>6, <3>1
  <2>3. ASSUME NEW f \in Families PROVE marker'[f] <= Len(runs)
    <3>1. marker'[f] = Pinned(f).run
      BY <1>2, Zenon
    <3> QED BY <1>4, <1>5, <3>1
  <2> QED BY <1>1, <1>2, <2>1, <2>2, <2>3 DEF RunsExist
<1>10. ASSUME NEW f \in Families, NEW c \in Others, rows'[f][c].run # 0
       PROVE  /\ rows'[f][c].run = Pinned(f).run /\ Pinned(f).run # 0
              /\ rows'[f][c].at >= StartOf(Pinned(f).run) /\ rows'[f][c].at \in Nat
  <2>1. rows'[f][c] = [run |-> Pinned(f).run, at |-> Pinned(f).at]
    BY <1>2, <1>6, <1>10
  <2>2. Pinned(f).run # 0 => Pinned(f).at >= StartOf(Pinned(f).run)
    BY <1>1 DEF Dated
  <2> QED BY <1>5, <1>10, <2>1, <2>2
<1>11. Dated'
  <2>1. \A f \in Families, c \in Others :
          rows'[f][c].run # 0 => rows'[f][c].at >= StartOf(rows'[f][c].run)
    BY <1>10
  <2> QED BY <1>1, <1>2, <2>1 DEF Dated, Pinned, StartOf
<1>12. (\A v \in late : Due(v))'
  BY <1>1, <1>2 DEF Due, Pinned
<1>13. ASSUME NEW f \in Families, NEW i \in Replaced(f)'
       PROVE  ledger'[i].run <= Pinned(f).run /\ ledger'[i].run \in 0 .. Len(runs)
  <2>1. i \in DOMAIN ledger' /\ ledger'[i].family = f /\ ledger'[i].decision = "replaced"
    BY <1>13 DEF Replaced
  <2>2. CASE i \in DOMAIN ledger /\ ledger'[i] = ledger[i]
    <3>1. i \in Replaced(f)
      BY <2>1, <2>2 DEF Replaced
    <3> QED BY <1>1, <1>4, <2>2, <3>1 DEF RetractionsCovered, RunsExist
  <2>3. ASSUME NEW g \in Families, ledger'[i].run = Pinned(g).run, ledger'[i].family = g
        PROVE  ledger'[i].run <= Pinned(f).run /\ ledger'[i].run \in 0 .. Len(runs)
    BY <1>5, <2>1, <2>3
  <2> QED BY <1>3, <2>1, <2>2, <2>3
<1>14. RetractionsCovered'
  BY <1>2, <1>5, <1>13 DEF RetractionsCovered
<1>15. NoOldRow'
  <2>1. ASSUME NEW f \in Families, NEW c \in Others, NEW i \in Replaced(f)',
               rows'[f][c].run # 0
        PROVE  rows'[f][c].at >= StartOf(ledger'[i].run)
    <3>1. rows'[f][c].at >= StartOf(Pinned(f).run) /\ rows'[f][c].at \in Nat
      BY <1>10, <2>1
    <3>2. ledger'[i].run <= Pinned(f).run /\ ledger'[i].run \in 0 .. Len(runs)
      BY <1>13
    <3>3. Pinned(f).run \in 0 .. Len(runs)
      BY <1>5
    <3>4. StartOf(ledger'[i].run) <= StartOf(Pinned(f).run)
          /\ StartOf(ledger'[i].run) \in Nat
      BY <1>1, <3>2, <3>3, StartsInOrder
    <3>5. StartOf(Pinned(f).run) \in Nat
      BY <1>1, <3>3, StartsInOrder
    <3> QED BY <3>1, <3>4, <3>5
  <2> QED BY <1>2, <2>1 DEF NoOldRow, StartOf
<1>16. Provenance'
  BY <1>3, <1>10 DEF Provenance
<1> QED BY <1>7, <1>8, <1>9, <1>11, <1>12, <1>14, <1>15, <1>16 DEF Inductive

---------------------------------------------------------------------------
(* The theorems.                                                           *)

LEMMA StepInductive == Inductive /\ [Next]_vars => Inductive'
<1> SUFFICES ASSUME Inductive, [Next]_vars PROVE Inductive'
  OBVIOUS
<1>1. CASE UNCHANGED vars
  BY <1>1 DEF vars, Inductive, Types, RunsInOrder, RunsExist, Dated, Due, RetractionsCovered,
              NoOldRow, Provenance, Replaced, Pinned, StartOf
<1>2. CASE Next
  BY <1>2, StartRunKeeps, PublishPlainKeeps, PublishFirstKeeps, PublishCycleKeeps,
     PublishLiveKeeps, WriteKeeps, LoseKeeps, RebuildKeeps DEF Next
<1> QED BY <1>1, <1>2

LEMMA AlwaysInductive == Spec => []Inductive
BY InitInductive, StepInductive, PTL DEF Spec

(* A family that has retracted has a newest retraction: of the newest run, *)
(* and of its retractions the one written last.                            *)
LEMMA NewestExists ==
  ASSUME Inductive, NEW f \in Families, Replaced(f) # {}
  PROVE  NewestReplaced(f) \in Replaced(f)
<1>1. Types /\ RunsInOrder /\ RunsExist /\ Len(runs) \in Nat /\ Len(ledger) \in Nat
  BY LenProperties DEF Inductive, Types
<1>2. \A i \in Replaced(f) : /\ i \in 1 .. Len(ledger) /\ i \in Nat
                             /\ ledger[i].run \in 0 .. Len(runs) /\ ledger[i].run \in Nat
  <2>1. DOMAIN ledger = 1 .. Len(ledger)
    BY <1>1, LenProperties DEF Types
  <2> QED BY <1>1, <2>1 DEF Replaced, RunsExist
<1> DEFINE Rs == {ledger[i].run : i \in Replaced(f)}
<1>3. PICK r \in Rs : \A s \in Rs : s <= r
  <2>1. Rs \in SUBSET Nat /\ Rs # {} /\ \A s \in Rs : s <= Len(runs)
    BY <1>1, <1>2
  <2> HIDE DEF Rs
  <2> QED BY <1>1, <2>1, Greatest
<1> DEFINE Is == {i \in Replaced(f) : ledger[i].run = r}
<1>4. PICK n \in Is : \A i \in Is : i <= n
  <2>1. Is \in SUBSET Nat /\ Is # {} /\ \A i \in Is : i <= Len(ledger)
    BY <1>1, <1>2, <1>3
  <2> HIDE DEF Is
  <2> QED BY <1>1, <2>1, Greatest
<1>5. ASSUME NEW j \in Replaced(f) \ {n} PROVE Later(n, j)
  <2>1. ledger[j].run <= r /\ ledger[n].run = r
    BY <1>3, <1>4
  <2>2. CASE ledger[j].run = r
    BY <1>2, <1>4, <2>1, <2>2 DEF Later
  <2>3. CASE ledger[j].run # r
    <3>1. ~(ledger[n].run <= ledger[j].run)
      BY <1>2, <1>4, <2>1, <2>3
    <3>2. /\ StartOf(ledger[n].run) \in Nat /\ StartOf(ledger[j].run) \in Nat
          /\ StartOf(ledger[n].run) <= StartOf(ledger[j].run)
             <=> ledger[n].run <= ledger[j].run
      BY <1>1, <1>2, <1>4, StartsInOrder
    <3> QED BY <3>1, <3>2 DEF Later
  <2> QED BY <2>2, <2>3
<1>6. n \in Replaced(f) /\ \A j \in Replaced(f) \ {n} : Later(n, j)
  BY <1>4, <1>5
<1> QED BY <1>6, Zenon DEF NewestReplaced

LEMMA InductiveHolds == Inductive => WritesHold
<1> SUFFICES ASSUME Inductive PROVE WritesHold
  OBVIOUS
<1>1. Provenance
  BY DEF Inductive
<1>2. RetractionHolds
  <2>1. ASSUME NEW f \in Families, Replaced(f) # {}, NEW c \in Others, rows[f][c].run # 0
        PROVE  ~(rows[f][c].at < StartOf(ledger[NewestReplaced(f)].run))
    <3>1. NewestReplaced(f) \in Replaced(f)
      BY <2>1, NewestExists
    <3>2. rows[f][c].at >= StartOf(ledger[NewestReplaced(f)].run)
      BY <2>1, <3>1 DEF Inductive, NoOldRow
    <3>3. ledger[NewestReplaced(f)].run \in 0 .. Len(runs)
      BY <3>1 DEF Inductive, RunsExist, Replaced
    <3>4. StartOf(ledger[NewestReplaced(f)].run) \in Nat
      BY <3>3, StartsInOrder DEF Inductive
    <3>5. rows[f][c].at \in Nat
      BY DEF Inductive, Types
    <3> QED BY <3>2, <3>4, <3>5
  <2> QED BY <2>1 DEF RetractionHolds
<1> QED BY <1>1, <1>2 DEF WritesHold

(* What auditLedger checks of the observed links holds after any writes,   *)
(* late ones and rebuilds included (writeObservations).                    *)
THEOREM WritesHoldAlways == Spec => []WritesHold
BY AlwaysInductive, InductiveHolds, PTL

LEMMA StepKeepsOut == Inductive /\ [Next]_vars => [OldWriteStaysOut]_vars
<1> SUFFICES ASSUME Inductive, Next PROVE OldWriteStaysOut
  OBVIOUS
<1>1. Types /\ RunsInOrder /\ RunsExist /\ RetractionsCovered /\ Len(runs) \in Nat
  BY LenProperties DEF Inductive, Types
<1>2. CASE UNCHANGED rows
  BY <1>2 DEF OldWriteStaysOut
<1>3. ASSUME NEW f \in Families, NEW r \in 0 .. Len(runs), NEW i \in Replaced(f),
             ledger[i].run <= r
      PROVE  StartOf(ledger[i].run) <= StartOf(r)
  <2>1. ledger[i].run \in 0 .. Len(runs)
    BY <1>1 DEF RunsExist, Replaced
  <2> QED BY <1>1, <1>3, <2>1, StartsInOrder
<1>4. ASSUME Write PROVE OldWriteStaysOut
  <2>1. PICK w \in late : Writes(w)
    BY <1>1, <1>4, WriteWrites
  <2>2. ASSUME NEW f \in Families, NEW c \in Others, rows[f][c].run = 0, rows'[f][c].run # 0,
               NEW i \in Replaced(f)
        PROVE  StartOf(ledger[i].run) <= StartOf(rows'[f][c].run)
    <3>1. Does(w, f)
      <4>1. ~Does(w, f) => rows'[f] = rows[f]
        BY <2>1, Zenon DEF Writes
      <4> QED BY <2>2, <4>1
    <3>2. marker[f] <= w.run /\ rows'[f][c] \in {[run |-> w.run, at |-> now], NoRow, rows[f][c]}
      BY <2>1, <3>1, DoesFacts
    <3>3. rows'[f][c].run = w.run
      BY <2>2, <3>2 DEF NoRow
    <3>4. ledger[i].run <= marker[f] /\ ledger[i].run \in 1 .. Len(runs)
      BY <1>1 DEF RetractionsCovered, RunsExist, Replaced
    <3>5. w.run \in 0 .. Len(runs) /\ marker[f] \in Nat
      BY <1>1, <2>1 DEF RunsExist, Types
    <3>6. ledger[i].run <= w.run
      BY <1>1, <3>2, <3>4, <3>5
    <3> QED BY <1>3, <3>3, <3>5, <3>6
  <2> QED BY <2>2 DEF OldWriteStaysOut
<1>5. ASSUME Rebuild PROVE OldWriteStaysOut
  <2>1. ASSUME NEW f \in Families, NEW c \in Others, rows[f][c].run = 0, rows'[f][c].run # 0,
               NEW i \in Replaced(f)
        PROVE  StartOf(ledger[i].run) <= StartOf(rows'[f][c].run)
    <3>1. rows'[f][c] \in {[run |-> Pinned(f).run, at |-> Pinned(f).at], NoRow}
      BY <1>1, <1>5, RebuildRebuilds
    <3>2. rows'[f][c].run = Pinned(f).run
      BY <2>1, <3>1 DEF NoRow
    <3>3. ledger[i].run <= Pinned(f).run
      BY <1>1 DEF RetractionsCovered
    <3>4. Pinned(f).run \in 0 .. Len(runs)
      BY <1>1 DEF RunsExist, Pinned, Types, Snapshots
    <3> QED BY <1>3, <3>2, <3>3, <3>4
  <2> QED BY <2>1 DEF OldWriteStaysOut
<1> QED BY <1>2, <1>4, <1>5
        DEF Next, StartRun, PublishPlain, PublishFirst, PublishCycle, PublishLive, Lose

(* A write that comes after a newer run proved a link absent never brings  *)
(* the link back, whatever writes and rebuilds come between (Blocked).     *)
THEOREM OldWritesStayOutAlways == Spec => OldWritesStayOut
BY AlwaysInductive, StepKeepsOut, PTL DEF Spec, OldWritesStayOut
===============================================================================
