----------------------------- MODULE SweepProofs -----------------------------
(***************************************************************************)
(* WithinBudget for every cap, budget, length of the hour and lag.  The    *)
(* argument: every step but an admission only takes slots out of           *)
(* Counted(clock) \ late; an admission adds at most Cap slots, and what    *)
(* its query counts, with a timestamp in the past, is no less than what    *)
(* counts now, because nothing that still counts was pruned.               *)
(***************************************************************************)
EXTENDS SweepBudget, FingerprintSweep, FiniteSetTheorems, WellFoundedInduction, TLAPS

(* What the bound is about.                                                *)
Charged == Counted(clock) \ late

(* There are finitely many slots.                                          *)
LEMMA SlotsFinite == IsFiniteSet(Slots)
<1>1. IsFiniteSet(Admissions)
  BY FS_Interval, BudgetAssumption DEF Admissions
<1>2. IsFiniteSet(1..Cap)
  BY FS_Interval, BudgetAssumption
<1> QED BY <1>1, <1>2, FS_Product DEF Slots

(* So every set of slots has a size.                                       *)
LEMMA SlotSets ==
  ASSUME NEW S \in SUBSET Slots
  PROVE  IsFiniteSet(S) /\ Cardinality(S) \in Nat
<1>1. IsFiniteSet(S)
  BY SlotsFinite, FS_Subset
<1> QED BY <1>1, FS_CardinalityType

(* A reservation has Cap slots.                                            *)
LEMMA ReservationSize ==
  ASSUME NEW a \in Admissions
  PROVE  /\ {a} \X (1..Cap) \in SUBSET Slots
         /\ Cardinality({a} \X (1..Cap)) = Cap
<1>1. IsFiniteSet({a}) /\ Cardinality({a}) = 1
  BY FS_Singleton
<1>2. IsFiniteSet(1..Cap) /\ Cardinality(1..Cap) = Cap
  BY FS_Interval, BudgetAssumption
<1>3. Cardinality({a} \X (1..Cap)) = Cardinality({a}) * Cardinality(1..Cap)
  BY <1>1, <1>2, FS_Product, Zenon
<1>4. Cardinality({a} \X (1..Cap)) = 1 * Cap
  BY <1>1, <1>2, <1>3, Zenon
<1> QED BY <1>4, BudgetAssumption DEF Slots

(* An earlier timestamp counts at least what counts now.                   *)
LEMMA EarlierCountsMore ==
  ASSUME BudgetTypeOK, PrunedIsOld, NEW at \in Stamps
  PROVE  Charged \subseteq Committed(at)
<1> SUFFICES ASSUME NEW s \in Charged
             PROVE  s \in Committed(at)
  OBVIOUS
<1>1. s \in Slots /\ slot[s] \in Times \cup {Unused} /\ s[1] \in Admissions
  BY DEF Charged, Counted, BudgetTypeOK, Slots
<1>2. at \in Int /\ clock \in Int /\ Hour \in Int /\ at <= clock
  BY BudgetAssumption DEF BudgetTypeOK, Stamps, Times
<1>3. admitted[s[1]] \in Int
  BY <1>1 DEF BudgetTypeOK, Times
<1>4. s \in Counted(at)
  BY <1>1, <1>2, <1>3 DEF Charged, Counted, Live, Times, Unused
<1>5. s \notin pruned
  BY <1>1, <1>2 DEF Charged, Counted, PrunedIsOld, Times, Unused
<1> QED BY <1>4, <1>5 DEF Committed

(* A step that adds no charged slot keeps the bound.                       *)
LEMMA Shrinks ==
  ASSUME BudgetTypeOK, WithinBudget, Charged' \subseteq Charged
  PROVE  WithinBudget'
<1>1. Charged \in SUBSET Slots
  BY DEF Charged, Counted
<1>2. Cardinality(Charged') <= Cardinality(Charged)
  BY <1>1, SlotSets, FS_Subset
<1>3. Cardinality(Charged) \in Nat /\ Cardinality(Charged') \in Nat
  BY <1>1, SlotSets
<1> QED BY <1>2, <1>3, BudgetAssumption DEF WithinBudget, Charged

(* The initial state charges nothing.                                      *)
LEMMA InitInductive == BudgetInit => Inductive
<1> SUFFICES ASSUME BudgetInit PROVE Inductive
  OBVIOUS
<1>1. BudgetTypeOK
  BY BudgetAssumption DEF BudgetInit, BudgetTypeOK, Times, Unused
<1>2. PrunedIsOld
  BY DEF BudgetInit, PrunedIsOld
<1>3. Charged = {}
  BY DEF BudgetInit, Charged, Counted, Live, Slots, Unused
<1>4. WithinBudget
  BY <1>3, FS_EmptySet, BudgetAssumption DEF WithinBudget, Charged
<1> QED BY <1>1, <1>2, <1>4 DEF Inductive

(* Every step keeps the bound and its strengthening.                       *)
LEMMA StepInductive ==
  ASSUME Inductive, [BudgetNext]_budgetVars
  PROVE  Inductive'
<1> USE BudgetAssumption
<1>0. BudgetTypeOK /\ PrunedIsOld /\ WithinBudget
  BY DEF Inductive
<1>1. ASSUME NEW a \in Admissions, Request(a) PROVE Inductive'
  <2>1. BudgetTypeOK'
    BY <1>0, <1>1 DEF Request, BudgetTypeOK, Stamps
  <2>2. PrunedIsOld'
    BY <1>0, <1>1 DEF Request, PrunedIsOld
  <2>3. Charged' \subseteq Charged
    BY <1>0, <1>1 DEF Request, Charged, Counted, Live, BudgetTypeOK, Slots
  <2> QED BY <2>1, <2>2, <2>3, <1>0, Shrinks DEF Inductive
<1>2. ASSUME NEW a \in Admissions, Admit(a) PROVE Inductive'
  <2>1. PICK at \in Stamps :
          /\ Cardinality(Committed(at)) + Cap <= Budget
          /\ status' = [status EXCEPT ![a] = "admitted"]
          /\ admitted' = [admitted EXCEPT ![a] = at]
          /\ UNCHANGED <<clock, requested, slot, pruned, late>>
    BY <1>2 DEF Admit
  <2>2. BudgetTypeOK'
    BY <1>0, <2>1 DEF BudgetTypeOK, Stamps
  <2>3. PrunedIsOld'
    BY <1>0, <2>1 DEF PrunedIsOld
  <2> DEFINE R == {a} \X (1..Cap)
             C == Committed(at)
  <2>4. Charged' \subseteq C \cup R
    <3> SUFFICES ASSUME NEW s \in Charged', s \notin R PROVE s \in C
      OBVIOUS
    <3>1. s \in Slots /\ s[1] # a
      BY DEF Charged, Counted, Slots
    <3>2. s \in Charged
      BY <3>1, <2>1, <1>0 DEF Charged, Counted, Live, BudgetTypeOK, Slots
    <3> QED BY <3>2, <1>0, EarlierCountsMore
  <2>5. C \in SUBSET Slots /\ R \in SUBSET Slots /\ Cardinality(R) = Cap
    BY ReservationSize DEF Committed, Counted
  <2>6. IsFiniteSet(C) /\ IsFiniteSet(R) /\ Cardinality(C) \in Nat
    BY <2>5, SlotSets
  <2>7. /\ IsFiniteSet(C \cup R) /\ Cardinality(C \cap R) \in Nat
        /\ Cardinality(C \cup R)
             = Cardinality(C) + Cardinality(R) - Cardinality(C \cap R)
    <3>1. C \cap R \in SUBSET Slots
      BY <2>5
    <3> QED BY <3>1, <2>6, SlotSets, FS_Union
  <2>8. Cardinality(C \cup R) <= Budget
    <3> HIDE DEF C, R
    <3>1. Cardinality(C) + Cap <= Budget
      BY <2>1 DEF C
    <3> QED BY <3>1, <2>5, <2>6, <2>7
  <2>9. /\ Cardinality(Charged') <= Cardinality(C \cup R)
        /\ Cardinality(Charged') \in Nat /\ Cardinality(C \cup R) \in Nat
    <3>1. Charged' \in SUBSET Slots /\ C \cup R \in SUBSET Slots
      BY <2>4, <2>5
    <3> QED BY <3>1, <2>4, <2>7, SlotSets, FS_Subset
  <2>10. WithinBudget'
    <3> HIDE DEF C, R
    <3> QED BY <2>8, <2>9 DEF WithinBudget, Charged
  <2> QED BY <2>2, <2>3, <2>10 DEF Inductive
<1>3. ASSUME NEW a \in Admissions, RecordRequest(a) PROVE Inductive'
  <2>1. PICK at \in Stamps, s \in Slots :
          /\ s[1] = a /\ slot[s] = Unused /\ Live(a, at)
          /\ slot' = [slot EXCEPT ![s] = at]
          /\ late' = IF Live(a, clock) THEN late ELSE late \cup {s}
          /\ UNCHANGED <<clock, status, requested, admitted, pruned>>
    BY <1>3 DEF RecordRequest, NextSlot
  <2>2. BudgetTypeOK'
    BY <1>0, <2>1 DEF BudgetTypeOK, Stamps
  <2>3. PrunedIsOld'
    <3>1. pruned \subseteq Slots /\ s \notin pruned
      BY <1>0, <2>1 DEF PrunedIsOld, BudgetTypeOK
    <3> QED BY <3>1, <1>0, <2>1 DEF PrunedIsOld, BudgetTypeOK
  <2>4. Charged' \subseteq Charged
    <3> SUFFICES ASSUME NEW t \in Charged' PROVE t \in Charged
      OBVIOUS
    <3>1. CASE t = s
      <4>1. t \notin late'
        BY DEF Charged
      <4>2. Live(a, clock) /\ t \notin late
        BY <4>1, <3>1, <2>1
      <4> QED BY <4>2, <3>1, <2>1 DEF Charged, Counted
    <3>2. CASE t # s
      BY <3>2, <2>1, <1>0 DEF Charged, Counted, Live, BudgetTypeOK
    <3> QED BY <3>1, <3>2
  <2> QED BY <2>2, <2>3, <2>4, <1>0, Shrinks DEF Inductive
<1>4. ASSUME NEW a \in Admissions, releaseRest(a) PROVE Inductive'
  <2>1. BudgetTypeOK'
    BY <1>0, <1>4 DEF releaseRest, BudgetTypeOK
  <2>2. PrunedIsOld'
    BY <1>0, <1>4 DEF releaseRest, PrunedIsOld
  <2>3. Charged' \subseteq Charged
    BY <1>0, <1>4 DEF releaseRest, Charged, Counted, Live, BudgetTypeOK, Slots
  <2> QED BY <2>1, <2>2, <2>3, <1>0, Shrinks DEF Inductive
<1>5. ASSUME CleanupExpired PROVE Inductive'
  <2>1. PICK at \in Stamps :
          /\ pruned' = pruned \cup {s \in Slots : slot[s] # Unused
                                                  /\ slot[s] <= at - Hour}
          /\ UNCHANGED <<clock, status, requested, admitted, slot, late>>
    BY <1>5 DEF CleanupExpired
  <2>2. BudgetTypeOK'
    BY <1>0, <2>1 DEF BudgetTypeOK
  <2>3. PrunedIsOld'
    <3> SUFFICES ASSUME NEW s \in pruned'
                 PROVE  slot[s] # Unused /\ slot[s] <= clock - Hour
      BY <2>1 DEF PrunedIsOld
    <3>1. CASE s \in pruned
      BY <3>1, <1>0 DEF PrunedIsOld
    <3>2. CASE s \notin pruned
      <4>1. s \in Slots /\ slot[s] # Unused /\ slot[s] <= at - Hour
        BY <3>2, <2>1
      <4>2. slot[s] \in Int /\ at \in Int /\ clock \in Int /\ at <= clock
        BY <4>1, <1>0 DEF BudgetTypeOK, Stamps, Times
      <4> QED BY <4>1, <4>2
    <3> QED BY <3>1, <3>2
  <2>4. Charged' \subseteq Charged
    BY <2>1 DEF Charged, Counted, Live
  <2> QED BY <2>2, <2>3, <2>4, <1>0, Shrinks DEF Inductive
<1>6. ASSUME Tick PROVE Inductive'
  <2>1. BudgetTypeOK'
    BY <1>0, <1>6 DEF Tick, BudgetTypeOK, Times
  <2>2. PrunedIsOld'
    <3> SUFFICES ASSUME NEW s \in pruned
                 PROVE  slot[s] # Unused /\ slot[s] <= clock + 1 - Hour
      <4>1. clock \in Int /\ clock' = clock + 1 /\ slot' = slot /\ pruned' = pruned
        BY <1>0, <1>6 DEF Tick, BudgetTypeOK, Times
      <4>2. \A s \in pruned : slot[s] \in Int
        BY <1>0 DEF BudgetTypeOK, Times, Unused
      <4> QED BY <4>1, <4>2 DEF PrunedIsOld
    <3>1. slot[s] # Unused /\ slot[s] <= clock - Hour /\ s \in Slots
      BY <1>0 DEF PrunedIsOld, BudgetTypeOK
    <3>2. slot[s] \in Int /\ clock \in Int
      BY <3>1, <1>0 DEF BudgetTypeOK, Times
    <3> QED BY <3>1, <3>2
  <2>3. Charged' \subseteq Charged
    <3> SUFFICES ASSUME NEW s \in Charged' PROVE s \in Charged
      OBVIOUS
    <3>1. /\ s \in Slots /\ s \notin late /\ s[1] \in Admissions
          /\ \/ slot[s] = Unused /\ status[s[1]] = "admitted"
                                 /\ admitted[s[1]] + Hour > clock + 1
             \/ slot[s] # Unused /\ slot[s] > clock + 1 - Hour
      <4>1. /\ clock \in Int /\ clock' = clock + 1
            /\ UNCHANGED <<status, admitted, slot, late>>
        BY <1>0, <1>6 DEF Tick, BudgetTypeOK, Times
      <4>2. s \in Slots /\ s \notin late /\ s[1] \in Admissions
        BY <4>1 DEF Charged, Counted, Slots
      <4>3. slot[s] \in Int /\ admitted[s[1]] \in Int
        BY <4>2, <1>0 DEF BudgetTypeOK, Times, Unused
      <4> QED BY <4>1, <4>2, <4>3 DEF Charged, Counted, Live
    <3>2. /\ slot[s] \in Times \cup {Unused} /\ admitted[s[1]] \in Int
          /\ clock \in Int
      BY <3>1, <1>0 DEF BudgetTypeOK, Times
    <3> QED BY <3>1, <3>2 DEF Charged, Counted, Live, Times, Unused
  <2> QED BY <2>1, <2>2, <2>3, <1>0, Shrinks DEF Inductive
<1>7. ASSUME UNCHANGED budgetVars PROVE Inductive'
  BY <1>0, <1>7 DEF budgetVars, Inductive, BudgetTypeOK, PrunedIsOld, WithinBudget, Counted,
     Live
<1> QED BY <1>1, <1>2, <1>3, <1>4, <1>5, <1>6, <1>7 DEF BudgetNext

(* Sweeps never hold or make more requests than the budget in any hour,    *)
(* but for requests recorded with a timestamp from before the end of a     *)
(* reservation that has ended (recordRequest in fingerprint-sweeps.ts).    *)
THEOREM BudgetKept == BudgetSpec => []WithinBudget
<1>1. BudgetSpec => []Inductive
  BY InitInductive, StepInductive, PTL DEF BudgetSpec
<1>2. Inductive => WithinBudget
  BY DEF Inductive
<1> QED BY <1>1, <1>2, PTL

(* With timestamps as recent as the transaction there is no such request,  *)
(* and the budget holds as the design states it.                           *)
THEOREM RollingBudgetKept == ASSUME Lag = 0 PROVE BudgetSpec => []RollingBudget
<1> DEFINE J == Inductive /\ late = {}
<1>1. BudgetInit => J
  BY InitInductive DEF BudgetInit
<1>2. J /\ [BudgetNext]_budgetVars => J'
  <2> SUFFICES ASSUME J, [BudgetNext]_budgetVars PROVE J'
    OBVIOUS
  <2>1. Inductive'
    BY StepInductive
  <2>2. late' = {}
    <3>1. \A at \in Stamps : at = clock
      BY BudgetAssumption DEF J, Inductive, BudgetTypeOK, Stamps, Times
    <3>2. ASSUME NEW a \in Admissions, RecordRequest(a) PROVE late' = {}
      BY <3>1, <3>2 DEF RecordRequest, J
    <3> QED BY <3>2 DEF J, BudgetNext, budgetVars, Request, Admit, releaseRest, CleanupExpired, Tick
  <2> QED BY <2>1, <2>2
<1>3. J => RollingBudget
  <2> SUFFICES ASSUME J PROVE RollingBudget
    OBVIOUS
  <2>1. Counted(clock) \ late = Counted(clock)
    BY DEF J
  <2> QED BY <2>1 DEF J, Inductive, WithinBudget, RollingBudget
<1> HIDE DEF J
<1> QED BY <1>1, <1>2, <1>3, PTL DEF BudgetSpec

(***************************************************************************)
(* SweepsHeld and SweepSteps for every bound: any number of runs, jobs,    *)
(* attempts, faults and admissions.  The argument: of the rows of a run    *)
(* all but the newest are consumed, and each row on its own obeys          *)
(* RowOrderly.  A step changes single rows, or appends one to a run whose  *)
(* rows it has consumed; that none of those holds budget is what           *)
(* RowOrderly and the guards give.  A publication is the delicate case: it *)
(* may append a row and consumes only the row of the reservation it swept  *)
(* with, which Links shows to be the newest one.  The same link gives the  *)
(* rules about steps: a continuation whose row is in play resumed at the   *)
(* cursor or past it, so what it stores is further on, and of a chain that *)
(* gave up no row is in play.                                              *)
(***************************************************************************)

(* What holds of one admission row, whatever the others are.               *)
RowOrderly(row, rn) ==
  /\ row.consumed => row.res # "held"
  /\ row.res \in {"held", "lapsed"} => row.status = "admitted"
  /\ row.status = "waiting" => row.res = "none"
  /\ row.consumed /\ row.res = "lapsed" => rn[row.run].status = "complete"

OlderConsumed(ad) ==
  \A a, b \in DOMAIN ad : a < b /\ ad[a].run = ad[b].run => ad[a].consumed

Orderly(ad, rn) ==
  /\ ad \in Seq(AdmissionRow) /\ OlderConsumed(ad)
  /\ \A a \in DOMAIN ad : RowOrderly(ad[a], rn)

(* The chain that owns the cursor has used up its cycles.                  *)
GaveUp == root.owner # NoRun /\ root.failures >= MaxFailures

(* Rows are kept, never change their run or kind, and once consumed remain *)
(* so; and a chain that gave up gets no other.                             *)
Grows(ad, new) ==
  /\ DOMAIN ad \subseteq DOMAIN new
  /\ \A a \in DOMAIN ad : /\ new[a].run = ad[a].run /\ new[a].kind = ad[a].kind
                          /\ ad[a].consumed => new[a].consumed
  /\ GaveUp => Continuations(new, root.owner) \subseteq Continuations(ad, root.owner)

(* A complete run stays complete.                                          *)
StaysComplete(rn, new) ==
  \A r \in RunIds : rn[r].status = "complete" => new[r].status = "complete"

(* A chain belongs to a run that has published.                            *)
OwnerIsDone(rt, rn) == rt.owner # NoRun => rn[rt.owner].status = "complete"

(* A cursor has an owner, and of a chain that gave up no row is in play.   *)
ChainOver(rt, ad) ==
  /\ rt.owner = NoRun => rt.cursor = Unswept
  /\ rt.owner # NoRun /\ rt.failures >= MaxFailures =>
       \A a \in Continuations(ad, rt.owner) : ad[a].consumed

(* Where a delivery can go on from a step that names no reservation.       *)
Onward == ExecSteps \ {"sweep", "release"}

(* The steps only a continuation takes.                                    *)
Chained == {"noProgress", "requeue"}

Deliveries ==
  [job : JobIds, att : 1..MaxAttempts, run : RunIds, pc : ExecSteps, adm : Nat,
   base : Nat, cont : BOOLEAN, res : Nat, live : BOOLEAN, seen : Nat,
   next : Onward, attached : BOOLEAN]

(* The rows a delivery names are its run's, and a continuation sweeps with *)
(* its own row's reservation unless that was past its hour.  As long as    *)
(* its row is in play, nobody has moved the cursor past where it resumed.  *)
Links(e, ad, rt) ==
  /\ e.adm # NoRow => e.adm \in DOMAIN ad /\ ad[e.adm].run = e.run
  /\ e.pc \in {"sweep", "release"} => e.res \in DOMAIN ad /\ ad[e.res].run = e.run
  /\ e.cont => e.adm # NoRow /\ ad[e.adm].kind = "continuation"
  /\ e.pc = "sweep" /\ e.cont /\ e.live => e.res = e.adm
  /\ e.cont /\ ~ad[e.adm].consumed /\ rt.owner = e.run => rt.cursor <= e.seen
  /\ e.pc \in Chained => e.cont
  /\ e.pc = "release" /\ e.next \in Chained => e.cont

Executing(ex, ad, rt) == ex \subseteq Deliveries /\ \A e \in ex : Links(e, ad, rt)

(* A job's key names a row of its run.                                     *)
Keys == RunIds \X Nat

Keyed(q, ad) ==
  /\ q \in [JobIds -> Job(Keys)]
  /\ \A j \in JobIds : q[j].key[2] # NoRow =>
       q[j].key[2] \in DOMAIN ad /\ ad[q[j].key[2]].run = q[j].key[1]

Dispatch == [pc : {"idle", "admit", "send", "mark"}, run : RunIds, adm : Nat, attached : BOOLEAN]
Root == [cursor : Nat, owner : RunIds \cup {NoRun}, failures : Nat, recent : BOOLEAN]

SweepIInv ==
  /\ run \in [RunIds -> RunRow] /\ root \in Root /\ disp \in Dispatch
  /\ Orderly(adm, run) /\ OwnerIsDone(root, run) /\ ChainOver(root, adm)
  /\ Keyed(jobs, adm) /\ Executing(exec, adm, root)

(* A step that keeps it.                                                   *)
Moved ==
  SweepIInv' /\ Grows(adm, adm') /\ CursorAdvances /\ SupersededMovesNothing

(* What a step may make of a row.                                          *)
RowFollows(old, row, rn) ==
  /\ row.run = old.run /\ row.kind = old.kind
  /\ old.consumed => row.consumed
  /\ RowOrderly(row, rn)

(* Rows changed one by one.                                                *)
LEMMA RowByRow ==
  ASSUME NEW ad, NEW rn, NEW nad, Orderly(ad, rn),
         nad \in [DOMAIN ad -> AdmissionRow],
         \A a \in DOMAIN ad : RowFollows(ad[a], nad[a], rn)
  PROVE  Orderly(nad, rn) /\ Grows(ad, nad)
<1>1. ad \in Seq(AdmissionRow)
  BY DEF Orderly
<1>2. Len(ad) \in Nat /\ DOMAIN ad = 1 .. Len(ad)
  BY <1>1
<1>3. nad \in Seq(AdmissionRow)
  BY <1>2
<1>4. DOMAIN nad = DOMAIN ad
  OBVIOUS
<1>5. OlderConsumed(nad)
  BY <1>4 DEF Orderly, OlderConsumed, RowFollows
<1> QED BY <1>3, <1>4, <1>5 DEF Orderly, Grows, RowFollows, Continuations, Rows

(* One row changed.                                                        *)
LEMMA OneRow ==
  ASSUME NEW ad, NEW rn, NEW a, NEW row, Orderly(ad, rn), a \in DOMAIN ad,
         row \in AdmissionRow, row.run = ad[a].run, row.kind = ad[a].kind,
         ad[a].consumed => row.consumed, RowOrderly(row, rn)
  PROVE  /\ Orderly([ad EXCEPT ![a] = row], rn) /\ Grows(ad, [ad EXCEPT ![a] = row])
         /\ DOMAIN [ad EXCEPT ![a] = row] = DOMAIN ad
         /\ [ad EXCEPT ![a] = row][a] = row
         /\ \A b \in DOMAIN ad : b # a => [ad EXCEPT ![a] = row][b] = ad[b]
<1> DEFINE new == [ad EXCEPT ![a] = row]
<1>1. ad \in Seq(AdmissionRow)
  BY DEF Orderly
<1>2. new \in [DOMAIN ad -> AdmissionRow]
  BY <1>1
<1>3. new[a] = row /\ \A b \in DOMAIN ad : b # a => new[b] = ad[b]
  OBVIOUS
<1>4. \A b \in DOMAIN ad : RowOrderly(ad[b], rn)
  BY DEF Orderly
<1> HIDE DEF new
<1>5. Orderly(new, rn) /\ Grows(ad, new)
  BY <1>2, <1>3, <1>4, RowByRow DEF RowFollows
<1> QED BY <1>2, <1>3, <1>5 DEF new

(* A row appended to a run whose rows are consumed.                        *)
LEMMA Appended ==
  ASSUME NEW ad, NEW rn, NEW row, Orderly(ad, rn), row \in AdmissionRow, RowOrderly(row, rn),
         \A a \in DOMAIN ad : ad[a].run = row.run => ad[a].consumed,
         ~(GaveUp /\ row.run = root.owner /\ row.kind = "continuation")
  PROVE  /\ Orderly(Append(ad, row), rn) /\ Grows(ad, Append(ad, row))
         /\ DOMAIN Append(ad, row) = DOMAIN ad \cup {Len(ad) + 1}
         /\ Append(ad, row)[Len(ad) + 1] = row
         /\ \A a \in DOMAIN ad : Append(ad, row)[a] = ad[a] /\ a < Len(ad) + 1
<1> DEFINE new == Append(ad, row)
<1>1. ad \in Seq(AdmissionRow)
  BY DEF Orderly
<1>2. Len(ad) \in Nat /\ DOMAIN ad = 1 .. Len(ad)
  BY <1>1
<1>3. new \in Seq(AdmissionRow) /\ Len(new) = Len(ad) + 1
  BY <1>1
<1>4. new[Len(ad) + 1] = row /\ \A a \in DOMAIN ad : new[a] = ad[a] /\ a < Len(ad) + 1
  BY <1>1, <1>2
<1>5. DOMAIN new = DOMAIN ad \cup {Len(ad) + 1}
  BY <1>2, <1>3
<1> HIDE DEF new
<1>6. OlderConsumed(new)
  BY <1>2, <1>4, <1>5 DEF Orderly, OlderConsumed
<1>7. \A a \in DOMAIN new : RowOrderly(new[a], rn)
  BY <1>4, <1>5 DEF Orderly
<1>8. Orderly(new, rn) /\ Grows(ad, new)
  BY <1>3, <1>4, <1>5, <1>6, <1>7 DEF Orderly, Grows, Continuations, Rows
<1> QED BY <1>4, <1>5, <1>8 DEF new

(* Every set of naturals that is not empty has a least element.            *)
LEMMA Least ==
  ASSUME NEW T \in SUBSET Nat, T # {}
  PROVE  \E x \in T : \A y \in T : x <= y
<1>1. IsWellFoundedOn(OpToRel(<, Nat), Nat)
  BY NatLessThanWellFounded
<1>2. PICK x \in T : \A y \in T : ~(<<y, x>> \in OpToRel(<, Nat))
  BY <1>1, WFMin
<1>3. ASSUME NEW y \in T PROVE x <= y
  <2>1. x \in Nat /\ y \in Nat
    OBVIOUS
  <2>2. <<y, x>> \in OpToRel(<, Nat) <=> y < x
    BY <2>1 DEF OpToRel
  <2>3. ~(y < x)
    BY <1>2, <2>2, Zenon
  <2> QED BY <2>1, <2>3
<1> QED BY <1>3

(* The first and the last of some rows are among them.                     *)
LEMMA FirstIsOne ==
  ASSUME NEW n \in Nat, NEW T \in SUBSET (1 .. n), T # {}
  PROVE  First(T) \in T
<1>1. \E x \in T : \A y \in T : x <= y
  BY Least
<1> QED BY <1>1, Zenon DEF First

LEMMA LastIsOne ==
  ASSUME NEW n \in Nat, NEW T \in SUBSET (1 .. n), T # {}
  PROVE  Last(T) \in T /\ \A y \in T : y <= Last(T)
<1> DEFINE Flipped == {n - y : y \in T}
<1>1. Flipped \in SUBSET Nat /\ Flipped # {}
  OBVIOUS
<1>2. PICK z \in Flipped : \A y \in Flipped : z <= y
  <2> HIDE DEF Flipped
  <2> QED BY <1>1, Least
<1>3. PICK x \in T : z = n - x
  BY <1>2
<1>4. \A y \in T : n - x <= n - y
  BY <1>2, <1>3
<1>5. \A y \in T : y <= x
  BY <1>4
<1>6. \E m \in T : \A y \in T : y <= m
  BY <1>5
<1> QED BY <1>6, Zenon DEF Last

(* A granted row was waiting.                                              *)
LEMMA GrantedKeeps ==
  ASSUME NEW ad, NEW rn, NEW a, Orderly(ad, rn), a \in DOMAIN ad,
         ad[a].status = "waiting", ~ad[a].consumed
  PROVE  /\ Orderly(Granted(ad, a), rn) /\ Grows(ad, Granted(ad, a))
         /\ DOMAIN Granted(ad, a) = DOMAIN ad
         /\ Granted(ad, a)[a].status = "admitted" /\ Granted(ad, a)[a].res = "held"
         /\ Granted(ad, a)[a].consumed = FALSE /\ Granted(ad, a)[a].dispatched = FALSE
         /\ Granted(ad, a)[a].job = ad[a].job
<1> DEFINE row == [ad[a] EXCEPT !.status = "admitted", !.dispatched = FALSE, !.res = "held"]
<1>0. ad[a] \in AdmissionRow
  BY DEF Orderly
<1>1. ad[a] \in AdmissionRow /\ ad[a].consumed \in BOOLEAN
  BY <1>0 DEF AdmissionRow
<1>2. /\ row \in AdmissionRow /\ row.run = ad[a].run /\ row.kind = ad[a].kind
      /\ row.consumed = ad[a].consumed /\ row.status = "admitted" /\ row.res = "held"
      /\ row.dispatched = FALSE /\ row.job = ad[a].job
  BY <1>1 DEF AdmissionRow
<1>3. Granted(ad, a) = [ad EXCEPT ![a] = row]
  BY DEF Granted
<1>4. row.consumed = FALSE
  BY <1>1, <1>2
<1> HIDE DEF row
<1>5. RowOrderly(row, rn)
  BY <1>2, <1>4 DEF RowOrderly
<1>6. /\ Orderly([ad EXCEPT ![a] = row], rn) /\ Grows(ad, [ad EXCEPT ![a] = row])
      /\ DOMAIN [ad EXCEPT ![a] = row] = DOMAIN ad
      /\ [ad EXCEPT ![a] = row][a] = row
  BY <1>2, <1>4, <1>5, OneRow
<1> DEFINE gd == [ad EXCEPT ![a] = row]
<1> HIDE DEF gd
<1>7. Granted(ad, a) = gd
  BY <1>3 DEF gd
<1>8. Orderly(gd, rn) /\ Grows(ad, gd) /\ DOMAIN gd = DOMAIN ad /\ gd[a] = row
  BY <1>6 DEF gd
<1> QED BY <1>2, <1>4, <1>7, <1>8

(* One more field of a row; the row keeps what the argument looks at.      *)
Rebinds(old, row) ==
  /\ row \in AdmissionRow /\ row.run = old.run /\ row.kind = old.kind
  /\ row.consumed = old.consumed /\ row.status = old.status /\ row.res = old.res

LEMMA BoundRow ==
  ASSUME NEW old \in AdmissionRow, NEW j \in JobIds, NEW t \in 1 .. MaxAttempts, NEW b \in Nat
  PROVE  /\ Rebinds(old, [old EXCEPT !.job = j, !.att = t, !.base = b, !.dispatched = TRUE])
         /\ Rebinds(old, [old EXCEPT !.job = j, !.att = t, !.dispatched = TRUE])
<1>1. \A row \in AdmissionRow : Rebinds(row, [row EXCEPT !.job = j])
  BY DEF AdmissionRow, Rebinds
<1>2. \A row \in AdmissionRow : Rebinds(row, [row EXCEPT !.att = t])
  BY JobQueueAssumption DEF AdmissionRow, Rebinds
<1>3. \A row \in AdmissionRow : Rebinds(row, [row EXCEPT !.base = b])
  BY DEF AdmissionRow, Rebinds
<1>4. \A row \in AdmissionRow : Rebinds(row, [row EXCEPT !.dispatched = TRUE])
  BY DEF AdmissionRow, Rebinds
<1>5. \A r1, r2, r3 : Rebinds(r1, r2) /\ Rebinds(r2, r3) => Rebinds(r1, r3)
  BY DEF Rebinds
<1>6. \A row : Rebinds(old, row) => row \in AdmissionRow
  BY DEF Rebinds
<1> DEFINE r1 == [old EXCEPT !.job = j]
           r2 == [r1 EXCEPT !.att = t]
           r3 == [r2 EXCEPT !.base = b]
<1>7. Rebinds(old, r1)
  BY <1>1
<1>8. Rebinds(old, r2)
  <2> HIDE DEF r1
  <2> QED BY <1>2, <1>5, <1>6, <1>7
<1>9. Rebinds(old, r3)
  <2> HIDE DEF r2
  <2> QED BY <1>3, <1>5, <1>6, <1>8
<1>10. Rebinds(old, [r3 EXCEPT !.dispatched = TRUE])
  <2> HIDE DEF r3
  <2> QED BY <1>4, <1>5, <1>6, <1>9
<1>11. Rebinds(old, [r2 EXCEPT !.dispatched = TRUE])
  <2> HIDE DEF r2
  <2> QED BY <1>4, <1>5, <1>6, <1>8
<1> QED BY <1>10, <1>11, Zenon

(* A row bound to a delivery.                                              *)
LEMMA BoundKeeps ==
  ASSUME NEW ad, NEW rn, NEW e \in Deliveries, Orderly(ad, rn), Rows(ad, e.run) # {}
  PROVE  /\ Orderly(Bind(e, ad).adm, rn) /\ Grows(ad, Bind(e, ad).adm)
         /\ DOMAIN Bind(e, ad).adm = DOMAIN ad
         /\ \/ Bind(e, ad).row = e.adm
            \/ /\ Bind(e, ad).row \in Rows(ad, e.run)
               /\ \A b \in Rows(ad, e.run) : b <= Bind(e, ad).row
               /\ ad[Bind(e, ad).row].job = NoJob
         /\ \A a \in Rows(ad, e.run) :
              /\ \A b \in Rows(ad, e.run) : b <= a
              /\ ad[a].status = "admitted" /\ ~ad[a].consumed
              /\ ad[a].job = NoJob /\ ~ad[a].dispatched
              => Bind(e, ad).row = a
<1> DEFINE a == Last(Rows(ad, e.run))
           row == [ad[a] EXCEPT !.job = e.job, !.att = e.att, !.base = e.base,
                                !.dispatched = TRUE]
<1>1. Len(ad) \in Nat /\ DOMAIN ad = 1 .. Len(ad) /\ Rows(ad, e.run) \in SUBSET (1 .. Len(ad))
  BY DEF Orderly, Rows
<1>2. a \in Rows(ad, e.run) /\ \A b \in Rows(ad, e.run) : b <= a
  BY <1>1, LastIsOne
<1>3. ad[a] \in AdmissionRow /\ a \in DOMAIN ad /\ RowOrderly(ad[a], rn)
  BY <1>2 DEF Orderly, Rows
<1>4. \A b \in Rows(ad, e.run) : b \in Nat
  BY <1>1
<1>5. \A b \in Rows(ad, e.run) : (\A c \in Rows(ad, e.run) : c <= b) => b = a
  BY <1>2, <1>4
<1>6. CASE ~(/\ ad[a].status = "admitted" /\ ~ad[a].consumed
             /\ ad[a].job = NoJob /\ ~ad[a].dispatched)
  <2>1. Bind(e, ad) = [adm |-> ad, row |-> e.adm]
    BY <1>6 DEF Bind
  <2>2. Grows(ad, ad)
    BY DEF Grows
  <2> QED BY <1>5, <1>6, <2>1, <2>2
<1>7. CASE /\ ad[a].status = "admitted" /\ ~ad[a].consumed
           /\ ad[a].job = NoJob /\ ~ad[a].dispatched
  <2>1. Bind(e, ad) = [adm |-> [ad EXCEPT ![a] = row], row |-> a]
    BY <1>7 DEF Bind
  <2>2. e.job \in JobIds /\ e.att \in 1 .. MaxAttempts /\ e.base \in Nat
    BY DEF Deliveries
  <2>3. /\ row \in AdmissionRow /\ row.run = ad[a].run /\ row.kind = ad[a].kind
        /\ row.consumed = ad[a].consumed /\ row.status = ad[a].status /\ row.res = ad[a].res
    <3> HIDE DEF a
    <3>1. Rebinds(ad[a], row)
      BY <1>3, <2>2, BoundRow
    <3> HIDE DEF row
    <3> QED BY <3>1 DEF Rebinds
  <2> HIDE DEF row
  <2>4. RowOrderly(row, rn)
    BY <1>3, <2>3 DEF RowOrderly
  <2>5. Orderly([ad EXCEPT ![a] = row], rn) /\ Grows(ad, [ad EXCEPT ![a] = row])
        /\ DOMAIN [ad EXCEPT ![a] = row] = DOMAIN ad
    <3> HIDE DEF a
    <3> QED BY <1>3, <2>3, <2>4, OneRow
  <2> QED BY <1>2, <1>5, <1>7, <2>1, <2>5
<1> QED BY <1>6, <1>7

(* A step of the runs leaves the rows in order.                            *)
LEMMA RunsMoveOn ==
  ASSUME NEW ad, NEW rn, NEW nrn, Orderly(ad, rn), StaysComplete(rn, nrn)
  PROVE  Orderly(ad, nrn)
<1>1. \A a \in DOMAIN ad : ad[a] \in AdmissionRow
  BY DEF Orderly
<1>2. \A a \in DOMAIN ad : ad[a].run \in RunIds
  BY <1>1 DEF AdmissionRow
<1> QED BY <1>2 DEF Orderly, StaysComplete, RowOrderly

LEMMA GrowsOn ==
  /\ \A ad : Grows(ad, ad)
  /\ \A a, b, c : Grows(a, b) /\ Grows(b, c) => Grows(a, c)
BY DEF Grows

(* A row of the run, consumed.                                             *)
LEMMA AllConsumed ==
  ASSUME NEW ad, NEW rn, NEW r \in RunIds, Orderly(ad, rn),
         \A a \in Rows(ad, r) :
           ad[a].res # "held" /\ (ad[a].res = "lapsed" => rn[r].status = "complete")
  PROVE  /\ Orderly(ConsumeAll(ad, r), rn) /\ Grows(ad, ConsumeAll(ad, r))
         /\ DOMAIN ConsumeAll(ad, r) = DOMAIN ad
         /\ \A a \in DOMAIN ad : ad[a].run = r => ConsumeAll(ad, r)[a].consumed
<1> DEFINE nad == ConsumeAll(ad, r)
<1>1. DOMAIN nad = DOMAIN ad
  BY DEF ConsumeAll
<1>2. \A a \in DOMAIN ad :
        nad[a] = IF ad[a].run = r THEN [ad[a] EXCEPT !.consumed = TRUE] ELSE ad[a]
  BY DEF ConsumeAll
<1>3. \A row \in AdmissionRow :
        LET new == [row EXCEPT !.consumed = TRUE]
        IN  /\ new \in AdmissionRow /\ new.run = row.run /\ new.kind = row.kind
            /\ new.consumed = TRUE /\ new.status = row.status /\ new.res = row.res
  BY DEF AdmissionRow
<1>4. \A a \in DOMAIN ad : ad[a] \in AdmissionRow /\ RowOrderly(ad[a], rn)
  BY DEF Orderly
<1>5. nad = [a \in DOMAIN nad |-> nad[a]]
  BY DEF ConsumeAll
<1> HIDE DEF nad
<1>6. ASSUME NEW a \in DOMAIN ad
      PROVE  nad[a] \in AdmissionRow /\ RowFollows(ad[a], nad[a], rn)
             /\ (ad[a].run = r => nad[a].consumed)
  <2>1. CASE ad[a].run # r
    <3>1. nad[a] = ad[a]
      BY <1>2, <2>1
    <3> QED BY <1>4, <2>1, <3>1 DEF RowFollows
  <2>2. CASE ad[a].run = r
    <3>1. nad[a] = [ad[a] EXCEPT !.consumed = TRUE]
      BY <1>2, <2>2
    <3>2. /\ nad[a] \in AdmissionRow /\ nad[a].run = r /\ nad[a].kind = ad[a].kind
          /\ nad[a].consumed = TRUE /\ nad[a].status = ad[a].status /\ nad[a].res = ad[a].res
      BY <1>3, <1>4, <2>2, <3>1
    <3>3. ad[a].res # "held" /\ (ad[a].res = "lapsed" => rn[r].status = "complete")
      BY <2>2 DEF Rows
    <3>4. RowOrderly(nad[a], rn)
      BY <1>4, <3>2, <3>3 DEF RowOrderly
    <3> QED BY <2>2, <3>2, <3>4 DEF RowFollows
  <2> QED BY <2>1, <2>2
<1>7. nad \in [DOMAIN ad -> AdmissionRow]
  BY <1>1, <1>5, <1>6
<1>8. Orderly(nad, rn) /\ Grows(ad, nad)
  BY <1>6, <1>7, RowByRow
<1> QED BY <1>1, <1>6, <1>8 DEF nad

(* A new row waits, unbound and without a reservation.                     *)
NewlyWaits(row, r, k) ==
  /\ row \in AdmissionRow /\ row.run = r /\ row.kind = k
  /\ row.status = "waiting" /\ row.consumed = FALSE /\ row.res = "none"
  /\ row.job = NoJob /\ row.dispatched = FALSE

LEMMA NewRowWaits ==
  ASSUME run \in [RunIds -> RunRow]
  PROVE  \A r \in RunIds, k \in {"ordinary", "continuation"}, w \in {"now", "later", "due"},
            l \in BOOLEAN : NewlyWaits(NewRow(r, k, w, l), r, k)
<1>1. ASSUME NEW r \in RunIds, NEW k \in {"ordinary", "continuation"},
             NEW w \in {"now", "later", "due"}, NEW l \in BOOLEAN
      PROVE  NewlyWaits(NewRow(r, k, w, l), r, k)
  <2>1. run[r] \in RunRow
    OBVIOUS
  <2>2. run[r].attempt \in Nat
    BY <2>1 DEF RunRow
  <2>3. 0 \in 0 .. MaxAttempts
    BY JobQueueAssumption
  <2> QED BY <2>2, <2>3 DEF NewRow, AdmissionRow, NewlyWaits
<1> QED BY <1>1

(* Another row for a run none of whose rows holds budget.                  *)
LEMMA AnotherRow ==
  ASSUME NEW ad, NEW rn, NEW r \in RunIds, Orderly(ad, rn), run \in [RunIds -> RunRow],
         NEW k \in {"ordinary", "continuation"}, NEW w \in {"now", "later", "due"},
         NEW l \in BOOLEAN,
         \A a \in Rows(ad, r) :
           ad[a].res # "held" /\ (ad[a].res = "lapsed" => rn[r].status = "complete"),
         ~(GaveUp /\ r = root.owner /\ k = "continuation")
  PROVE  LET nad == Append(ConsumeAll(ad, r), NewRow(r, k, w, l))
         IN  /\ Orderly(nad, rn) /\ Grows(ad, nad)
             /\ Len(ad) + 1 \in DOMAIN nad /\ nad[Len(ad) + 1] = NewRow(r, k, w, l)
             /\ \A a \in DOMAIN nad : nad[a].run = r => a <= Len(ad) + 1
<1> DEFINE row == NewRow(r, k, w, l)
           all == ConsumeAll(ad, r)
           nad == Append(all, row)
<1>1. /\ row \in AdmissionRow /\ row.run = r /\ row.consumed = FALSE
      /\ row.status = "waiting" /\ row.res = "none" /\ row.kind = k
  <2>1. NewlyWaits(row, r, k)
    BY NewRowWaits
  <2> HIDE DEF row
  <2> QED BY <2>1 DEF NewlyWaits
<1>2. /\ Orderly(all, rn) /\ Grows(ad, all) /\ DOMAIN all = DOMAIN ad
      /\ \A a \in DOMAIN ad : ad[a].run = r => all[a].consumed
  BY AllConsumed
<1>3. Len(all) = Len(ad)
  <2>1. ad \in Seq(AdmissionRow) /\ all \in Seq(AdmissionRow)
    BY <1>2 DEF Orderly
  <2> HIDE DEF all
  <2> QED BY <1>2, <2>1
<1> HIDE DEF row, all
<1>0. RowOrderly(row, rn)
  BY <1>1 DEF RowOrderly
<1>4. \A a \in DOMAIN all : all[a].run = row.run => all[a].consumed
  BY <1>1, <1>2 DEF Grows
<1>5. /\ Orderly(nad, rn) /\ Grows(all, nad)
      /\ DOMAIN nad = DOMAIN all \cup {Len(all) + 1} /\ nad[Len(all) + 1] = row
      /\ \A a \in DOMAIN all : nad[a] = all[a] /\ a < Len(all) + 1
  BY <1>0, <1>1, <1>2, <1>4, Appended
<1> HIDE DEF nad
<1>6. Len(ad) \in Nat
  <2>1. ad \in Seq(AdmissionRow)
    BY DEF Orderly
  <2> QED BY <2>1
<1>7. Grows(ad, nad)
  BY <1>2, <1>5, GrowsOn
<1>8. \A a \in DOMAIN nad : a \in Nat /\ (a = Len(ad) + 1 \/ a < Len(ad) + 1)
  <2>1. ad \in Seq(AdmissionRow)
    BY DEF Orderly
  <2> QED BY <1>2, <1>3, <1>5, <1>6, <2>1
<1> QED BY <1>3, <1>5, <1>6, <1>7, <1>8 DEF nad, all, row

(* What deliveries and keys name stays there.                              *)
LEMMA LinksStay ==
  ASSUME NEW e, NEW ad, NEW nad, NEW rt, Links(e, ad, rt), Grows(ad, nad)
  PROVE  Links(e, nad, rt)
BY DEF Links, Grows

(* Only the cursor of the root and its owner matter to them.               *)
LEMMA SameCursor ==
  ASSUME NEW e, NEW ad, NEW rt, NEW nrt, Links(e, ad, rt),
         nrt.cursor = rt.cursor, nrt.owner = rt.owner
  PROVE  Links(e, ad, nrt)
BY DEF Links

(* A chain that is over stays so, and a root that keeps its cursor moves   *)
(* nothing.                                                                *)
LEMMA ChainStays ==
  ASSUME NEW ad, NEW nad, ChainOver(root, ad), Grows(ad, nad)
  PROVE  ChainOver(root, nad)
BY DEF ChainOver, Grows, GaveUp, Continuations, Rows

LEMMA CursorStays ==
  ASSUME root \in Root, root'.cursor = root.cursor, root'.owner = root.owner
  PROVE  CursorAdvances /\ SupersededMovesNothing
BY DEF Root, CursorAdvances, SupersededMovesNothing

LEMMA KeysStay ==
  ASSUME NEW q, NEW ad, NEW nad, Keyed(q, ad), Grows(ad, nad)
  PROVE  Keyed(q, nad)
BY DEF Keyed, Grows

(* A delivery, by what Links looks at.                                     *)
Is(f, pc, a, r, cont, res, live, seen, next) ==
  /\ f \in Deliveries /\ f.pc = pc /\ f.adm = a /\ f.run = r
  /\ f.cont = cont /\ f.res = res /\ f.live = live /\ f.seen = seen /\ f.next = next

LEMMA FieldByField ==
  \A f \in Deliveries :
    /\ Is(f, f.pc, f.adm, f.run, f.cont, f.res, f.live, f.seen, f.next)
    /\ \A v \in ExecSteps :
           Is([f EXCEPT !.pc = v], v, f.adm, f.run, f.cont, f.res, f.live, f.seen, f.next)
    /\ \A v \in Nat :
           Is([f EXCEPT !.adm = v], f.pc, v, f.run, f.cont, f.res, f.live, f.seen, f.next)
    /\ \A v \in BOOLEAN :
           Is([f EXCEPT !.cont = v], f.pc, f.adm, f.run, v, f.res, f.live, f.seen, f.next)
    /\ \A v \in Nat :
           Is([f EXCEPT !.res = v], f.pc, f.adm, f.run, f.cont, v, f.live, f.seen, f.next)
    /\ \A v \in BOOLEAN :
           Is([f EXCEPT !.live = v], f.pc, f.adm, f.run, f.cont, f.res, v, f.seen, f.next)
    /\ \A v \in Nat :
           Is([f EXCEPT !.base = v], f.pc, f.adm, f.run, f.cont, f.res, f.live, f.seen, f.next)
    /\ \A v \in Nat :
           Is([f EXCEPT !.seen = v], f.pc, f.adm, f.run, f.cont, f.res, f.live, v, f.next)
    /\ \A v \in Onward :
           Is([f EXCEPT !.next = v], f.pc, f.adm, f.run, f.cont, f.res, f.live, f.seen, v)
    /\ \A v \in BOOLEAN :
           Is([f EXCEPT !.attached = v], f.pc, f.adm, f.run, f.cont, f.res, f.live, f.seen, f.next)
<1> TAKE f \in Deliveries
<1>1. Is(f, f.pc, f.adm, f.run, f.cont, f.res, f.live, f.seen, f.next)
  BY DEF Is
<1>2. \A v \in ExecSteps :
       Is([f EXCEPT !.pc = v], v, f.adm, f.run, f.cont, f.res, f.live, f.seen, f.next)
  BY DEF Deliveries, Is
<1>3. \A v \in Nat :
       Is([f EXCEPT !.adm = v], f.pc, v, f.run, f.cont, f.res, f.live, f.seen, f.next)
  BY DEF Deliveries, Is
<1>4. \A v \in BOOLEAN :
       Is([f EXCEPT !.cont = v], f.pc, f.adm, f.run, v, f.res, f.live, f.seen, f.next)
  BY DEF Deliveries, Is
<1>5. \A v \in Nat :
       Is([f EXCEPT !.res = v], f.pc, f.adm, f.run, f.cont, v, f.live, f.seen, f.next)
  BY DEF Deliveries, Is
<1>6. \A v \in BOOLEAN :
       Is([f EXCEPT !.live = v], f.pc, f.adm, f.run, f.cont, f.res, v, f.seen, f.next)
  BY DEF Deliveries, Is
<1>7. \A v \in Nat :
       Is([f EXCEPT !.base = v], f.pc, f.adm, f.run, f.cont, f.res, f.live, f.seen, f.next)
  BY DEF Deliveries, Is
<1>8. \A v \in Nat :
       Is([f EXCEPT !.seen = v], f.pc, f.adm, f.run, f.cont, f.res, f.live, v, f.next)
  BY DEF Deliveries, Is
<1>9. \A v \in Onward :
       Is([f EXCEPT !.next = v], f.pc, f.adm, f.run, f.cont, f.res, f.live, f.seen, v)
  BY DEF Deliveries, Is
<1>10. \A v \in BOOLEAN :
       Is([f EXCEPT !.attached = v], f.pc, f.adm, f.run, f.cont, f.res, f.live, f.seen, f.next)
  BY DEF Deliveries, Is
<1> QED BY <1>1, <1>2, <1>3, <1>4, <1>5, <1>6, <1>7, <1>8, <1>9, <1>10

(* An execution that has ended names nothing.                              *)
LEMMA EndedNamesNothing ==
  ASSUME NEW f \in Deliveries, NEW ad, NEW rt, f.pc \in {"return", "throw"}
  PROVE  Ended(f) \in Deliveries /\ Links(Ended(f), ad, rt) /\ Ended(f).pc = f.pc
<1> DEFINE f1 == [f EXCEPT !.adm = NoRow]
           f2 == [f1 EXCEPT !.base = 0]
           f3 == [f2 EXCEPT !.cont = FALSE]
           f4 == [f3 EXCEPT !.res = NoRow]
           f5 == [f4 EXCEPT !.live = FALSE]
           f6 == [f5 EXCEPT !.seen = Unswept]
           f7 == [f6 EXCEPT !.next = "return"]
<1>0. NoRow \in Nat /\ Unswept \in Nat /\ "return" \in Onward
  BY DEF NoRow, Unswept, ExecSteps, Onward
<1>1. Is(f1, f.pc, NoRow, f.run, f.cont, f.res, f.live, f.seen, f.next)
  BY <1>0, FieldByField
<1>2. Is(f2, f.pc, NoRow, f.run, f.cont, f.res, f.live, f.seen, f.next)
  <2> HIDE DEF f1
  <2> QED BY <1>1, FieldByField DEF Is
<1>3. Is(f3, f.pc, NoRow, f.run, FALSE, f.res, f.live, f.seen, f.next)
  <2> HIDE DEF f2
  <2> QED BY <1>2, FieldByField DEF Is
<1>4. Is(f4, f.pc, NoRow, f.run, FALSE, NoRow, f.live, f.seen, f.next)
  <2> HIDE DEF f3
  <2> QED BY <1>0, <1>3, FieldByField DEF Is
<1>5. Is(f5, f.pc, NoRow, f.run, FALSE, NoRow, FALSE, f.seen, f.next)
  <2> HIDE DEF f4
  <2> QED BY <1>4, FieldByField DEF Is
<1>6. Is(f6, f.pc, NoRow, f.run, FALSE, NoRow, FALSE, Unswept, f.next)
  <2> HIDE DEF f5
  <2> QED BY <1>0, <1>5, FieldByField DEF Is
<1>7. Is(f7, f.pc, NoRow, f.run, FALSE, NoRow, FALSE, Unswept, "return")
  <2> HIDE DEF f6
  <2> QED BY <1>0, <1>6, FieldByField DEF Is
<1>8. Ended(f) = f7
  BY Zenon DEF Ended
<1> HIDE DEF f7
<1>9. f7 \in Deliveries /\ Links(f7, ad, rt) /\ f7.pc = f.pc
  BY <1>7 DEF Is, Links, Chained
<1> QED BY <1>8, <1>9

(* Every change of exec but those of Fetch, Settle and Expire.             *)
LEMMA BecomeAs ==
  ASSUME NEW e, NEW f \in Deliveries, NEW nad, NEW rt, exec \subseteq Deliveries,
         \A g \in exec : Links(g, nad, rt), Links(f, nad, rt), Become(e, f)
  PROVE  Executing(exec', nad, rt) /\ (e.pc = "sweep" /\ f.pc # "sweep" => e \notin exec')
<1>1. \A g \in exec : g \in Deliveries /\ Links(g, nad, rt)
  OBVIOUS
<1>2. f.pc \in {"return", "throw"} =>
        /\ Ended(f) \in Deliveries /\ Links(Ended(f), nad, rt) /\ Ended(f).pc = f.pc
  BY EndedNamesNothing
<1>3. \A g \in exec' : \/ g \in exec /\ g # e
                       \/ g = f
                       \/ f.pc \in {"return", "throw"} /\ g = Ended(f)
  BY DEF Become
<1>4. Executing(exec', nad, rt)
  BY <1>1, <1>2, <1>3 DEF Executing
<1>5. ASSUME e.pc = "sweep", f.pc # "sweep", e \in exec' PROVE FALSE
  BY <1>2, <1>3, <1>5
<1> QED BY <1>4, <1>5

LEMMA BecomeKeeps ==
  ASSUME NEW e, NEW f \in Deliveries, NEW nad, Executing(exec, adm, root), Grows(adm, nad),
         Links(f, nad, root), Become(e, f)
  PROVE  Executing(exec', nad, root)
<1>1. exec \subseteq Deliveries /\ \A g \in exec : Links(g, nad, root)
  BY LinksStay DEF Executing
<1> QED BY <1>1, BecomeAs

(* A row given up.                                                         *)
LEMMA GivenUpRow ==
  \A old \in AdmissionRow :
    /\ GivenUp(old) \in AdmissionRow /\ GivenUp(old).run = old.run
    /\ GivenUp(old).kind = old.kind /\ GivenUp(old).consumed = TRUE
    /\ GivenUp(old).status = old.status /\ GivenUp(old).res = ReleaseRes(old.res)
<1> TAKE old \in AdmissionRow
<1>1. ReleaseRes(old.res) \in {"none", "held", "lapsed", "released"}
  BY DEF ReleaseRes
<1> DEFINE mid == [old EXCEPT !.consumed = TRUE]
           row == [mid EXCEPT !.res = ReleaseRes(old.res)]
<1>2. /\ mid \in AdmissionRow /\ mid.run = old.run /\ mid.kind = old.kind
      /\ mid.consumed = TRUE /\ mid.status = old.status
  BY DEF AdmissionRow
<1>3. /\ row \in AdmissionRow /\ row.run = old.run /\ row.kind = old.kind
      /\ row.consumed = TRUE /\ row.status = old.status /\ row.res = ReleaseRes(old.res)
  <2> HIDE DEF mid
  <2> QED BY <1>1, <1>2 DEF AdmissionRow
<1>4. GivenUp(old) = row
  BY Zenon DEF GivenUp
<1> HIDE DEF row
<1> QED BY <1>3, <1>4

LEMMA GivenUpKeeps ==
  ASSUME NEW ad, NEW rn, NEW a, Orderly(ad, rn), a \in DOMAIN ad
  PROVE  LET nad == [ad EXCEPT ![a] = GivenUp(@)]
         IN  Orderly(nad, rn) /\ Grows(ad, nad) /\ DOMAIN nad = DOMAIN ad
<1>1. ad[a] \in AdmissionRow
  BY DEF Orderly
<1> DEFINE row == GivenUp(ad[a])
<1>2. /\ row \in AdmissionRow /\ row.run = ad[a].run /\ row.kind = ad[a].kind
      /\ row.consumed = TRUE /\ row.status = ad[a].status /\ row.res = ReleaseRes(ad[a].res)
  BY <1>1, GivenUpRow
<1> HIDE DEF row
<1>3. row.res \in {"none", "released"} /\ (row.res = "none" <=> ad[a].res = "none")
  BY <1>2 DEF ReleaseRes
<1>4. RowOrderly(ad[a], rn)
  BY DEF Orderly
<1>5. RowOrderly(row, rn)
  BY <1>2, <1>3, <1>4 DEF RowOrderly
<1>6. /\ Orderly([ad EXCEPT ![a] = row], rn) /\ Grows(ad, [ad EXCEPT ![a] = row])
      /\ DOMAIN [ad EXCEPT ![a] = row] = DOMAIN ad
  BY <1>2, <1>5, OneRow
<1>7. [ad EXCEPT ![a] = GivenUp(@)] = [ad EXCEPT ![a] = row]
  BY DEF row
<1> QED BY <1>6, <1>7, Zenon

(* The commit hook.                                                        *)
LEMMA RetiredKeeps ==
  ASSUME NEW f, NEW rn, NEW rt, NEW ad, Orderly(ad, rn), NEW lt, Links(f, ad, lt)
  PROVE  Orderly(Retired(f, rn, rt, ad), rn) /\ Grows(ad, Retired(f, rn, rt, ad))
<1> DEFINE nad == [ad EXCEPT ![f.adm] = GivenUp(@)]
<1>1. CASE Retired(f, rn, rt, ad) = ad
  BY <1>1, GrowsOn
<1>2. CASE f.adm # NoRow /\ Retired(f, rn, rt, ad) = nad
  <2>1. f.adm \in DOMAIN ad
    BY <1>2 DEF Links
  <2>2. Orderly(nad, rn) /\ Grows(ad, nad)
    BY <2>1, GivenUpKeeps
  <2> HIDE DEF nad
  <2> QED BY <1>2, <2>2
<1> QED BY <1>1, <1>2, Zenon DEF Retired

(* What a committed write has to show.                                     *)
LEMMA CommitsAs ==
  ASSUME SweepIInv, NEW e \in exec, NEW f \in Deliveries, NEW rn, NEW rt, NEW ad,
         rn \in [RunIds -> RunRow], rt \in Root, OwnerIsDone(rt, rn),
         Orderly(ad, rn), Grows(adm, ad), Links(f, ad, rt), \A g \in exec : Links(g, ad, rt),
         ChainOver(rt, Retired(f, rn, rt, ad)), Commit(e, f, rn, rt, ad),
         rt.owner = root.owner => rt.cursor >= root.cursor,
         rt.cursor # root.cursor \/ rt.owner # root.owner =>
           e.pc = "sweep" /\ f.pc # "sweep" /\ (Active(e.run) \/ e.run = root.owner)
  PROVE  Moved
<1>1. run' = rn /\ root' = rt /\ adm' = Retired(f, rn, rt, ad) /\ Become(e, f)
      /\ jobs' = jobs /\ disp' = disp
  BY DEF Commit
<1>2. Orderly(Retired(f, rn, rt, ad), rn) /\ Grows(ad, Retired(f, rn, rt, ad))
  BY RetiredKeeps
<1>3. PICK nad : nad = Retired(f, rn, rt, ad)
  OBVIOUS
<1>4. /\ adm' = nad /\ Orderly(nad, rn) /\ Grows(adm, nad) /\ Links(f, nad, rt)
      /\ \A g \in exec : Links(g, nad, rt)
  BY <1>1, <1>2, <1>3, GrowsOn, LinksStay
<1>5. Executing(exec', nad, rt) /\ (e.pc = "sweep" /\ f.pc # "sweep" => e \notin exec')
  <2>1. exec \subseteq Deliveries
    BY DEF SweepIInv, Executing
  <2> QED BY <1>1, <1>4, <2>1, BecomeAs
<1>6. Keyed(jobs, nad)
  BY <1>4, KeysStay DEF SweepIInv
<1>7. SweepIInv'
  BY <1>1, <1>3, <1>4, <1>5, <1>6 DEF SweepIInv
<1>8. CursorAdvances /\ SupersededMovesNothing
  BY <1>1, <1>5 DEF CursorAdvances, SupersededMovesNothing
<1> QED BY <1>4, <1>7, <1>8 DEF Moved

LEMMA CommitKeeps ==
  ASSUME SweepIInv, NEW e \in exec, NEW f \in Deliveries, NEW rn, NEW ad,
         rn \in [RunIds -> RunRow], OwnerIsDone(root, rn),
         Orderly(ad, rn), Grows(adm, ad), Links(f, ad, root), Commit(e, f, rn, root, ad)
  PROVE  Moved
<1>1. root \in Root /\ ChainOver(root, adm) /\ \A g \in exec : Links(g, adm, root)
  BY DEF SweepIInv, Executing
<1>2. \A g \in exec : Links(g, ad, root)
  BY <1>1, LinksStay
<1>3. PICK nad : nad = Retired(f, rn, root, ad)
  OBVIOUS
<1>4. Grows(ad, nad)
  BY <1>3, RetiredKeeps
<1>5. ChainOver(root, nad)
  BY <1>1, <1>4, GrowsOn, ChainStays
<1>6. root.cursor >= root.cursor
  BY <1>1 DEF Root
<1> QED BY <1>1, <1>2, <1>3, <1>5, <1>6, CommitsAs

LEMMA MoveKeeps ==
  ASSUME SweepIInv, NEW e, NEW f \in Deliveries, Links(f, adm, root), Move(e, f)
  PROVE  Moved
<1>1. run' = run /\ root' = root /\ adm' = adm /\ jobs' = jobs /\ disp' = disp /\ Become(e, f)
  BY DEF Move
<1>2. Executing(exec', adm, root)
  BY <1>1, GrowsOn, BecomeKeeps DEF SweepIInv
<1>3. SweepIInv'
  BY <1>1, <1>2 DEF SweepIInv
<1>4. CursorAdvances /\ SupersededMovesNothing
  BY <1>1, CursorStays DEF SweepIInv
<1> QED BY <1>1, <1>3, <1>4, GrowsOn DEF Moved

(* A step that changes rows, the dispatch, or the status of runs.          *)
LEMMA RowsKeep ==
  ASSUME SweepIInv, NEW nad, NEW nrn, adm' = nad, run' = nrn, nrn \in [RunIds -> RunRow],
         StaysComplete(run, nrn), Orderly(nad, nrn), Grows(adm, nad),
         root' \in Root, root'.owner = root.owner, root'.cursor = root.cursor,
         ChainOver(root', nad), disp' \in Dispatch,
         jobs' = jobs, exec' = exec
  PROVE  Moved
<1>1. Executing(exec, nad, root')
  BY LinksStay, SameCursor DEF SweepIInv, Executing
<1>2. Keyed(jobs, nad)
  BY KeysStay DEF SweepIInv
<1>3. root \in Root /\ OwnerIsDone(root, run)
  BY DEF SweepIInv
<1>4. OwnerIsDone(root', nrn)
  BY <1>3 DEF OwnerIsDone, Root, StaysComplete
<1>5. SweepIInv'
  BY <1>1, <1>2, <1>4 DEF SweepIInv
<1> QED BY <1>3, <1>5, CursorStays DEF Moved

(* Deliveries with several fields changed.                                 *)
LEMMA MovedDelivery ==
  ASSUME NEW e \in Deliveries, NEW s \in ExecSteps
  PROVE  Is([e EXCEPT !.pc = s], s, e.adm, e.run, e.cont, e.res, e.live, e.seen, e.next)
BY FieldByField

LEMMA SweepingDelivery ==
  ASSUME NEW e \in Deliveries, NEW a \in Nat, NEW l, l \in BOOLEAN, NEW w \in Nat
  PROVE  Is([e EXCEPT !.pc = "sweep", !.res = a, !.live = l, !.adm = w],
            "sweep", w, e.run, e.cont, a, l, e.seen, e.next)
<1> DEFINE f1 == [e EXCEPT !.pc = "sweep"]
           f2 == [f1 EXCEPT !.res = a]
           f3 == [f2 EXCEPT !.live = l]
           f4 == [f3 EXCEPT !.adm = w]
<1>1. Is(f1, "sweep", e.adm, e.run, e.cont, e.res, e.live, e.seen, e.next)
  BY FieldByField DEF ExecSteps
<1>2. Is(f2, "sweep", e.adm, e.run, e.cont, a, e.live, e.seen, e.next)
  <2> HIDE DEF f1
  <2> QED BY <1>1, FieldByField DEF Is
<1>3. Is(f3, "sweep", e.adm, e.run, e.cont, a, l, e.seen, e.next)
  <2> HIDE DEF f2
  <2> QED BY <1>2, FieldByField DEF Is
<1>4. Is(f4, "sweep", w, e.run, e.cont, a, l, e.seen, e.next)
  <2> HIDE DEF f3
  <2> QED BY <1>3, FieldByField DEF Is
<1> QED BY <1>4, Zenon

LEMMA ReleasingDelivery ==
  ASSUME NEW e \in Deliveries, NEW s \in Onward
  PROVE  Is([e EXCEPT !.pc = "release", !.next = s],
            "release", e.adm, e.run, e.cont, e.res, e.live, e.seen, s)
<1> DEFINE f1 == [e EXCEPT !.pc = "release"]
           f2 == [f1 EXCEPT !.next = s]
<1>1. Is(f1, "release", e.adm, e.run, e.cont, e.res, e.live, e.seen, e.next)
  BY FieldByField DEF ExecSteps
<1>2. Is(f2, "release", e.adm, e.run, e.cont, e.res, e.live, e.seen, s)
  <2> HIDE DEF f1
  <2> QED BY <1>1, FieldByField DEF Is
<1> QED BY <1>2, Zenon

LEMMA AcceptedDelivery ==
  ASSUME NEW e \in Deliveries, NEW b \in Nat, NEW c, c \in BOOLEAN, NEW s \in Nat
  PROVE  Is([e EXCEPT !.pc = "admit", !.base = b, !.cont = c, !.seen = s],
            "admit", e.adm, e.run, c, e.res, e.live, s, e.next)
<1> DEFINE f1 == [e EXCEPT !.pc = "admit"]
           f2 == [f1 EXCEPT !.base = b]
           f3 == [f2 EXCEPT !.cont = c]
           f4 == [f3 EXCEPT !.seen = s]
<1>1. Is(f1, "admit", e.adm, e.run, e.cont, e.res, e.live, e.seen, e.next)
  BY FieldByField DEF ExecSteps
<1>2. Is(f2, "admit", e.adm, e.run, e.cont, e.res, e.live, e.seen, e.next)
  <2> HIDE DEF f1
  <2> QED BY <1>1, FieldByField DEF Is
<1>3. Is(f3, "admit", e.adm, e.run, c, e.res, e.live, e.seen, e.next)
  <2> HIDE DEF f2
  <2> QED BY <1>2, FieldByField DEF Is
<1>4. Is(f4, "admit", e.adm, e.run, c, e.res, e.live, s, e.next)
  <2> HIDE DEF f3
  <2> QED BY <1>3, FieldByField DEF Is
<1> QED BY <1>4, Zenon

(* A delivery that moves on, but not into a sweep or a release.            *)
LEMMA PlainMove ==
  ASSUME NEW e \in Deliveries, NEW ad, NEW rt, Links(e, ad, rt), NEW s \in Onward,
         s \in Chained => e.cont
  PROVE  [e EXCEPT !.pc = s] \in Deliveries /\ Links([e EXCEPT !.pc = s], ad, rt)
<1> DEFINE f == [e EXCEPT !.pc = s]
<1>1. Is(f, s, e.adm, e.run, e.cont, e.res, e.live, e.seen, e.next)
  BY MovedDelivery DEF Onward
<1> HIDE DEF f
<1>2. f \in Deliveries /\ Links(f, ad, rt)
  BY <1>1 DEF Is, Links, Chained, Onward
<1> QED BY <1>2 DEF f

LEMMA ReleaseMove ==
  ASSUME NEW e \in Deliveries, NEW ad, NEW rt, Links(e, ad, rt), NEW s \in Onward, e.pc = "sweep",
         s \in Chained => e.cont
  PROVE  /\ [e EXCEPT !.pc = "release", !.next = s] \in Deliveries
         /\ Links([e EXCEPT !.pc = "release", !.next = s], ad, rt)
<1> DEFINE f == [e EXCEPT !.pc = "release", !.next = s]
<1>1. Is(f, "release", e.adm, e.run, e.cont, e.res, e.live, e.seen, s)
  BY ReleasingDelivery
<1> HIDE DEF f
<1>2. f \in Deliveries /\ Links(f, ad, rt)
  BY <1>1 DEF Is, Links, Chained
<1> QED BY <1>2 DEF f

(* The types of a delivery's fields.                                       *)
LEMMA ExecutionFacts ==
  ASSUME SweepIInv, NEW e \in exec
  PROVE  /\ e \in Deliveries /\ Links(e, adm, root) /\ e.run \in RunIds /\ e.adm \in Nat
         /\ e.job \in JobIds /\ e.att \in 1 .. MaxAttempts /\ e.base \in Nat /\ e.seen \in Nat
         /\ e.cont \in BOOLEAN /\ e.res \in Nat /\ e.next \in Onward /\ e.pc \in ExecSteps
<1>1. e \in Deliveries /\ Links(e, adm, root)
  BY DEF SweepIInv, Executing
<1> QED BY <1>1 DEF Deliveries

(* The rows of a run are natural numbers, and an unconsumed one is the     *)
(* newest of its run.                                                      *)
LEMMA RowFacts ==
  ASSUME NEW ad, NEW rn, Orderly(ad, rn), NEW a \in DOMAIN ad
  PROVE  /\ a \in Nat /\ a # NoRow /\ ad[a] \in AdmissionRow /\ RowOrderly(ad[a], rn)
         /\ ad[a].run \in RunIds /\ Len(ad) \in Nat /\ a <= Len(ad)
         /\ ~ad[a].consumed => \A b \in DOMAIN ad : ad[b].run = ad[a].run => b <= a
<1>1. ad \in Seq(AdmissionRow)
  BY DEF Orderly
<1>2. Len(ad) \in Nat /\ DOMAIN ad = 1 .. Len(ad)
  BY <1>1
<1>3. ad[a] \in AdmissionRow /\ RowOrderly(ad[a], rn)
  BY <1>1 DEF Orderly
<1>4. ad[a].run \in RunIds
  BY <1>3 DEF AdmissionRow
<1>5. ~ad[a].consumed => \A b \in DOMAIN ad : ad[b].run = ad[a].run => b <= a
  BY <1>2 DEF Orderly, OlderConsumed
<1> QED BY <1>2, <1>3, <1>4, <1>5 DEF NoRow

(* The rows the delivery of a chain may name: its own is the newest.       *)
LEMMA OwnRow ==
  ASSUME SweepIInv, NEW e \in exec, Valid(e), e.adm # NoRow
  PROVE  /\ e.adm \in DOMAIN adm /\ adm[e.adm].run = e.run
         /\ ~adm[e.adm].consumed /\ adm[e.adm].job = e.job /\ e.job # NoJob
         /\ \A b \in DOMAIN adm : adm[b].run = e.run => b <= e.adm
         /\ \A b \in DOMAIN adm : adm[b].run = e.run /\ ~adm[b].consumed => b = e.adm
         /\ adm[e.adm].kind = "continuation" => Owned(e.run) /\ run[e.run].status = "complete"
<1>1. e.adm \in DOMAIN adm /\ adm[e.adm].run = e.run /\ e.job \in JobIds /\ e.run \in RunIds
  BY ExecutionFacts DEF Links
<1>2. /\ ~adm[e.adm].consumed /\ adm[e.adm].job = e.job /\ Newest(e.adm)
      /\ adm[e.adm].kind = "continuation" => Owned(e.run)
  BY DEF Valid
<1>3. e.job # NoJob
  BY <1>1 DEF JobIds, NoJob
<1>4. \A b \in DOMAIN adm : adm[b].run = e.run => b <= e.adm
  BY <1>1, <1>2 DEF Newest, Rows
<1>5. Orderly(adm, run)
  BY DEF SweepIInv
<1>6. ASSUME NEW b \in DOMAIN adm, adm[b].run = e.run, ~adm[b].consumed PROVE b = e.adm
  <2>1. b \in Nat /\ e.adm \in Nat /\ e.adm <= b
    BY <1>1, <1>5, <1>6, RowFacts
  <2> QED BY <1>4, <1>6, <2>1
<1>7. Owned(e.run) => run[e.run].status = "complete"
  BY <1>1 DEF SweepIInv, OwnerIsDone, Owned, RunIds, NoRun
<1> QED BY <1>1, <1>2, <1>3, <1>4, <1>6, <1>7

(* A cycle that may still write belongs to the chain of the root, which    *)
(* has cycles left and has not moved since.                                *)
LEMMA LiveChain ==
  ASSUME SweepIInv, NEW e \in exec, Valid(e), e.cont
  PROVE  root.owner = e.run /\ ~GaveUp /\ root.cursor <= e.seen
<1>1. /\ e.adm # NoRow /\ adm[e.adm].kind = "continuation"
      /\ ~adm[e.adm].consumed /\ root.owner = e.run => root.cursor <= e.seen
  BY ExecutionFacts DEF Links
<1>2. /\ e.adm \in DOMAIN adm /\ adm[e.adm].run = e.run /\ ~adm[e.adm].consumed
      /\ Owned(e.run)
  BY <1>1, OwnRow
<1>3. root.owner = e.run
  BY <1>2 DEF Owned
<1>4. e.adm \in Continuations(adm, root.owner)
  BY <1>1, <1>2, <1>3 DEF Continuations, Rows
<1>5. ~GaveUp
  BY <1>2, <1>4 DEF SweepIInv, ChainOver, GaveUp
<1> QED BY <1>1, <1>2, <1>3, <1>5

(* The row a delivery asks the budget for: the run's waiting one, or a new *)
(* one.                                                                    *)
QueuedRow(e, q) ==
  /\ Orderly(q.adm, run) /\ Grows(adm, q.adm)
  /\ q.row \in DOMAIN q.adm /\ q.adm[q.row].run = e.run
  /\ q.adm[q.row].status = "waiting" /\ q.adm[q.row].consumed = FALSE
  /\ \/ q.row \in DOMAIN adm /\ ~adm[q.row].consumed /\ q.adm[q.row].job = adm[q.row].job
     \/ /\ q.adm[q.row].job = NoJob /\ q.adm[q.row].dispatched = FALSE
        /\ e.cont => q.adm[q.row].kind = "continuation"

LEMMA QueuedKeeps ==
  ASSUME SweepIInv, NEW e \in exec, Valid(e), HeldRows(e.run) = {}
  PROVE  QueuedRow(e, Queued(e))
<1> DEFINE r == e.run
           late0 == e.cont /\ root.recent
<1>1. r \in RunIds /\ e.cont \in BOOLEAN /\ root.recent \in BOOLEAN
  <2>1. root \in Root
    BY DEF SweepIInv
  <2> QED BY <2>1, ExecutionFacts DEF Root
<1>2. Orderly(adm, run) /\ run \in [RunIds -> RunRow]
  BY DEF SweepIInv
<1>3. late0 \in BOOLEAN
  OBVIOUS
<1>4. CASE Waiting(r) # {}
  <2> DEFINE a == First(Waiting(r))
  <2>1. Len(adm) \in Nat /\ Waiting(r) \in SUBSET (1 .. Len(adm)) /\ DOMAIN adm = 1 .. Len(adm)
    BY <1>2 DEF Orderly, Waiting, Rows
  <2>2. a \in Waiting(r)
    BY <1>4, <2>1, FirstIsOne
  <2>3. PICK l \in BOOLEAN : l = late0
    BY <1>3
  <2>4. Queued(e) = [adm |-> [adm EXCEPT ![a].late = l], row |-> a]
    BY <1>4, <2>3 DEF Queued
  <2> HIDE DEF a
  <2>5. /\ a \in DOMAIN adm /\ adm[a].run = r /\ adm[a].status = "waiting" /\ ~adm[a].consumed
    BY <2>2 DEF Waiting, Rows
  <2>6. adm[a] \in AdmissionRow /\ RowOrderly(adm[a], run)
    BY <1>2, <2>5, RowFacts
  <2> DEFINE row == [adm[a] EXCEPT !.late = l]
  <2>7. /\ row \in AdmissionRow /\ row.run = r /\ row.kind = adm[a].kind /\ row.job = adm[a].job
        /\ row.consumed = adm[a].consumed /\ row.status = "waiting" /\ row.res = adm[a].res
    BY <2>5, <2>6 DEF AdmissionRow
  <2>8. [adm EXCEPT ![a].late = l] = [adm EXCEPT ![a] = row]
    BY <2>5, Zenon
  <2> HIDE DEF row
  <2>9. RowOrderly(row, run)
    BY <2>5, <2>6, <2>7 DEF RowOrderly
  <2> DEFINE nad == [adm EXCEPT ![a] = row]
  <2>10. /\ Orderly(nad, run) /\ Grows(adm, nad) /\ DOMAIN nad = DOMAIN adm /\ nad[a] = row
    BY <1>2, <2>5, <2>7, <2>9, OneRow
  <2>11. Queued(e) = [adm |-> nad, row |-> a]
    BY <2>4, <2>8, Zenon
  <2> HIDE DEF nad
  <2>12. Queued(e).adm = nad /\ Queued(e).row = a
    BY <2>11
  <2>13. row.consumed = FALSE
    BY <2>5, <2>6, <2>7 DEF AdmissionRow
  <2> QED BY <2>5, <2>7, <2>10, <2>12, <2>13 DEF QueuedRow
<1>5. CASE Waiting(r) = {}
  <2> DEFINE k == IF e.cont THEN "continuation" ELSE "ordinary"
             nad == Append(ConsumeAll(adm, r), NewRow(r, k, "now", late0))
  <2>1. Queued(e) = [adm |-> nad, row |-> Len(adm) + 1]
    BY <1>5, Zenon DEF Queued
  <2>2. k \in {"ordinary", "continuation"} /\ (e.cont => k = "continuation")
    OBVIOUS
  <2>3. ASSUME NEW a \in Rows(adm, r)
        PROVE  adm[a].res # "held" /\ (adm[a].res = "lapsed" => run[r].status = "complete")
    <3>1. a \in DOMAIN adm /\ adm[a].run = r
      BY DEF Rows
    <3>2. RowOrderly(adm[a], run)
      BY <1>2, <3>1, RowFacts
    <3>3. ~(adm[a].status = "admitted" /\ Unreleased(adm, a))
      BY DEF HeldRows
    <3> QED BY <3>2, <3>3 DEF RowOrderly, Unreleased
  <2>0. ~(GaveUp /\ r = root.owner /\ k = "continuation")
    BY LiveChain
  <2> HIDE DEF k, late0
  <2>4. /\ Orderly(nad, run) /\ Grows(adm, nad)
        /\ Len(adm) + 1 \in DOMAIN nad /\ nad[Len(adm) + 1] = NewRow(r, k, "now", late0)
    BY <1>1, <1>2, <1>3, <2>0, <2>2, <2>3, AnotherRow
  <2>5. NewlyWaits(NewRow(r, k, "now", late0), r, k)
    BY <1>1, <1>2, <1>3, <2>2, NewRowWaits
  <2> HIDE DEF nad
  <2>6. Queued(e).adm = nad /\ Queued(e).row = Len(adm) + 1
    BY <2>1
  <2> QED BY <2>2, <2>4, <2>5, <2>6 DEF QueuedRow, NewlyWaits
<1> QED BY <1>4, <1>5

LEMMA BindingStays ==
  ASSUME SweepIInv, NEW e \in exec, Valid(e), NEW ad, NEW a, NEW l, l \in BOOLEAN,
         Orderly(ad, run), Grows(adm, ad),
         a \in DOMAIN ad, ad[a].run = e.run,
         \/ Bind(e, ad).row = a /\ (e.cont => ad[a].kind = "continuation")
         \/ e.cont => Bind(e, ad).row = e.adm /\ (l => a = e.adm)
  PROVE  LET f == [e EXCEPT !.pc = "sweep", !.res = a, !.live = l, !.adm = Bind(e, ad).row]
         IN  /\ f \in Deliveries /\ Links(f, Bind(e, ad).adm, root)
             /\ Orderly(Bind(e, ad).adm, run) /\ Grows(adm, Bind(e, ad).adm)
<1>1. e \in Deliveries /\ Links(e, adm, root) /\ e.adm \in Nat
  BY ExecutionFacts
<1>2. a \in Nat /\ a # NoRow
  BY RowFacts
<1>3. Rows(ad, e.run) # {}
  BY DEF Rows
<1>4. PICK w, bd : w = Bind(e, ad).row /\ bd = Bind(e, ad).adm
  OBVIOUS
<1>5. /\ Orderly(bd, run) /\ Grows(ad, bd) /\ DOMAIN bd = DOMAIN ad
      /\ w = e.adm \/ w \in Rows(ad, e.run)
  BY <1>1, <1>3, <1>4, BoundKeeps
<1>6. w \in Nat /\ (w # NoRow => w \in DOMAIN ad /\ ad[w].run = e.run)
  <2>1. CASE w = e.adm
    BY <1>1, <2>1 DEF Links, Grows
  <2>2. CASE w \in Rows(ad, e.run)
    BY <2>2, RowFacts DEF Rows
  <2> QED BY <1>5, <2>1, <2>2
<1>7. e.cont => w # NoRow /\ ad[w].kind = "continuation" /\ (l => a = w)
  <2>1. CASE w = a /\ (e.cont => ad[a].kind = "continuation")
    BY <1>2, <2>1
  <2>2. CASE e.cont => w = e.adm /\ (l => a = e.adm)
    BY <1>1, <2>2 DEF Links, Grows
  <2> QED BY <1>4, <2>1, <2>2
<1> DEFINE f == [e EXCEPT !.pc = "sweep", !.res = a, !.live = l, !.adm = w]
<1>8. Is(f, "sweep", w, e.run, e.cont, a, l, e.seen, e.next)
  BY <1>1, <1>2, <1>6, SweepingDelivery
<1> HIDE DEF f
<1>9. f \in Deliveries /\ Links(f, ad, root)
  BY <1>6, <1>7, <1>8, LiveChain DEF Is, Links, Chained
<1>10. Links(f, bd, root) /\ Grows(adm, bd)
  BY <1>5, <1>9, LinksStay, GrowsOn
<1> QED BY <1>4, <1>5, <1>9, <1>10 DEF f

(* A commit that leaves the run and the root alone.                        *)
LEMMA CommitRows ==
  ASSUME SweepIInv, NEW e \in exec, NEW f \in Deliveries, NEW ad,
         Orderly(ad, run), Grows(adm, ad), Links(f, ad, root), Commit(e, f, run, root, ad)
  PROVE  Moved
<1>1. run \in [RunIds -> RunRow] /\ root \in Root /\ OwnerIsDone(root, run)
  BY DEF SweepIInv
<1> QED BY <1>1, CommitKeeps

LEMMA AdmitExistingKeeps ==
  ASSUME SweepIInv, NEW e \in exec, AdmitExisting(e)
  PROVE  Moved
<1> DEFINE a == Last(HeldRows(e.run))
           l == adm[a].res = "held"
           f == [e EXCEPT !.pc = "sweep", !.res = a, !.live = l, !.adm = Bind(e, adm).row]
<1>1. HeldRows(e.run) # {} /\ Commit(e, f, run, root, Bind(e, adm).adm)
  BY Zenon DEF AdmitExisting
<1>2. Valid(e)
  BY <1>1 DEF Commit
<1>3. Orderly(adm, run)
  BY DEF SweepIInv
<1>4. Len(adm) \in Nat /\ DOMAIN adm = 1 .. Len(adm) /\ HeldRows(e.run) \in SUBSET (1 .. Len(adm))
  BY <1>3 DEF Orderly, HeldRows, Rows
<1>5. a \in HeldRows(e.run)
  BY <1>1, <1>4, LastIsOne
<1>6. PICK m : m = a
  OBVIOUS
<1>7. PICK h \in BOOLEAN : h = l
  OBVIOUS
<1>8. h = (adm[m].res = "held")
  BY <1>6, <1>7
<1>9. [e EXCEPT !.pc = "sweep", !.res = m, !.live = h, !.adm = Bind(e, adm).row] = f
  BY <1>6, <1>7
<1> HIDE DEF a, l, f
<1>10. m \in DOMAIN adm /\ adm[m].run = e.run
  BY <1>5, <1>6 DEF HeldRows, Rows
<1>11. ASSUME e.cont
       PROVE  Bind(e, adm).row = e.adm /\ (h => m = e.adm)
  <2>1. e.adm # NoRow
    BY <1>11, ExecutionFacts DEF Links
  <2>2. /\ e.adm \in DOMAIN adm /\ adm[e.adm].run = e.run
        /\ adm[e.adm].job = e.job /\ e.job # NoJob
        /\ \A b \in DOMAIN adm : adm[b].run = e.run => b <= e.adm
        /\ \A b \in DOMAIN adm : adm[b].run = e.run /\ ~adm[b].consumed => b = e.adm
    BY <1>2, <2>1, OwnRow
  <2>3. h => m = e.adm
    <3>1. RowOrderly(adm[m], run)
      BY <1>3, <1>10, RowFacts
    <3> QED BY <1>8, <1>10, <2>2, <3>1 DEF RowOrderly
  <2>4. Bind(e, adm).row = e.adm
    <3>1. Rows(adm, e.run) # {} /\ e.adm \in Rows(adm, e.run) /\ e \in Deliveries
      BY <2>2, ExecutionFacts DEF Rows
    <3>2. PICK w : w = Bind(e, adm).row
      OBVIOUS
    <3>3. \/ w = e.adm
          \/ w \in Rows(adm, e.run) /\ (\A b \in Rows(adm, e.run) : b <= w) /\ adm[w].job = NoJob
      BY <1>3, <3>1, <3>2, BoundKeeps
    <3>4. ASSUME w \in Rows(adm, e.run), \A b \in Rows(adm, e.run) : b <= w, adm[w].job = NoJob
          PROVE  FALSE
      <4>1. w \in DOMAIN adm /\ w <= e.adm /\ e.adm <= w
        BY <2>2, <3>1, <3>4 DEF Rows
      <4>2. w \in Nat /\ e.adm \in Nat
        BY <1>3, <2>2, <4>1, RowFacts
      <4>3. w = e.adm
        BY <4>1, <4>2
      <4> QED BY <2>2, <3>4, <4>3
    <3> QED BY <3>2, <3>3, <3>4
  <2> QED BY <2>3, <2>4
<1>12. /\ f \in Deliveries /\ Links(f, Bind(e, adm).adm, root)
       /\ Orderly(Bind(e, adm).adm, run) /\ Grows(adm, Bind(e, adm).adm)
  <2>1. Grows(adm, adm)
    BY GrowsOn
  <2>2. \/ Bind(e, adm).row = m /\ (e.cont => adm[m].kind = "continuation")
        \/ e.cont => Bind(e, adm).row = e.adm /\ (h => m = e.adm)
    BY <1>11
  <2> DEFINE g == [e EXCEPT !.pc = "sweep", !.res = m, !.live = h, !.adm = Bind(e, adm).row]
  <2>3. /\ g \in Deliveries /\ Links(g, Bind(e, adm).adm, root)
        /\ Orderly(Bind(e, adm).adm, run) /\ Grows(adm, Bind(e, adm).adm)
    BY <1>2, <1>3, <1>10, <2>1, <2>2, BindingStays
  <2> HIDE DEF g
  <2>4. g = f
    BY <1>9 DEF g
  <2> QED BY <2>3, <2>4
<1> QED BY <1>1, <1>12, CommitRows

LEMMA AdmitNowKeeps ==
  ASSUME SweepIInv, NEW e \in exec, AdmitNow(e)
  PROVE  Moved
<1> DEFINE q == Queued(e)
           gd == Granted(q.adm, q.row)
           f == [e EXCEPT !.pc = "sweep", !.res = q.row, !.live = TRUE, !.adm = Bind(e, gd).row]
<1>1. HeldRows(e.run) = {} /\ Commit(e, f, run, root, Bind(e, gd).adm)
  BY Zenon DEF AdmitNow, CanQueue
<1>2. Valid(e)
  BY <1>1 DEF Commit
<1>3. Orderly(adm, run)
  BY DEF SweepIInv
<1>4. QueuedRow(e, q)
  BY <1>1, <1>2, QueuedKeeps
<1>5. PICK a, qa, g : a = q.row /\ qa = q.adm /\ g = gd
  OBVIOUS
<1>6. g = Granted(qa, a)
  BY <1>5
<1>7. [e EXCEPT !.pc = "sweep", !.res = a, !.live = TRUE, !.adm = Bind(e, g).row] = f
  BY <1>5
<1>8. Commit(e, f, run, root, Bind(e, g).adm)
  BY <1>1, <1>5
<1>9. /\ Orderly(qa, run) /\ Grows(adm, qa) /\ a \in DOMAIN qa /\ qa[a].run = e.run
      /\ qa[a].status = "waiting" /\ qa[a].consumed = FALSE
      /\ \/ a \in DOMAIN adm /\ ~adm[a].consumed /\ qa[a].job = adm[a].job
         \/ /\ qa[a].job = NoJob /\ qa[a].dispatched = FALSE
            /\ e.cont => qa[a].kind = "continuation"
  BY <1>4, <1>5 DEF QueuedRow
<1> HIDE DEF q, gd, f
<1>10. /\ Orderly(g, run) /\ Grows(qa, g) /\ DOMAIN g = DOMAIN qa
       /\ g[a].status = "admitted" /\ g[a].consumed = FALSE /\ g[a].dispatched = FALSE
       /\ g[a].job = qa[a].job
  BY <1>6, <1>9, GrantedKeeps
<1>11. Grows(adm, g) /\ a \in DOMAIN g /\ g[a].run = e.run /\ g[a].kind = qa[a].kind
  BY <1>9, <1>10, GrowsOn DEF Grows
<1>12. \A b \in Rows(g, e.run) : b <= a
  BY <1>10, <1>11, RowFacts DEF Rows
<1>13. PICK w : w = Bind(e, g).row
  OBVIOUS
<1>14. /\ \/ w = e.adm
          \/ w \in Rows(g, e.run) /\ (\A b \in Rows(g, e.run) : b <= w) /\ g[w].job = NoJob
       /\ g[a].job = NoJob => w = a
  <2>1. a \in Rows(g, e.run) /\ e \in Deliveries
    BY <1>11, ExecutionFacts DEF Rows
  <2> QED BY <1>10, <1>12, <1>13, <2>1, BoundKeeps
<1>15. \/ w = a /\ (e.cont => g[a].kind = "continuation")
       \/ e.cont => w = e.adm /\ (TRUE => a = e.adm)
  <2>1. CASE qa[a].job = NoJob /\ (e.cont => qa[a].kind = "continuation")
    BY <1>10, <1>11, <1>14, <2>1
  <2>2. ASSUME e.cont, a \in DOMAIN adm, ~adm[a].consumed, qa[a].job = adm[a].job
        PROVE  w = e.adm /\ a = e.adm
    <3>1. e.adm # NoRow
      BY <2>2, ExecutionFacts DEF Links
    <3>2. adm[a].run = e.run
      BY <1>9, <2>2 DEF Grows
    <3>3. a = e.adm /\ adm[a].job # NoJob
      BY <1>2, <2>2, <3>1, <3>2, OwnRow
    <3>4. ASSUME w \in Rows(g, e.run), \A b \in Rows(g, e.run) : b <= w, g[w].job = NoJob
          PROVE  FALSE
      <4>1. w <= a /\ a <= w /\ w \in DOMAIN g
        BY <1>11, <1>12, <3>4 DEF Rows
      <4>2. w \in Nat /\ a \in Nat
        BY <1>10, <1>11, <4>1, RowFacts
      <4>3. w = a
        BY <4>1, <4>2
      <4> QED BY <1>10, <2>2, <3>3, <3>4, <4>3
    <3> QED BY <1>14, <3>3, <3>4
  <2> QED BY <1>9, <2>1, <2>2
<1>16. /\ f \in Deliveries /\ Links(f, Bind(e, g).adm, root)
       /\ Orderly(Bind(e, g).adm, run) /\ Grows(adm, Bind(e, g).adm)
  <2>1. \/ Bind(e, g).row = a /\ (e.cont => g[a].kind = "continuation")
        \/ e.cont => Bind(e, g).row = e.adm /\ (TRUE => a = e.adm)
    BY <1>13, <1>15
  <2> DEFINE h == [e EXCEPT !.pc = "sweep", !.res = a, !.live = TRUE, !.adm = Bind(e, g).row]
  <2>2. /\ h \in Deliveries /\ Links(h, Bind(e, g).adm, root)
        /\ Orderly(Bind(e, g).adm, run) /\ Grows(adm, Bind(e, g).adm)
    BY <1>2, <1>10, <1>11, <2>1, BindingStays
  <2> HIDE DEF h
  <2>3. h = f
    BY <1>7 DEF h
  <2> QED BY <2>2, <2>3
<1> QED BY <1>8, <1>16, CommitRows

(* One field of one run changed.                                           *)
LEMMA RunFields ==
  ASSUME NEW rn \in [RunIds -> RunRow], NEW r \in RunIds
  PROVE  /\ \A s \in ActiveStatus \cup {"failed"} :
              rn[r].status # "complete" =>
                /\ [rn EXCEPT ![r].status = s] \in [RunIds -> RunRow]
                /\ StaysComplete(rn, [rn EXCEPT ![r].status = s])
         /\ /\ [rn EXCEPT ![r].status = "complete"] \in [RunIds -> RunRow]
            /\ StaysComplete(rn, [rn EXCEPT ![r].status = "complete"])
            /\ [rn EXCEPT ![r].status = "complete"][r].status = "complete"
         /\ \A n \in Nat :
              /\ [rn EXCEPT ![r].attempt = n] \in [RunIds -> RunRow]
              /\ StaysComplete(rn, [rn EXCEPT ![r].attempt = n])
         /\ \A c \in {"none", "lifetime", "other"} :
              /\ [rn EXCEPT ![r].cause = c] \in [RunIds -> RunRow]
              /\ StaysComplete(rn, [rn EXCEPT ![r].cause = c])
         /\ /\ [rn EXCEPT ![r].aged = TRUE] \in [RunIds -> RunRow]
            /\ StaysComplete(rn, [rn EXCEPT ![r].aged = TRUE])
<1>0. rn[r] \in RunRow
  OBVIOUS
<1>1. ASSUME NEW s \in ActiveStatus \cup {"failed"}, rn[r].status # "complete"
      PROVE  /\ [rn EXCEPT ![r].status = s] \in [RunIds -> RunRow]
             /\ StaysComplete(rn, [rn EXCEPT ![r].status = s])
  <2>1. [rn[r] EXCEPT !.status = s] \in RunRow
    BY <1>0 DEF RunRow
  <2> QED BY <1>1, <2>1 DEF StaysComplete
<1>2. /\ [rn EXCEPT ![r].status = "complete"] \in [RunIds -> RunRow]
      /\ StaysComplete(rn, [rn EXCEPT ![r].status = "complete"])
      /\ [rn EXCEPT ![r].status = "complete"][r].status = "complete"
  <2>1. /\ [rn[r] EXCEPT !.status = "complete"] \in RunRow
        /\ [rn[r] EXCEPT !.status = "complete"].status = "complete"
    BY <1>0 DEF RunRow
  <2> QED BY <2>1 DEF StaysComplete
<1>3. ASSUME NEW n \in Nat
      PROVE  /\ [rn EXCEPT ![r].attempt = n] \in [RunIds -> RunRow]
             /\ StaysComplete(rn, [rn EXCEPT ![r].attempt = n])
  <2>1. /\ [rn[r] EXCEPT !.attempt = n] \in RunRow
        /\ [rn[r] EXCEPT !.attempt = n].status = rn[r].status
    BY <1>0 DEF RunRow
  <2> QED BY <2>1 DEF StaysComplete
<1>4. ASSUME NEW c \in {"none", "lifetime", "other"}
      PROVE  /\ [rn EXCEPT ![r].cause = c] \in [RunIds -> RunRow]
             /\ StaysComplete(rn, [rn EXCEPT ![r].cause = c])
  <2>1. /\ [rn[r] EXCEPT !.cause = c] \in RunRow
        /\ [rn[r] EXCEPT !.cause = c].status = rn[r].status
    BY <1>0 DEF RunRow
  <2> QED BY <2>1 DEF StaysComplete
<1>5. /\ [rn EXCEPT ![r].aged = TRUE] \in [RunIds -> RunRow]
      /\ StaysComplete(rn, [rn EXCEPT ![r].aged = TRUE])
  <2>1. /\ [rn[r] EXCEPT !.aged = TRUE] \in RunRow
        /\ [rn[r] EXCEPT !.aged = TRUE].status = rn[r].status
    BY <1>0 DEF RunRow
  <2> QED BY <2>1 DEF StaysComplete
<1> QED BY <1>1, <1>2, <1>3, <1>4, <1>5

LEMMA CompleteIsKept ==
  /\ \A rn : StaysComplete(rn, rn)
  /\ \A a, b, c : StaysComplete(a, b) /\ StaysComplete(b, c) => StaysComplete(a, c)
BY DEF StaysComplete

(* An active run, given a status and an attempt, or a cause.               *)
LEMMA ActiveRunMoves ==
  ASSUME run \in [RunIds -> RunRow], NEW r \in RunIds, run[r].status # "complete",
         NEW s \in ActiveStatus \cup {"failed"}
  PROVE  /\ [run EXCEPT ![r].status = s] \in [RunIds -> RunRow]
         /\ StaysComplete(run, [run EXCEPT ![r].status = s])
         /\ \A n \in Nat :
              /\ [run EXCEPT ![r].status = s, ![r].attempt = n] \in [RunIds -> RunRow]
              /\ StaysComplete(run, [run EXCEPT ![r].status = s, ![r].attempt = n])
         /\ \A c \in {"none", "lifetime", "other"} :
              /\ [run EXCEPT ![r].status = s, ![r].cause = c] \in [RunIds -> RunRow]
              /\ StaysComplete(run, [run EXCEPT ![r].status = s, ![r].cause = c])
<1> DEFINE rn == [run EXCEPT ![r].status = s]
<1>1. rn \in [RunIds -> RunRow] /\ StaysComplete(run, rn)
  BY RunFields
<1>2. ASSUME NEW n \in Nat
      PROVE  /\ [run EXCEPT ![r].status = s, ![r].attempt = n] \in [RunIds -> RunRow]
             /\ StaysComplete(run, [run EXCEPT ![r].status = s, ![r].attempt = n])
  <2>1. [rn EXCEPT ![r].attempt = n] \in [RunIds -> RunRow]
        /\ StaysComplete(run, [rn EXCEPT ![r].attempt = n])
    <3> HIDE DEF rn
    <3> QED BY <1>1, RunFields, CompleteIsKept
  <2> QED BY <2>1, Zenon
<1>3. ASSUME NEW c \in {"none", "lifetime", "other"}
      PROVE  /\ [run EXCEPT ![r].status = s, ![r].cause = c] \in [RunIds -> RunRow]
             /\ StaysComplete(run, [run EXCEPT ![r].status = s, ![r].cause = c])
  <2>1. [rn EXCEPT ![r].cause = c] \in [RunIds -> RunRow]
        /\ StaysComplete(run, [rn EXCEPT ![r].cause = c])
    <3> HIDE DEF rn
    <3> QED BY <1>1, RunFields, CompleteIsKept
  <2> QED BY <2>1, Zenon
<1> QED BY <1>1, <1>2, <1>3

(* A commit that leaves the rows and the root alone.                       *)
LEMMA CommitRun ==
  ASSUME SweepIInv, NEW e \in exec, NEW s \in Onward, NEW rn, NEW ad, s \in Chained => e.cont,
         rn \in [RunIds -> RunRow], StaysComplete(run, rn),
         Orderly(ad, run), Grows(adm, ad),
         Commit(e, [e EXCEPT !.pc = s], rn, root, ad)
  PROVE  Moved
<1>1. Orderly(ad, rn)
  BY RunsMoveOn
<1>2. root \in Root /\ OwnerIsDone(root, run)
  BY DEF SweepIInv
<1>3. OwnerIsDone(root, rn)
  BY <1>2 DEF OwnerIsDone, StaysComplete, Root
<1>4. e \in Deliveries /\ Links(e, ad, root)
  BY ExecutionFacts, LinksStay
<1>5. [e EXCEPT !.pc = s] \in Deliveries /\ Links([e EXCEPT !.pc = s], ad, root)
  BY <1>4, PlainMove
<1> DEFINE f == [e EXCEPT !.pc = s]
<1> HIDE DEF f
<1>6. f \in Deliveries /\ Links(f, ad, root) /\ Commit(e, f, rn, root, ad)
  BY <1>5 DEF f
<1> QED BY <1>1, <1>2, <1>3, <1>6, CommitKeeps

LEMMA CommitRunOnly ==
  ASSUME SweepIInv, NEW e \in exec, NEW s \in Onward, NEW rn, s \in Chained => e.cont,
         rn \in [RunIds -> RunRow], StaysComplete(run, rn),
         Commit(e, [e EXCEPT !.pc = s], rn, root, adm)
  PROVE  Moved
BY GrowsOn, CommitRun DEF SweepIInv

LEMMA PlainMoveKeeps ==
  ASSUME SweepIInv, NEW e \in exec, NEW s \in Onward, s \in Chained => e.cont,
         Move(e, [e EXCEPT !.pc = s])
  PROVE  Moved
<1>1. e \in Deliveries /\ Links(e, adm, root)
  BY ExecutionFacts
<1>2. [e EXCEPT !.pc = s] \in Deliveries /\ Links([e EXCEPT !.pc = s], adm, root)
  BY <1>1, PlainMove
<1> DEFINE f == [e EXCEPT !.pc = s]
<1> HIDE DEF f
<1>3. f \in Deliveries /\ Links(f, adm, root) /\ Move(e, f)
  BY <1>2 DEF f
<1> QED BY <1>3, MoveKeeps

(* A step of a delivery that is not fenced.                                *)
LEMMA UnfencedKeeps ==
  ASSUME SweepIInv, NEW e \in exec, NEW f \in Deliveries, NEW nrn, NEW nad,
         run' = nrn, adm' = nad, root' = root, jobs' = jobs, disp' = disp, Become(e, f),
         nrn \in [RunIds -> RunRow], StaysComplete(run, nrn), Orderly(nad, run),
         Grows(adm, nad), Links(f, nad, root)
  PROVE  Moved
<1>1. Executing(exec', nad, root)
  BY BecomeKeeps DEF SweepIInv
<1>2. Keyed(jobs, nad)
  BY KeysStay DEF SweepIInv
<1>3. root \in Root /\ OwnerIsDone(root, nrn) /\ disp \in Dispatch
  <2>1. root \in Root /\ OwnerIsDone(root, run) /\ disp \in Dispatch
    BY DEF SweepIInv
  <2> QED BY <2>1 DEF OwnerIsDone, StaysComplete, Root
<1>4. Orderly(nad, nrn)
  BY RunsMoveOn
<1>5. ChainOver(root, nad)
  BY ChainStays DEF SweepIInv
<1>6. SweepIInv'
  BY <1>1, <1>2, <1>3, <1>4, <1>5 DEF SweepIInv
<1> QED BY <1>3, <1>6, CursorStays DEF Moved

LEMMA GoKeeps ==
  ASSUME SweepIInv, NEW e \in exec, NEW s \in Onward, NEW nrn, s \in Chained => e.cont,
         run' = nrn, adm' = adm, root' = root, jobs' = jobs, disp' = disp, Go(e, s),
         nrn \in [RunIds -> RunRow], StaysComplete(run, nrn)
  PROVE  Moved
<1>1. e \in Deliveries /\ Links(e, adm, root)
  BY ExecutionFacts
<1>2. [e EXCEPT !.pc = s] \in Deliveries /\ Links([e EXCEPT !.pc = s], adm, root)
  BY <1>1, PlainMove
<1> DEFINE f == [e EXCEPT !.pc = s]
<1> HIDE DEF f
<1>3. f \in Deliveries /\ Links(f, adm, root) /\ Become(e, f)
  BY <1>2 DEF f, Go
<1>4. Orderly(adm, run) /\ Grows(adm, adm)
  BY GrowsOn DEF SweepIInv
<1> QED BY <1>3, <1>4, UnfencedKeeps

LEMMA AcceptKeeps ==
  ASSUME SweepIInv, NEW e \in exec, Accept(e)
  PROVE  Moved
<1>1. /\ e \in Deliveries /\ Links(e, adm, root) /\ e.run \in RunIds /\ e.job \in JobIds
      /\ e.att \in 1 .. MaxAttempts
  BY ExecutionFacts
<1>2. Orderly(adm, run) /\ run \in [RunIds -> RunRow] /\ root \in Root
  BY DEF SweepIInv
<1>3. root' = root /\ jobs' = jobs /\ disp' = disp
  BY DEF Accept
<1>4. CASE ~Acceptable(e)
  <2>1. Go(e, "return") /\ adm' = adm /\ run' = run
    BY <1>4 DEF Accept
  <2>2. "return" \in Onward /\ "return" \notin Chained
    BY DEF Onward, ExecSteps, Chained
  <2> QED BY <1>2, <1>3, <2>1, <2>2, GoKeeps, CompleteIsKept
<1>5. CASE Acceptable(e)
  <2> DEFINE old == adm[e.adm]
             row == [old EXCEPT !.job = e.job, !.att = e.att, !.dispatched = TRUE]
             c == old.kind = "continuation"
  <2>1. e.adm \in DOMAIN adm /\ adm[e.adm].run = e.run
    BY <1>1 DEF Accept, Links
  <2>2. old \in AdmissionRow /\ RowOrderly(old, run) /\ e.adm \in Nat
    BY <1>2, <2>1, RowFacts
  <2>3. old.base \in Nat /\ old.base + e.att \in Nat /\ root.cursor \in Nat
    BY <1>1, <1>2, <2>2 DEF AdmissionRow, Root
  <2>4. Rebinds(old, row)
    <3> HIDE DEF old
    <3> QED BY <1>1, <2>2, BoundRow
  <2>5. adm' = [adm EXCEPT ![e.adm] = row]
    BY <1>5, Zenon DEF Accept
  <2>6. PICK nrn : run' = nrn /\ nrn \in [RunIds -> RunRow] /\ StaysComplete(run, nrn)
    <3>1. CASE c
      <4>1. run' = run
        BY <1>5, <3>1 DEF Accept
      <4> QED BY <1>2, <4>1, CompleteIsKept
    <3>2. CASE ~c
      <4>1. run' = [run EXCEPT ![e.run].status = "running",
                               ![e.run].attempt = old.base + e.att]
        BY <1>5, <3>2 DEF Accept
      <4>2. run[e.run].status # "complete"
        <5>1. old.kind = "ordinary"
          BY <2>2, <3>2 DEF AdmissionRow
        <5> QED BY <1>5, <5>1 DEF Acceptable, Active, ActiveStatus
      <4> HIDE DEF old
      <4> QED BY <1>1, <1>2, <2>3, <4>1, <4>2, ActiveRunMoves DEF ActiveStatus
    <3> QED BY <3>1, <3>2
  <2> DEFINE f == [e EXCEPT !.pc = "admit", !.base = old.base, !.cont = c,
                            !.seen = IF c THEN root.cursor ELSE Unswept]
  <2>7. Become(e, f)
    BY <1>5, Zenon DEF Accept
  <2>8. PICK n \in Nat : /\ c => n = root.cursor
                         /\ Is(f, "admit", e.adm, e.run, c, e.res, e.live, n, e.next)
    <3>1. (IF c THEN root.cursor ELSE Unswept) \in Nat /\ c \in BOOLEAN
      BY <2>3 DEF Unswept
    <3> DEFINE n == IF c THEN root.cursor ELSE Unswept
    <3>2. n \in Nat /\ c \in BOOLEAN /\ old.base \in Nat
      BY <2>3, <3>1
    <3>3. f = [e EXCEPT !.pc = "admit", !.base = old.base, !.cont = c, !.seen = n]
      OBVIOUS
    <3>5. c => n = root.cursor
      OBVIOUS
    <3> HIDE DEF n, c, old, f
    <3>4. Is([e EXCEPT !.pc = "admit", !.base = old.base, !.cont = c, !.seen = n],
             "admit", e.adm, e.run, c, e.res, e.live, n, e.next)
      BY <1>1, <3>2, AcceptedDelivery
    <3>6. Is(f, "admit", e.adm, e.run, c, e.res, e.live, n, e.next)
      BY <3>3, <3>4, Zenon
    <3> QED BY <3>2, <3>5, <3>6
  <2>9. e.adm # NoRow
    BY DEF Accept
  <2>10. PICK h : h = c
    OBVIOUS
  <2>11. h => adm[e.adm].kind = "continuation" /\ n = root.cursor
    BY <2>8, <2>10
  <2>12. Is(f, "admit", e.adm, e.run, h, e.res, e.live, n, e.next)
    BY <2>8, <2>10
  <2> HIDE DEF f, row, c
  <2>13. row.kind = old.kind /\ row.run = old.run /\ row.consumed = old.consumed
         /\ row \in AdmissionRow /\ RowOrderly(row, run)
    <3> HIDE DEF old
    <3> QED BY <2>2, <2>4 DEF Rebinds, RowOrderly
  <2>14. PICK nad : nad = [adm EXCEPT ![e.adm] = row]
    OBVIOUS
  <2>15. Orderly(nad, run) /\ Grows(adm, nad) /\ nad[e.adm] = row /\ DOMAIN nad = DOMAIN adm
    BY <1>2, <2>1, <2>13, <2>14, OneRow
  <2>16. f \in Deliveries /\ Links(f, nad, root)
    BY <2>1, <2>3, <2>9, <2>11, <2>12, <2>15 DEF Is, Links, Grows, Chained
  <2> QED BY <1>3, <2>5, <2>6, <2>7, <2>14, <2>15, <2>16, UnfencedKeeps
<1> QED BY <1>4, <1>5

LEMMA ClaimKeeps ==
  ASSUME SweepIInv, NEW e \in exec, Claim(e)
  PROVE  Moved
<1>1. run \in [RunIds -> RunRow] /\ e.run \in RunIds /\ e.att \in Nat
  BY ExecutionFacts DEF SweepIInv
<1>2. "return" \in Onward \ Chained /\ "admit" \in Onward \ Chained
  BY DEF Onward, ExecSteps, Chained
<1>3. root' = root /\ jobs' = jobs /\ disp' = disp /\ adm' = adm
  BY DEF Claim
<1>4. CASE Go(e, "return") /\ run' = run
  BY <1>1, <1>2, <1>3, <1>4, CompleteIsKept, GoKeeps
<1>5. CASE /\ Active(e.run) /\ Go(e, "admit")
           /\ run' = [run EXCEPT ![e.run].status = "running", ![e.run].attempt = e.att]
  <2>1. run[e.run].status # "complete" /\ "running" \in ActiveStatus
    BY <1>5 DEF Active, ActiveStatus
  <2>2. PICK nrn : run' = nrn /\ nrn \in [RunIds -> RunRow] /\ StaysComplete(run, nrn)
    BY <1>1, <1>5, <2>1, ActiveRunMoves
  <2> QED BY <1>2, <1>3, <1>5, <2>2, GoKeeps
<1> QED BY <1>4, <1>5 DEF Claim

LEMMA EnqueueAdmissionKeeps ==
  ASSUME SweepIInv, NEW e \in exec, EnqueueAdmission(e)
  PROVE  Moved
<1>1. "return" \in Onward \ Chained
  BY DEF Onward, ExecSteps, Chained
<1>2. /\ root' = root /\ jobs' = jobs /\ disp' = disp /\ adm' = adm /\ run' = run
      /\ Go(e, "return")
  BY DEF EnqueueAdmission
<1>3. run \in [RunIds -> RunRow]
  BY DEF SweepIInv
<1> QED BY <1>1, <1>2, <1>3, CompleteIsKept, GoKeeps

LEMMA AdmitNotDueKeeps ==
  ASSUME SweepIInv, NEW e \in exec, AdmitNotDue(e)
  PROVE  Moved
<1> DEFINE nad == [a \in DOMAIN adm |-> IF a \in Waiting(e.run)
                                         THEN [adm[a] EXCEPT !.status = "not_due"]
                                         ELSE adm[a]]
<1>1. Commit(e, [e EXCEPT !.pc = "notDue"], run, root, nad)
  BY DEF AdmitNotDue
<1>2. Orderly(adm, run) /\ run \in [RunIds -> RunRow]
  BY DEF SweepIInv
<1>3. DOMAIN nad = DOMAIN adm
  OBVIOUS
<1>4. \A a \in DOMAIN adm : nad[a] = IF a \in Waiting(e.run)
                                      THEN [adm[a] EXCEPT !.status = "not_due"]
                                      ELSE adm[a]
  OBVIOUS
<1>5. nad = [a \in DOMAIN nad |-> nad[a]]
  OBVIOUS
<1> HIDE DEF nad
<1>6. \A old \in AdmissionRow :
        LET row == [old EXCEPT !.status = "not_due"]
        IN  /\ row \in AdmissionRow /\ row.run = old.run /\ row.kind = old.kind
            /\ row.consumed = old.consumed /\ row.res = old.res /\ row.status = "not_due"
  BY DEF AdmissionRow
<1>7. ASSUME NEW a \in DOMAIN adm
      PROVE  nad[a] \in AdmissionRow /\ RowFollows(adm[a], nad[a], run)
  <2>1. adm[a] \in AdmissionRow /\ RowOrderly(adm[a], run)
    BY <1>2, RowFacts
  <2>2. CASE a \notin Waiting(e.run)
    <3>1. nad[a] = adm[a]
      BY <1>4, <2>2
    <3> QED BY <2>1, <3>1 DEF RowFollows
  <2>3. CASE a \in Waiting(e.run)
    <3>1. nad[a] = [adm[a] EXCEPT !.status = "not_due"]
      BY <1>4, <2>3
    <3>2. /\ nad[a] \in AdmissionRow /\ nad[a].run = adm[a].run /\ nad[a].kind = adm[a].kind
          /\ nad[a].consumed = adm[a].consumed /\ nad[a].res = adm[a].res
          /\ nad[a].status = "not_due"
      BY <1>6, <2>1, <3>1
    <3>3. adm[a].status = "waiting"
      BY <2>3 DEF Waiting
    <3> QED BY <2>1, <3>2, <3>3 DEF RowFollows, RowOrderly
  <2> QED BY <2>2, <2>3
<1>8. nad \in [DOMAIN adm -> AdmissionRow]
  BY <1>3, <1>5, <1>7
<1>9. Orderly(nad, run) /\ Grows(adm, nad)
  BY <1>2, <1>7, <1>8, RowByRow
<1>10. "notDue" \in Onward \ Chained
  BY DEF Onward, ExecSteps, Chained
<1> QED BY <1>1, <1>2, <1>9, <1>10, CompleteIsKept, CommitRun

LEMMA AdmitLaterKeeps ==
  ASSUME SweepIInv, NEW e \in exec, AdmitLater(e)
  PROVE  Moved
<1>1. HeldRows(e.run) = {} /\ Valid(e)
  BY DEF AdmitLater, CanQueue, Commit
<1>2. QueuedRow(e, Queued(e))
  BY <1>1, QueuedKeeps
<1>3. PICK nad : nad = Queued(e).adm
  OBVIOUS
<1>4. Orderly(nad, run) /\ Grows(adm, nad)
  BY <1>2, <1>3 DEF QueuedRow
<1>5. "waiting" \in Onward \ Chained /\ "unexpected" \in Onward \ Chained
  BY DEF Onward, ExecSteps, Chained
<1>6. run \in [RunIds -> RunRow] /\ e.run \in RunIds
  BY ExecutionFacts DEF SweepIInv
<1>7. CASE Commit(e, [e EXCEPT !.pc = "waiting"], run, root, nad)
  BY <1>4, <1>5, <1>6, <1>7, CompleteIsKept, CommitRun
<1>8. CASE /\ run[e.run].status \in {"running", "queued"}
           /\ Commit(e, [e EXCEPT !.pc = "waiting"],
                     [run EXCEPT ![e.run].status = "queued"], root, nad)
  <2>1. run[e.run].status # "complete" /\ "queued" \in ActiveStatus
    BY <1>8 DEF ActiveStatus
  <2>2. PICK nrn : nrn = [run EXCEPT ![e.run].status = "queued"]
    OBVIOUS
  <2>3. nrn \in [RunIds -> RunRow] /\ StaysComplete(run, nrn)
    BY <1>6, <2>1, <2>2, ActiveRunMoves
  <2>4. Commit(e, [e EXCEPT !.pc = "waiting"], nrn, root, nad)
    BY <1>8, <2>2
  <2> QED BY <1>4, <1>5, <2>3, <2>4, CommitRun
<1>9. CASE Move(e, [e EXCEPT !.pc = "unexpected"])
  BY <1>5, <1>9, PlainMoveKeeps
<1> QED BY <1>3, <1>7, <1>8, <1>9 DEF AdmitLater

(* The writes to a run that is not complete.                               *)
LEMMA RunWritesKeep ==
  ASSUME SweepIInv, NEW e \in exec, MarkRetrying(e) \/ FailRun(e) \/ CompleteNotDue(e)
  PROVE  Moved
<1>1. /\ run \in [RunIds -> RunRow] /\ e.run \in RunIds /\ e.base \in Nat
      /\ e.att \in 1 .. MaxAttempts
  BY ExecutionFacts DEF SweepIInv
<1>2. /\ {"throw", "return", "unexpected"} \subseteq Onward \ Chained
      /\ "retrying" \in ActiveStatus
  BY DEF Onward, ExecSteps, ActiveStatus, Chained
<1>3. Active(e.run) => run[e.run].status # "complete"
  BY DEF Active, ActiveStatus
<1>4. CASE MarkRetrying(e)
  <2>1. PICK nrn : nrn = [run EXCEPT ![e.run].status = "retrying",
                                     ![e.run].attempt = e.base + e.att]
    OBVIOUS
  <2>2. Active(e.run) /\ Commit(e, [e EXCEPT !.pc = "throw"], nrn, root, adm)
    BY <1>4, <2>1 DEF MarkRetrying
  <2>3. e.base + e.att \in Nat
    BY <1>1
  <2>4. nrn \in [RunIds -> RunRow] /\ StaysComplete(run, nrn)
    BY <1>1, <1>2, <1>3, <2>1, <2>2, <2>3, ActiveRunMoves
  <2> QED BY <1>2, <2>2, <2>4, CommitRunOnly
<1>5. CASE FailRun(e)
  <2> DEFINE c == IF run[e.run].aged THEN "lifetime" ELSE "other"
  <2>1. PICK nrn : nrn = [run EXCEPT ![e.run].status = "failed", ![e.run].cause = c]
    OBVIOUS
  <2>2. PICK s \in Onward \ Chained :
          Active(e.run) /\ Commit(e, [e EXCEPT !.pc = s], nrn, root, adm)
    BY <1>2, <1>5, <2>1 DEF FailRun
  <2>3. c \in {"none", "lifetime", "other"}
    OBVIOUS
  <2> HIDE DEF c
  <2>4. nrn \in [RunIds -> RunRow] /\ StaysComplete(run, nrn)
    BY <1>1, <1>3, <2>1, <2>2, <2>3, ActiveRunMoves
  <2> QED BY <2>2, <2>4, CommitRunOnly
<1>6. CASE CompleteNotDue(e)
  <2>1. CASE Move(e, [e EXCEPT !.pc = "unexpected"])
    BY <1>2, <2>1, PlainMoveKeeps
  <2>2. CASE Commit(e, [e EXCEPT !.pc = "return"],
                    [run EXCEPT ![e.run].status = "complete"], root, adm)
    <3>1. PICK nrn : nrn = [run EXCEPT ![e.run].status = "complete"]
      OBVIOUS
    <3>2. nrn \in [RunIds -> RunRow] /\ StaysComplete(run, nrn)
      BY <1>1, <3>1, RunFields
    <3>3. Commit(e, [e EXCEPT !.pc = "return"], nrn, root, adm)
      BY <2>2, <3>1
    <3> QED BY <1>2, <3>2, <3>3, CommitRunOnly
  <2> QED BY <1>6, <2>1, <2>2 DEF CompleteNotDue
<1> QED BY <1>4, <1>5, <1>6

(* The steps of a delivery that write nothing.                             *)
LEMMA MovesKeep ==
  ASSUME SweepIInv, NEW e \in exec,
         \/ Identify(e) \/ Throws(e) \/ EnqueueFails(e) \/ Stale(e) \/ RunEnded(e) \/ Abort(e)
         \/ SweepEnds(e) \/ SweepThrows(e) \/ ReleaseThrows(e) \/ ReleaseRefused(e)
  PROVE  Moved
<1> DEFINE After == {s \in Onward : s \in Chained => e.cont}
<1>1. /\ {"return", "throw", "unexpected", "claim", "retry", "fail"} \subseteq Onward \ Chained
      /\ "noProgress" \in Onward
  BY DEF Onward, ExecSteps, Chained
<1>2. CASE \E s \in After : Move(e, [e EXCEPT !.pc = s])
  BY <1>2, PlainMoveKeeps
<1>3. CASE \E s \in After : e.pc = "sweep" /\ ReleaseThen(e, s)
  <2>1. PICK s \in After : e.pc = "sweep" /\ ReleaseThen(e, s)
    BY <1>3
  <2>2. PICK f : f = [e EXCEPT !.pc = "release", !.next = s]
    OBVIOUS
  <2>3. e \in Deliveries /\ Links(e, adm, root)
    BY ExecutionFacts
  <2>4. f \in Deliveries /\ Links(f, adm, root)
    BY <2>1, <2>2, <2>3, ReleaseMove
  <2>5. Move(e, f)
    BY <2>1, <2>2 DEF ReleaseThen
  <2> QED BY <2>4, <2>5, MoveKeeps
<1>4. Identify(e) \/ Throws(e) \/ EnqueueFails(e) \/ Stale(e) \/ RunEnded(e) \/ Abort(e)
        \/ ReleaseThrows(e) \/ ReleaseRefused(e) => \E s \in After : Move(e, [e EXCEPT !.pc = s])
  <2>1. Identify(e) => \E s \in After : Move(e, [e EXCEPT !.pc = s])
    BY <1>1 DEF Identify
  <2>2. Throws(e) => \E s \in After : Move(e, [e EXCEPT !.pc = s])
    BY <1>1 DEF Throws
  <2>3. EnqueueFails(e) => \E s \in After : Move(e, [e EXCEPT !.pc = s])
    BY <1>1 DEF EnqueueFails
  <2>4. Stale(e) => \E s \in After : Move(e, [e EXCEPT !.pc = s])
    BY <1>1 DEF Stale
  <2>5. RunEnded(e) => \E s \in After : Move(e, [e EXCEPT !.pc = s])
    BY <1>1 DEF RunEnded
  <2>6. Abort(e) => \E s \in After : Move(e, [e EXCEPT !.pc = s])
    BY <1>1 DEF Abort
  <2>7. ReleaseThrows(e) \/ ReleaseRefused(e) => \E s \in After : Move(e, [e EXCEPT !.pc = s])
    BY <1>1 DEF ReleaseThrows, ReleaseRefused
  <2> QED BY <2>1, <2>2, <2>3, <2>4, <2>5, <2>6, <2>7
<1>5. SweepEnds(e) \/ SweepThrows(e) => \E s \in After : e.pc = "sweep" /\ ReleaseThen(e, s)
  BY <1>1 DEF SweepEnds, SweepThrows
<1> QED BY <1>2, <1>3, <1>4, <1>5

(* A continuation queued for a chain without a live admission.             *)
LEMMA RequeuedKeeps ==
  ASSUME run \in [RunIds -> RunRow], OwnerIsDone(root, run), NEW ad, Orderly(ad, run),
         NEW r \in RunIds, NEW w \in {"now", "later", "due"}, ~(GaveUp /\ r = root.owner)
  PROVE  Orderly(Requeued(ad, r, w), run) /\ Grows(ad, Requeued(ad, r, w))
<1>1. CASE ~Bare(ad, r)
  BY <1>1, GrowsOn DEF Requeued
<1>2. CASE Bare(ad, r)
  <2>1. run[r].status = "complete"
    BY <1>2 DEF Bare, Owned, OwnerIsDone, RunIds, NoRun
  <2>2. ASSUME NEW a \in Rows(ad, r)
        PROVE  ad[a].res # "held" /\ (ad[a].res = "lapsed" => run[r].status = "complete")
    <3>1. a \in DOMAIN ad
      BY DEF Rows
    <3>2. RowOrderly(ad[a], run)
      BY <3>1, RowFacts
    <3>3. ~LiveRow(ad[a])
      BY <1>2 DEF Bare
    <3> QED BY <2>1, <3>2, <3>3 DEF RowOrderly, LiveRow
  <2> DEFINE nad == Append(ConsumeAll(ad, r), NewRow(r, "continuation", w, FALSE))
  <2>3. Orderly(nad, run) /\ Grows(ad, nad)
    <3>1. PICK k \in {"ordinary", "continuation"} : k = "continuation"
      OBVIOUS
    <3>2. PICK l \in BOOLEAN : l = FALSE
      OBVIOUS
    <3>3. ~(GaveUp /\ r = root.owner /\ k = "continuation")
      OBVIOUS
    <3>4. nad = Append(ConsumeAll(ad, r), NewRow(r, k, w, l))
      BY <3>1, <3>2
    <3> HIDE DEF nad
    <3> QED BY <2>2, <3>3, <3>4, AnotherRow
  <2>4. Requeued(ad, r, w) = nad
    BY <1>2 DEF Requeued
  <2> HIDE DEF nad
  <2> QED BY <2>3, <2>4
<1> QED BY <1>1, <1>2

(* A row that is not waiting gives its reservation back.                   *)
LEMMA ReleasedRow ==
  \A old \in AdmissionRow :
    /\ LET row == [old EXCEPT !.res = "released", !.status = "released"]
       IN  /\ row \in AdmissionRow /\ row.run = old.run /\ row.kind = old.kind
           /\ row.consumed = old.consumed /\ \A rn : RowOrderly(row, rn)
    /\ LET row == [old EXCEPT !.status = "released", !.res = "released"]
       IN  /\ row \in AdmissionRow /\ row.run = old.run /\ row.kind = old.kind
           /\ row.consumed = old.consumed /\ \A rn : RowOrderly(row, rn)
<1> TAKE old \in AdmissionRow
<1>1. \A row \in AdmissionRow :
        /\ LET new == [row EXCEPT !.res = "released"]
           IN  /\ new \in AdmissionRow /\ new.run = row.run /\ new.kind = row.kind
               /\ new.consumed = row.consumed /\ new.res = "released" /\ new.status = row.status
        /\ LET new == [row EXCEPT !.status = "released"]
           IN  /\ new \in AdmissionRow /\ new.run = row.run /\ new.kind = row.kind
               /\ new.consumed = row.consumed /\ new.res = row.res /\ new.status = "released"
  BY DEF AdmissionRow
<1> DEFINE r1 == [old EXCEPT !.res = "released"]
           r2 == [r1 EXCEPT !.status = "released"]
           r3 == [old EXCEPT !.status = "released"]
           r4 == [r3 EXCEPT !.res = "released"]
<1>2. /\ r2 \in AdmissionRow /\ r2.run = old.run /\ r2.kind = old.kind
      /\ r2.consumed = old.consumed /\ r2.res = "released" /\ r2.status = "released"
  <2>1. /\ r1 \in AdmissionRow /\ r1.run = old.run /\ r1.kind = old.kind
        /\ r1.consumed = old.consumed /\ r1.res = "released"
    BY <1>1
  <2> HIDE DEF r1
  <2> QED BY <1>1, <2>1
<1>3. /\ r4 \in AdmissionRow /\ r4.run = old.run /\ r4.kind = old.kind
      /\ r4.consumed = old.consumed /\ r4.res = "released" /\ r4.status = "released"
  <2>1. /\ r3 \in AdmissionRow /\ r3.run = old.run /\ r3.kind = old.kind
        /\ r3.consumed = old.consumed /\ r3.status = "released"
    BY <1>1
  <2> HIDE DEF r3
  <2> QED BY <1>1, <2>1
<1>4. r2 = [old EXCEPT !.res = "released", !.status = "released"]
      /\ r4 = [old EXCEPT !.status = "released", !.res = "released"]
  BY Zenon
<1> HIDE DEF r2, r4
<1>5. \A rn : RowOrderly(r2, rn) /\ RowOrderly(r4, rn)
  BY <1>2, <1>3 DEF RowOrderly
<1> QED BY <1>2, <1>3, <1>4, <1>5, Zenon

LEMMA ReleaseKeeps ==
  ASSUME SweepIInv, NEW e \in exec, Release(e)
  PROVE  Moved
<1>1. Orderly(adm, run) /\ run \in [RunIds -> RunRow] /\ e.next \in Onward /\ Links(e, adm, root)
  BY ExecutionFacts DEF SweepIInv
<1>2. e.res \in DOMAIN adm
  BY <1>1 DEF Release, Links
<1> DEFINE old == adm[e.res]
           row == [old EXCEPT !.res = "released", !.status = "released"]
           nad == [adm EXCEPT ![e.res] = row]
<1>3. old \in AdmissionRow
  BY <1>1, <1>2, RowFacts
<1>4. /\ row \in AdmissionRow /\ row.run = old.run /\ row.kind = old.kind
      /\ row.consumed = old.consumed /\ RowOrderly(row, run)
  <2> HIDE DEF old
  <2> QED BY <1>3, ReleasedRow, Zenon
<1>5. Commit(e, [e EXCEPT !.pc = e.next], run, root, nad)
  BY Zenon DEF Release
<1> HIDE DEF row
<1>6. Orderly(nad, run) /\ Grows(adm, nad)
  BY <1>1, <1>2, <1>4, OneRow
<1> HIDE DEF nad
<1>7. PICK s \in Onward : s = e.next /\ (s \in Chained => e.cont)
  BY <1>1 DEF Release, Links
<1>8. Commit(e, [e EXCEPT !.pc = s], run, root, nad)
  BY <1>5, <1>7
<1> QED BY <1>1, <1>6, <1>7, <1>8, CompleteIsKept, CommitRun

LEMMA RecordFailureKeeps ==
  ASSUME SweepIInv, NEW e \in exec, RecordFailure(e)
  PROVE  Moved
<1> DEFINE rt == [root EXCEPT !.failures = @ + 1]
<1>1. PICK s \in {"return", "requeue"} :
        e.pc = "noProgress" /\ Commit(e, [e EXCEPT !.pc = s], run, rt, adm)
  BY DEF RecordFailure
<1>2. /\ root \in Root /\ OwnerIsDone(root, run) /\ Orderly(adm, run)
      /\ run \in [RunIds -> RunRow]
  BY DEF SweepIInv
<1>3. /\ rt \in Root /\ rt.owner = root.owner /\ rt.cursor = root.cursor
      /\ root.cursor \in Nat
  BY <1>2 DEF Root
<1> HIDE DEF rt
<1>4. OwnerIsDone(rt, run)
  BY <1>2, <1>3 DEF OwnerIsDone
<1>5. s \in Onward
  BY DEF Onward, ExecSteps
<1>6. /\ e \in Deliveries /\ Links(e, adm, root) /\ Grows(adm, adm)
      /\ e.cont /\ Valid(e)
  BY <1>1, ExecutionFacts, GrowsOn DEF Links, Chained, Commit
<1>7. PICK f : f = [e EXCEPT !.pc = s]
  OBVIOUS
<1>8. f \in Deliveries /\ Links(f, adm, root) /\ Commit(e, f, run, rt, adm)
  BY <1>1, <1>5, <1>6, <1>7, PlainMove
<1>9. f.adm = e.adm /\ f.job = e.job /\ f.att = e.att
  BY <1>6, <1>7 DEF Deliveries
<1>10. Links(f, adm, rt) /\ \A g \in exec : Links(g, adm, rt)
  BY <1>3, <1>8, ExecutionFacts, SameCursor
<1>11. PICK nad : nad = Retired(f, run, rt, adm)
  OBVIOUS
<1>12. ChainOver(rt, nad)
  <2>1. /\ root.owner = e.run /\ e.adm # NoRow /\ adm[e.adm].kind = "continuation"
        /\ e.run \in RunIds
    BY <1>6, LiveChain, ExecutionFacts DEF Links
  <2>2. /\ e.adm \in DOMAIN adm /\ adm[e.adm].job = e.job /\ adm[e.adm].att = e.att
        /\ \A b \in DOMAIN adm : adm[b].run = e.run /\ ~adm[b].consumed => b = e.adm
    BY <1>6, <2>1, OwnRow DEF Valid
  <2>3. ASSUME rt.failures >= MaxFailures
        PROVE  \A b \in Continuations(nad, e.run) : nad[b].consumed
    <3>1. nad = [adm EXCEPT ![e.adm] = GivenUp(@)]
      BY <1>9, <1>11, <2>1, <2>2, <2>3 DEF Retired
    <3>2. adm[e.adm] \in AdmissionRow
      BY <1>2, <2>2, RowFacts
    <3>3. GivenUp(adm[e.adm]).consumed = TRUE
      BY <3>2, GivenUpRow
    <3>4. DOMAIN nad = DOMAIN adm /\ nad[e.adm].consumed = TRUE
      BY <2>2, <3>1, <3>3
    <3>5. \A b \in DOMAIN adm : b # e.adm => nad[b] = adm[b]
      BY <3>1
    <3> QED BY <2>2, <3>4, <3>5 DEF Continuations, Rows
  <2>4. rt.owner = e.run /\ rt.owner # NoRun
    BY <1>3, <2>1 DEF RunIds, NoRun
  <2> QED BY <2>3, <2>4 DEF ChainOver
<1>13. rt.cursor >= root.cursor
  BY <1>3
<1> QED BY <1>2, <1>3, <1>4, <1>6, <1>8, <1>10, <1>11, <1>12, <1>13, CommitsAs

LEMMA RequeueKeeps ==
  ASSUME SweepIInv, NEW e \in exec, Requeue(e)
  PROVE  Moved
<1> DEFINE ad == [a \in DOMAIN adm |->
                    IF a \in HeldRows(e.run)
                    THEN [adm[a] EXCEPT !.status = "released", !.res = "released"]
                    ELSE adm[a]]
<1>1. Commit(e, [e EXCEPT !.pc = "enqueue"], run, root, Requeued(ad, e.run, "later"))
  BY Zenon DEF Requeue
<1>2. Orderly(adm, run) /\ run \in [RunIds -> RunRow] /\ OwnerIsDone(root, run)
      /\ e.run \in RunIds
  BY ExecutionFacts DEF SweepIInv
<1>3. DOMAIN ad = DOMAIN adm
  OBVIOUS
<1>4. \A a \in DOMAIN adm :
        ad[a] = IF a \in HeldRows(e.run)
                THEN [adm[a] EXCEPT !.status = "released", !.res = "released"]
                ELSE adm[a]
  BY Zenon
<1>5. ad = [a \in DOMAIN ad |-> ad[a]]
  BY Zenon
<1> HIDE DEF ad
<1>6. ASSUME NEW a \in DOMAIN adm
      PROVE  ad[a] \in AdmissionRow /\ RowFollows(adm[a], ad[a], run)
  <2>1. adm[a] \in AdmissionRow /\ RowOrderly(adm[a], run)
    BY <1>2, RowFacts
  <2>2. CASE a \notin HeldRows(e.run)
    <3>1. ad[a] = adm[a]
      BY <1>4, <2>2
    <3> QED BY <2>1, <3>1 DEF RowFollows
  <2>3. CASE a \in HeldRows(e.run)
    <3>1. PICK old \in AdmissionRow : old = adm[a]
      BY <2>1
    <3>2. ad[a] = [old EXCEPT !.status = "released", !.res = "released"]
      BY <1>4, <2>3, <3>1, Zenon
    <3> DEFINE row == [old EXCEPT !.status = "released", !.res = "released"]
    <3>3. /\ row \in AdmissionRow /\ row.run = old.run /\ row.kind = old.kind
          /\ row.consumed = old.consumed /\ RowOrderly(row, run)
      BY ReleasedRow, Zenon
    <3>4. ad[a] = row
      BY <3>2, Zenon
    <3> HIDE DEF row
    <3> QED BY <3>1, <3>3, <3>4 DEF RowFollows
  <2> QED BY <2>2, <2>3
<1>7. ad \in [DOMAIN adm -> AdmissionRow]
  BY <1>3, <1>5, <1>6
<1>8. Orderly(ad, run) /\ Grows(adm, ad)
  BY <1>2, <1>6, <1>7, RowByRow
<1>9. PICK nad : nad = Requeued(ad, e.run, "later")
  OBVIOUS
<1>10. Orderly(nad, run) /\ Grows(ad, nad)
  <2>1. e.cont /\ Valid(e)
    BY <1>1, ExecutionFacts DEF Requeue, Commit, Links, Chained
  <2>2. ~GaveUp
    BY <2>1, LiveChain
  <2> QED BY <1>2, <1>8, <1>9, <2>2, RequeuedKeeps
<1>11. Grows(adm, nad)
  BY <1>8, <1>10, GrowsOn
<1>12. "enqueue" \in Onward \ Chained
  BY DEF Onward, ExecSteps, Chained
<1> QED BY <1>1, <1>2, <1>9, <1>10, <1>11, <1>12, CompleteIsKept, CommitRun

(* The row of a published sweep.                                           *)
LEMMA FinishedRow ==
  \A old \in AdmissionRow :
    LET row == [old EXCEPT !.status = "finished", !.consumed = TRUE, !.res = "released"]
    IN  /\ row \in AdmissionRow /\ row.run = old.run /\ row.kind = old.kind
        /\ row.consumed = TRUE /\ \A rn : RowOrderly(row, rn)
<1> TAKE old \in AdmissionRow
<1> DEFINE r1 == [old EXCEPT !.status = "finished"]
           r2 == [r1 EXCEPT !.consumed = TRUE]
           r3 == [r2 EXCEPT !.res = "released"]
<1>1. /\ r1 \in AdmissionRow /\ r1.run = old.run /\ r1.kind = old.kind
      /\ r1.status = "finished"
  BY DEF AdmissionRow
<1>2. /\ r2 \in AdmissionRow /\ r2.run = old.run /\ r2.kind = old.kind
      /\ r2.status = "finished" /\ r2.consumed = TRUE
  <2> HIDE DEF r1
  <2> QED BY <1>1 DEF AdmissionRow
<1>3. /\ r3 \in AdmissionRow /\ r3.run = old.run /\ r3.kind = old.kind
      /\ r3.status = "finished" /\ r3.consumed = TRUE /\ r3.res = "released"
  <2> HIDE DEF r2
  <2> QED BY <1>2 DEF AdmissionRow
<1>4. r3 = [old EXCEPT !.status = "finished", !.consumed = TRUE, !.res = "released"]
  BY Zenon
<1> HIDE DEF r3
<1>5. \A rn : RowOrderly(r3, rn)
  BY <1>3 DEF RowOrderly
<1> QED BY <1>3, <1>4, <1>5, Zenon

(* A publication on the run's newest row.                                  *)
LEMMA FinishedKeeps ==
  ASSUME SweepIInv, NEW a \in DOMAIN adm, ~adm[a].consumed, NEW cursor,
         ~(GaveUp /\ adm[a].run = root.owner)
  PROVE  /\ Orderly(Finished(a, cursor), run) /\ Grows(adm, Finished(a, cursor))
         /\ \A b \in DOMAIN adm : adm[b].run = adm[a].run => Finished(a, cursor)[b].consumed
<1> DEFINE r  == adm[a].run
           ad == [b \in DOMAIN adm |->
                    IF b = a THEN [adm[b] EXCEPT !.status = "finished", !.consumed = TRUE,
                                                 !.res = "released"]
                    ELSE [adm[b] EXCEPT !.late = @ \/ adm[b].status = "waiting"]]
           more == Append(ad, NewRow(r, "continuation", "now", TRUE))
<1>1. Orderly(adm, run) /\ run \in [RunIds -> RunRow]
  BY DEF SweepIInv
<1>2. Finished(a, cursor) = ad \/ Finished(a, cursor) = more
  BY Zenon DEF Finished
<1>3. DOMAIN ad = DOMAIN adm
  OBVIOUS
<1>4. \A b \in DOMAIN adm :
        ad[b] = IF b = a THEN [adm[b] EXCEPT !.status = "finished", !.consumed = TRUE,
                                             !.res = "released"]
                ELSE [adm[b] EXCEPT !.late = @ \/ adm[b].status = "waiting"]
  BY Zenon
<1>5. ad = [b \in DOMAIN ad |-> ad[b]]
  BY Zenon
<1> HIDE DEF ad
<1>6. ASSUME NEW b \in DOMAIN adm
      PROVE  /\ ad[b] \in AdmissionRow /\ RowFollows(adm[b], ad[b], run)
             /\ b = a => ad[b].consumed
  <2>1. adm[b] \in AdmissionRow /\ RowOrderly(adm[b], run)
    BY <1>1, RowFacts
  <2>2. PICK old \in AdmissionRow : old = adm[b]
    BY <2>1
  <2>3. CASE b = a
    <3> DEFINE row == [old EXCEPT !.status = "finished", !.consumed = TRUE, !.res = "released"]
    <3>1. /\ row \in AdmissionRow /\ row.run = old.run /\ row.kind = old.kind
          /\ row.consumed = TRUE /\ RowOrderly(row, run)
      BY FinishedRow, Zenon
    <3>2. ad[b] = row
      BY <1>4, <2>2, <2>3, Zenon
    <3> HIDE DEF row
    <3> QED BY <2>2, <3>1, <3>2 DEF RowFollows
  <2>4. CASE b # a
    <3>1. PICK l \in BOOLEAN : l = (old.late \/ old.status = "waiting")
      OBVIOUS
    <3> DEFINE row == [old EXCEPT !.late = l]
    <3>2. /\ row \in AdmissionRow /\ row.run = old.run /\ row.kind = old.kind
          /\ row.consumed = old.consumed /\ row.status = old.status /\ row.res = old.res
      BY DEF AdmissionRow
    <3>3. ad[b] = row
      BY <1>4, <2>2, <2>4, <3>1
    <3> HIDE DEF row
    <3> QED BY <2>1, <2>2, <2>4, <3>2, <3>3 DEF RowFollows, RowOrderly
  <2> QED BY <2>3, <2>4
<1>7. ad \in [DOMAIN adm -> AdmissionRow]
  BY <1>3, <1>5, <1>6
<1>8. Orderly(ad, run) /\ Grows(adm, ad)
  BY <1>1, <1>6, <1>7, RowByRow
<1>9. r \in RunIds
  BY <1>1, RowFacts
<1>10. ASSUME NEW b \in DOMAIN ad, ad[b].run = r
       PROVE  ad[b].consumed
  <2>1. b \in DOMAIN adm /\ adm[b].run = r
    BY <1>3, <1>6, <1>10 DEF RowFollows
  <2>2. CASE b = a
    BY <1>6, <2>1, <2>2
  <2>3. CASE b # a
    <3>1. b <= a /\ b \in Nat /\ a \in Nat
      BY <1>1, <2>1, RowFacts
    <3>2. adm[b].consumed
      BY <1>1, <2>1, <2>3, <3>1 DEF Orderly, OlderConsumed
    <3> QED BY <1>6, <2>1, <3>2 DEF RowFollows
  <2> QED BY <2>2, <2>3
<1> DEFINE row == NewRow(r, "continuation", "now", TRUE)
<1>11. NewlyWaits(row, r, "continuation")
  BY <1>1, <1>9, NewRowWaits
<1> HIDE DEF row, r
<1>12. row \in AdmissionRow /\ RowOrderly(row, run) /\ row.run = r
  BY <1>11 DEF NewlyWaits, RowOrderly
<1>0. ~(GaveUp /\ r = root.owner)
  BY DEF r
<1>13. /\ Orderly(Append(ad, row), run) /\ Grows(ad, Append(ad, row))
       /\ \A b \in DOMAIN ad : Append(ad, row)[b] = ad[b]
  <2>1. \A b \in DOMAIN ad : ad[b].run = row.run => ad[b].consumed
    BY <1>10, <1>12
  <2> HIDE DEF ad
  <2>2. PICK mid, last : mid = ad /\ last = row
    OBVIOUS
  <2>3. /\ Orderly(mid, run) /\ last \in AdmissionRow /\ RowOrderly(last, run)
        /\ \A b \in DOMAIN mid : mid[b].run = last.run => mid[b].consumed
        /\ ~(GaveUp /\ last.run = root.owner /\ last.kind = "continuation")
    BY <1>0, <1>8, <1>12, <2>1, <2>2
  <2>4. /\ Orderly(Append(mid, last), run) /\ Grows(mid, Append(mid, last))
        /\ DOMAIN Append(mid, last) = DOMAIN mid \cup {Len(mid) + 1}
        /\ Append(mid, last)[Len(mid) + 1] = last
        /\ \A b \in DOMAIN mid : Append(mid, last)[b] = mid[b] /\ b < Len(mid) + 1
    <3> HIDE DEF NewRow
    <3> QED BY <2>3, Appended
  <2> QED BY <2>2, <2>4
<1>14. more = Append(ad, row)
  BY DEF row, r
<1> HIDE DEF more
<1>15. Orderly(more, run) /\ Grows(adm, more) /\ \A b \in DOMAIN ad : more[b] = ad[b]
  BY <1>8, <1>13, <1>14, GrowsOn
<1>16. \A b \in DOMAIN adm : adm[b].run = r => ad[b].consumed /\ more[b].consumed
  BY <1>3, <1>6, <1>10, <1>15 DEF RowFollows
<1>17. \A b \in DOMAIN adm : adm[b].run = adm[a].run => ad[b].consumed /\ more[b].consumed
  BY <1>16 DEF r
<1> QED BY <1>2, <1>8, <1>15, <1>17

(* The cursor a publication stores, and the chain it leaves.               *)
LEMMA StoredCursorFacts ==
  ASSUME root \in Root, NEW r \in RunIds, NEW cursor \in Nat, NEW rn,
         rn[r].status = "complete", NEW advanced \in BOOLEAN, cursor # Unswept => advanced
  PROVE  LET rt == StoredCursor(r, cursor, advanced)
         IN  /\ rt \in Root /\ OwnerIsDone(rt, rn) /\ rt.cursor = cursor
             /\ rt.owner = IF cursor = Unswept THEN NoRun ELSE r
             /\ \A ad : ChainOver(rt, ad)
<1> DEFINE rt == StoredCursor(r, cursor, advanced)
<1>1. /\ rt \in Root /\ rt.cursor = cursor /\ rt.owner = IF cursor = Unswept THEN NoRun ELSE r
      /\ advanced => rt.failures = 0
  BY DEF Root, StoredCursor
<1> HIDE DEF rt
<1>2. r # NoRun /\ ~(0 >= MaxFailures)
  BY SweepBounds DEF RunIds, NoRun, SweepAssumption
<1>3. OwnerIsDone(rt, rn)
  BY <1>1 DEF OwnerIsDone
<1>4. \A ad : ChainOver(rt, ad)
  BY <1>1, <1>2 DEF ChainOver
<1> QED BY <1>1, <1>3, <1>4 DEF rt

(* Once a cycle is published, no delivery of its run has a row in play.    *)
LEMMA PublishedLinks ==
  ASSUME SweepIInv, NEW e \in exec, NEW nad, Grows(adm, nad), NEW rt,
         rt.owner = NoRun \/ rt.owner = e.run,
         \A b \in DOMAIN adm : adm[b].run = e.run => nad[b].consumed
  PROVE  \A g \in exec : Links(g, nad, rt)
<1> TAKE g \in exec
<1>1. Links(g, adm, root) /\ g.run \in RunIds
  BY ExecutionFacts
<1>2. Links(g, nad, root)
  BY <1>1, LinksStay
<1>3. g.cont /\ rt.owner = g.run => nad[g.adm].consumed
  BY <1>1 DEF Links, RunIds, NoRun
<1> QED BY <1>2, <1>3 DEF Links

LEMMA PublishFirstKeeps ==
  ASSUME SweepIInv, NEW e \in exec, PublishFirst(e)
  PROVE  Moved
<1>1. /\ run \in [RunIds -> RunRow] /\ root \in Root /\ Orderly(adm, run)
      /\ e.run \in RunIds /\ e \in Deliveries /\ Links(e, adm, root)
  BY ExecutionFacts DEF SweepIInv
<1>2. /\ e.pc = "sweep" /\ Active(e.run) /\ Unreleased(adm, e.res)
  BY DEF PublishFirst
<1>3. PICK nrn : nrn = [run EXCEPT ![e.run].status = "complete"]
  OBVIOUS
<1>4. PICK cursor \in 0 .. MaxCursor, advanced \in BOOLEAN :
        /\ cursor # Unswept => advanced
        /\ Commit(e, [e EXCEPT !.pc = IF cursor = Unswept THEN "return" ELSE "enqueue"],
                  nrn, StoredCursor(e.run, cursor, advanced), Finished(e.res, cursor))
  BY <1>3, Zenon DEF PublishFirst
<1>5. nrn \in [RunIds -> RunRow] /\ StaysComplete(run, nrn) /\ nrn[e.run].status = "complete"
  BY <1>1, <1>3, RunFields
<1>6. e.res \in DOMAIN adm /\ adm[e.res].run = e.run
  BY <1>1, <1>2 DEF Links
<1>7. ~adm[e.res].consumed
  <2>1. RowOrderly(adm[e.res], run)
    BY <1>1, <1>6, RowFacts
  <2> QED BY <1>2, <1>6, <2>1 DEF RowOrderly, Unreleased, Active, ActiveStatus
<1>0. root.owner # e.run
  <2>1. run[e.run].status # "complete" /\ e.run # NoRun
    BY <1>1, <1>2 DEF Active, ActiveStatus, RunIds, NoRun
  <2> QED BY <2>1 DEF SweepIInv, OwnerIsDone
<1>8. PICK nad : nad = Finished(e.res, cursor)
  OBVIOUS
<1>9. /\ Orderly(nad, nrn) /\ Grows(adm, nad)
      /\ \A b \in DOMAIN adm : adm[b].run = e.run => nad[b].consumed
  BY <1>0, <1>5, <1>6, <1>7, <1>8, FinishedKeeps, RunsMoveOn
<1>10. PICK rt : rt = StoredCursor(e.run, cursor, advanced)
  OBVIOUS
<1>11. /\ rt \in Root /\ OwnerIsDone(rt, nrn) /\ rt.cursor = cursor
       /\ rt.owner = IF cursor = Unswept THEN NoRun ELSE e.run
       /\ \A ad : ChainOver(rt, ad)
  BY <1>1, <1>4, <1>5, <1>10, StoredCursorFacts
<1>12. PICK s \in Onward \ Chained : s = IF cursor = Unswept THEN "return" ELSE "enqueue"
  BY DEF Onward, ExecSteps, Chained
<1>13. PICK f : f = [e EXCEPT !.pc = s]
  OBVIOUS
<1>14. Commit(e, f, nrn, rt, nad)
  BY <1>4, <1>8, <1>10, <1>12, <1>13
<1>15. \A g \in exec : Links(g, nad, rt)
  BY <1>9, <1>11, PublishedLinks
<1>16. f \in Deliveries /\ Links(f, nad, rt) /\ f.pc # "sweep"
  <2>1. f \in Deliveries /\ Links(f, nad, rt)
    BY <1>1, <1>12, <1>13, <1>15, PlainMove
  <2>2. f.pc = s
    BY <1>1, <1>13 DEF Deliveries
  <2> QED BY <1>12, <2>1, <2>2 DEF Onward
<1>17. rt.owner = root.owner => rt.cursor >= root.cursor
  <2>1. rt.owner = root.owner => root.cursor = Unswept
    BY <1>0, <1>11 DEF SweepIInv, ChainOver
  <2> QED BY <1>11, <2>1 DEF Unswept
<1>18. ChainOver(rt, Retired(f, nrn, rt, nad))
  BY <1>11
<1> QED BY <1>2, <1>5, <1>9, <1>11, <1>14, <1>15, <1>16, <1>17, <1>18, CommitsAs

LEMMA PublishNextKeeps ==
  ASSUME SweepIInv, NEW e \in exec, PublishNext(e)
  PROVE  Moved
<1>1. /\ run \in [RunIds -> RunRow] /\ root \in Root /\ Orderly(adm, run)
      /\ e.run \in RunIds /\ e \in Deliveries /\ Links(e, adm, root) /\ e.seen \in Nat
  BY ExecutionFacts DEF SweepIInv
<1>2. e.pc = "sweep" /\ e.cont /\ e.live
  BY DEF PublishNext
<1>3. PICK cursor \in {Unswept} \cup (e.seen + 1) .. MaxCursor :
        Commit(e, [e EXCEPT !.pc = IF cursor = Unswept THEN "return" ELSE "enqueue"],
               run, StoredCursor(e.run, cursor, TRUE), Finished(e.res, cursor))
  BY Zenon DEF PublishNext
<1>4. cursor \in Nat
  BY <1>1 DEF Unswept
<1>5. Valid(e)
  BY <1>3 DEF Commit
<1>6. e.res = e.adm /\ e.adm # NoRow /\ adm[e.adm].kind = "continuation"
  BY <1>1, <1>2 DEF Links
<1>7. /\ e.res \in DOMAIN adm /\ ~adm[e.res].consumed /\ run[e.run].status = "complete"
  BY <1>5, <1>6, OwnRow
<1>0. root.owner = e.run /\ ~GaveUp /\ root.cursor <= e.seen /\ adm[e.res].run = e.run
  BY <1>1, <1>2, <1>5, <1>6, LiveChain DEF Links
<1>8. PICK nad : nad = Finished(e.res, cursor)
  OBVIOUS
<1>9. /\ Orderly(nad, run) /\ Grows(adm, nad)
      /\ \A b \in DOMAIN adm : adm[b].run = e.run => nad[b].consumed
  BY <1>0, <1>7, <1>8, FinishedKeeps
<1>10. PICK rt : rt = StoredCursor(e.run, cursor, TRUE)
  OBVIOUS
<1>11. /\ rt \in Root /\ OwnerIsDone(rt, run) /\ rt.cursor = cursor
       /\ rt.owner = IF cursor = Unswept THEN NoRun ELSE e.run
       /\ \A ad : ChainOver(rt, ad)
  <2>1. PICK advanced \in BOOLEAN : advanced = TRUE
    OBVIOUS
  <2>2. rt = StoredCursor(e.run, cursor, advanced) /\ (cursor # Unswept => advanced)
    BY <1>10, <2>1
  <2> QED BY <1>1, <1>4, <1>7, <2>2, StoredCursorFacts
<1>12. PICK s \in Onward \ Chained : s = IF cursor = Unswept THEN "return" ELSE "enqueue"
  BY DEF Onward, ExecSteps, Chained
<1>13. PICK f : f = [e EXCEPT !.pc = s]
  OBVIOUS
<1>14. Commit(e, f, run, rt, nad)
  BY <1>3, <1>8, <1>10, <1>12, <1>13
<1>15. \A g \in exec : Links(g, nad, rt)
  BY <1>9, <1>11, PublishedLinks
<1>16. f \in Deliveries /\ Links(f, nad, rt) /\ f.pc # "sweep"
  <2>1. f \in Deliveries /\ Links(f, nad, rt)
    BY <1>1, <1>12, <1>13, <1>15, PlainMove
  <2>2. f.pc = s
    BY <1>1, <1>13 DEF Deliveries
  <2> QED BY <1>12, <2>1, <2>2 DEF Onward
<1>17. rt.owner = root.owner => rt.cursor >= root.cursor
  <2>1. e.run # NoRun /\ root.cursor \in Nat
    BY <1>1 DEF RunIds, NoRun, Root
  <2>2. rt.owner = root.owner => cursor \in (e.seen + 1) .. MaxCursor
    BY <1>0, <1>3, <1>11, <2>1
  <2> QED BY <1>0, <1>1, <1>11, <2>1, <2>2
<1>18. ChainOver(rt, Retired(f, run, rt, nad))
  BY <1>11
<1> QED BY <1>0, <1>1, <1>2, <1>9, <1>11, <1>14, <1>15, <1>16, <1>17, <1>18, CommitsAs

(* The jobs keep their keys.                                               *)
LEMMA JobFields ==
  ASSUME NEW q \in [JobIds -> Job(Keys)], NEW j \in JobIds
  PROVE  /\ Deliver(q, j) \in [JobIds -> Job(Keys)] /\ Complete(q, j) \in [JobIds -> Job(Keys)]
         /\ FailJob(q, j) \in [JobIds -> Job(Keys)]
         /\ \A i \in JobIds : /\ Deliver(q, j)[i].key = q[i].key
                              /\ Complete(q, j)[i].key = q[i].key
                              /\ FailJob(q, j)[i].key = q[i].key
<1>0. q[j] \in Job(Keys) /\ q[j].attempt \in 1 .. MaxAttempts
  BY DEF Job
<1>1. \A s \in JobStates : /\ [q[j] EXCEPT !.state = s] \in Job(Keys)
                           /\ [q[j] EXCEPT !.state = s].key = q[j].key
  BY <1>0 DEF Job
<1>2. "active" \in JobStates /\ "completed" \in JobStates /\ "failed" \in JobStates
      /\ "retry" \in JobStates
  BY DEF JobStates, LiveJobStates
<1>3. \A s \in JobStates :
        /\ [q EXCEPT ![j].state = s] \in [JobIds -> Job(Keys)]
        /\ \A i \in JobIds : [q EXCEPT ![j].state = s][i].key = q[i].key
  BY <1>1
<1>4. Deliver(q, j) \in [JobIds -> Job(Keys)]
      /\ \A i \in JobIds : Deliver(q, j)[i].key = q[i].key
  BY <1>2, <1>3 DEF Deliver
<1>5. Complete(q, j) \in [JobIds -> Job(Keys)]
      /\ \A i \in JobIds : Complete(q, j)[i].key = q[i].key
  BY <1>2, <1>3 DEF Complete
<1>6. FailJob(q, j) \in [JobIds -> Job(Keys)] /\ \A i \in JobIds : FailJob(q, j)[i].key = q[i].key
  <2>1. CASE q[j].attempt < MaxAttempts
    <3> DEFINE n == q[j].attempt + 1
               r1 == [q[j] EXCEPT !.state = "retry"]
               r2 == [r1 EXCEPT !.attempt = n]
    <3>1. n \in 1 .. MaxAttempts
      BY <1>0, <2>1, JobQueueAssumption
    <3>2. r1 \in Job(Keys) /\ r1.key = q[j].key /\ r1.attempt = q[j].attempt
      BY <1>0, <1>2 DEF Job
    <3>3. r2 \in Job(Keys) /\ r2.key = q[j].key
      <4> HIDE DEF r1, n
      <4> QED BY <3>1, <3>2 DEF Job
    <3>4. FailJob(q, j) = [q EXCEPT ![j] = r2]
      <4>1. FailJob(q, j) = [q EXCEPT ![j].state = "retry", ![j].attempt = @ + 1]
        BY <2>1 DEF FailJob
      <4> DEFINE mid == [q EXCEPT ![j].state = "retry"]
      <4>2. FailJob(q, j) = [mid EXCEPT ![j].attempt = q[j].attempt + 1]
        BY <4>1, Zenon
      <4>3. mid = [q EXCEPT ![j] = r1] /\ mid[j] = r1
        OBVIOUS
      <4>4. \A i \in JobIds : i # j => mid[i] = q[i]
        OBVIOUS
      <4>5. mid \in [JobIds -> Job(Keys)]
        BY <1>2, <1>3
      <4> HIDE DEF mid, r1
      <4>6. [mid EXCEPT ![j].attempt = q[j].attempt + 1] = [mid EXCEPT ![j] = r2]
        BY <4>3
      <4> HIDE DEF r2
      <4>7. [mid EXCEPT ![j] = r2] = [q EXCEPT ![j] = r2]
        BY <4>4, <4>5
      <4> QED BY <4>2, <4>6, <4>7
    <3> HIDE DEF r2
    <3> QED BY <3>3, <3>4
  <2>2. CASE ~(q[j].attempt < MaxAttempts)
    BY <1>2, <1>3, <2>2 DEF FailJob
  <2> QED BY <2>1, <2>2
<1> QED BY <1>4, <1>5, <1>6

LEMMA KeyedMoves ==
  ASSUME NEW q, NEW ad, Keyed(q, ad), NEW j \in JobIds
  PROVE  Keyed(Deliver(q, j), ad) /\ Keyed(Complete(q, j), ad) /\ Keyed(FailJob(q, j), ad)
<1>1. q \in [JobIds -> Job(Keys)]
  BY DEF Keyed
<1> DEFINE All == [JobIds -> Job(Keys)]
<1>2. PICK d, c, f : d = Deliver(q, j) /\ c = Complete(q, j) /\ f = FailJob(q, j)
  OBVIOUS
<1>3. /\ d \in All /\ c \in All /\ f \in All
      /\ \A i \in JobIds : d[i].key = q[i].key /\ c[i].key = q[i].key /\ f[i].key = q[i].key
  BY <1>1, <1>2, JobFields, Zenon
<1>4. Keyed(d, ad)
  BY <1>3 DEF Keyed
<1>5. Keyed(c, ad)
  BY <1>3 DEF Keyed
<1>6. Keyed(f, ad)
  BY <1>3 DEF Keyed
<1> QED BY <1>2, <1>4, <1>5, <1>6

LEMMA KeyedSend ==
  ASSUME NEW q, NEW ad, Keyed(q, ad), NEW r \in RunIds, NEW a \in Nat,
         a # NoRow => a \in DOMAIN ad /\ ad[a].run = r, CanSend(q, <<r, a>>)
  PROVE  Keyed(Send(q, <<r, a>>), ad)
<1>1. CASE LiveJobs(q, <<r, a>>) # {}
  BY <1>1 DEF Send
<1>2. CASE LiveJobs(q, <<r, a>>) = {}
  <2>1. UnusedJobs(q) # {}
    BY <1>2 DEF CanSend
  <2>2. NextJob(q) \in UnusedJobs(q)
    BY <2>1, Zenon DEF NextJob
  <2>3. PICK j : j = NextJob(q)
    OBVIOUS
  <2>4. j \in JobIds
    BY <2>2, <2>3 DEF UnusedJobs
  <2> DEFINE key == <<r, a>>
             new == [state |-> "created", key |-> key, attempt |-> 1]
  <2>5. Send(q, <<r, a>>) = [q EXCEPT ![j] = new]
    BY <1>2, <2>3 DEF Send
  <2>6. key \in RunIds \X Nat /\ key[1] = r /\ key[2] = a
    OBVIOUS
  <2> HIDE DEF key
  <2>7. new \in Job(Keys) /\ new.key = key
    BY <2>6, JobQueueAssumption DEF Job, JobStates, LiveJobStates, Keys
  <2>8. q \in [JobIds -> Job(Keys)]
    BY DEF Keyed
  <2> HIDE DEF new
  <2>9. Keyed([q EXCEPT ![j] = new], ad)
    BY <2>4, <2>6, <2>7, <2>8 DEF Keyed
  <2> QED BY <2>5, <2>9
<1> QED BY <1>1, <1>2

(* A step of the queue, and of the runs.                                   *)
LEMMA JobsKeep ==
  ASSUME SweepIInv, NEW nrn, run' = nrn, adm' = adm, root' = root, Keyed(jobs', adm),
         Executing(exec', adm, root), disp' \in Dispatch, nrn \in [RunIds -> RunRow],
         StaysComplete(run, nrn)
  PROVE  Moved
<1>1. root \in Root /\ OwnerIsDone(root, nrn)
  <2>1. root \in Root /\ OwnerIsDone(root, run)
    BY DEF SweepIInv
  <2> QED BY <2>1 DEF OwnerIsDone, StaysComplete, Root
<1>2. Orderly(adm, nrn)
  BY RunsMoveOn DEF SweepIInv
<1>3. SweepIInv'
  BY <1>1, <1>2 DEF SweepIInv
<1> QED BY <1>1, <1>3, CursorStays, GrowsOn DEF Moved

LEMMA SettleKeeps ==
  ASSUME SweepIInv, NEW e \in exec, Settle(e) \/ WorkerDies(e)
  PROVE  Moved
<1>1. /\ run \in [RunIds -> RunRow] /\ Keyed(jobs, adm) /\ disp \in Dispatch
      /\ Executing(exec, adm, root) /\ e.job \in JobIds
  BY ExecutionFacts DEF SweepIInv
<1>2. run' = run /\ adm' = adm /\ root' = root /\ disp' = disp /\ exec' = exec \ {e}
  BY DEF Settle, WorkerDies
<1>3. jobs' = Complete(jobs, e.job) \/ jobs' = FailJob(jobs, e.job) \/ jobs' = jobs
  BY DEF Settle, WorkerDies
<1>4. Keyed(jobs', adm)
  BY <1>1, <1>3, KeyedMoves
<1>5. Executing(exec', adm, root)
  BY <1>1, <1>2 DEF Executing
<1> QED BY <1>1, <1>2, <1>4, <1>5, JobsKeep, CompleteIsKept

LEMMA ExpireKeeps ==
  ASSUME SweepIInv, NEW j \in JobIds, Expire(j)
  PROVE  Moved
<1>1. /\ run \in [RunIds -> RunRow] /\ Keyed(jobs, adm) /\ disp \in Dispatch
      /\ Executing(exec, adm, root)
  BY DEF SweepIInv
<1>2. run' = run /\ adm' = adm /\ root' = root /\ disp' = disp /\ jobs' = FailJob(jobs, j)
  BY DEF Expire
<1>3. Keyed(jobs', adm)
  BY <1>1, <1>2, KeyedMoves
<1>4. \A g \in exec' : \E e \in exec : g = e \/ g = [e EXCEPT !.attached = FALSE]
  BY DEF Expire
<1>5. ASSUME NEW e \in exec
      PROVE  [e EXCEPT !.attached = FALSE] \in Deliveries
             /\ Links([e EXCEPT !.attached = FALSE], adm, root)
  <2>1. e \in Deliveries /\ Links(e, adm, root)
    BY <1>1 DEF Executing
  <2> DEFINE g == [e EXCEPT !.attached = FALSE]
  <2>2. Is(g, e.pc, e.adm, e.run, e.cont, e.res, e.live, e.seen, e.next)
    BY <2>1, FieldByField
  <2> HIDE DEF g
  <2>3. g \in Deliveries /\ Links(g, adm, root)
    BY <2>1, <2>2 DEF Is, Links
  <2> QED BY <2>3 DEF g
<1>6. Executing(exec', adm, root)
  BY <1>1, <1>4, <1>5 DEF Executing
<1> QED BY <1>1, <1>2, <1>3, <1>6, JobsKeep, CompleteIsKept

LEMMA FetchKeeps ==
  ASSUME SweepIInv, NEW j \in JobIds, Fetch(j)
  PROVE  Moved
<1>1. /\ run \in [RunIds -> RunRow] /\ Keyed(jobs, adm) /\ disp \in Dispatch
      /\ Executing(exec, adm, root) /\ Orderly(adm, run)
  BY DEF SweepIInv
<1> DEFINE r     == jobs[j].key[1]
           bound == {a \in Rows(adm, r) : adm[a].job = j /\ ~adm[a].consumed /\ Newest(a)}
           x     == IF bound # {} THEN Last(bound) ELSE jobs[j].key[2]
           e     == [job |-> j, att |-> jobs[j].attempt, run |-> r, pc |-> "accept",
                     adm |-> x, base |-> 0, cont |-> FALSE, res |-> NoRow, live |-> FALSE,
                     seen |-> Unswept, next |-> "return", attached |-> TRUE]
<1>2. run' = run /\ adm' = adm /\ root' = root /\ disp' = disp /\ jobs' = Deliver(jobs, j)
      /\ exec' = exec \cup {e}
  BY DEF Fetch
<1>3. Keyed(jobs', adm)
  BY <1>1, <1>2, KeyedMoves
<1>4. /\ jobs[j].key \in RunIds \X Nat /\ jobs[j].attempt \in 1 .. MaxAttempts
      /\ jobs[j].key[2] # NoRow => jobs[j].key[2] \in DOMAIN adm
                                   /\ adm[jobs[j].key[2]].run = jobs[j].key[1]
  <2>1. jobs[j] \in Job(Keys)
    BY <1>1 DEF Keyed
  <2> QED BY <1>1, <2>1 DEF Job, Keyed, Keys
<1>5. r \in RunIds /\ jobs[j].key[2] \in Nat
  BY <1>4
<1>6. x \in Nat /\ (x # NoRow => x \in DOMAIN adm /\ adm[x].run = r)
  <2>1. CASE bound = {}
    BY <1>4, <1>5, <2>1
  <2>2. CASE bound # {}
    <3>1. Len(adm) \in Nat /\ DOMAIN adm = 1 .. Len(adm) /\ bound \in SUBSET (1 .. Len(adm))
      BY <1>1 DEF Orderly, Rows
    <3>2. PICK y : y = Last(bound)
      OBVIOUS
    <3>3. y \in bound
      <4> HIDE DEF bound
      <4> QED BY <2>2, <3>1, <3>2, LastIsOne
    <3>4. y \in DOMAIN adm /\ adm[y].run = r /\ y \in Nat
      BY <3>1, <3>3 DEF Rows
    <3>5. x = y
      BY <2>2, <3>2, Zenon
    <3> HIDE DEF x, bound, r
    <3> QED BY <3>4, <3>5
  <2> QED BY <2>1, <2>2
<1> HIDE DEF x, bound, r
<1>7. e \in Deliveries
  BY <1>4, <1>5, <1>6 DEF Deliveries, ExecSteps, Onward, NoRow, Unswept
<1>8. e.adm = x /\ e.run = r /\ e.pc = "accept" /\ e.cont = FALSE
  OBVIOUS
<1> HIDE DEF e
<1>9. Links(e, adm, root)
  BY <1>6, <1>8 DEF Links, Chained
<1>10. Executing(exec', adm, root)
  BY <1>1, <1>2, <1>7, <1>9 DEF Executing
<1> QED BY <1>1, <1>2, <1>3, <1>10, JobsKeep, CompleteIsKept

(* The dispatch.                                                           *)
LEMMA DispatchFields ==
  ASSUME disp \in Dispatch
  PROVE  /\ NoDispatch \in Dispatch
         /\ \A s \in {"idle", "admit", "send", "mark"} : [disp EXCEPT !.pc = s] \in Dispatch
         /\ \A a \in Nat : [disp EXCEPT !.pc = "mark", !.adm = a] \in Dispatch
         /\ [disp EXCEPT !.attached = FALSE] \in Dispatch
         /\ \A s \in {"idle", "admit", "send", "mark"}, r \in RunIds, at \in BOOLEAN :
              [pc |-> s, run |-> r, adm |-> NoRow, attached |-> at] \in Dispatch
<1>1. 1 \in RunIds
  BY SweepBounds DEF SweepAssumption, RunIds
<1>2. NoDispatch \in Dispatch
  BY <1>1 DEF NoDispatch, Dispatch, NoRow
<1>3. \A s \in {"idle", "admit", "send", "mark"} : [disp EXCEPT !.pc = s] \in Dispatch
  BY DEF Dispatch
<1>4. ASSUME NEW a \in Nat PROVE [disp EXCEPT !.pc = "mark", !.adm = a] \in Dispatch
  <2> DEFINE d == [disp EXCEPT !.pc = "mark"]
  <2>1. d \in Dispatch
    BY <1>3
  <2>2. [d EXCEPT !.adm = a] \in Dispatch
    <3>1. \A g \in Dispatch : [g EXCEPT !.adm = a] \in Dispatch
      BY DEF Dispatch
    <3> HIDE DEF d
    <3> QED BY <2>1, <3>1
  <2> QED BY <2>2, Zenon
<1>5. [disp EXCEPT !.attached = FALSE] \in Dispatch
  BY DEF Dispatch
<1>6. \A s \in {"idle", "admit", "send", "mark"}, r \in RunIds, at \in BOOLEAN :
        [pc |-> s, run |-> r, adm |-> NoRow, attached |-> at] \in Dispatch
  BY DEF Dispatch, NoRow
<1> QED BY <1>2, <1>3, <1>4, <1>5, <1>6

(* A step that changes none of what the invariant is about but the         *)
(* dispatch.                                                               *)
LEMMA OthersKeep ==
  ASSUME SweepIInv, UNCHANGED <<run, adm, jobs, exec>>, root' \in Root,
         root'.owner = root.owner, root'.cursor = root.cursor, root'.failures = root.failures,
         disp' \in Dispatch
  PROVE  Moved
<1>1. run \in [RunIds -> RunRow] /\ Orderly(adm, run)
  BY DEF SweepIInv
<1>2. run' = run /\ adm' = adm /\ jobs' = jobs /\ exec' = exec
  OBVIOUS
<1>3. ChainOver(root', adm)
  BY DEF SweepIInv, ChainOver
<1> QED BY <1>3, <1>1, <1>2, GrowsOn, CompleteIsKept, RowsKeep

(* A step that changes only rows and the dispatch.                         *)
LEMMA OnlyRowsKeep ==
  ASSUME SweepIInv, NEW nad, adm' = nad, Orderly(nad, run), Grows(adm, nad),
         run' = run, root' = root, jobs' = jobs, exec' = exec, disp' \in Dispatch
  PROVE  Moved
<1>1. run \in [RunIds -> RunRow] /\ root \in Root
  BY DEF SweepIInv
<1>2. ChainOver(root, nad)
  BY ChainStays DEF SweepIInv
<1> QED BY <1>1, <1>2, CompleteIsKept, RowsKeep

LEMMA AdmitWaitingKeeps ==
  ASSUME SweepIInv, AdmitWaiting
  PROVE  Moved
<1> DEFINE r == disp.run
           a == First(Waiting(r))
<1>1. Orderly(adm, run) /\ disp \in Dispatch /\ root \in Root
  BY DEF SweepIInv
<1>2. run' = run /\ root' = root /\ jobs' = jobs /\ exec' = exec
  BY DEF AdmitWaiting
<1>3. disp' \in Dispatch
  BY <1>1, DispatchFields DEF AdmitWaiting, DispatchTo, EndAdmission
<1>4. CASE Waiting(r) = {}
  <2>1. adm' = adm
    BY <1>4 DEF AdmitWaiting
  <2> QED BY <1>1, <1>2, <1>3, <2>1, OthersKeep
<1>5. CASE Waiting(r) # {}
  <2>1. Len(adm) \in Nat /\ DOMAIN adm = 1 .. Len(adm) /\ Waiting(r) \in SUBSET (1 .. Len(adm))
    BY <1>1 DEF Orderly, Waiting, Rows
  <2>2. a \in Waiting(r)
    BY <1>5, <2>1, FirstIsOne
  <2>3. adm' = [adm EXCEPT ![a].status = "not_due"] \/ adm' = Granted(adm, a)
    BY <1>5, Zenon DEF AdmitWaiting
  <2> HIDE DEF a
  <2>4. a \in DOMAIN adm /\ adm[a].status = "waiting" /\ ~adm[a].consumed
    BY <2>2 DEF Waiting, Rows
  <2>5. CASE adm' = Granted(adm, a)
    <3>1. Orderly(Granted(adm, a), run) /\ Grows(adm, Granted(adm, a))
      BY <1>1, <2>4, GrantedKeeps
    <3> QED BY <1>2, <1>3, <2>5, <3>1, OnlyRowsKeep
  <2>6. CASE adm' = [adm EXCEPT ![a].status = "not_due"]
    <3> DEFINE row == [adm[a] EXCEPT !.status = "not_due"]
    <3>1. adm[a] \in AdmissionRow /\ RowOrderly(adm[a], run)
      BY <1>1, <2>4, RowFacts
    <3>2. /\ row \in AdmissionRow /\ row.run = adm[a].run /\ row.kind = adm[a].kind
          /\ row.consumed = adm[a].consumed /\ row.res = adm[a].res /\ row.status = "not_due"
      BY <3>1 DEF AdmissionRow
    <3>3. adm' = [adm EXCEPT ![a] = row]
      BY <2>6, Zenon
    <3> HIDE DEF row
    <3>4. RowOrderly(row, run)
      BY <2>4, <3>1, <3>2 DEF RowOrderly
    <3>5. Orderly([adm EXCEPT ![a] = row], run) /\ Grows(adm, [adm EXCEPT ![a] = row])
      BY <1>1, <2>4, <3>2, <3>4, OneRow
    <3> QED BY <1>2, <1>3, <3>3, <3>5, OnlyRowsKeep
  <2> QED BY <2>3, <2>5, <2>6
<1> QED BY <1>4, <1>5

LEMMA SendDeliveryKeeps ==
  ASSUME SweepIInv, SendDelivery
  PROVE  Moved
<1> DEFINE r    == disp.run
           todo == {a \in Rows(adm, r) :
                      /\ ~adm[a].consumed /\ adm[a].status \in {"admitted", "not_due"}
                      /\ adm[a].job = NoJob /\ Newest(a)
                      /\ Active(r) \/ adm[a].kind = "continuation"}
<1>1. /\ Orderly(adm, run) /\ disp \in Dispatch /\ root \in Root /\ Keyed(jobs, adm)
      /\ Executing(exec, adm, root) /\ run \in [RunIds -> RunRow]
  BY DEF SweepIInv
<1>2. run' = run /\ root' = root /\ adm' = adm /\ exec' = exec
  BY DEF SendDelivery
<1>3. CASE todo = {}
  <2>1. disp' = NoDispatch /\ jobs' = jobs
    BY <1>3 DEF SendDelivery, EndAdmission
  <2> QED BY <1>1, <1>2, <2>1, DispatchFields, OthersKeep
<1>4. CASE todo # {}
  <2>1. Len(adm) \in Nat /\ DOMAIN adm = 1 .. Len(adm) /\ todo \in SUBSET (1 .. Len(adm))
    BY <1>1 DEF Orderly, Rows
  <2>2. PICK a : a = Last(todo)
    OBVIOUS
  <2>3. a \in todo
    <3> HIDE DEF todo
    <3> QED BY <1>4, <2>1, <2>2, LastIsOne
  <2>4. /\ CanSend(jobs, <<r, a>>) /\ jobs' = Send(jobs, <<r, a>>)
        /\ disp' = [disp EXCEPT !.pc = "mark", !.adm = a]
    BY <1>4, <2>2, Zenon DEF SendDelivery
  <2>5. a \in DOMAIN adm /\ adm[a].run = r /\ a \in Nat
    BY <2>1, <2>3 DEF Rows
  <2> HIDE DEF todo
  <2>6. r \in RunIds
    BY <1>1 DEF Dispatch
  <2>7. Keyed(Send(jobs, <<r, a>>), adm)
    BY <1>1, <2>4, <2>5, <2>6, KeyedSend
  <2>8. disp' \in Dispatch
    BY <1>1, <2>4, <2>5, DispatchFields
  <2> QED BY <1>1, <1>2, <2>4, <2>7, <2>8, JobsKeep, CompleteIsKept
<1> QED BY <1>3, <1>4

(* One Boolean or one other field of a row that RowOrderly is not about.   *)
LEMMA MarkDispatchedKeeps ==
  ASSUME SweepIInv, MarkDispatched
  PROVE  Moved
<1>1. Orderly(adm, run) /\ disp \in Dispatch /\ root \in Root
  BY DEF SweepIInv
<1>2. run' = run /\ root' = root /\ jobs' = jobs /\ exec' = exec /\ disp' = NoDispatch
  BY DEF MarkDispatched, EndAdmission
<1>3. disp' \in Dispatch
  BY <1>1, <1>2, DispatchFields
<1>4. CASE adm' = adm
  BY <1>1, <1>2, <1>3, <1>4, OthersKeep
<1>5. CASE adm' = [adm EXCEPT ![disp.adm].dispatched = TRUE]
  <2>1. PICK a : a = disp.adm
    OBVIOUS
  <2>2. CASE a \notin DOMAIN adm
    <3>1. adm = [b \in DOMAIN adm |-> adm[b]]
      <4>1. adm \in Seq(AdmissionRow)
        BY <1>1 DEF Orderly
      <4> QED BY <4>1
    <3>2. adm' = adm
      BY <1>5, <2>1, <2>2, <3>1
    <3> QED BY <1>4, <3>2
  <2>3. CASE a \in DOMAIN adm
    <3> DEFINE row == [adm[a] EXCEPT !.dispatched = TRUE]
    <3>1. adm[a] \in AdmissionRow /\ RowOrderly(adm[a], run)
      BY <1>1, <2>3, RowFacts
    <3>2. /\ row \in AdmissionRow /\ row.run = adm[a].run /\ row.kind = adm[a].kind
          /\ row.consumed = adm[a].consumed /\ row.res = adm[a].res
          /\ row.status = adm[a].status
      BY <3>1 DEF AdmissionRow
    <3>3. adm' = [adm EXCEPT ![a] = row]
      BY <1>5, <2>1, Zenon
    <3> HIDE DEF row
    <3>4. RowOrderly(row, run)
      BY <3>1, <3>2 DEF RowOrderly
    <3>5. Orderly([adm EXCEPT ![a] = row], run) /\ Grows(adm, [adm EXCEPT ![a] = row])
      BY <1>1, <2>3, <3>2, <3>4, OneRow
    <3> QED BY <1>2, <1>3, <3>3, <3>5, OnlyRowsKeep
  <2> QED BY <2>2, <2>3
<1> QED BY <1>4, <1>5 DEF MarkDispatched

(* Time passes over a row.                                                 *)
LEMMA RowTimeKeeps ==
  ASSUME SweepIInv, NEW a \in DOMAIN adm, BecomesDue(a) \/ Lapse(a)
  PROVE  Moved
<1>1. Orderly(adm, run) /\ disp \in Dispatch
  BY DEF SweepIInv
<1>2. /\ run' = run /\ root' = root /\ jobs' = jobs /\ exec' = exec /\ disp' = disp
  BY DEF BecomesDue, Lapse
<1>3. adm[a] \in AdmissionRow /\ RowOrderly(adm[a], run)
  BY <1>1, RowFacts
<1>4. CASE BecomesDue(a)
  <2> DEFINE row == [adm[a] EXCEPT !.when = "due"]
  <2>1. /\ row \in AdmissionRow /\ row.run = adm[a].run /\ row.kind = adm[a].kind
        /\ row.consumed = adm[a].consumed /\ row.res = adm[a].res
        /\ row.status = adm[a].status
    BY <1>3 DEF AdmissionRow
  <2>2. adm' = [adm EXCEPT ![a] = row]
    BY <1>4, Zenon DEF BecomesDue
  <2> HIDE DEF row
  <2>3. RowOrderly(row, run)
    BY <1>3, <2>1 DEF RowOrderly
  <2>4. Orderly([adm EXCEPT ![a] = row], run) /\ Grows(adm, [adm EXCEPT ![a] = row])
    BY <1>1, <2>1, <2>3, OneRow
  <2> QED BY <1>1, <1>2, <2>2, <2>4, OnlyRowsKeep
<1>5. CASE Lapse(a)
  <2> DEFINE row == [adm[a] EXCEPT !.res = "lapsed"]
  <2>1. /\ row \in AdmissionRow /\ row.run = adm[a].run /\ row.kind = adm[a].kind
        /\ row.consumed = adm[a].consumed /\ row.res = "lapsed"
        /\ row.status = adm[a].status
    BY <1>3 DEF AdmissionRow
  <2>2. adm' = [adm EXCEPT ![a] = row] /\ adm[a].res = "held"
    BY <1>5, Zenon DEF Lapse
  <2> HIDE DEF row
  <2>3. RowOrderly(row, run)
    BY <1>3, <2>1, <2>2 DEF RowOrderly
  <2>4. Orderly([adm EXCEPT ![a] = row], run) /\ Grows(adm, [adm EXCEPT ![a] = row])
    BY <1>1, <2>1, <2>3, OneRow
  <2> QED BY <1>1, <1>2, <2>2, <2>4, OnlyRowsKeep
<1> QED BY <1>4, <1>5

(* The recovery of a worker that starts.                                   *)
LEMMA RecoverTerminalKeeps ==
  ASSUME SweepIInv, NEW a \in DOMAIN adm, RecoverTerminal(a)
  PROVE  Moved
<1>1. /\ Orderly(adm, run) /\ disp \in Dispatch /\ root \in Root /\ run \in [RunIds -> RunRow]
      /\ OwnerIsDone(root, run)
  BY DEF SweepIInv
<1> DEFINE r   == adm[a].run
           row == [GivenUp(adm[a]) EXCEPT !.status = "released"]
           ad  == [adm EXCEPT ![a] = row]
<1>2. adm[a] \in AdmissionRow /\ r \in RunIds
  BY <1>1, RowFacts
<1>3. PICK g : g = GivenUp(adm[a])
  OBVIOUS
<1>4. /\ g \in AdmissionRow /\ g.run = r /\ g.kind = adm[a].kind /\ g.consumed = TRUE
      /\ g.res \in {"none", "released"}
  <2>1. /\ g \in AdmissionRow /\ g.run = r /\ g.kind = adm[a].kind /\ g.consumed = TRUE
        /\ g.res = ReleaseRes(adm[a].res)
    BY <1>2, <1>3, GivenUpRow
  <2> QED BY <2>1 DEF ReleaseRes
<1>5. /\ row \in AdmissionRow /\ row.run = r /\ row.kind = adm[a].kind /\ row.consumed = TRUE
      /\ row.res \in {"none", "released"} /\ row.status = "released"
  <2>1. row = [g EXCEPT !.status = "released"]
    BY <1>3
  <2> HIDE DEF row
  <2> QED BY <1>4, <2>1 DEF AdmissionRow
<1> DEFINE again == /\ adm[a].kind = "continuation" /\ root.owner = r
                    /\ root'.failures < MaxFailures
<1>6. /\ adm' = IF again THEN Requeued(ad, r, "later") ELSE ad
      /\ jobs' = jobs /\ disp' = disp /\ exec' = exec
      /\ root' = IF adm[a].kind = "continuation" /\ root.owner = r
                 THEN [root EXCEPT !.failures = @ + 1] ELSE root
      /\ \/ run' = run
         \/ Active(r) /\ run' = [run EXCEPT ![r].status = "failed", ![r].cause = "other"]
      /\ Newest(a)
  BY Zenon DEF RecoverTerminal, Terminal
<1> HIDE DEF row
<1>7. RowOrderly(row, run)
  BY <1>5 DEF RowOrderly
<1>8. /\ Orderly(ad, run) /\ Grows(adm, ad) /\ DOMAIN ad = DOMAIN adm
      /\ ad[a] = row /\ \A b \in DOMAIN adm : b # a => ad[b] = adm[b]
  BY <1>1, <1>5, <1>7, OneRow
<1> HIDE DEF ad
<1>9. /\ root' \in Root /\ root'.owner = root.owner /\ root'.cursor = root.cursor
      /\ root'.failures \in {root.failures, root.failures + 1} /\ root.failures \in Nat
  BY <1>1, <1>6 DEF Root
<1>10. PICK nrn : run' = nrn /\ nrn \in [RunIds -> RunRow] /\ StaysComplete(run, nrn)
  <2>1. CASE run' = run
    BY <1>1, <2>1, CompleteIsKept
  <2>2. CASE Active(r) /\ run' = [run EXCEPT ![r].status = "failed", ![r].cause = "other"]
    <3>1. run[r].status # "complete"
      BY <2>2 DEF Active, ActiveStatus
    <3> HIDE DEF r
    <3> QED BY <1>1, <1>2, <2>2, <3>1, ActiveRunMoves
  <2> QED BY <1>6, <2>1, <2>2
<1>11. PICK nad : /\ adm' = nad /\ Orderly(nad, run) /\ Grows(adm, nad)
                  /\ ChainOver(root', nad)
  <2>1. CASE again
    <3>1. ~GaveUp
      BY <1>6, <1>9, <2>1, SweepBounds DEF GaveUp, SweepAssumption
    <3>2. Orderly(Requeued(ad, r, "later"), run) /\ Grows(ad, Requeued(ad, r, "later"))
      <4> HIDE DEF r
      <4> QED BY <1>1, <1>2, <1>8, <3>1, RequeuedKeeps
    <3>3. ChainOver(root', adm')
      BY <1>2, <1>9, <2>1, SweepBounds DEF ChainOver, RunIds, NoRun, SweepAssumption
    <3> QED BY <1>6, <1>8, <2>1, <3>2, <3>3, GrowsOn
  <2>2. CASE ~again
    <3>1. CASE adm[a].kind = "continuation" /\ root.owner = r
      <4>1. ASSUME NEW b \in Continuations(ad, r)
            PROVE  ad[b].consumed
        <5>1. b \in DOMAIN adm /\ adm[b].run = r
          BY <1>8 DEF Continuations, Rows, Grows
        <5>2. b <= a /\ b \in Nat /\ a \in Nat
          BY <1>1, <1>6, <5>1, RowFacts DEF Newest, Rows
        <5>3. CASE b = a
          BY <1>5, <1>8, <5>3
        <5>4. CASE b # a
          <6>1. adm[b].consumed
            BY <1>1, <5>1, <5>2, <5>4 DEF Orderly, OlderConsumed
          <6> QED BY <1>8, <5>1, <5>4, <6>1
        <5> QED BY <5>3, <5>4
      <4>2. root'.owner = r /\ r # NoRun
        BY <1>2, <1>9, <3>1 DEF RunIds, NoRun
      <4>3. ChainOver(root', ad)
        BY <4>1, <4>2 DEF ChainOver
      <4> QED BY <1>6, <1>8, <2>2, <4>3
    <3>2. CASE ~(adm[a].kind = "continuation" /\ root.owner = r)
      <4>1. ChainOver(root, ad)
        BY <1>8, ChainStays DEF SweepIInv
      <4> QED BY <1>6, <1>8, <2>2, <3>2, <4>1
    <3> QED BY <3>1, <3>2
  <2> QED BY <2>1, <2>2
<1>12. Orderly(nad, nrn)
  BY <1>10, <1>11, RunsMoveOn
<1> QED BY <1>1, <1>6, <1>9, <1>10, <1>11, <1>12, RowsKeep

LEMMA RecoverStrandedKeeps ==
  ASSUME SweepIInv, RecoverStranded
  PROVE  Moved
<1>1. /\ Orderly(adm, run) /\ disp \in Dispatch /\ root \in Root /\ run \in [RunIds -> RunRow]
      /\ OwnerIsDone(root, run)
  BY DEF SweepIInv
<1>2. run' = run /\ root' = root /\ jobs' = jobs /\ exec' = exec /\ disp' = disp
  BY DEF RecoverStranded
<1>3. CASE adm' = adm
  BY <1>1, <1>2, <1>3, OthersKeep
<1>4. CASE /\ root.owner # NoRun /\ root.failures < MaxFailures
           /\ adm' = Requeued(adm, root.owner, "now")
  <2>1. root.owner \in RunIds
    BY <1>1, <1>4 DEF Root
  <2>3. ~GaveUp
    BY <1>1, <1>4, SweepBounds DEF GaveUp, Root, SweepAssumption
  <2>2. Orderly(Requeued(adm, root.owner, "now"), run)
        /\ Grows(adm, Requeued(adm, root.owner, "now"))
    BY <1>1, <2>1, <2>3, RequeuedKeeps
  <2> QED BY <1>1, <1>2, <1>4, <2>2, OnlyRowsKeep
<1> QED BY <1>3, <1>4 DEF RecoverStranded

(* The steps that change nothing the invariant is about but the dispatch   *)
(* or the root.                                                            *)
LEMMA QuietStepsKeep ==
  ASSUME SweepIInv,
         \/ \E r \in RunIds : StartAdmission(r)
         \/ AdmitWaits \/ DispatchFails \/ AdmissionExpires
         \/ BootStart \/ RedriveWaiting \/ BootDispatch \/ BootDies \/ CadencePasses
  PROVE  Moved
<1>1. disp \in Dispatch /\ root \in Root
  BY DEF SweepIInv
<1>2. CASE \E r \in RunIds : StartAdmission(r)
  <2>1. UNCHANGED <<run, adm, jobs, exec, root>> /\ disp' \in Dispatch
    BY <1>1, <1>2, DispatchFields DEF StartAdmission
  <2> QED BY <1>1, <2>1, OthersKeep
<1>3. CASE AdmitWaits \/ DispatchFails
  <2>1. UNCHANGED <<run, adm, jobs, exec, root>> /\ disp' \in Dispatch
    BY <1>1, <1>3, DispatchFields DEF AdmitWaits, DispatchFails, EndAdmission
  <2> QED BY <1>1, <2>1, OthersKeep
<1>4. CASE AdmissionExpires
  <2>1. UNCHANGED <<run, adm, jobs, exec, root>> /\ disp' \in Dispatch
    BY <1>1, <1>4, DispatchFields DEF AdmissionExpires
  <2> QED BY <1>1, <2>1, OthersKeep
<1>5. CASE BootStart \/ RedriveWaiting \/ BootDies
  <2>1. UNCHANGED <<run, adm, jobs, exec, root, disp>>
    BY <1>5 DEF BootStart, RedriveWaiting, BootDies
  <2> QED BY <1>1, <2>1, OthersKeep
<1>6. CASE BootDispatch
  <2>1. UNCHANGED <<run, adm, jobs, exec, root>>
    BY <1>6 DEF BootDispatch
  <2>2. disp' = disp \/ \E r \in RunIds : disp' = [pc |-> "send", run |-> r, adm |-> NoRow,
                                                   attached |-> FALSE]
    BY <1>6 DEF BootDispatch, Undispatched
  <2>3. disp' \in Dispatch
    BY <1>1, <2>2, DispatchFields
  <2> QED BY <1>1, <2>1, <2>3, OthersKeep
<1>7. CASE CadencePasses
  <2>1. UNCHANGED <<run, adm, jobs, exec, disp>> /\ root' = [root EXCEPT !.recent = FALSE]
    BY <1>7 DEF CadencePasses
  <2>2. /\ root' \in Root /\ root'.owner = root.owner /\ root'.cursor = root.cursor
        /\ root'.failures = root.failures
    BY <1>1, <2>1 DEF Root
  <2> QED BY <1>1, <2>1, <2>2, OthersKeep
<1> QED BY <1>2, <1>3, <1>4, <1>5, <1>6, <1>7

(* The searches.                                                           *)
LEMMA SearchesKeep ==
  ASSUME SweepIInv, NEW r \in RunIds,
         StartRun(r) \/ SendPending(r) \/ Cancel(r) \/ RunAges(r)
  PROVE  Moved
<1>1. /\ run \in [RunIds -> RunRow] /\ Keyed(jobs, adm) /\ disp \in Dispatch
      /\ Executing(exec, adm, root)
  BY DEF SweepIInv
<1>2. adm' = adm /\ root' = root /\ exec' = exec /\ disp' = disp
  BY DEF StartRun, SendPending, Cancel, RunAges
<1>3. PICK nrn : run' = nrn /\ nrn \in [RunIds -> RunRow] /\ StaysComplete(run, nrn)
  <2>1. CASE StartRun(r)
    <3>1. run[r].status # "complete" /\ "queued" \in ActiveStatus
          /\ run' = [run EXCEPT ![r].status = "queued"]
      BY <2>1 DEF StartRun, ActiveStatus
    <3> QED BY <1>1, <3>1, ActiveRunMoves
  <2>2. CASE SendPending(r)
    BY <1>1, <2>2, CompleteIsKept DEF SendPending
  <2>3. CASE Cancel(r)
    <3>1. run[r].status # "complete"
          /\ run' = [run EXCEPT ![r].status = "failed", ![r].cause = "other"]
      BY <2>3 DEF Cancel
    <3> QED BY <1>1, <3>1, ActiveRunMoves
  <2>4. CASE RunAges(r)
    <3>1. run' = [run EXCEPT ![r].aged = TRUE]
      BY <2>4 DEF RunAges
    <3> QED BY <1>1, <3>1, RunFields
  <2> QED BY <2>1, <2>2, <2>3, <2>4
<1>4. Keyed(jobs', adm)
  <2>1. CASE jobs' = jobs
    BY <1>1, <2>1
  <2>2. CASE CanSend(jobs, <<r, NoRow>>) /\ jobs' = Send(jobs, <<r, NoRow>>)
    BY <1>1, <2>2, KeyedSend DEF NoRow
  <2>3. SendPending(r) => CanSend(jobs, <<r, NoRow>>) /\ jobs' = Send(jobs, <<r, NoRow>>)
    BY DEF SendPending, CanSend
  <2>4. StartRun(r) => CanSend(jobs, <<r, NoRow>>) /\ jobs' = Send(jobs, <<r, NoRow>>)
    BY DEF StartRun
  <2> QED BY <2>1, <2>2, <2>3, <2>4 DEF Cancel, RunAges
<1> QED BY <1>1, <1>2, <1>3, <1>4, JobsKeep

(* The invariant: it holds at first, no step breaks it, and it gives       *)
(* SweepsHeld.                                                             *)
LEMMA SweepStarts == Init => SweepIInv
<1> SUFFICES ASSUME Init PROVE SweepIInv
  OBVIOUS
<1>0. 1 \in RunIds
  BY SweepBounds DEF SweepAssumption, RunIds
<1>1. run \in [RunIds -> RunRow]
  BY DEF Init, RunRow
<1>2. root \in Root /\ root.owner = NoRun /\ root.cursor = Unswept
  BY DEF Init, Root, Unswept
<1>3. adm \in Seq(AdmissionRow) /\ DOMAIN adm = {}
  BY DEF Init
<1>4. Orderly(adm, run)
  BY <1>3 DEF Orderly, OlderConsumed
<1>5. disp \in Dispatch
  BY <1>0 DEF Init, Dispatch, NoRow
<1>6. Executing(exec, adm, root)
  BY DEF Init, Executing
<1>7. Keyed(jobs, adm)
  <2>1. PICK key : key = <<1, NoRow>>
    OBVIOUS
  <2>2. key \in Keys /\ key[2] = NoRow
    BY <1>0, <2>1 DEF Keys, NoRow
  <2>3. NeverSent(key) \in Job(Keys) /\ NeverSent(key).key = key
    BY <2>2, JobQueueAssumption DEF NeverSent, Job, JobStates
  <2>4. jobs = [j \in JobIds |-> NeverSent(key)]
    BY <2>1 DEF Init
  <2> QED BY <2>2, <2>3, <2>4 DEF Keyed
<1> QED BY <1>1, <1>2, <1>4, <1>5, <1>6, <1>7 DEF SweepIInv, OwnerIsDone, ChainOver

LEMMA DeliveryStepKeeps ==
  ASSUME SweepIInv, NEW e \in exec, DeliveryStep(e)
  PROVE  Moved
<1>1. CASE Accept(e)
  BY <1>1, AcceptKeeps
<1>2. CASE Claim(e)
  BY <1>2, ClaimKeeps
<1>3. CASE AdmitExisting(e)
  BY <1>3, AdmitExistingKeeps
<1>4. CASE AdmitNotDue(e)
  BY <1>4, AdmitNotDueKeeps
<1>5. CASE AdmitNow(e)
  BY <1>5, AdmitNowKeeps
<1>6. CASE AdmitLater(e)
  BY <1>6, AdmitLaterKeeps
<1>7. CASE EnqueueAdmission(e)
  BY <1>7, EnqueueAdmissionKeeps
<1>8. CASE CompleteNotDue(e) \/ MarkRetrying(e) \/ FailRun(e)
  BY <1>8, RunWritesKeep
<1>9. CASE PublishFirst(e)
  BY <1>9, PublishFirstKeeps
<1>10. CASE PublishNext(e)
  BY <1>10, PublishNextKeeps
<1>11. CASE Release(e)
  BY <1>11, ReleaseKeeps
<1>12. CASE RecordFailure(e)
  BY <1>12, RecordFailureKeeps
<1>13. CASE Requeue(e)
  BY <1>13, RequeueKeeps
<1>14. CASE Identify(e) \/ SweepEnds(e) \/ ReleaseRefused(e) \/ RunEnded(e) \/ Stale(e)
  BY <1>14, MovesKeep
<1>15. CASE Settle(e)
  BY <1>15, SettleKeeps
<1> QED BY <1>1, <1>2, <1>3, <1>4, <1>5, <1>6, <1>7, <1>8, <1>9, <1>10, <1>11, <1>12, <1>13,
           <1>14, <1>15 DEF DeliveryStep

LEMMA SweepKeeps == SweepIInv /\ [Next]_vars => Moved
<1> SUFFICES ASSUME SweepIInv, [Next]_vars PROVE Moved
  OBVIOUS
<1>1. CASE Step
  <2>1. ASSUME NEW j \in JobIds, Fetch(j) PROVE Moved
    BY <2>1, FetchKeeps
  <2>2. ASSUME NEW j \in JobIds, Reclaim(j) PROVE Moved
    BY <2>2, ExpireKeeps DEF Reclaim
  <2>3. ASSUME NEW e \in exec, DeliveryStep(e) PROVE Moved
    BY <2>3, DeliveryStepKeeps
  <2>4. ASSUME NEW r \in RunIds, StartAdmission(r) PROVE Moved
    BY <2>4, QuietStepsKeep
  <2>5. ASSUME NEW r \in RunIds, StartRun(r) PROVE Moved
    BY <2>5, SearchesKeep
  <2>6. CASE DispatchStep
    <3>1. CASE AdmitWaiting
      BY <3>1, AdmitWaitingKeeps
    <3>2. CASE AdmitWaits
      BY <3>2, QuietStepsKeep
    <3>3. CASE SendDelivery
      BY <3>3, SendDeliveryKeeps
    <3>4. CASE MarkDispatched
      BY <3>4, MarkDispatchedKeeps
    <3> QED BY <2>6, <3>1, <3>2, <3>3, <3>4 DEF DispatchStep
  <2>7. CASE BootStep
    <3>1. ASSUME NEW a \in DOMAIN adm, RecoverTerminal(a) PROVE Moved
      BY <3>1, RecoverTerminalKeeps
    <3>2. CASE RecoverStranded
      BY <3>2, RecoverStrandedKeeps
    <3>3. CASE RedriveWaiting \/ BootDispatch
      BY <3>3, QuietStepsKeep
    <3> QED BY <2>7, <3>1, <3>2, <3>3 DEF BootStep
  <2>8. CASE BootStart \/ CadencePasses
    BY <2>8, QuietStepsKeep
  <2>9. ASSUME NEW a \in DOMAIN adm, BecomesDue(a) PROVE Moved
    BY <2>9, RowTimeKeeps
  <2> QED BY <1>1, <2>1, <2>2, <2>3, <2>4, <2>5, <2>6, <2>7, <2>8, <2>9 DEF Step
<1>2. CASE Fault
  <2>1. ASSUME NEW e \in exec,
               Throws(e) \/ EnqueueFails(e) \/ SweepThrows(e) \/ ReleaseThrows(e) \/ Abort(e)
        PROVE  Moved
    BY <2>1, MovesKeep
  <2>2. ASSUME NEW e \in exec, WorkerDies(e) PROVE Moved
    BY <2>2, SettleKeeps
  <2>3. ASSUME NEW j \in JobIds, Expire(j) PROVE Moved
    BY <2>3, ExpireKeeps
  <2>4. CASE DispatchFails \/ AdmissionExpires \/ BootDies
    BY <2>4, QuietStepsKeep
  <2>5. ASSUME NEW r \in RunIds, Cancel(r) \/ RunAges(r) \/ SendPending(r) PROVE Moved
    BY <2>5, SearchesKeep
  <2>6. ASSUME NEW a \in DOMAIN adm, Lapse(a) PROVE Moved
    BY <2>6, RowTimeKeeps
  <2> QED BY <1>2, <2>1, <2>2, <2>3, <2>4, <2>5, <2>6 DEF Fault
<1>3. CASE UNCHANGED vars
  <2>1. SweepIInv'
    BY <1>3 DEF vars, SweepIInv
  <2>2. adm' = adm /\ root' = root
    BY <1>3 DEF vars
  <2> QED BY <2>1, <2>2, GrowsOn, CursorStays DEF SweepIInv, Moved
<1> QED BY <1>1, <1>2, <1>3 DEF Next

LEMMA OneAtMost ==
  ASSUME NEW S, \A x, y \in S : x = y
  PROVE  Cardinality(S) <= 1
<1>1. CASE S = {}
  BY <1>1, FS_EmptySet
<1>2. CASE S # {}
  <2>1. PICK x \in S : TRUE
    BY <1>2
  <2>2. S = {x}
    BY <2>1
  <2> QED BY <2>2, FS_Singleton
<1> QED BY <1>1, <1>2

LEMMA SweepsHeldInductive == SweepIInv => SweepsHeld
<1> SUFFICES ASSUME SweepIInv PROVE SweepsHeld
  OBVIOUS
<1>1. Orderly(adm, run)
  BY DEF SweepIInv
<1>2. ConsumedHoldsNothing
  BY <1>1 DEF ConsumedHoldsNothing, Orderly, RowOrderly
<1>3. ASSUME NEW r \in RunIds
      PROVE  Cardinality({a \in Rows(adm, r) : ~adm[a].consumed}) <= 1
  <2> DEFINE S == {a \in Rows(adm, r) : ~adm[a].consumed}
  <2>1. ASSUME NEW a \in S, NEW b \in S PROVE a = b
    <3>1. a \in DOMAIN adm /\ b \in DOMAIN adm /\ adm[a].run = r /\ adm[b].run = r
          /\ ~adm[a].consumed /\ ~adm[b].consumed
      BY DEF Rows
    <3>2. a \in Nat /\ b \in Nat /\ a <= b /\ b <= a
      BY <1>1, <3>1, RowFacts
    <3> QED BY <3>2
  <2> HIDE DEF S
  <2>2. Cardinality(S) <= 1
    BY <2>1, OneAtMost
  <2> QED BY <2>2 DEF S
<1> QED BY <1>2, <1>3 DEF SweepsHeld, OneLiveAdmission

(* A consumed admission holds no budget and a run has one live admission,  *)
(* for any number of runs, jobs, attempts, admissions and faults           *)
(* (fingerprint-sweeps.ts, fingerprint-delivery.ts).                       *)
THEOREM SweepsStayHeld == Spec => []SweepsHeld
<1>1. Init => SweepIInv
  BY SweepStarts
<1>2. SweepIInv /\ [Next]_vars => SweepIInv'
  BY SweepKeeps DEF Moved
<1>3. SweepIInv => SweepsHeld
  BY SweepsHeldInductive
<1> QED BY <1>1, <1>2, <1>3, PTL DEF Spec

(* The cursor of a chain only advances, only a cycle of the chain or the   *)
(* first publication of a run moves it, and a chain that gave up gets no   *)
(* further cycle: finishFingerprintSweep and requeueContinuation, under    *)
(* every interleaving of deliveries, dispatches and restarts.              *)
THEOREM SweepStepsHold == Spec => SweepSteps
<1>1. Init => SweepIInv
  BY SweepStarts
<1>2. SweepIInv /\ [Next]_vars => SweepIInv'
  BY SweepKeeps DEF Moved
<1>3. SweepIInv /\ [Next]_vars
        => [CursorAdvances /\ SupersededMovesNothing /\ GivenUpStaysGivenUp]_vars
  BY SweepKeeps DEF Moved, Grows, GaveUp, GivenUpStaysGivenUp
<1> QED BY <1>1, <1>2, <1>3, PTL DEF Spec, SweepSteps

==============================================================================
