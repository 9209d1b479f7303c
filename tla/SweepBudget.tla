----------------------------- MODULE SweepBudget -----------------------------
(***************************************************************************)
(* The Blizzard request budget that all fingerprint sweeps share, of       *)
(* database/src/fingerprint-sweeps.ts: an admission waits in FIFO order,   *)
(* reserves a sweep's whole request cap for an hour, and every request the *)
(* sweep makes is recorded against the reservation.                        *)
(*                                                                         *)
(* A reservation's requests are slots <<a, i>>, i in 1..Cap, so that what  *)
(* the SQL counts is the size of a set: used_count is the number of slots  *)
(* of a with a time, and fingerprint_sweep_request_events holds one row    *)
(* for each of them until cleanupExpired prunes it.                        *)
(*                                                                         *)
(* Every operation takes its timestamp from the worker's clock before its  *)
(* transaction waits for the fingerprint lock, so the time it works with   *)
(* may be up to Lag behind.                                                *)
(***************************************************************************)
EXTENDS Integers, FiniteSets

CONSTANTS MaxReservations,  \* bound: how many admissions are ever requested
          Cap,            \* requestCap: slots of one reservation
          Budget,         \* hourlyBudget
          Hour,           \* ticks in an hour
          MaxTime,        \* bound: the last tick
          Lag             \* ticks a timestamp may be behind the clock

(* assertFingerprintAdmissionInput: requestCap <= hourlyBudget.            *)
ASSUME BudgetAssumption ==
  /\ MaxReservations \in Nat /\ Cap \in Nat \ {0} /\ Budget \in Nat
  /\ Cap <= Budget
  /\ Hour \in Nat \ {0} /\ MaxTime \in Nat /\ Lag \in Nat

Admissions == 1..MaxReservations     \* in queue_order
Slots      == Admissions \X (1..Cap)
Times      == 0..MaxTime
Unused     == -1

VARIABLES
  clock,      \* the time
  status,     \* fingerprint_sweep_admissions.status
  requested,  \* requested_at
  admitted,   \* fingerprint_sweep_reservations.admitted_at
  slot,       \* when a slot's request was recorded, if it was
  pruned,     \* slots whose request event was deleted
  late        \* history: slots recorded after their reservation's hour

budgetVars == <<clock, status, requested, admitted, slot, pruned, late>>

BudgetTypeOK ==
  /\ clock \in Times
  /\ status \in [Admissions -> {"none", "waiting", "admitted", "released"}]
  /\ requested \in [Admissions -> Times]
  /\ admitted \in [Admissions -> Times]
  /\ slot \in [Slots -> Times \cup {Unused}]
  /\ pruned \in SUBSET Slots
  /\ late \in SUBSET Slots

BudgetInit ==
  /\ clock = 0
  /\ status = [a \in Admissions |-> "none"]
  /\ requested = [a \in Admissions |-> 0]
  /\ admitted = [a \in Admissions |-> 0]
  /\ slot = [s \in Slots |-> Unused]
  /\ pruned = {}
  /\ late = {}

-----------------------------------------------------------------------------
(* The timestamps an operation that commits now may carry.                 *)
Stamps == {at \in Times : at <= clock /\ clock - at <= Lag}

(* released_at IS NULL AND expires_at > at                                 *)
Live(a, at) == status[a] = "admitted" /\ admitted[a] + Hour > at

(* A slot counts while its reservation may still use it, and for an hour   *)
(* after it was used.                                                      *)
Counted(at) ==
  {s \in Slots : \/ slot[s] = Unused /\ Live(s[1], at)
                 \/ slot[s] # Unused /\ slot[s] > at - Hour}

(* What the query sees of them.                                            *)
Committed(at) == Counted(at) \ pruned

(* ORDER BY requested_at, queue_order                                      *)
Before(a, b) ==
  requested[a] < requested[b] \/ (requested[a] = requested[b] /\ a < b)

FirstInLine(a, at) ==
  /\ status[a] = "waiting" /\ requested[a] <= at
  /\ \A b \in Admissions :
       status[b] = "waiting" /\ requested[b] <= at /\ b # a => Before(a, b)

-----------------------------------------------------------------------------
(* requestAdmission's INSERT; queue_order is the next of its sequence.     *)
Request(a) ==
  /\ status[a] = "none"
  /\ \A b \in Admissions : b < a => status[b] # "none"
  /\ \E at \in Stamps : requested' = [requested EXCEPT ![a] = at]
  /\ status' = [status EXCEPT ![a] = "waiting"]
  /\ UNCHANGED <<clock, admitted, slot, pruned, late>>

(* A mutant of Admit: a reservation's unused requests are not counted.     *)
AdmitUncommitted(a) ==
  \E at \in Stamps :
    /\ FirstInLine(a, at)
    /\ Cardinality({s \in Slots \ pruned : slot[s] # Unused /\ slot[s] > at - Hour})
         + Cap <= Budget
    /\ status' = [status EXCEPT ![a] = "admitted"]
    /\ admitted' = [admitted EXCEPT ![a] = at]
    /\ UNCHANGED <<clock, requested, slot, pruned, late>>

(* admitFingerprintWaitingRun, from requestAdmission or admitWaiting: the  *)
(* head of the queue gets a reservation when its whole cap still fits.     *)
Admit(a) ==
  \E at \in Stamps :
    /\ FirstInLine(a, at)
    /\ Cardinality(Committed(at)) + Cap <= Budget
    /\ status' = [status EXCEPT ![a] = "admitted"]
    /\ admitted' = [admitted EXCEPT ![a] = at]
    /\ UNCHANGED <<clock, requested, slot, pruned, late>>

(* The slot that used_count + 1 names.                                     *)
NextSlot(a, s) ==
  /\ s[1] = a /\ slot[s] = Unused
  /\ \A i \in 1..Cap : i < s[2] => slot[<<a, i>>] # Unused

(* recordRequest: one slot of a reservation that is neither released nor,  *)
(* by this timestamp, past its hour.                                       *)
RecordRequest(a) ==
  \E at \in Stamps, s \in Slots :
    /\ NextSlot(a, s) /\ Live(a, at)
    /\ slot' = [slot EXCEPT ![s] = at]
    /\ late' = IF Live(a, clock) THEN late ELSE late \cup {s}
    /\ UNCHANGED <<clock, status, requested, admitted, pruned>>

(* release, finish, requeueContinuation or the fence's commit hook gives   *)
(* the unused rest back.                                                   *)
releaseRest(a) ==
  /\ status[a] = "admitted"
  /\ status' = [status EXCEPT ![a] = "released"]
  /\ UNCHANGED <<clock, requested, admitted, slot, pruned, late>>

(* cleanupExpired deletes the events that left the rolling hour.           *)
CleanupExpired ==
  \E at \in Stamps :
    LET old == {s \in Slots : slot[s] # Unused /\ slot[s] <= at - Hour} IN
    /\ pruned' = pruned \cup old
    /\ UNCHANGED <<clock, status, requested, admitted, slot, late>>

Tick ==
  /\ clock < MaxTime
  /\ clock' = clock + 1
  /\ UNCHANGED <<status, requested, admitted, slot, pruned, late>>

BudgetNext ==
  \/ \E a \in Admissions : Request(a) \/ Admit(a) \/ RecordRequest(a) \/ releaseRest(a)
  \/ CleanupExpired \/ Tick

BudgetSpec == BudgetInit /\ [][BudgetNext]_budgetVars

-----------------------------------------------------------------------------
(* Properties *)

(* Requests made within the hour and requests still reserved stay within   *)
(* the budget at every moment, whatever cleanupExpired has pruned, leaving *)
(* aside requests recorded with a timestamp older than the end of their    *)
(* reservation (recordRequest takes its time before it waits for the lock).*)
WithinBudget == Cardinality(Counted(clock) \ late) <= Budget

(* The rolling budget as the design states it, without exception.          *)
RollingBudget == Cardinality(Counted(clock)) <= Budget

-----------------------------------------------------------------------------
(* The inductive strengthening the proof uses: what was pruned no longer   *)
(* counts.                                                                 *)
PrunedIsOld == \A s \in pruned : slot[s] # Unused /\ slot[s] <= clock - Hour

Inductive == BudgetTypeOK /\ PrunedIsOld /\ WithinBudget

=============================================================================
