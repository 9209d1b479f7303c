--------------------------- MODULE ApplicantDrain --------------------------
(***************************************************************************)
(* Draining the applicant intents: a tick claims the oldest intent that is *)
(* due for ten minutes, resolves its identity, charges the day's budget    *)
(* once per character of a poll, reserves a discovery and a collection of  *)
(* evidence, sends their jobs and settles the intent.  Each of these is a  *)
(* transaction or a call of its own, so a tick may stop between any two,   *)
(* and a tick that outlives its job overlaps the next.                     *)
(*                                                                         *)
(* The queue depth and points gates end a tick at any time.  Claims and    *)
(* waits are counted in ticks.                                             *)
(***************************************************************************)
EXTENDS Naturals, FiniteSets, FiniteSetsExt

CONSTANTS
    N,          \* intents, in the order of their sequence
    Name,       \* the character each intent resolves to
    Seen,       \* the poll each was observed at
    Numeric,    \* intents whose identity must be resolved
    Lost,       \* numeric intents that never resolve
    Ticks,      \* ticks that may overlap
    PerDay,     \* canonical dispatches a day
    Claim,      \* ticks a claim lasts (10)
    Doublings,  \* doublings of the retry wait (6)
    Window      \* polls before an intent was observed that count as fresh

Intents == 1 .. N
Names   == {Name[i] : i \in Intents}
Kinds   == {"discovery", "evidence"}

DrainAssumption ==
    /\ N \in Nat /\ PerDay \in Nat /\ Claim \in Nat /\ Doublings \in Nat
    /\ Window \in Nat /\ IsFiniteSet(Ticks)
    /\ Numeric \subseteq Intents /\ Lost \subseteq Numeric
    /\ DOMAIN Name = Intents /\ Seen \in [Intents -> Nat]

VARIABLES
    intent,   \* rows of applicant_source_intents
    tick,     \* each tick: its step and the intent it claimed
    coll,     \* each character's latest run of a kind: its state, the poll it
              \* was published after, and how many of its runs came to stay
    clock     \* polls made

vars == <<intent, tick, coll, clock>>

Idle == [at |-> "idle", on |-> 0]
Step(at, i) == [at |-> at, on |-> i]

Less1(a) == IF a > 0 THEN a - 1 ELSE 0
Least(a, b) == IF a < b THEN a ELSE b

(* WHERE state = 'claimed'                                                 *)
IfClaimed(i, row) == [intent EXCEPT ![i] = IF @.st = "claimed" THEN row ELSE @]

Due(i) ==
    /\ Seen[i] <= clock /\ intent[i].wait = 0 /\ ~intent[i].tomorrow
    /\ intent[i].st = "pending" \/ (intent[i].st = "claimed" /\ intent[i].held = 0)

(* The cron starts a tick; a minute has passed.                            *)
StartTick(t) ==
    /\ tick[t].at = "idle"
    /\ tick' = [tick EXCEPT ![t] = Step("begun", 0)]
    /\ intent' = [i \in Intents |-> [intent[i] EXCEPT !.wait = Less1(@), !.held = Less1(@)]]
    /\ UNCHANGED <<coll, clock>>

(* claimNext                                                               *)
claimNext(t) ==
    /\ tick[t].at = "begun"
    /\ \E i \in Intents :
        /\ Due(i) /\ \A j \in Intents : j < i => ~Due(j)
        /\ intent' = [intent EXCEPT ![i].st = "claimed", ![i].held = Claim,
                                    ![i].tries = Least(@ + 1, Doublings + 1)]
        /\ tick' = [tick EXCEPT ![t] = [at |-> "claimed", on |-> i]]
    /\ UNCHANGED <<coll, clock>>

(* Nothing is due, the queue is deep, or points are short.                 *)
EndTick(t) ==
    /\ tick[t].at = "begun"
    /\ tick' = [tick EXCEPT ![t] = Idle]
    /\ UNCHANGED <<intent, coll, clock>>

(* The intent is put off whoever settled it meanwhile.                     *)
PutOffAlways(t) ==
    LET i == tick[t].on
    IN  /\ intent' = [intent EXCEPT ![i] = [@ EXCEPT !.st = "pending", !.held = 0,
                                                    !.wait = 2 ^ (intent[i].tries - 1)]]
        /\ tick' = [tick EXCEPT ![t] = Idle]
        /\ UNCHANGED clock

(* Any failure puts the intent off.                                        *)
PutOff(t) ==
    LET i == tick[t].on
    IN  /\ intent' = IfClaimed(i, [intent[i] EXCEPT !.st = "pending", !.held = 0,
                                                    !.wait = 2 ^ (intent[i].tries - 1)])
        /\ tick' = [tick EXCEPT ![t] = Idle]
        /\ UNCHANGED clock

Unresolved(t) ==
    /\ tick[t].at = "claimed" /\ tick[t].on \in Numeric
    /\ PutOff(t) /\ UNCHANGED coll

(* Earlier intents of the poll known to be the same character.             *)
Earlier(i) ==
    {j \in Intents : j < i /\ Seen[j] = Seen[i] /\ intent[j].known /\ Name[j] = Name[i]
                     /\ intent[j].st \in {"pending", "claimed", "done"}}

SpentToday == Cardinality({i \in Intents : intent[i].charged = "today"})

(* admitCanonicalIntent                                                    *)
admitCanonicalIntent(t) ==
    /\ tick[t].at = "claimed" /\ tick[t].on \notin Lost
    /\ LET i    == tick[t].on
           row  == [intent[i] EXCEPT !.known = TRUE]
           off  == [row EXCEPT !.st = "pending", !.held = 0, !.wait = 1]
           ends == tick' = [tick EXCEPT ![t] = Idle]
       IN  IF Earlier(i) # {}
           THEN /\ intent' = IfClaimed(i, IF intent[Min(Earlier(i))].st = "done"
                                          THEN [row EXCEPT !.st = "done"] ELSE off)
                /\ ends
           ELSE IF intent[i].charged = "no" /\ SpentToday >= PerDay
           THEN intent' = IfClaimed(i, [off EXCEPT !.wait = 0, !.tomorrow = TRUE]) /\ ends
           ELSE /\ intent' = IfClaimed(i, [row EXCEPT !.charged = IF @ = "no" THEN "today" ELSE @])
                /\ tick' = [tick EXCEPT ![t].at = "admitted"]
    /\ UNCHANGED <<coll, clock>>

---------------------------------------------------------------------------
(* startApplicantCollection: reserve a discovery, ask Raider.IO whether    *)
(* the character exists, send the job; then the same of the evidence.      *)

Active == {"queued", "sent"}
Reserves(k) == IF k = "discovery" THEN "admitted" ELSE "evidence"
Sends(k)    == IF k = "discovery" THEN "discovery" ELSE "collection"
Follows(k)  == IF k = "discovery" THEN "evidence" ELSE "done"

With(k, x, c) == [coll EXCEPT ![k][x] = c]
Undone(c) == [st |-> "none", at |-> 0, kept |-> c.kept - 1]

(* Reused is what was published since a fixed time before the intent was   *)
(* observed.                                                               *)
Fresh(i, c) == c.st = "published" /\ c.at + Window >= Seen[i]

(* The two reservations; a run of the character that is active is joined.  *)
Reserve(t, k) ==
    /\ tick[t].at = Reserves(k)
    /\ LET i     == tick[t].on
           c     == coll[k][Name[i]]
           taken == ~Fresh(i, c) /\ c.st \notin Active
       IN  /\ coll' = IF taken THEN With(k, Name[i], [st |-> "queued", at |-> 0, kept |-> c.kept + 1])
                      ELSE coll
           /\ tick' = [tick EXCEPT ![t].at =
                          IF taken /\ k = "discovery" THEN "asking"
                          ELSE IF taken \/ c.st = "queued" THEN Sends(k) ELSE Follows(k)]
    /\ UNCHANGED <<intent, clock>>

(* raiderio.getCharacter, whose failure cancels the reservation unless the *)
(* run was claimed.                                                        *)
Ask(t) ==
    /\ tick[t].at = "asking"
    /\ \/ tick' = [tick EXCEPT ![t].at = Sends("discovery")] /\ UNCHANGED <<intent, coll, clock>>
       \/ LET x == Name[tick[t].on]  c == coll["discovery"][x] IN
          /\ \/ c.st \in Active /\ coll' = With("discovery", x, Undone(c))
             \/ c.st # "queued" /\ UNCHANGED coll
          /\ PutOff(t)

(* enqueue and markEnqueued; either may throw, with the job sent or not,   *)
(* and the run stays reserved.                                             *)
Sent(k, x) == With(k, x, [coll[k][x] EXCEPT !.st = IF @ = "queued" THEN "sent" ELSE @])

Send(t, k) ==
    /\ tick[t].at = Sends(k)
    /\ \/ /\ coll' = Sent(k, Name[tick[t].on])
          /\ tick' = [tick EXCEPT ![t].at = Follows(k)]
          /\ UNCHANGED <<intent, clock>>
       \/ /\ coll' \in {coll, Sent(k, Name[tick[t].on])}
          /\ PutOff(t)

(* A suppression is looked for before either reservation.                  *)
Suppressed(t) ==
    /\ tick[t].at \in {Reserves(k) : k \in Kinds}
    /\ tick' = [tick EXCEPT ![t].at = "suppressed"]
    /\ UNCHANGED <<intent, coll, clock>>

(* The character is known not to exist, or a statement fails.              *)
Unavailable(t) ==
    /\ tick[t].at \in {Reserves(k) : k \in Kinds}
    /\ PutOff(t) /\ UNCHANGED coll

startApplicantCollection(t) ==
    (\E k \in Kinds : Reserve(t, k) \/ Send(t, k)) \/ Ask(t) \/ Suppressed(t) \/ Unavailable(t)

(* What becomes of a run: a recovery pass sends the job of a discovery,    *)
(* the run is published, it fails, or what it published was partial and    *)
(* the time to retry it has come.                                          *)
RunGoesOn(k, x) ==
    /\ LET c == coll[k][x] IN
       \/ k = "discovery" /\ c.st = "queued" /\ coll' = Sent(k, x)
       \/ c.st = "sent" /\ coll' = With(k, x, [c EXCEPT !.st = "published", !.at = clock])
       \/ /\ c.st \in Active \/ (k = "evidence" /\ c.st = "published")
          /\ coll' = With(k, x, Undone(c))
    /\ UNCHANGED <<intent, tick, clock>>

Settle(t) ==
    /\ tick[t].at \in {"done", "suppressed"}
    /\ intent' = IfClaimed(tick[t].on, [intent[tick[t].on] EXCEPT !.st = tick[t].at, !.held = 0])
    /\ tick' = [tick EXCEPT ![t] = Idle]
    /\ UNCHANGED <<coll, clock>>

Crash(t) ==
    /\ tick[t].at # "idle"
    /\ tick' = [tick EXCEPT ![t] = Idle]
    /\ UNCHANGED <<intent, coll, clock>>

(* A new day: what was charged no longer counts, what waited for it is due.*)
NewDay ==
    /\ intent' = [i \in Intents |-> [intent[i] EXCEPT !.tomorrow = FALSE,
                                        !.charged = IF @ = "today" THEN "before" ELSE @]]
    /\ UNCHANGED <<tick, coll, clock>>

Poll ==
    /\ \E i \in Intents : Seen[i] > clock
    /\ clock' = clock + 1
    /\ UNCHANGED <<intent, tick, coll>>

Init ==
    /\ clock = 1
    /\ intent = [i \in Intents |-> [st |-> "pending", held |-> 0, wait |-> 0, tries |-> 0,
                                    known |-> FALSE, charged |-> "no", tomorrow |-> FALSE]]
    /\ tick = [t \in Ticks |-> Idle]
    /\ coll = [k \in Kinds |-> [x \in Names |-> [st |-> "none", at |-> 0, kept |-> 0]]]

Next ==
    \/ \E t \in Ticks :
        \/ StartTick(t) \/ claimNext(t) \/ EndTick(t) \/ Unresolved(t) \/ admitCanonicalIntent(t)
        \/ startApplicantCollection(t) \/ Settle(t) \/ Crash(t)
    \/ NewDay \/ Poll
    \/ \E k \in Kinds, x \in Names : RunGoesOn(k, x)

Spec == Init /\ [][Next]_vars

---------------------------------------------------------------------------
(* Properties.                                                             *)

Settled(i) == intent[i].st \in {"done", "suppressed"}

(* An intent that is settled stays so, whatever a tick that lost its claim *)
(* still writes.                                                           *)
SettledStays == \A i \in Intents : Settled(i) => intent'[i].st = intent[i].st

(* No day charges more dispatches than its budget, by any number of ticks. *)
DailyCap == Cardinality({i \in Intents : intent[i].charged = "today"}) <= PerDay

(* However often an intent is replayed after a crash or a failure, and     *)
(* however many intents of a poll turn out to be one character, no more    *)
(* discoveries of it, and no more collections, come to stay than polls saw *)
(* it: a run that failed, was cancelled or published a part that is to be  *)
(* retried is the only reason for another.                                 *)
ReplayStartsOnce ==
    \A k \in Kinds, x \in Names :
        coll[k][x].kept <= Cardinality({Seen[i] : i \in {j \in Intents : Name[j] = x}})

(* Doc: the budget is charged once per canonical dispatch, so two links to *)
(* one character in one poll spend one admission.                          *)
DuplicateSpendsNothing ==
    \A i, j \in Intents : i # j /\ Name[i] = Name[j] /\ Seen[i] = Seen[j]
                          /\ intent[i].st # "suppressed" /\ intent[j].st # "suppressed"
        => intent[i].charged = "no" \/ intent[j].charged = "no"

=============================================================================
