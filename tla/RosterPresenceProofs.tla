-------------------------- MODULE RosterPresenceProofs -------------------------
(***************************************************************************)
(* What passes over old rosters keep, for any number of passes, workers,   *)
(* profiles and reads, and any lease and lifetime: what they say is proved *)
(* by saved answers, and they read no more, and no sooner, than they may.  *)
(***************************************************************************)
EXTENDS RosterPresence, FiniteSetTheorems, TLAPS

Tokens == {<<>>} \cup (Passes \X Crew)
Rows ==
    [token : Tokens, lease : Nat, cooldown : Nat, used : Nat, just : BOOLEAN,
     answer : {"none", "rate_limited"} \cup {Real[l] : l \in Locators}]

Reserving(s) == {w \in Crew : s.crew[w].at = "reserve"}

Fields == {"at", "queue", "answers", "reads", "made", "stopped", "crew", "verdict"}

(* A pass has the fields of NoPass.                                        *)
Shaped(s) ==
    /\ s = [f \in Fields |-> s[f]]
    /\ s.answers = [l \in Locators |-> s.answers[l]]
    /\ s.crew = [w \in Crew |-> s.crew[w]]

(* What a pass may still reserve is paid for.                              *)
Counted(s) ==
    /\ s.reads \in Nat /\ s.made \in Nat /\ s.reads <= MaxReads
    /\ s.made + Cardinality(Reserving(s)) <= s.reads

(* What a pass says of a locator is proved and true.                       *)
Judged(p, s, known) ==
    \A l \in Locators : s.answers[l] \in {"present", "absent"}
        => l \in known /\ s.answers[l] = Judge(p, Real[l])

AnswersAreReal(s) ==
    \A w \in Crew : s.crew[w].at = "answer" => s.crew[w].a \in {"rate_limited", Real[s.crew[w].on]}

VerdictHolds(p, s) ==
    /\ s.verdict = "present" => \E l \in Locators : Real[l] = Subject[p]
    /\ s.verdict = "absent" => \A l \in Locators : Real[l] # Subject[p]

PassHolds(p, s, known) ==
    Shaped(s) /\ Counted(s) /\ Judged(p, s, known) /\ AnswersAreReal(s) /\ VerdictHolds(p, s)

(* A stored answer is proved and true; one that is still used has no       *)
(* reservation under it.                                                   *)
RowsHold ==
    /\ row \in [Locators -> Rows]
    /\ \A l \in Locators : Definitive(row[l].answer) =>
            /\ row[l].answer = Real[l] /\ l \in proved
            /\ row[l].used > 0 => row[l].token = <<>>

IInv ==
    /\ RowsHold
    /\ pass = [p \in Passes |-> pass[p]]
    /\ \A p \in Passes : PassHolds(p, pass[p], proved)

-----------------------------------------------------------------------------
(* The workers are finitely many.                                          *)
LEMMA CrewFinite == ASSUME PresenceAssumption PROVE IsFiniteSet(Crew) /\ Crew \subseteq Nat
<1>1. IsFiniteSet(1 .. Workers)
  BY FS_Interval DEF PresenceAssumption
<1> QED BY <1>1 DEF Crew, PresenceAssumption

(* The pass of a fresh start.                                              *)
LEMMA NoPassHolds ==
  ASSUME PresenceAssumption, NEW p \in Passes, NEW known
  PROVE  PassHolds(p, NoPass, known)
<1>1. Reserving(NoPass) = {}
  BY DEF Reserving, NoPass, Idle
<1>2. Cardinality(Reserving(NoPass)) = 0
  BY <1>1, FS_EmptySet
<1>3. Shaped(NoPass)
  BY DEF Shaped, NoPass, Fields
<1>4. Counted(NoPass)
  BY <1>2 DEF Counted, NoPass, PresenceAssumption
<1> QED BY <1>3, <1>4 DEF PassHolds, Judged, AnswersAreReal, VerdictHolds, NoPass, Idle

(* Before any pass nothing is stored and nothing said.                     *)
LEMMA InitHolds == ASSUME PresenceAssumption, Init PROVE IInv
<1>1. RowsHold
  BY DEF Init, RowsHold, Rows, Tokens, Definitive
<1>2. ASSUME NEW p \in Passes PROVE PassHolds(p, pass[p], proved)
  BY NoPassHolds DEF Init
<1> QED BY <1>1, <1>2 DEF IInv, Init

(* A step of one pass, which leaves the rows and what is proved no worse.  *)
LEMMA OnePass ==
  ASSUME IInv, RowsHold', proved \subseteq proved', NEW p \in Passes,
         \E s : pass' = [pass EXCEPT ![p] = s] /\ PassHolds(p, s, proved')
  PROVE  IInv'
<1>1. PICK s : pass' = [pass EXCEPT ![p] = s] /\ PassHolds(p, s, proved')
  OBVIOUS
<1>2. ASSUME NEW q \in Passes PROVE PassHolds(q, pass'[q], proved')
  <2>1. CASE q = p
    BY <1>1, <2>1 DEF IInv
  <2>2. CASE q # p
    <3>1. pass'[q] = pass[q] /\ PassHolds(q, pass[q], proved)
      BY <1>1, <2>2 DEF IInv
    <3> QED BY <3>1 DEF PassHolds, Judged
  <2> QED BY <2>1, <2>2
<1> QED BY <1>1, <1>2 DEF IInv

(* Rows that a step does not touch keep what they hold.                    *)
LEMMA SameRows == ASSUME RowsHold, UNCHANGED <<row, proved>> PROVE RowsHold'
  BY DEF RowsHold

(* A pass begins with what is stored and still used.                       *)
LEMMA LoadHolds == ASSUME PresenceAssumption, IInv, NEW p \in Passes, load(p) PROVE IInv'
<1> DEFINE known == {l \in Locators : Definitive(row[l].answer) /\ row[l].used > 0}
           cool == {l \in Locators \ known : row[l].cooldown > 0}
           left == Queue(Locators \ (known \cup cool))
           said == [l \in Locators |-> IF l \in known THEN Judge(p, row[l].answer)
                                       ELSE IF l \in cool THEN "unknown" ELSE "none"]
           s == [pass[p] EXCEPT !.at = "reading", !.queue = left, !.answers = said]
<1>1. pass' = [pass EXCEPT ![p] = s]
  BY DEF load, IInv
<1>2. PassHolds(p, pass[p], proved) /\ Shaped(pass[p]) /\ UNCHANGED <<row, proved>>
  BY DEF IInv, PassHolds, load
<1>3. Judged(p, [answers |-> said], proved')
  <2> SUFFICES ASSUME NEW l \in Locators, said[l] \in {"present", "absent"}
               PROVE  l \in proved /\ said[l] = Judge(p, Real[l])
    BY <1>2 DEF Judged
  <2>1. l \in known
    OBVIOUS
  <2>2. row[l].answer = Real[l] /\ l \in proved
    BY <2>1 DEF IInv, RowsHold
  <2> QED BY <2>1, <2>2
<1>4. said = [l \in Locators |-> said[l]]
  OBVIOUS
<1> HIDE DEF left, said, known, cool
<1>5. s.answers = said /\ s.crew = pass[p].crew /\ s.reads = pass[p].reads
      /\ s.made = pass[p].made /\ s.verdict = pass[p].verdict
  BY <1>2 DEF Shaped
<1>6. Shaped(s)
  BY <1>2, <1>4, <1>5 DEF Shaped, Fields
<1> HIDE DEF s
<1>7. PassHolds(p, s, proved')
  BY <1>2, <1>3, <1>5, <1>6 DEF PassHolds, Judged, Counted, Reserving, AnswersAreReal, VerdictHolds
<1> QED BY <1>1, <1>2, <1>7, OnePass, SameRows DEF IInv

(* What one worker changes of those that hold a reservation to make.       *)
LEMMA OneWorker ==
  ASSUME PresenceAssumption, NEW t, NEW s, NEW w \in Crew,
         \A v \in Crew \ {w} : s.crew[v] = t.crew[v]
  PROVE  LET was == Cardinality(Reserving(t))
             is == Cardinality(Reserving(s))
             from == t.crew[w].at = "reserve"
             to == s.crew[w].at = "reserve"
         IN  /\ was \in Nat /\ is \in Nat
             /\ (from <=> to) => is = was
             /\ from /\ ~to => is = was - 1
             /\ ~from /\ to => is = was + 1
<1> DEFINE S == Reserving(s)
           T == Reserving(t)
           U == T \ {w}
           from == t.crew[w].at = "reserve"
           to == s.crew[w].at = "reserve"
<1>1. IsFiniteSet(S) /\ IsFiniteSet(T) /\ IsFiniteSet(U)
  BY CrewFinite, FS_Subset DEF Reserving
<1>2. w \notin U
  OBVIOUS
<1>3. (to => S = U \cup {w}) /\ (~to => S = U)
  BY DEF Reserving
<1>4. (from => T = U \cup {w}) /\ (~from => T = U)
  BY DEF Reserving
<1> HIDE DEF S, T, U
<1>5. Cardinality(U \cup {w}) = Cardinality(U) + 1 /\ Cardinality(U) \in Nat
  BY <1>1, <1>2, FS_AddElement, FS_CardinalityType
<1>6. (to => Cardinality(S) = Cardinality(U) + 1) /\ (~to => Cardinality(S) = Cardinality(U))
  BY <1>3, <1>5
<1>7. (from => Cardinality(T) = Cardinality(U) + 1) /\ (~from => Cardinality(T) = Cardinality(U))
  BY <1>4, <1>5
<1> QED BY <1>5, <1>6, <1>7 DEF S, T

(* The next profile is counted before it is reserved.                     *)
LEMMA TakeHolds ==
  ASSUME PresenceAssumption, IInv, NEW p \in Passes, NEW w \in Crew, Take(p, w) PROVE IInv'
<1> DEFINE t == pass[p]
           job == [at |-> "reserve", on |-> Head(t.queue)]
           s == [t EXCEPT !.queue = Tail(@), !.reads = @ + 1, !.crew[w] = job]
<1>1. pass' = [pass EXCEPT ![p] = s]
  BY DEF Take, IInv
<1>2. /\ PassHolds(p, t, proved) /\ Shaped(t) /\ UNCHANGED <<row, proved>>
      /\ t.crew[w].at = "idle" /\ t.reads < MaxReads
  BY DEF IInv, PassHolds, Take
<1>3. job.at = "reserve"
  OBVIOUS
<1> HIDE DEF t, job
<1>4. s.answers = t.answers /\ s.crew = [t.crew EXCEPT ![w] = job] /\ s.reads = t.reads + 1
      /\ s.made = t.made /\ s.verdict = t.verdict
  BY <1>2 DEF Shaped, Fields
<1>5. Shaped(s)
  BY <1>2, <1>4 DEF Shaped, Fields
<1> HIDE DEF s
<1>6. Counted(s)
  <2>1. s.crew[w].at = "reserve" /\ \A v \in Crew \ {w} : s.crew[v] = t.crew[v]
    BY <1>2, <1>3, <1>4 DEF Shaped
  <2>2. Cardinality(Reserving(s)) = Cardinality(Reserving(t)) + 1
        /\ Cardinality(Reserving(s)) \in Nat /\ Cardinality(Reserving(t)) \in Nat
    BY <1>2, <2>1, OneWorker
  <2> QED BY <1>2, <1>4, <2>2 DEF PassHolds, Counted, PresenceAssumption
<1>7. AnswersAreReal(s)
  BY <1>2, <1>3, <1>4 DEF PassHolds, AnswersAreReal, Shaped
<1>8. PassHolds(p, s, proved')
  BY <1>2, <1>4, <1>5, <1>6, <1>7 DEF PassHolds, Judged, VerdictHolds
<1> QED BY <1>1, <1>2, <1>8, OnePass, SameRows DEF IInv

(* An answer is the provider's, or a failure.                              *)
LEMMA ResolveHolds ==
  ASSUME PresenceAssumption, IInv, NEW p \in Passes, NEW w \in Crew, resolve(p, w) PROVE IInv'
<1> DEFINE t == pass[p]
<1>0. PICK a \in {"rate_limited", Real[t.crew[w].on]} :
        pass' = [pass EXCEPT ![p] = [t EXCEPT !.stopped = @ \/ a = "rate_limited",
                    !.crew[w] = [at |-> "answer", on |-> @.on, a |-> a]]]
  BY DEF resolve, IInv
<1> DEFINE job == [at |-> "answer", on |-> t.crew[w].on, a |-> a]
           s == [t EXCEPT !.stopped = @ \/ a = "rate_limited", !.crew[w] = job]
<1>1. pass' = [pass EXCEPT ![p] = s]
  BY <1>0
<1>2. /\ PassHolds(p, t, proved) /\ Shaped(t) /\ UNCHANGED <<row, proved>> /\ t.crew[w].at = "read"
  BY DEF IInv, PassHolds, resolve
<1>3. job.at = "answer" /\ job.a \in {"rate_limited", Real[job.on]}
  OBVIOUS
<1> HIDE DEF t, job
<1>4. s.answers = t.answers /\ s.crew = [t.crew EXCEPT ![w] = job] /\ s.reads = t.reads
      /\ s.made = t.made /\ s.verdict = t.verdict
  BY <1>2 DEF Shaped, Fields
<1>5. Shaped(s)
  BY <1>2, <1>4 DEF Shaped, Fields
<1> HIDE DEF s
<1>6. Counted(s)
  <2>1. s.crew[w].at # "reserve" /\ \A v \in Crew \ {w} : s.crew[v] = t.crew[v]
    BY <1>2, <1>3, <1>4 DEF Shaped
  <2>2. Cardinality(Reserving(s)) = Cardinality(Reserving(t))
        /\ Cardinality(Reserving(s)) \in Nat /\ Cardinality(Reserving(t)) \in Nat
    BY <1>2, <2>1, OneWorker
  <2> QED BY <1>2, <1>4, <2>2 DEF PassHolds, Counted
<1>7. AnswersAreReal(s)
  BY <1>2, <1>3, <1>4 DEF PassHolds, AnswersAreReal, Shaped
<1>8. PassHolds(p, s, proved')
  BY <1>2, <1>4, <1>5, <1>6, <1>7 DEF PassHolds, Judged, VerdictHolds
<1> QED BY <1>1, <1>2, <1>8, OnePass, SameRows DEF IInv

(* A reservation is made where no answer is used, or the read is given up. *)
LEMMA ReserveHolds ==
  ASSUME PresenceAssumption, IInv, NEW p \in Passes, NEW w \in Crew, reserve(p, w) PROVE IInv'
<1> DEFINE t == pass[p]
           l == t.crew[w].on
<1>1. PassHolds(p, t, proved) /\ Shaped(t) /\ t.crew[w].at = "reserve" /\ proved' = proved
  BY DEF IInv, PassHolds, reserve
<1>2. CASE ~Free(l)
  <2> DEFINE s == [t EXCEPT !.crew[w] = Idle, !.reads = @ - 1, !.answers[l] = "unknown"]
  <2>1. pass' = [pass EXCEPT ![p] = s] /\ UNCHANGED row
    BY <1>2 DEF reserve, IInv
  <2>2. Idle.at = "idle"
    BY DEF Idle
  <2> HIDE DEF t, l
  <2>3. s.answers = [t.answers EXCEPT ![l] = "unknown"] /\ s.crew = [t.crew EXCEPT ![w] = Idle]
        /\ s.reads = t.reads - 1 /\ s.made = t.made /\ s.verdict = t.verdict
    BY <1>1 DEF Shaped, Fields
  <2>4. Shaped(s)
    BY <1>1, <2>3 DEF Shaped, Fields
  <2> HIDE DEF s
  <2>5. Counted(s)
    <3>1. s.crew[w].at # "reserve" /\ \A v \in Crew \ {w} : s.crew[v] = t.crew[v]
      BY <1>1, <2>2, <2>3 DEF Shaped
    <3>2. Cardinality(Reserving(s)) = Cardinality(Reserving(t)) - 1
          /\ Cardinality(Reserving(s)) \in Nat /\ Cardinality(Reserving(t)) \in Nat
      BY <1>1, <3>1, OneWorker
    <3> QED BY <1>1, <2>3, <3>2 DEF PassHolds, Counted, PresenceAssumption
  <2>6. AnswersAreReal(s)
    BY <1>1, <2>2, <2>3 DEF PassHolds, AnswersAreReal, Shaped
  <2>7. Judged(p, s, proved')
    BY <1>1, <2>3 DEF PassHolds, Judged, Shaped
  <2>8. PassHolds(p, s, proved')
    BY <1>1, <2>3, <2>4, <2>5, <2>6, <2>7 DEF PassHolds, VerdictHolds
  <2> QED BY <1>1, <2>1, <2>8, OnePass, SameRows DEF IInv
<1>3. CASE Free(l)
  <2>0. row' = [row EXCEPT ![l] = [row[l] EXCEPT !.token = <<p, w>>, !.lease = Lease, !.just = TRUE]]
    BY <1>3 DEF reserve
  <2>1. RowsHold'
    <3>1. row' \in [Locators -> Rows]
      <4>1. <<p, w>> \in Tokens /\ Lease \in Nat
        BY DEF Tokens, PresenceAssumption
      <4> QED BY <2>0, <4>1 DEF IInv, RowsHold, Rows
    <3>2. ASSUME NEW k \in Locators, Definitive(row'[k].answer)
          PROVE  /\ row'[k].answer = Real[k] /\ k \in proved
                 /\ row'[k].used > 0 => row'[k].token = <<>>
      <4>1. row[k] \in Rows /\ row'[k].answer = row[k].answer /\ row'[k].used = row[k].used
        BY <2>0 DEF IInv, RowsHold, Rows
      <4>2. k # l => row'[k] = row[k]
        BY <2>0 DEF IInv, RowsHold
      <4>3. k = l => ~(row[k].used > 0)
        BY <1>3, <3>2, <4>1 DEF Free
      <4> QED BY <3>2, <4>1, <4>2, <4>3 DEF IInv, RowsHold
    <3> QED BY <1>1, <3>1, <3>2 DEF RowsHold
  <2>2. CASE GoesOn(p)
    <3> DEFINE job == [at |-> "read", on |-> l]
               s == [t EXCEPT !.crew[w] = job, !.made = @ + 1]
    <3>1. pass' = [pass EXCEPT ![p] = s]
      BY <1>3, <2>2 DEF reserve, IInv
    <3>2. job.at = "read"
      OBVIOUS
    <3> HIDE DEF t, l, job
    <3>3. s.answers = t.answers /\ s.crew = [t.crew EXCEPT ![w] = job]
          /\ s.reads = t.reads /\ s.made = t.made + 1 /\ s.verdict = t.verdict
      BY <1>1 DEF Shaped, Fields
    <3>4. Shaped(s)
      BY <1>1, <3>3 DEF Shaped, Fields
    <3> HIDE DEF s
    <3>5. Counted(s)
      <4>1. s.crew[w].at # "reserve" /\ \A v \in Crew \ {w} : s.crew[v] = t.crew[v]
        BY <1>1, <3>2, <3>3 DEF Shaped
      <4>2. Cardinality(Reserving(s)) = Cardinality(Reserving(t)) - 1
            /\ Cardinality(Reserving(s)) \in Nat /\ Cardinality(Reserving(t)) \in Nat
        BY <1>1, <4>1, OneWorker
      <4> QED BY <1>1, <3>3, <4>2 DEF PassHolds, Counted
    <3>6. AnswersAreReal(s)
      BY <1>1, <3>2, <3>3 DEF PassHolds, AnswersAreReal, Shaped
    <3>7. PassHolds(p, s, proved')
      BY <1>1, <3>3, <3>4, <3>5, <3>6 DEF PassHolds, Judged, VerdictHolds
    <3> QED BY <1>1, <2>1, <3>1, <3>7, OnePass
  <2>3. CASE ~GoesOn(p)
    <3> DEFINE s == [t EXCEPT !.crew[w] = Idle, !.answers[l] = "unknown"]
    <3>1. pass' = [pass EXCEPT ![p] = s]
      BY <1>3, <2>3 DEF reserve, IInv
    <3>2. Idle.at = "idle"
      BY DEF Idle
    <3> HIDE DEF t, l
    <3>3. s.answers = [t.answers EXCEPT ![l] = "unknown"] /\ s.crew = [t.crew EXCEPT ![w] = Idle]
          /\ s.reads = t.reads /\ s.made = t.made /\ s.verdict = t.verdict
      BY <1>1 DEF Shaped, Fields
    <3>4. Shaped(s)
      BY <1>1, <3>3 DEF Shaped, Fields
    <3> HIDE DEF s
    <3>5. Counted(s)
      <4>1. s.crew[w].at # "reserve" /\ \A v \in Crew \ {w} : s.crew[v] = t.crew[v]
        BY <1>1, <3>2, <3>3 DEF Shaped
      <4>2. Cardinality(Reserving(s)) = Cardinality(Reserving(t)) - 1
            /\ Cardinality(Reserving(s)) \in Nat /\ Cardinality(Reserving(t)) \in Nat
        BY <1>1, <4>1, OneWorker
      <4> QED BY <1>1, <3>3, <4>2 DEF PassHolds, Counted
    <3>6. AnswersAreReal(s)
      BY <1>1, <3>2, <3>3 DEF PassHolds, AnswersAreReal, Shaped
    <3>7. Judged(p, s, proved')
      BY <1>1, <3>3 DEF PassHolds, Judged, Shaped
    <3>8. PassHolds(p, s, proved')
      BY <1>1, <3>3, <3>4, <3>5, <3>6, <3>7 DEF PassHolds, VerdictHolds
    <3> QED BY <1>1, <2>1, <3>1, <3>8, OnePass
  <2> QED BY <2>2, <2>3
<1> QED BY <1>2, <1>3

(* A row with a saved answer.                                              *)
LEMMA AnsweredRow ==
  ASSUME NEW r \in Rows, NEW a \in {"none", "rate_limited"} \cup {Real[l] : l \in Locators},
         NEW used \in Nat, NEW cooldown \in Nat
  PROVE  [r EXCEPT !.answer = a, !.token = <<>>, !.lease = 0, !.used = used, !.cooldown = cooldown] \in Rows
<1> DEFINE A == {"none", "rate_limited"} \cup {Real[l] : l \in Locators}
<1>1. a \in A /\ <<>> \in Tokens
  BY DEF Tokens
<1>2. Rows = [token : Tokens, lease : Nat, cooldown : Nat, used : Nat, just : BOOLEAN, answer : A]
  BY DEF Rows
<1> HIDE DEF A
<1> QED BY <1>1, <1>2

(* What a pass makes of an answer is proved by the row it was saved in.    *)
LEMMA AnswerHolds ==
  ASSUME PresenceAssumption, IInv, NEW p \in Passes, NEW w \in Crew, answer(p, w) PROVE IInv'
<1> DEFINE t == pass[p]
           l == t.crew[w].on
           a == t.crew[w].a
           mine == Accepted(l, <<p, w>>)
           judged == Proof(p, l, <<p, w>>, a)
           s == [t EXCEPT !.crew[w] = Idle, !.answers[l] = judged]
<1>1. /\ PassHolds(p, t, proved) /\ Shaped(t) /\ t.crew[w].at = "answer"
      /\ proved' = IF mine /\ Definitive(a) THEN proved \cup {l} ELSE proved
      /\ pass' = [pass EXCEPT ![p] = s]
  BY DEF IInv, PassHolds, answer
<1>0. PICK wait \in IF a = "rate_limited" THEN {0, 1} ELSE {0} : row' = [row EXCEPT ![l] =
                    [(IF mine THEN [row[l] EXCEPT !.answer = a, !.used = IF Definitive(a) THEN Lifetime ELSE 0,
                                                  !.token = <<>>, !.lease = 0]
                      ELSE row[l])
                     EXCEPT !.cooldown = IF wait > @ THEN wait ELSE @]]
  BY DEF answer
<1>2. wait \in {0, 1}
  BY <1>0
<1>3. a \in {"rate_limited", Real[l]} /\ (l \in Locators => Definitive(Real[l]))
  BY <1>1 DEF PassHolds, AnswersAreReal, PresenceAssumption
<1>4. proved \subseteq proved'
  BY <1>1
<1>5. Idle.at = "idle"
  BY DEF Idle
<1> HIDE DEF t, l, a, mine, judged
<1>6. RowsHold'
  <2>1. row' \in [Locators -> Rows]
    <3>1. CASE l \notin Locators
      BY <1>0, <1>2, <3>1 DEF IInv, RowsHold
    <3>2. CASE l \in Locators
      <4>1. row[l] \in Rows /\ Lifetime \in Nat
        BY <3>2 DEF IInv, RowsHold, PresenceAssumption
      <4>2. CASE mine
        <5>1. <<>> \in Tokens /\ a \in {"none", "rate_limited"} \cup {Real[k] : k \in Locators}
          BY <1>3, <3>2 DEF Tokens
        <5>2. row' = [row EXCEPT ![l] = [row[l] EXCEPT !.answer = a, !.token = <<>>, !.lease = 0,
                        !.used = IF Definitive(a) THEN Lifetime ELSE 0,
                        !.cooldown = IF wait > @ THEN wait ELSE @]]
          BY <1>0, <1>2, <4>1, <4>2 DEF Rows
        <5>3. row'[l] = [row[l] EXCEPT !.answer = a, !.token = <<>>, !.lease = 0,
                        !.used = IF Definitive(a) THEN Lifetime ELSE 0,
                        !.cooldown = IF wait > @ THEN wait ELSE @]
          BY <3>2, <5>2 DEF IInv, RowsHold
        <5>4. (IF Definitive(a) THEN Lifetime ELSE 0) \in Nat
              /\ (IF wait > row[l].cooldown THEN wait ELSE row[l].cooldown) \in Nat
          BY <4>1 DEF Rows
        <5>5. row'[l] \in Rows
          <6> DEFINE used == IF Definitive(a) THEN Lifetime ELSE 0
                     cooldown == IF wait > row[l].cooldown THEN wait ELSE row[l].cooldown
          <6>1. used \in Nat /\ cooldown \in Nat
            BY <5>4
          <6>2. row'[l] = [row[l] EXCEPT !.answer = a, !.token = <<>>, !.lease = 0, !.used = used,
                                         !.cooldown = cooldown]
            BY <5>3, <4>1 DEF Rows
          <6> HIDE DEF used, cooldown
          <6>3. [row[l] EXCEPT !.answer = a, !.token = <<>>, !.lease = 0, !.used = used,
                               !.cooldown = cooldown] \in Rows
            BY <4>1, <5>1, <6>1, AnsweredRow, Zenon
          <6> QED BY <6>2, <6>3, Zenon
        <5> QED BY <5>2, <5>5 DEF IInv, RowsHold
      <4>3. CASE ~mine
        <5>1. row' = [row EXCEPT ![l] = [row[l] EXCEPT !.cooldown = IF wait > @ THEN wait ELSE @]]
          BY <1>0, <1>2, <4>3
        <5>2. row'[l] = [row[l] EXCEPT !.cooldown = IF wait > @ THEN wait ELSE @]
          BY <3>2, <5>1 DEF IInv, RowsHold
        <5>3. (IF wait > row[l].cooldown THEN wait ELSE row[l].cooldown) \in Nat
          BY <4>1 DEF Rows
        <5>4. row'[l] \in Rows
          BY <4>1, <5>2, <5>3 DEF Rows
        <5> QED BY <5>1, <5>4 DEF IInv, RowsHold
      <4> QED BY <4>2, <4>3
    <3> QED BY <3>1, <3>2
  <2>2. ASSUME NEW k \in Locators, Definitive(row'[k].answer)
        PROVE  /\ row'[k].answer = Real[k] /\ k \in proved'
               /\ row'[k].used > 0 => row'[k].token = <<>>
    <3>1. CASE k # l \/ ~mine
      <4>1. row[k] \in Rows /\ row'[k].answer = row[k].answer /\ row'[k].used = row[k].used
            /\ row'[k].token = row[k].token
        BY <1>0, <1>2, <3>1 DEF IInv, RowsHold, Rows
      <4> QED BY <1>4, <2>2, <4>1 DEF IInv, RowsHold
    <3>2. CASE k = l /\ mine
      <4>1. row[k] \in Rows /\ row'[k].answer = a /\ row'[k].token = <<>>
        BY <1>0, <1>2, <3>2 DEF IInv, RowsHold, Rows
      <4>2. a = Real[k] /\ k \in proved'
        BY <1>1, <1>3, <2>2, <3>2, <4>1 DEF Definitive
      <4> QED BY <4>1, <4>2
    <3> QED BY <3>1, <3>2
  <2> QED BY <2>1, <2>2 DEF RowsHold
<1>7. s.answers = [t.answers EXCEPT ![l] = judged] /\ s.crew = [t.crew EXCEPT ![w] = Idle]
      /\ s.reads = t.reads /\ s.made = t.made /\ s.verdict = t.verdict
  BY <1>1 DEF Shaped, Fields
<1>8. Shaped(s)
  BY <1>1, <1>7 DEF Shaped, Fields
<1> HIDE DEF s
<1>9. Counted(s)
  <2>1. s.crew[w].at # "reserve" /\ \A v \in Crew \ {w} : s.crew[v] = t.crew[v]
    BY <1>1, <1>5, <1>7 DEF Shaped
  <2>2. Cardinality(Reserving(s)) = Cardinality(Reserving(t))
        /\ Cardinality(Reserving(s)) \in Nat /\ Cardinality(Reserving(t)) \in Nat
    BY <1>1, <2>1, OneWorker
  <2> QED BY <1>1, <1>7, <2>2 DEF PassHolds, Counted
<1>10. AnswersAreReal(s)
  BY <1>1, <1>5, <1>7 DEF PassHolds, AnswersAreReal, Shaped
<1>11. l \in Locators /\ judged \in {"present", "absent"} => l \in proved' /\ judged = Judge(p, Real[l])
  BY <1>1, <1>3 DEF judged, mine, Proof, Definitive
<1>12. Judged(p, s, proved')
  BY <1>1, <1>4, <1>7, <1>11 DEF PassHolds, Judged, Shaped
<1>13. PassHolds(p, s, proved')
  BY <1>1, <1>7, <1>8, <1>9, <1>10, <1>12 DEF PassHolds, VerdictHolds
<1> QED BY <1>1, <1>4, <1>6, <1>13, OnePass

(* The verdict says no more than the answers.                              *)
LEMMA FinishHolds ==
  ASSUME PresenceAssumption, IInv, NEW p \in Passes, finish(p) PROVE IInv'
<1> DEFINE t == pass[p]
           s == [NoPass EXCEPT !.at = "done", !.answers = t.answers, !.verdict = Verdict(p, t.answers)]
<1>1. PassHolds(p, t, proved) /\ Shaped(t) /\ UNCHANGED <<row, proved>> /\ pass' = [pass EXCEPT ![p] = s]
  BY DEF IInv, PassHolds, finish
<1>2. PassHolds(p, NoPass, proved) /\ Shaped(NoPass)
  BY NoPassHolds DEF PassHolds
<1> HIDE DEF t
<1>3. s.answers = t.answers /\ s.crew = NoPass.crew /\ s.reads = NoPass.reads
      /\ s.made = NoPass.made /\ s.verdict = Verdict(p, t.answers)
  BY <1>2 DEF Shaped, Fields
<1>4. Shaped(s)
  BY <1>1, <1>2, <1>3 DEF Shaped, Fields
<1> HIDE DEF s
<1>5. VerdictHolds(p, s)
  BY <1>1, <1>3 DEF VerdictHolds, Verdict, PassHolds, Judged, Judge
<1>6. PassHolds(p, s, proved')
  BY <1>1, <1>2, <1>3, <1>4, <1>5 DEF PassHolds, Judged, Counted, Reserving, AnswersAreReal
<1> QED BY <1>1, <1>6, OnePass, SameRows DEF IInv

(* A pass whose storage failed says nothing.                               *)
LEMMA StorageFailsHolds ==
  ASSUME PresenceAssumption, IInv, NEW p \in Passes, StorageFails(p) PROVE IInv'
<1> DEFINE s == [NoPass EXCEPT !.at = "done", !.verdict = "unknown"]
<1>1. UNCHANGED <<row, proved>> /\ pass' = [pass EXCEPT ![p] = s]
  BY DEF StorageFails
<1>2. PassHolds(p, NoPass, proved) /\ Shaped(NoPass)
  BY NoPassHolds DEF PassHolds
<1>3. s.answers = NoPass.answers /\ s.crew = NoPass.crew /\ s.reads = NoPass.reads
      /\ s.made = NoPass.made /\ s.verdict = "unknown"
  BY <1>2 DEF Shaped, Fields
<1>4. Shaped(s)
  BY <1>2, <1>3 DEF Shaped, Fields
<1> HIDE DEF s
<1>5. PassHolds(p, s, proved')
  BY <1>1, <1>2, <1>3, <1>4 DEF PassHolds, Judged, Counted, Reserving, AnswersAreReal, VerdictHolds
<1> QED BY <1>1, <1>5, OnePass, SameRows DEF IInv

(* A pass begun again has said nothing.                                    *)
LEMMA AgainHolds ==
  ASSUME PresenceAssumption, IInv, NEW p \in Passes, Again(p) PROVE IInv'
<1>1. PassHolds(p, NoPass, proved')
  BY NoPassHolds
<1>2. UNCHANGED <<row, proved>> /\ pass' = [pass EXCEPT ![p] = NoPass]
  BY DEF Again
<1> QED BY <1>1, <1>2, OnePass, SameRows DEF IInv

(* Time ends uses and waits and changes no answer.                         *)
LEMMA TickHolds == ASSUME PresenceAssumption, IInv, Tick PROVE IInv'
<1>1. ASSUME NEW l \in Locators
      PROVE  /\ row'[l] \in Rows /\ row'[l].answer = row[l].answer /\ row'[l].token = row[l].token
             /\ row'[l].used > 0 => row[l].used > 0
  <2>1. row[l] \in Rows
    BY DEF IInv, RowsHold
  <2>2. row'[l] = [row[l] EXCEPT !.lease = Less1(@), !.cooldown = Less1(@), !.used = Less1(@), !.just = FALSE]
    BY DEF Tick
  <2>3. Less1(row[l].lease) \in Nat /\ Less1(row[l].cooldown) \in Nat /\ Less1(row[l].used) \in Nat
        /\ (Less1(row[l].used) > 0 => row[l].used > 0)
    BY <2>1 DEF Less1, Rows
  <2> HIDE DEF Less1
  <2> QED BY <2>1, <2>2, <2>3 DEF Rows
<1>2. RowsHold'
  BY <1>1 DEF IInv, RowsHold, Tick
<1> QED BY <1>2 DEF IInv, Tick, PassHolds

(* Every step keeps the invariant.                                         *)
LEMMA NextHolds == ASSUME PresenceAssumption, IInv, [Next]_vars PROVE IInv'
<1>1. ASSUME NEW p \in Passes, Work(p) PROVE IInv'
  BY <1>1, LoadHolds, FinishHolds, TakeHolds, ReserveHolds, ResolveHolds, AnswerHolds DEF Work
<1>2. ASSUME NEW p \in Passes, Again(p) \/ StorageFails(p) PROVE IInv'
  BY <1>2, AgainHolds, StorageFailsHolds
<1>3. CASE Tick
  BY <1>3, TickHolds
<1>4. CASE UNCHANGED vars
  BY <1>4 DEF vars, IInv, RowsHold, PassHolds
<1> QED BY <1>1, <1>2, <1>3, <1>4 DEF Next

(* The invariant holds throughout.                                         *)
LEMMA Invariant == ASSUME PresenceAssumption PROVE Spec => []IInv
<1>1. Init => IInv
  BY InitHolds
<1>2. IInv /\ [Next]_vars => IInv'
  BY NextHolds
<1> QED BY <1>1, <1>2, PTL DEF Spec

(* What passes say of old profiles is proved by answers saved under the    *)
(* read's own reservation, however passes overlap, are late or fail, and   *)
(* no pass reads more than it may (roster-profile-presence.ts).            *)
THEOREM VerdictsAreProofs ==
  ASSUME PresenceAssumption PROVE Spec => [](VerdictIsProof /\ ReadsBounded)
<1>1. ASSUME IInv PROVE VerdictIsProof
  BY <1>1 DEF IInv, PassHolds, Judged, VerdictHolds, VerdictIsProof
<1>2. ASSUME IInv PROVE ReadsBounded
  <2> SUFFICES ASSUME NEW p \in Passes PROVE pass[p].made <= MaxReads
    BY DEF ReadsBounded
  <2>1. Cardinality(Reserving(pass[p])) \in Nat
    BY CrewFinite, FS_Subset, FS_CardinalityType DEF Reserving
  <2> QED BY <1>2, <2>1 DEF IInv, PassHolds, Counted, PresenceAssumption
<1> QED BY <1>1, <1>2, Invariant, PTL

(* Only a reservation that was granted to a pass still going on leads to a *)
(* read.                                                                   *)
LEMMA ReadsAreReserved ==
  ASSUME PresenceAssumption, IInv, Next, NEW p \in Passes, NEW w \in Crew,
         ~Reading(p, w), pass'[p].crew[w].at = "read"
  PROVE  Free(pass'[p].crew[w].on) /\ ~pass[p].stopped
<1> DEFINE t == pass[p]
<1>1. Shaped(t) /\ PassHolds(p, NoPass, proved) /\ NoPass.crew[w].at = "idle" /\ Shaped(NoPass)
      /\ pass = [q \in Passes |-> pass[q]]
  BY NoPassHolds DEF IInv, PassHolds, NoPass, Idle
<1>2. ASSUME NEW q \in Passes, NEW s, q # p, pass' = [pass EXCEPT ![q] = s] PROVE FALSE
  BY <1>1, <1>2 DEF Reading
<1>3. ASSUME NEW s, pass' = [pass EXCEPT ![p] = s] PROVE s.crew[w].at = "read"
  BY <1>1, <1>3
<1>4. ASSUME NEW q \in Passes, load(q) PROVE FALSE
  <2>1. CASE q = p
    <3>1. pass'[p].crew = t.crew
      BY <1>1, <1>4, <2>1 DEF load, Shaped, Fields
    <3> QED BY <3>1 DEF Reading
  <2> QED BY <1>1, <1>2, <1>4, <2>1 DEF load
<1>5. ASSUME NEW q \in Passes, NEW v \in Crew, Take(q, v) PROVE FALSE
  <2>1. CASE q = p
    <3> DEFINE job == [at |-> "reserve", on |-> Head(t.queue)]
    <3>1. pass'[p] = [t EXCEPT !.queue = Tail(@), !.reads = @ + 1, !.crew[v] = job]
      BY <1>1, <1>5, <2>1 DEF Take
    <3>2. job.at = "reserve"
      OBVIOUS
    <3> HIDE DEF job, t
    <3>3. pass'[p].crew = [t.crew EXCEPT ![v] = job]
      BY <1>1, <3>1 DEF Shaped, Fields
    <3> QED BY <1>1, <3>2, <3>3 DEF Shaped, t, Reading
  <2> QED BY <1>1, <1>2, <1>5, <2>1 DEF Take
<1>6. ASSUME NEW q \in Passes, NEW v \in Crew, resolve(q, v) PROVE FALSE
  <2>1. CASE q = p
    <3>1. PICK a \in {"rate_limited", Real[t.crew[v].on]} :
            pass' = [pass EXCEPT ![p] = [t EXCEPT !.stopped = @ \/ a = "rate_limited",
                        !.crew[v] = [at |-> "answer", on |-> t.crew[v].on, a |-> a]]]
      BY <1>6, <2>1 DEF resolve
    <3> DEFINE job == [at |-> "answer", on |-> t.crew[v].on, a |-> a]
    <3>2. pass'[p] = [t EXCEPT !.stopped = @ \/ a = "rate_limited", !.crew[v] = job]
      BY <1>1, <3>1
    <3>3. job.at = "answer"
      OBVIOUS
    <3> HIDE DEF job, t
    <3>4. pass'[p].crew = [t.crew EXCEPT ![v] = job]
      BY <1>1, <3>2 DEF Shaped, Fields
    <3> QED BY <1>1, <3>3, <3>4 DEF Shaped, t, Reading
  <2> QED BY <1>1, <1>2, <1>6, <2>1 DEF resolve
<1>7. ASSUME NEW q \in Passes, NEW v \in Crew, answer(q, v) PROVE FALSE
  <2>1. CASE q = p
    <3>1. PICK l, said : pass' = [pass EXCEPT ![p] = [t EXCEPT !.crew[v] = Idle, !.answers[l] = said]]
      BY <1>7, <2>1 DEF answer
    <3>2. pass'[p] = [t EXCEPT !.crew[v] = Idle, !.answers[l] = said] /\ Idle.at = "idle"
      BY <1>1, <3>1 DEF Idle
    <3> HIDE DEF t
    <3>3. pass'[p].crew = [t.crew EXCEPT ![v] = Idle]
      BY <1>1, <3>2 DEF Shaped, Fields
    <3> QED BY <1>1, <3>2, <3>3 DEF Shaped, t, Reading
  <2> QED BY <1>1, <1>2, <1>7, <2>1 DEF answer
<1>8. ASSUME NEW q \in Passes, finish(q) \/ StorageFails(q) \/ Again(q) PROVE FALSE
  <2>1. CASE q = p
    <3>1. CASE finish(p)
      <4>1. PICK said, says : pass'[p] = [NoPass EXCEPT !.at = "done", !.answers = said, !.verdict = says]
        BY <1>1, <3>1 DEF finish
      <4> QED BY <1>1, <4>1 DEF Shaped, Fields
    <3>2. CASE StorageFails(p)
      <4>1. pass'[p] = [NoPass EXCEPT !.at = "done", !.verdict = "unknown"]
        BY <1>1, <3>2 DEF StorageFails
      <4> QED BY <1>1, <4>1 DEF Shaped, Fields
    <3>3. CASE Again(p)
      BY <1>1, <3>3 DEF Again
    <3> QED BY <1>8, <2>1, <3>1, <3>2, <3>3
  <2> QED BY <1>1, <1>2, <1>8, <2>1 DEF finish, StorageFails, Again
<1>9. ~Tick
  BY DEF Tick, Reading
<1>10. PICK q \in Passes, v \in Crew : reserve(q, v)
  BY <1>4, <1>5, <1>6, <1>7, <1>8, <1>9 DEF Next, Work
<1>11. q = p
  BY <1>1, <1>2, <1>10 DEF reserve
<1> DEFINE l == t.crew[v].on
           job == [at |-> "read", on |-> l]
<1>12. CASE ~Free(l)
  <2>1. pass'[p] = [t EXCEPT !.crew[v] = Idle, !.reads = @ - 1, !.answers[l] = "unknown"] /\ Idle.at = "idle"
    BY <1>1, <1>10, <1>11, <1>12 DEF reserve, Idle
  <2> HIDE DEF t, l
  <2>2. pass'[p].crew = [t.crew EXCEPT ![v] = Idle]
    BY <1>1, <2>1 DEF Shaped, Fields
  <2> QED BY <1>1, <2>1, <2>2 DEF Shaped, t, Reading
<1>13. CASE Free(l) /\ ~GoesOn(p)
  <2>1. pass'[p] = [t EXCEPT !.crew[v] = Idle, !.answers[l] = "unknown"] /\ Idle.at = "idle"
    BY <1>1, <1>10, <1>11, <1>13 DEF reserve, Idle
  <2> HIDE DEF t, l
  <2>2. pass'[p].crew = [t.crew EXCEPT ![v] = Idle]
    BY <1>1, <2>1 DEF Shaped, Fields
  <2> QED BY <1>1, <2>1, <2>2 DEF Shaped, t, Reading
<1>14. CASE Free(l) /\ GoesOn(p)
  <2>1. pass'[p] = [t EXCEPT !.crew[v] = job, !.made = @ + 1] /\ job.on = l
    BY <1>1, <1>10, <1>11, <1>14 DEF reserve
  <2> HIDE DEF t, l, job
  <2>2. pass'[p].crew = [t.crew EXCEPT ![v] = job]
    BY <1>1, <2>1 DEF Shaped, Fields
  <2>3. w = v
    BY <1>1, <2>2 DEF Shaped, t, Reading
  <2> QED BY <1>1, <1>14, <2>1, <2>2, <2>3 DEF Shaped, GoesOn, t
<1> QED BY <1>12, <1>13, <1>14

(* A saved answer has no reservation under it, so that no late answer is   *)
(* accepted for its row.                                                   *)
LEMMA AnswersStand == ASSUME PresenceAssumption, IInv, Next PROVE AnswerStands
<1> SUFFICES ASSUME NEW l \in Locators, Definitive(row[l].answer), row[l].used > 0
             PROVE  row'[l].answer = row[l].answer
  BY DEF AnswerStands
<1>1. row[l] \in Rows /\ row[l].token = <<>> /\ row \in [Locators -> Rows]
  BY DEF IInv, RowsHold
<1>2. ASSUME NEW p \in Passes, NEW w \in Crew, reserve(p, w) PROVE row'[l].answer = row[l].answer
  <2>1. CASE row' = row
    BY <2>1
  <2>2. CASE \E k : row' = [row EXCEPT ![k] = [row[k] EXCEPT !.token = <<p, w>>, !.lease = Lease, !.just = TRUE]]
    <3>1. PICK k : row' = [row EXCEPT ![k] = [row[k] EXCEPT !.token = <<p, w>>, !.lease = Lease, !.just = TRUE]]
      BY <2>2
    <3>2. row'[l] = row[l] \/ row'[l] = [row[l] EXCEPT !.token = <<p, w>>, !.lease = Lease, !.just = TRUE]
      BY <1>1, <3>1
    <3> QED BY <1>1, <3>2 DEF Rows
  <2> QED BY <1>2, <2>1, <2>2 DEF reserve
<1>3. ASSUME NEW p \in Passes, NEW w \in Crew, answer(p, w) PROVE row'[l].answer = row[l].answer
  <2> DEFINE k == pass[p].crew[w].on
             a == pass[p].crew[w].a
             mine == Accepted(k, <<p, w>>)
  <2>1. PICK wait \in IF a = "rate_limited" THEN {0, 1} ELSE {0} : row' = [row EXCEPT ![k] =
                    [(IF mine THEN [row[k] EXCEPT !.answer = a, !.used = IF Definitive(a) THEN Lifetime ELSE 0,
                                                  !.token = <<>>, !.lease = 0]
                      ELSE row[k])
                     EXCEPT !.cooldown = IF wait > @ THEN wait ELSE @]]
    BY <1>3 DEF answer
  <2>2. <<p, w>> # <<>>
    OBVIOUS
  <2>3. k = l => ~mine
    BY <1>1, <2>2 DEF Accepted
  <2> HIDE DEF k, a, mine
  <2>4. CASE k # l
    BY <1>1, <2>1, <2>4
  <2>5. CASE k = l
    <3>1. row' = [row EXCEPT ![k] = [row[k] EXCEPT !.cooldown = IF wait > @ THEN wait ELSE @]]
      BY <2>1, <2>3, <2>5
    <3>2. row'[l] = [row[l] EXCEPT !.cooldown = IF wait > @ THEN wait ELSE @]
      BY <1>1, <2>5, <3>1
    <3> QED BY <1>1, <3>2 DEF Rows
  <2> QED BY <2>4, <2>5
<1>4. CASE Tick
  BY <1>1, <1>4 DEF Tick, Rows
<1> QED BY <1>2, <1>3, <1>4 DEF Next, Work, load, Take, resolve, finish, Again, StorageFails

(* No read begins in the provider's wait or in a pass told to stop, though *)
(* both were looked at before the reservation; a saved answer stands for   *)
(* its lifetime (roster-profile-presence.ts).                              *)
THEOREM ReadsAreAllowed ==
  ASSUME PresenceAssumption
  PROVE  Spec => [][CooldownKept /\ StoppedReadsNothing /\ AnswerStands]_vars
<1>1. ASSUME IInv, [Next]_vars PROVE [CooldownKept /\ StoppedReadsNothing /\ AnswerStands]_vars
  <2>1. CASE Next
    <3>1. CooldownKept /\ StoppedReadsNothing
      BY <1>1, <2>1, ReadsAreReserved DEF CooldownKept, StoppedReadsNothing, Free
    <3> QED BY <1>1, <2>1, <3>1, AnswersStand
  <2> QED BY <1>1, <2>1
<1> QED BY <1>1, Invariant, PTL DEF Spec

===============================================================================
