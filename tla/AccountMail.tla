---------------------------- MODULE AccountMail ----------------------------
(***************************************************************************)
(* The account mail outbox and the loops that empty it.  A claim advances  *)
(* the row's next attempt, and that lease is all that keeps two workers,   *)
(* or a worker and its restarted self, off one mail: nothing is locked     *)
(* while the mail is handed to the provider.                               *)
(*                                                                         *)
(* Time advances in units of ten seconds, the limit of each of the three   *)
(* waits of a delivery: claim, provider, mark.                             *)
(***************************************************************************)
EXTENDS Naturals, FiniteSets, FiniteSetsExt

CONSTANTS
    Mails,      \* outbox rows
    Poison,     \* rows whose message does not decrypt
    Workers,    \* processes with a delivery loop
    LeaseBase,  \* units of the first lease (60 s)
    LeaseCap,   \* units of the longest lease (3600 s)
    Doublings   \* doublings of the lease (6)

ASSUME MailAssumption ==
    /\ IsFiniteSet(Mails) /\ IsFiniteSet(Workers) /\ Poison \subseteq Mails /\ "none" \notin Mails
    /\ LeaseBase \in Nat /\ LeaseCap \in Nat /\ Doublings \in Nat
    (* Every lease outlasts the three waits of a delivery.                 *)
    /\ LeaseCap > 3 /\ \A n \in 0 .. Doublings : LeaseBase * 2 ^ n \in Nat /\ LeaseBase * 2 ^ n > 3

VARIABLES
    mail,     \* each row: state, attempts, units until it is due, past its expiry
    before,   \* pairs of due rows, the one that came due first first
    worker    \* each loop: step of its delivery, the mail, units in this step

vars == <<mail, before, worker>>

Idle == [st |-> "idle", on |-> "none", age |-> 0]
Down == [st |-> "down", on |-> "none", age |-> 0]
Doing(step, x) == [st |-> step, on |-> x, age |-> 0]

(* The lease covers the provider's wait alone.                             *)
LeaseShort(attempt) == Min({LeaseCap, 2 ^ Min({attempt, Doublings})})

Lease(attempt) == Min({LeaseCap, LeaseBase * 2 ^ Min({attempt, Doublings})})

Due == {x \in Mails : mail[x].st = "queued" /\ mail[x].wait = 0}
Live == {x \in Due : ~mail[x].expired}
First(x) == x \in Live /\ \A y \in Live : <<y, x>> \notin before

(* Rows come due behind those that are, and leave.                         *)
Joined(S) == before \cup Due \X S
Without(S) == {p \in before : p[1] \notin S /\ p[2] \notin S}

(* accountMail.issue: the row is due at once.                              *)
issue(x) ==
    /\ mail[x].st = "none"
    /\ mail' = [mail EXCEPT ![x].st = "queued"]
    /\ before' = Joined({x})
    /\ UNCHANGED worker

Purged == [x \in Mails |-> IF mail[x].expired THEN [mail[x] EXCEPT !.st = "gone"] ELSE mail[x]]

Tried(x) == Min({mail[x].attempt + 1, Doublings})

(* The attempt is counted and the row stays due.                           *)
claimDueUnleased(w, x) ==
    /\ worker[w].st = "idle" /\ First(x)
    /\ mail' = [Purged EXCEPT ![x] = [mail[x] EXCEPT !.attempt = Tried(x)]]
    /\ before' = Without(Due \ Live)
    /\ worker' = [worker EXCEPT ![w] = Doing("claimed", x)]

(* claimDue: expired rows are deleted and the row due longest is taken.    *)
claimDue(w, x) ==
    /\ worker[w].st = "idle" /\ First(x)
    /\ mail' = [Purged EXCEPT ![x] = [mail[x] EXCEPT !.attempt = Tried(x),
                                                     !.wait = Lease(mail[x].attempt)]]
    /\ before' = Without((Due \ Live) \cup {x})
    /\ worker' = [worker EXCEPT ![w] = Doing("claimed", x)]

claimNothing(w) ==
    /\ worker[w].st = "idle" /\ Live = {}
    /\ mail' = Purged /\ before' = Without(Due)
    /\ UNCHANGED worker

(* sendResend: the provider takes the mail and the answer arrives, or the  *)
(* answer is lost or refused and the delivery fails.                       *)
sendAccepted(w, x) ==
    /\ worker[w].st = "claimed" /\ worker[w].on = x /\ x \notin Poison
    /\ worker' = [worker EXCEPT ![w] = Doing("accepted", x)]
    /\ UNCHANGED <<mail, before>>

sendFailed(w, x) ==
    /\ worker[w].st = "claimed" /\ worker[w].on = x
    /\ worker' = [worker EXCEPT ![w] = Idle]
    /\ UNCHANGED <<mail, before>>

markSent(w, x) ==
    /\ worker[w].st = "accepted" /\ worker[w].on = x
    /\ mail' = [mail EXCEPT ![x].st = IF @ = "queued" THEN "sent" ELSE @]
    /\ before' = Without({x})
    /\ worker' = [worker EXCEPT ![w] = Idle]

(* The query is cancelled by its ten seconds.                              *)
markFailed(w) ==
    /\ worker[w].st = "accepted"
    /\ worker' = [worker EXCEPT ![w] = Idle]
    /\ UNCHANGED <<mail, before>>

(* stop aborts whatever is pending; a crash does the same.                 *)
stop(w) ==
    /\ worker[w].st \in {"idle", "claimed", "accepted"}
    /\ worker' = [worker EXCEPT ![w] = Down]
    /\ UNCHANGED <<mail, before>>

startAccountMailWorker(w) ==
    /\ worker[w].st = "down"
    /\ worker' = [worker EXCEPT ![w] = Idle]
    /\ UNCHANGED <<mail, before>>

Expire(x) ==
    /\ mail[x].st \in {"queued", "sent"} /\ ~mail[x].expired
    /\ mail' = [mail EXCEPT ![x].expired = TRUE]
    /\ UNCHANGED <<before, worker>>

(* No step lasts longer than its waits: the lease runs from before the     *)
(* claim's own wait.                                                       *)
Limit(st) == IF st = "claimed" THEN 2 ELSE 1

Tick ==
    /\ \A w \in Workers : worker[w].st \in {"claimed", "accepted"} => worker[w].age < Limit(worker[w].st)
    /\ worker' = [w \in Workers |-> IF worker[w].st \in {"claimed", "accepted"}
                                    THEN [worker[w] EXCEPT !.age = @ + 1] ELSE worker[w]]
    /\ mail' = [x \in Mails |-> [mail[x] EXCEPT !.wait = IF @ > 0 THEN @ - 1 ELSE 0]]
    /\ before' = Joined({x \in Mails : mail[x].st = "queued" /\ mail[x].wait = 1})

Init ==
    /\ mail = [x \in Mails |-> [st |-> "none", attempt |-> 0, wait |-> 0, expired |-> FALSE]]
    /\ before = {}
    /\ worker = [w \in Workers |-> Idle]

Deliver(w, x) == claimDue(w, x) \/ sendAccepted(w, x) \/ sendFailed(w, x) \/ markSent(w, x)

Next ==
    \/ \E w \in Workers, x \in Mails : Deliver(w, x)
    \/ \E w \in Workers : claimNothing(w) \/ markFailed(w) \/ stop(w) \/ startAccountMailWorker(w)
    \/ \E x \in Mails : issue(x) \/ Expire(x)
    \/ Tick

(* Timers fire and a started worker polls.  A claim, a provider and a mark *)
(* that are tried without end succeed in the end.                          *)
Fairness ==
    /\ WF_vars(Tick)
    /\ \A w \in Workers : WF_vars(startAccountMailWorker(w))
    /\ SF_vars(\E w \in Workers, x \in Mails : claimDue(w, x))
    /\ \A x \in Mails :
        /\ WF_vars(\E w \in Workers : sendFailed(w, x))
        /\ SF_vars(\E w \in Workers : sendAccepted(w, x))
        /\ SF_vars(\E w \in Workers : markSent(w, x))

Spec == Init /\ [][Next]_vars
LiveSpec == Spec /\ Fairness

---------------------------------------------------------------------------
(* Properties.                                                             *)

(* No two workers deliver one mail at a time, and none delivers a mail     *)
(* marked sent, although no lock is held meanwhile: the lease outlasts the *)
(* three waits of a delivery.                                              *)
OneSender ==
    /\ \A v, w \in Workers : v # w /\ worker[v].on # "none" => worker[v].on # worker[w].on
    /\ \A w \in Workers : worker[w].on # "none" => mail[worker[w].on].st # "sent"

(* What that rests on: while a loop is busy with a mail, enough of its     *)
(* lease is left for the waits to come.                                    *)
TypeOK ==
    /\ mail \in [Mails -> [st : {"none", "queued", "sent", "gone"}, attempt : 0 .. Doublings,
                           wait : Nat, expired : BOOLEAN]]
    /\ worker \in [Workers -> [st : {"idle", "claimed", "accepted", "down"},
                               on : Mails \cup {"none"}, age : Nat]]

LeaseLeft(w) ==
    LET row == mail[worker[w].on]
    IN  /\ worker[w].st = "claimed"  => worker[w].age <= 2 /\ row.wait + worker[w].age > 3
        /\ worker[w].st = "accepted" => worker[w].age <= 1 /\ row.wait + worker[w].age > 1
        /\ worker[w].st \in {"idle", "down"} => worker[w].on = "none"

OnOpenMail(w) ==
    worker[w].st \in {"claimed", "accepted"} =>
        worker[w].on \in Mails /\ mail[worker[w].on].st \in {"queued", "gone"}

Inductive == TypeOK /\ OneSender /\ \A w \in Workers : LeaseLeft(w) /\ OnOpenMail(w)

(* Every mail that can be read is delivered before it expires, whatever    *)
(* unreadable mail is queued with it and however often a worker restarts.  *)
Queued(x) == mail[x].st = "queued"
Settled(x) == mail[x].st \in {"sent", "gone"} \/ mail[x].expired

=============================================================================
