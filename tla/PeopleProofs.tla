----------------------------- MODULE PeopleProofs ------------------------------
(***************************************************************************)
(* OneSender for any number of mails and loops.  A loop takes a mail only  *)
(* when its lease has run out, and a loop that is busy with a mail has     *)
(* enough of the lease left for the waits to come, because every lease is  *)
(* longer than the three waits together: no second loop can find it due.   *)
(***************************************************************************)
EXTENDS AccountMail, Accounts, FiniteSetTheorems, TLAPS

(* The smaller of two numbers is one of them.                              *)
LEMMA MinOfTwo ==
  ASSUME NEW a \in Nat, NEW b \in Nat
  PROVE  /\ Min({a, b}) \in {a, b} /\ Min({a, b}) \in Nat
         /\ Min({a, b}) <= a /\ Min({a, b}) <= b
<1>1. \E x \in {a, b} : \A y \in {a, b} : x <= y
  <2>1. CASE a <= b
    BY <2>1
  <2>2. CASE ~(a <= b)
    BY <2>2
  <2> QED BY <2>1, <2>2
<1>2. Min({a, b}) \in {a, b} /\ \A y \in {a, b} : Min({a, b}) <= y
  BY <1>1 DEF Min
<1> QED BY <1>2

(* Every lease outlasts the three waits of a delivery (accounts.ts).       *)
LEMMA LeaseOutlasts ==
  ASSUME NEW n \in 0 .. Doublings
  PROVE  Lease(n) \in Nat /\ Lease(n) > 3
<1>1. Doublings \in Nat /\ n \in Nat /\ LeaseCap \in Nat /\ LeaseCap > 3
  BY MailAssumption
<1>2. Min({n, Doublings}) \in 0 .. Doublings
  BY <1>1, MinOfTwo
<1> DEFINE full == LeaseBase * 2 ^ Min({n, Doublings})
<1>3. full \in Nat /\ full > 3
  BY <1>2, MailAssumption
<1>4. Lease(n) = Min({LeaseCap, full})
  BY DEF Lease
<1> HIDE DEF full
<1> QED BY <1>1, <1>3, <1>4, MinOfTwo

Rows == [st : {"none", "queued", "sent", "gone"}, attempt : 0 .. Doublings,
         wait : Nat, expired : BOOLEAN]
Loops == [st : {"idle", "claimed", "accepted", "down"}, on : Mails \cup {"none"}, age : Nat]

Busy(w) == worker[w].st \in {"claimed", "accepted"}

(* A mail a loop is busy with is not due.                                  *)
LEMMA BusyIsLeased ==
  ASSUME Inductive, NEW w \in Workers, Busy(w)
  PROVE  mail[worker[w].on].wait > 0 /\ worker[w].on \notin Due
<1>1. worker[w].on \in Mails /\ mail[worker[w].on].wait \in Nat /\ worker[w].age \in Nat
  BY DEF Inductive, TypeOK, OnOpenMail, Busy
<1>2. LeaseLeft(w)
  BY DEF Inductive
<1>3. mail[worker[w].on].wait > 0
  <2>1. CASE worker[w].st = "claimed"
    BY <1>1, <1>2, <2>1 DEF LeaseLeft
  <2>2. CASE worker[w].st = "accepted"
    BY <1>1, <1>2, <2>2 DEF LeaseLeft
  <2> QED BY <2>1, <2>2 DEF Busy
<1> QED BY <1>3 DEF Due

LEMMA InitInductive == Init => Inductive
<1> SUFFICES ASSUME Init PROVE Inductive
  OBVIOUS
<1>1. \A w \in Workers : worker[w].st = "idle" /\ worker[w].on = "none"
  BY DEF Init, Idle
<1>2. TypeOK
  <2>1. 0 \in 0 .. Doublings
    BY MailAssumption
  <2> QED BY <2>1 DEF Init, Idle, TypeOK
<1>3. OneSender
  BY <1>1 DEF OneSender
<1>4. \A w \in Workers : LeaseLeft(w) /\ OnOpenMail(w)
  BY <1>1 DEF LeaseLeft, OnOpenMail
<1> QED BY <1>2, <1>3, <1>4 DEF Inductive

(* A loop that does not move keeps its lease, as long as its mail does.    *)
LEMMA LoopKept ==
  ASSUME Inductive, NEW v \in Workers, worker'[v] = worker[v],
         Busy(v) => /\ mail'[worker[v].on].wait = mail[worker[v].on].wait
                    /\ mail'[worker[v].on].st \in {"queued", "gone"}
  PROVE  LeaseLeft(v)' /\ OnOpenMail(v)'
<1>1. LeaseLeft(v) /\ OnOpenMail(v) /\ worker[v].st \in {"idle", "claimed", "accepted", "down"}
  BY DEF Inductive, TypeOK
<1>2. CASE Busy(v)
  BY <1>1, <1>2 DEF LeaseLeft, OnOpenMail, Busy
<1>3. CASE ~Busy(v)
  BY <1>1, <1>3 DEF LeaseLeft, OnOpenMail, Busy
<1> QED BY <1>2, <1>3

(* What the loops are on stays apart when no loop takes another mail.      *)
LEMMA StillApart ==
  ASSUME Inductive, \A v \in Workers : worker'[v].on \in {worker[v].on, "none"},
         \A v \in Workers : worker'[v].on # "none" => mail'[worker'[v].on].st # "sent"
  PROVE  OneSender'
BY DEF Inductive, OneSender

(* A loop that ends its delivery, stops or starts holds nothing.           *)
LEMMA ReleaseKeeps ==
  ASSUME Inductive, NEW w \in Workers, NEW row \in {Idle, Down},
         worker' = [worker EXCEPT ![w] = row], mail' = mail
  PROVE  Inductive'
<1>1. TypeOK /\ row \in Loops /\ row.on = "none" /\ row.st \in {"idle", "down"}
  BY DEF Inductive, Idle, Down, Loops
<1>2. worker'[w] = row /\ \A v \in Workers : v # w => worker'[v] = worker[v]
  BY <1>1 DEF TypeOK
<1>3. TypeOK'
  BY <1>1 DEF TypeOK, Loops
<1>4. OneSender'
  <2>1. \A v \in Workers : worker'[v].on \in {worker[v].on, "none"}
    BY <1>1, <1>2
  <2>2. \A v \in Workers : worker'[v].on # "none" => mail'[worker'[v].on].st # "sent"
    BY <1>1, <1>2 DEF Inductive, OneSender
  <2> QED BY <2>1, <2>2, StillApart
<1>5. ASSUME NEW v \in Workers PROVE LeaseLeft(v)' /\ OnOpenMail(v)'
  <2>1. CASE v = w
    BY <1>1, <1>2, <2>1 DEF LeaseLeft, OnOpenMail
  <2>2. CASE v # w
    <3>1. worker'[v] = worker[v]
      BY <1>2, <2>2
    <3>2. Busy(v) => mail[worker[v].on].st \in {"queued", "gone"}
      BY DEF Inductive, OnOpenMail, Busy
    <3> QED BY <3>1, <3>2, LoopKept
  <2> QED BY <2>1, <2>2
<1> QED BY <1>3, <1>4, <1>5 DEF Inductive

(* What the rows are becomes "gone" at most: no loop is disturbed.         *)
LEMMA RowsChange ==
  ASSUME Inductive, mail' \in [Mails -> Rows], UNCHANGED worker,
         \A y \in Mails :
            /\ mail'[y].wait = mail[y].wait
            /\ mail[y].st \in {"queued", "gone"} => mail'[y].st \in {"queued", "gone"}
  PROVE  Inductive'
<1>1. TypeOK'
  BY DEF Inductive, TypeOK, Rows
<1>2. ASSUME NEW v \in Workers PROVE LeaseLeft(v)' /\ OnOpenMail(v)'
  <2>1. Busy(v) => worker[v].on \in Mails /\ mail[worker[v].on].st \in {"queued", "gone"}
    BY DEF Inductive, OnOpenMail, Busy
  <2>2. Busy(v) => /\ mail'[worker[v].on].wait = mail[worker[v].on].wait
                   /\ mail'[worker[v].on].st \in {"queued", "gone"}
    BY <2>1
  <2>3. worker'[v] = worker[v]
    OBVIOUS
  <2> QED BY <2>2, <2>3, LoopKept
<1>3. OneSender'
  <2>1. \A v \in Workers : worker[v].on # "none" => mail'[worker[v].on].st # "sent"
    <3> SUFFICES ASSUME NEW v \in Workers, worker[v].on # "none" PROVE mail'[worker[v].on].st # "sent"
      OBVIOUS
    <3>1. Busy(v)
      BY DEF Inductive, TypeOK, LeaseLeft, Busy
    <3> QED BY <1>2, <3>1 DEF OnOpenMail, Busy
  <2> QED BY <2>1, StillApart
<1> QED BY <1>1, <1>2, <1>3 DEF Inductive

LEMMA PurgedRows ==
  ASSUME TypeOK, NEW y \in Mails
  PROVE  /\ Purged[y] \in Rows /\ Purged[y].wait = mail[y].wait
         /\ mail[y].st \in {"queued", "gone"} => Purged[y].st \in {"queued", "gone"}
         /\ ~mail[y].expired => Purged[y] = mail[y]
<1>1. mail[y] \in Rows
  BY DEF TypeOK, Rows
<1>2. Purged[y] = IF mail[y].expired THEN [mail[y] EXCEPT !.st = "gone"] ELSE mail[y]
  BY DEF Purged
<1>3. CASE mail[y].expired
  BY <1>1, <1>2, <1>3 DEF Rows
<1>4. CASE ~mail[y].expired
  BY <1>1, <1>2, <1>4
<1> QED BY <1>3, <1>4

(* The row claimed is due, so no other loop is busy with it.               *)
LEMMA ClaimDueKeeps ==
  ASSUME Inductive, NEW w \in Workers, NEW x \in Mails, claimDue(w, x)
  PROVE  Inductive'
<1>1. TypeOK /\ x \in Due /\ ~mail[x].expired /\ mail[x].st = "queued" /\ worker[w].st = "idle"
  BY DEF Inductive, claimDue, First, Live, Due
<1> DEFINE row == [mail[x] EXCEPT !.attempt = Tried(x), !.wait = Lease(mail[x].attempt)]
<1>2. mail' = [Purged EXCEPT ![x] = row] /\ worker' = [worker EXCEPT ![w] = Doing("claimed", x)]
  BY DEF claimDue
<1>3. Lease(mail[x].attempt) \in Nat /\ Lease(mail[x].attempt) > 3
  BY <1>1, LeaseOutlasts DEF TypeOK
<1>4. Tried(x) \in 0 .. Doublings
  <2>1. mail[x].attempt + 1 \in Nat /\ Doublings \in Nat
    BY <1>1, MailAssumption DEF TypeOK
  <2> QED BY <2>1, MinOfTwo DEF Tried
<1>5. mail'[x] = row /\ row \in Rows /\ mail'[x].st = "queued" /\ mail'[x].wait > 3
  <2>1. mail[x] \in Rows
    BY <1>1 DEF TypeOK, Rows
  <2>2. mail'[x] = row
    BY <1>2 DEF Purged
  <2>3. row \in Rows /\ row.st = "queued" /\ row.wait = Lease(mail[x].attempt)
    BY <1>1, <1>3, <1>4, <2>1 DEF Rows
  <2> QED BY <1>3, <2>2, <2>3
<1>6. \A y \in Mails : y # x => mail'[y] = Purged[y]
  BY <1>2 DEF Purged
<1>7. mail' \in [Mails -> Rows]
  <2>1. \A y \in Mails : mail'[y] \in Rows
    BY <1>1, <1>5, <1>6, PurgedRows
  <2> QED BY <1>2, <2>1 DEF Purged
<1>8. /\ worker'[w].st = "claimed" /\ worker'[w].on = x /\ worker'[w].age = 0 /\ worker'[w] \in Loops
      /\ \A v \in Workers : v # w => worker'[v] = worker[v]
  BY <1>1, <1>2 DEF TypeOK, Doing, Loops
<1>9. worker' \in [Workers -> Loops]
  BY <1>1, <1>2, <1>8 DEF TypeOK, Loops
<1>10. TypeOK'
  BY <1>7, <1>9 DEF TypeOK, Rows, Loops
<1>11. ASSUME NEW v \in Workers, v # w, Busy(v)
       PROVE  worker[v].on # x /\ worker[v].on \in Mails
              /\ mail'[worker[v].on].wait = mail[worker[v].on].wait
              /\ mail'[worker[v].on].st \in {"queued", "gone"}
  <2>1. worker[v].on # x
    BY <1>1, <1>11, BusyIsLeased
  <2>2. worker[v].on \in Mails /\ mail[worker[v].on].st \in {"queued", "gone"}
    BY <1>11 DEF Inductive, OnOpenMail, Busy
  <2> QED BY <1>1, <1>6, <2>1, <2>2, PurgedRows
<1>12. ASSUME NEW v \in Workers PROVE LeaseLeft(v)' /\ OnOpenMail(v)'
  <2>1. CASE v = w
    <3>1. mail'[x].wait \in Nat /\ mail'[x].wait > 3 /\ mail'[x].st = "queued"
      BY <1>5, <1>7 DEF Rows
    <3>2. worker'[v].st = "claimed" /\ worker'[v].on = x /\ worker'[v].age = 0
      BY <1>8, <2>1
    <3> HIDE DEF row
    <3> QED BY <3>1, <3>2 DEF LeaseLeft, OnOpenMail
  <2>2. CASE v # w
    <3>1. worker'[v] = worker[v]
      BY <1>8, <2>2
    <3>2. Busy(v) => /\ mail'[worker[v].on].wait = mail[worker[v].on].wait
                     /\ mail'[worker[v].on].st \in {"queued", "gone"}
      BY <1>11, <2>2
    <3> QED BY <3>1, <3>2, LoopKept
  <2> QED BY <2>1, <2>2
<1>13. OneSender'
  <2>1. ASSUME NEW v \in Workers, v # w, worker[v].on # "none" PROVE Busy(v)
    BY <2>1 DEF Inductive, TypeOK, LeaseLeft, Busy
  <2>2. \A u, v \in Workers : u # v /\ worker'[u].on # "none" => worker'[u].on # worker'[v].on
    <3> SUFFICES ASSUME NEW u \in Workers, NEW v \in Workers, u # v, worker'[u].on # "none",
                        worker'[u].on = worker'[v].on
                 PROVE  FALSE
      OBVIOUS
    <3>1. CASE u = w
      BY <1>8, <1>11, <2>1, <3>1
    <3>2. CASE v = w
      BY <1>8, <1>11, <2>1, <3>2
    <3>3. CASE u # w /\ v # w
      BY <1>8, <3>3 DEF Inductive, OneSender
    <3> QED BY <3>1, <3>2, <3>3
  <2>3. \A v \in Workers : worker'[v].on # "none" => mail'[worker'[v].on].st # "sent"
    BY <1>5, <1>8, <1>11, <2>1
  <2> QED BY <2>2, <2>3 DEF OneSender
<1> QED BY <1>10, <1>12, <1>13 DEF Inductive

(* The provider has answered in time, and the mark's own wait is left.     *)
LEMMA SendAcceptedKeeps ==
  ASSUME Inductive, NEW w \in Workers, NEW x \in Mails, sendAccepted(w, x)
  PROVE  Inductive'
<1>1. /\ TypeOK /\ worker[w].st = "claimed" /\ worker[w].on = x /\ mail' = mail
      /\ worker' = [worker EXCEPT ![w] = Doing("accepted", x)]
  BY DEF Inductive, sendAccepted
<1>2. /\ worker'[w].st = "accepted" /\ worker'[w].on = x /\ worker'[w].age = 0
      /\ worker' \in [Workers -> Loops]
      /\ \A v \in Workers : v # w => worker'[v] = worker[v]
  BY <1>1 DEF TypeOK, Doing, Loops
<1>3. TypeOK'
  BY <1>1, <1>2 DEF TypeOK, Loops
<1>4. OneSender'
  <2>1. \A v \in Workers : worker'[v].on = worker[v].on
    BY <1>1, <1>2
  <2> QED BY <1>1, <2>1 DEF Inductive, OneSender
<1>5. ASSUME NEW v \in Workers PROVE LeaseLeft(v)' /\ OnOpenMail(v)'
  <2>1. CASE v = w
    <3>1. mail[x].wait \in Nat /\ worker[w].age \in Nat
      BY <1>1 DEF TypeOK
    <3>2. worker[w].age <= 2 /\ mail[x].wait + worker[w].age > 3
      BY <1>1 DEF Inductive, LeaseLeft
    <3>3. mail[x].st \in {"queued", "gone"}
      BY <1>1 DEF Inductive, OnOpenMail
    <3> QED BY <1>1, <1>2, <2>1, <3>1, <3>2, <3>3 DEF LeaseLeft, OnOpenMail
  <2>2. CASE v # w
    <3>1. worker'[v] = worker[v]
      BY <1>2, <2>2
    <3>2. Busy(v) => /\ mail'[worker[v].on].wait = mail[worker[v].on].wait
                     /\ mail'[worker[v].on].st \in {"queued", "gone"}
      BY <1>1 DEF Inductive, OnOpenMail, Busy
    <3> QED BY <3>1, <3>2, LoopKept
  <2> QED BY <2>1, <2>2
<1> QED BY <1>3, <1>4, <1>5 DEF Inductive

(* The mail marked is on no other loop.                                    *)
LEMMA MarkSentKeeps ==
  ASSUME Inductive, NEW w \in Workers, NEW x \in Mails, markSent(w, x)
  PROVE  Inductive'
<1> DEFINE row == [mail[x] EXCEPT !.st = IF @ = "queued" THEN "sent" ELSE @]
<1>1. /\ TypeOK /\ worker[w].st = "accepted" /\ worker[w].on = x
      /\ mail' = [mail EXCEPT ![x] = row]
      /\ worker' = [worker EXCEPT ![w] = Idle]
  BY DEF Inductive, markSent
<1>2. row \in Rows
  BY <1>1 DEF TypeOK, Rows
<1>3. mail' \in [Mails -> Rows] /\ \A y \in Mails : y # x => mail'[y] = mail[y]
  BY <1>1, <1>2 DEF TypeOK, Rows
<1>4. /\ worker'[w].st = "idle" /\ worker'[w].on = "none" /\ worker' \in [Workers -> Loops]
      /\ \A v \in Workers : v # w => worker'[v] = worker[v]
  BY <1>1 DEF TypeOK, Idle, Loops
<1>5. TypeOK'
  BY <1>3, <1>4 DEF TypeOK, Rows, Loops
<1>6. ASSUME NEW v \in Workers, v # w, Busy(v)
      PROVE  worker[v].on \in Mails /\ mail'[worker[v].on] = mail[worker[v].on]
             /\ mail[worker[v].on].st \in {"queued", "gone"}
  <2>1. worker[v].on # x
    <3>1. worker[v].on # "none"
      BY <1>6, MailAssumption DEF Inductive, OnOpenMail, Busy
    <3> QED BY <1>1, <1>6, <3>1 DEF Inductive, OneSender
  <2>2. worker[v].on \in Mails /\ mail[worker[v].on].st \in {"queued", "gone"}
    BY <1>6 DEF Inductive, OnOpenMail, Busy
  <2> QED BY <1>3, <2>1, <2>2
<1>7. ASSUME NEW v \in Workers PROVE LeaseLeft(v)' /\ OnOpenMail(v)'
  <2>1. CASE v = w
    BY <1>4, <2>1 DEF LeaseLeft, OnOpenMail
  <2>2. CASE v # w
    <3>1. worker'[v] = worker[v]
      BY <1>4, <2>2
    <3>2. Busy(v) => /\ mail'[worker[v].on].wait = mail[worker[v].on].wait
                     /\ mail'[worker[v].on].st \in {"queued", "gone"}
      BY <1>6, <2>2
    <3> QED BY <3>1, <3>2, LoopKept
  <2> QED BY <2>1, <2>2
<1>8. OneSender'
  <2>1. ASSUME NEW v \in Workers, worker'[v].on # "none" PROVE mail'[worker'[v].on].st # "sent"
    <3>1. v # w /\ worker'[v] = worker[v]
      BY <1>4, <2>1
    <3>2. Busy(v)
      BY <2>1, <3>1 DEF Inductive, TypeOK, LeaseLeft, Busy
    <3> QED BY <1>6, <3>1, <3>2
  <2>2. \A v \in Workers : worker'[v].on \in {worker[v].on, "none"}
    BY <1>4
  <2> QED BY <2>1, <2>2, StillApart
<1> QED BY <1>5, <1>7, <1>8 DEF Inductive

LEMMA RowStepsKeep ==
  ASSUME Inductive, \/ \E w \in Workers : claimNothing(w)
                    \/ \E x \in Mails : issue(x) \/ Expire(x)
  PROVE  Inductive'
<1>1. TypeOK
  BY DEF Inductive
<1>2. CASE \E w \in Workers : claimNothing(w)
  <2>1. mail' = Purged /\ UNCHANGED worker
    BY <1>2 DEF claimNothing
  <2>2. \A y \in Mails :
          /\ mail'[y].wait = mail[y].wait
          /\ mail[y].st \in {"queued", "gone"} => mail'[y].st \in {"queued", "gone"}
    BY <1>1, <2>1, PurgedRows
  <2>3. mail' \in [Mails -> Rows]
    <3>1. \A y \in Mails : mail'[y] \in Rows
      BY <1>1, <2>1, PurgedRows
    <3> QED BY <2>1, <3>1 DEF Purged
  <2> QED BY <2>1, <2>2, <2>3, RowsChange
<1>3. ASSUME NEW x \in Mails, issue(x) PROVE Inductive'
  <2>1. /\ mail' = [mail EXCEPT ![x] = [mail[x] EXCEPT !.st = "queued"]] /\ UNCHANGED worker
        /\ mail[x].st = "none"
    BY <1>3 DEF issue
  <2>2. mail' \in [Mails -> Rows]
    BY <1>1, <2>1 DEF TypeOK, Rows
  <2>3. \A y \in Mails :
          /\ mail'[y].wait = mail[y].wait
          /\ mail[y].st \in {"queued", "gone"} => mail'[y].st \in {"queued", "gone"}
    BY <1>1, <2>1 DEF TypeOK, Rows
  <2> QED BY <2>1, <2>2, <2>3, RowsChange
<1>4. ASSUME NEW x \in Mails, Expire(x) PROVE Inductive'
  <2>1. mail' = [mail EXCEPT ![x] = [mail[x] EXCEPT !.expired = TRUE]] /\ UNCHANGED worker
    BY <1>4 DEF Expire
  <2>2. mail' \in [Mails -> Rows]
    BY <1>1, <2>1 DEF TypeOK, Rows
  <2>3. \A y \in Mails :
          /\ mail'[y].wait = mail[y].wait
          /\ mail[y].st \in {"queued", "gone"} => mail'[y].st \in {"queued", "gone"}
    BY <1>1, <2>1 DEF TypeOK, Rows
  <2> QED BY <2>1, <2>2, <2>3, RowsChange
<1> QED BY <1>2, <1>3, <1>4

(* A unit of a delivery's waits is a unit of its lease.                    *)
LEMMA TickKeeps == Inductive /\ Tick => Inductive'
<1> SUFFICES ASSUME Inductive, Tick PROVE Inductive'
  OBVIOUS
<1>1. TypeOK
  BY DEF Inductive
<1>2. ASSUME NEW y \in Mails
      PROVE  /\ mail'[y] \in Rows /\ mail'[y].st = mail[y].st
             /\ mail[y].wait > 0 => mail'[y].wait = mail[y].wait - 1
  <2>1. mail[y] \in Rows
    BY <1>1 DEF TypeOK, Rows
  <2>2. mail'[y] = [mail[y] EXCEPT !.wait = IF mail[y].wait > 0 THEN mail[y].wait - 1 ELSE 0]
    BY DEF Tick
  <2>3. mail[y].wait \in Nat
    BY <2>1 DEF Rows
  <2>4. (IF mail[y].wait > 0 THEN mail[y].wait - 1 ELSE 0) \in Nat
    BY <2>3
  <2> QED BY <2>1, <2>2, <2>3, <2>4 DEF Rows
<1>3. ASSUME NEW v \in Workers
      PROVE  /\ worker'[v] \in Loops /\ worker'[v].on = worker[v].on
             /\ worker'[v].st = worker[v].st
             /\ Busy(v) => worker'[v].age = worker[v].age + 1 /\ worker[v].age < Limit(worker[v].st)
  <2>1. worker[v] \in Loops
    BY <1>1 DEF TypeOK, Loops
  <2>2. worker'[v] = IF Busy(v) THEN [worker[v] EXCEPT !.age = worker[v].age + 1] ELSE worker[v]
    BY DEF Tick, Busy
  <2>3. Busy(v) => worker[v].age < Limit(worker[v].st)
    BY DEF Tick, Busy
  <2>4. worker[v].age \in Nat /\ worker[v].age + 1 \in Nat
    BY <2>1 DEF Loops
  <2> QED BY <2>1, <2>2, <2>3, <2>4 DEF Loops
<1>4. TypeOK'
  <2>1. mail' \in [Mails -> Rows]
    BY <1>2 DEF Tick
  <2>2. worker' \in [Workers -> Loops]
    BY <1>3 DEF Tick
  <2> QED BY <2>1, <2>2 DEF TypeOK, Rows, Loops
<1>5. ASSUME NEW v \in Workers PROVE LeaseLeft(v)' /\ OnOpenMail(v)'
  <2>1. CASE Busy(v)
    <3>1. /\ worker[v].on \in Mails /\ mail[worker[v].on].st \in {"queued", "gone"}
          /\ mail[worker[v].on].wait \in Nat /\ worker[v].age \in Nat
      BY <1>1, <2>1 DEF Inductive, OnOpenMail, Busy, TypeOK
    <3>2. mail[worker[v].on].wait > 0
      BY <2>1, BusyIsLeased
    <3>3. mail'[worker'[v].on].wait = mail[worker[v].on].wait - 1 /\ mail'[worker'[v].on].st = mail[worker[v].on].st
      BY <1>2, <1>3, <3>1, <3>2
    <3>4. worker'[v].age = worker[v].age + 1 /\ worker[v].age < Limit(worker[v].st)
      BY <1>3, <2>1
    <3>5. LeaseLeft(v)
      BY DEF Inductive
    <3>6. CASE worker[v].st = "claimed"
      BY <1>3, <3>1, <3>3, <3>4, <3>5, <3>6 DEF LeaseLeft, OnOpenMail, Limit
    <3>7. CASE worker[v].st = "accepted"
      BY <1>3, <3>1, <3>3, <3>4, <3>5, <3>7 DEF LeaseLeft, OnOpenMail, Limit
    <3> QED BY <2>1, <3>6, <3>7 DEF Busy
  <2>2. CASE ~Busy(v)
    <3>1. worker[v].st \in {"idle", "down"} /\ worker[v].on = "none"
      BY <1>1, <2>2 DEF Inductive, TypeOK, LeaseLeft, Busy
    <3> QED BY <1>3, <3>1 DEF LeaseLeft, OnOpenMail
  <2> QED BY <2>1, <2>2
<1>6. OneSender'
  <2>1. ASSUME NEW v \in Workers, worker'[v].on # "none" PROVE mail'[worker'[v].on].st # "sent"
    <3>1. worker[v].on \in Mails
      BY <1>1, <1>3, <2>1 DEF TypeOK
    <3> QED BY <1>2, <1>3, <2>1, <3>1 DEF Inductive, OneSender
  <2>2. \A v \in Workers : worker'[v].on \in {worker[v].on, "none"}
    BY <1>3
  <2> QED BY <2>1, <2>2, StillApart
<1> QED BY <1>4, <1>5, <1>6 DEF Inductive

LEMMA StepInductive == Inductive /\ [Next]_vars => Inductive'
<1> SUFFICES ASSUME Inductive, [Next]_vars PROVE Inductive'
  OBVIOUS
<1>1. ASSUME NEW w \in Workers, NEW x \in Mails, Deliver(w, x) PROVE Inductive'
  <2>1. CASE claimDue(w, x)
    BY <2>1, ClaimDueKeeps
  <2>2. CASE sendAccepted(w, x)
    BY <2>2, SendAcceptedKeeps
  <2>3. CASE sendFailed(w, x)
    <3>1. worker' = [worker EXCEPT ![w] = Idle] /\ mail' = mail
      BY <2>3 DEF sendFailed
    <3> QED BY <3>1, ReleaseKeeps
  <2>4. CASE markSent(w, x)
    BY <2>4, MarkSentKeeps
  <2> QED BY <1>1, <2>1, <2>2, <2>3, <2>4 DEF Deliver
<1>2. ASSUME NEW w \in Workers, markFailed(w) \/ stop(w) \/ startAccountMailWorker(w) PROVE Inductive'
  <2>1. PICK row \in {Idle, Down} : worker' = [worker EXCEPT ![w] = row] /\ mail' = mail
    BY <1>2 DEF markFailed, stop, startAccountMailWorker
  <2> QED BY <2>1, ReleaseKeeps
<1>3. CASE UNCHANGED vars
  BY <1>3 DEF vars, Inductive, TypeOK, OneSender, LeaseLeft, OnOpenMail
<1>4. CASE Next
  BY <1>1, <1>2, <1>4, RowStepsKeep, TickKeeps DEF Next
<1> QED BY <1>3, <1>4

(* No two workers deliver one mail at a time, and none delivers a mail     *)
(* marked sent, however loops crash, restart, fail and time out: a lease   *)
(* outlasts the waits of a delivery (accounts.ts: claimDue,                *)
(* account-mail.ts).                                                       *)
THEOREM OneSenderAlways == Spec => []OneSender
<1>1. Inductive => OneSender
  BY DEF Inductive
<1> QED BY <1>1, InitInductive, StepInductive, PTL DEF Spec

(* Before it is marked, a mail in delivery cannot come due: what is left   *)
(* of its lease covers what is left of the waits.                          *)
THEOREM LeaseCoversDelivery == Spec => [](TypeOK /\ \A w \in Workers : LeaseLeft(w))
<1>1. Inductive => TypeOK /\ \A w \in Workers : LeaseLeft(w)
  BY DEF Inductive
<1> QED BY <1>1, InitInductive, StepInductive, PTL DEF Spec

-----------------------------------------------------------------------------
(***************************************************************************)
(* What the requests of Accounts keep, for any accounts, addresses and     *)
(* browsers: CredentialsAreCurrent, which the requests that read before    *)
(* they write endanger, and the three action properties of AccountSteps.   *)
(***************************************************************************)

Roles == {"user", "admin"}
Current == "email_change_current"
New == "email_change_new"
Proofs == {Current, New}

Row == [st : {"row"}, email : Emails, role : Roles, active : BOOLEAN, verified : BOOLEAN,
        fresh : BOOLEAN, must : BOOLEAN, pw : Nat, own : Nat, ver : Nat]
MailToken == [id : Nat, account : Ids, purpose : {"verify", "reset"} \cup Proofs, to : Emails,
              flow : Nat, proposed : Emails \cup {"none"}, st : {"live", "void", "used"}]
SessionRow == [account : Ids, ver : Nat, pw : Nat, role : Roles]
ProviderRow == [ver : Nat, by : Clients \cup {"none"}, on : BOOLEAN]
OperatorRow == [active : BOOLEAN, ver : Nat, pw : Nat, sessions : SUBSET Nat, old : SUBSET Nat]

AccountOps == {"issueVerification", "issueReset", "changePassword", "issueEmailChange", "issueSession"}
AccountRequest == [op : AccountOps, account : Ids, row : Row]
ProviderRequest == [op : {"replace"}, account : Ids, row : ProviderRow]
OperatorRequest == [op : {"operator"}, row : OperatorRow]
RequestRow == {NoRequest} \cup AccountRequest \cup ProviderRequest \cup OperatorRequest

Typed ==
    /\ acct \in [Ids -> Row \cup {NoAccount}]
    /\ tokens \subseteq MailToken /\ IsFiniteSet(tokens)
    /\ sessions \subseteq SessionRow
    /\ reqs \in [Clients -> RequestRow]
    /\ provider \in [Ids -> ProviderRow]
    /\ operator \in OperatorRow

(* What was read at a version of the account agrees with the account while *)
(* it still has that version.                                              *)
Agrees(a, r) ==
    /\ Exists(a) /\ acct[a].verified /\ r.ver <= acct[a].ver
    /\ r.ver = acct[a].ver => r.pw = acct[a].pw /\ r.role = acct[a].role

SessionsAgree == \A s \in sessions : Agrees(s.account, s)

SignInsAgree ==
    \A c \in Clients : reqs[c].op = "issueSession" => Agrees(reqs[c].account, reqs[c].row)

(* A credential saved against a version was read at that version or later. *)
Seen(c) ==
    LET row == provider[reqs[c].account] IN
    /\ reqs[c].row.ver <= row.ver
    /\ reqs[c].row.ver = row.ver => reqs[c].row = row
ReplacementsSaw == \A c \in Clients : reqs[c].op = "replace" => Seen(c)

(* The proofs of an address change come in pairs, one for each address, of *)
(* one verified account, and neither is withdrawn while the other lives.   *)
Paired(t, u) ==
    /\ u.flow = t.flow /\ u.purpose # t.purpose
    /\ u.account = t.account /\ u.proposed = t.proposed
FlowsPaired ==
    /\ \A t \in tokens : t.flow # 0 <=> t.purpose \in Proofs
    /\ \A t \in tokens : t.flow # 0 =>
        /\ Exists(t.account) /\ acct[t.account].verified /\ t.proposed \in Emails
        /\ \E u \in tokens : u.id = t.flow /\ u.flow = t.flow
        /\ \E u \in tokens : Paired(t, u)
    /\ \A t, u \in tokens : t.flow # 0 /\ t.flow = u.flow =>
        /\ t.purpose = u.purpose => t = u
        /\ t.st = "void" => u.st # "live"

OldIsOlder == \A v \in operator.old : v < operator.ver

IInv ==
    /\ Typed /\ IdsAreUnique
    /\ SessionsAgree /\ SignInsAgree /\ ReplacementsSaw
    /\ ResetGoesToOwner /\ ResetWorksOnce
    /\ FlowsPaired /\ OldIsOlder

---------------------------------------------------------------------------
(* Tokens whose state alone changes.                                       *)

(* What Used makes of one token.                                           *)
After(t, S, u) ==
    IF u = t THEN [u EXCEPT !.st = "used"]
    ELSE IF u \in S /\ u.st = "live" THEN [u EXCEPT !.st = "void"] ELSE u

(* What Void makes of one token.                                           *)
Voided(S, u) == IF u \in S /\ u.st = "live" THEN [u EXCEPT !.st = "void"] ELSE u

(* A set of tokens that differs from the last in the state of some.        *)
Restated(h, T) ==
    /\ T = {h[u] : u \in tokens}
    /\ \A u \in tokens : /\ h[u] \in MailToken
                         /\ h[u].id = u.id /\ h[u].account = u.account /\ h[u].purpose = u.purpose
                         /\ h[u].to = u.to /\ h[u].flow = u.flow /\ h[u].proposed = u.proposed
                         /\ h[u].st # u.st => u.st = "live" /\ h[u].st # "live"
                         /\ h[u].st = u.st => h[u] = u

LEMMA UsedRestates ==
  ASSUME Typed, NEW t \in tokens, t.st = "live", NEW S
  PROVE  Restated([u \in tokens |-> After(t, S, u)], Used(t, S))
<1> DEFINE h == [u \in tokens |-> After(t, S, u)]
<1>1. \A u \in tokens : h[u] = After(t, S, u)
  OBVIOUS
<1>2. Used(t, S) = {h[u] : u \in tokens}
  <2>1. Used(t, S) = {After(t, S, u) : u \in tokens}
    BY DEF Used, After
  <2> QED BY <1>1, <2>1
<1>3. tokens \subseteq MailToken
  BY DEF Typed
<1> HIDE DEF h
<1>4. ASSUME NEW u \in tokens
      PROVE  /\ h[u] \in MailToken
             /\ h[u].id = u.id /\ h[u].account = u.account /\ h[u].purpose = u.purpose
             /\ h[u].to = u.to /\ h[u].flow = u.flow /\ h[u].proposed = u.proposed
             /\ h[u].st # u.st => u.st = "live" /\ h[u].st # "live"
             /\ h[u].st = u.st => h[u] = u
  <2>1. h[u] = After(t, S, u) /\ u \in MailToken
    BY <1>1, <1>3
  <2> QED BY <2>1 DEF After, MailToken
<1>5. Restated(h, Used(t, S))
  BY <1>2, <1>4 DEF Restated
<1> QED BY <1>5 DEF h

LEMMA VoidRestates ==
  ASSUME Typed, NEW S
  PROVE  Restated([u \in tokens |-> Voided(S, u)], Void(S))
<1> DEFINE h == [u \in tokens |-> Voided(S, u)]
<1>1. \A u \in tokens : h[u] = Voided(S, u)
  OBVIOUS
<1>2. Void(S) = {h[u] : u \in tokens}
  <2>1. Void(S) = {Voided(S, u) : u \in tokens}
    BY DEF Void, Voided
  <2> QED BY <1>1, <2>1
<1>3. tokens \subseteq MailToken
  BY DEF Typed
<1> HIDE DEF h
<1>4. ASSUME NEW u \in tokens
      PROVE  /\ h[u] \in MailToken
             /\ h[u].id = u.id /\ h[u].account = u.account /\ h[u].purpose = u.purpose
             /\ h[u].to = u.to /\ h[u].flow = u.flow /\ h[u].proposed = u.proposed
             /\ h[u].st # u.st => u.st = "live" /\ h[u].st # "live"
             /\ h[u].st = u.st => h[u] = u
  <2>1. h[u] = Voided(S, u) /\ u \in MailToken
    BY <1>1, <1>3
  <2> QED BY <2>1 DEF Voided, MailToken
<1>5. Restated(h, Void(S))
  BY <1>2, <1>4 DEF Restated
<1> QED BY <1>5 DEF h

(* No step need change a token.                                            *)
LEMMA SameRestates ==
  ASSUME Typed
  PROVE  Restated([u \in tokens |-> u], tokens)
BY DEF Typed, Restated

(* Restated tokens are tokens.                                             *)
LEMMA RestatedTyped ==
  ASSUME Typed, NEW h, NEW T, Restated(h, T)
  PROVE  T \subseteq MailToken /\ IsFiniteSet(T)
<1>1. T \subseteq MailToken
  BY DEF Restated
<1>2. IsFiniteSet(T)
  <2> DEFINE f == [u \in tokens |-> h[u]]
  <2>1. f \in Surjection(tokens, T)
    BY DEF Restated, Surjection
  <2> HIDE DEF f
  <2> QED BY <2>1, FS_Surjection DEF Typed
<1> QED BY <1>1, <1>2

LEMMA FreshIdIsFresh ==
  ASSUME FreshIds # {}
  PROVE  FreshId \in Nat /\ \A t \in tokens : t.id # FreshId
<1>1. FreshId \in FreshIds
  BY DEF FreshId
<1> QED BY <1>1 DEF FreshIds

LEMMA TwoIdsAreFresh ==
  ASSUME \E m, n \in FreshIds : m # n
  PROVE  /\ FreshId \in Nat /\ NextFreshId \in Nat /\ FreshId # NextFreshId
         /\ FreshId # 0
         /\ \A t \in tokens : t.id # FreshId /\ t.id # NextFreshId
<1>1. FreshId \in FreshIds
  BY DEF FreshId
<1>2. \E n \in FreshIds \ {FreshId} : TRUE
  OBVIOUS
<1>3. NextFreshId \in FreshIds \ {FreshId}
  BY <1>2 DEF NextFreshId
<1> QED BY <1>1, <1>3 DEF FreshIds

---------------------------------------------------------------------------
(* Types.                                                                  *)

(* What an edit of a row leaves alone.                                     *)
SamePerson(r, n) ==
    /\ n.st = r.st /\ n.email = r.email /\ n.role = r.role
    /\ n.active = r.active /\ n.fresh = r.fresh

LEMMA BumpedIsARow ==
  ASSUME Typed, NEW a \in Ids, Exists(a)
  PROVE  /\ acct[a] \in Row /\ Bumped(a) \in Row
         /\ Bumped(a).ver = acct[a].ver + 1 /\ Bumped(a).pw = acct[a].pw /\ Bumped(a).own = acct[a].own
         /\ Bumped(a).verified = acct[a].verified /\ SamePerson(acct[a], Bumped(a))
<1>1. acct[a] \in Row
  BY DEF Typed, Exists, NoAccount
<1> QED BY <1>1 DEF Bumped, Row, SamePerson

(* The row a password change leaves.                                       *)
LEMMA ChangedRow ==
  ASSUME NEW r \in Row
  PROVE  LET n == [r EXCEPT !.pw = @ + 1, !.own = @ + 1, !.must = FALSE]
         IN  /\ n \in Row /\ n.ver = r.ver /\ n.pw = r.pw + 1 /\ n.own = r.own + 1
             /\ n.verified = r.verified /\ SamePerson(r, n)
<1> DEFINE x == [r EXCEPT !.pw = @ + 1]
           y == [x EXCEPT !.own = @ + 1]
           z == [y EXCEPT !.must = FALSE]
<1>1. [r EXCEPT !.pw = @ + 1, !.own = @ + 1, !.must = FALSE] = z
  BY DEF Row
<1>2. /\ x \in Row /\ x.ver = r.ver /\ x.pw = r.pw + 1 /\ x.own = r.own
      /\ x.verified = r.verified /\ SamePerson(r, x)
  BY DEF Row, SamePerson
<1> HIDE DEF x
<1>3. /\ y \in Row /\ y.ver = x.ver /\ y.pw = x.pw /\ y.own = x.own + 1
      /\ y.verified = x.verified /\ SamePerson(x, y)
  BY <1>2 DEF Row, SamePerson
<1> HIDE DEF y
<1>4. /\ z \in Row /\ z.ver = y.ver /\ z.pw = y.pw /\ z.own = y.own
      /\ z.verified = y.verified /\ SamePerson(y, z)
  BY <1>3 DEF Row, SamePerson
<1> HIDE DEF z
<1> QED BY <1>1, <1>2, <1>3, <1>4 DEF SamePerson

(* The row a password reset leaves.                                        *)
LEMMA ResetRow ==
  ASSUME NEW r \in Row
  PROVE  LET n == [r EXCEPT !.pw = @ + 1, !.verified = TRUE, !.must = FALSE]
         IN  /\ n \in Row /\ n.ver = r.ver /\ n.pw = r.pw + 1 /\ n.own = r.own
             /\ n.verified /\ SamePerson(r, n)
<1> DEFINE x == [r EXCEPT !.pw = @ + 1]
           y == [x EXCEPT !.verified = TRUE]
           z == [y EXCEPT !.must = FALSE]
<1>1. [r EXCEPT !.pw = @ + 1, !.verified = TRUE, !.must = FALSE] = z
  BY DEF Row
<1>2. /\ x \in Row /\ x.ver = r.ver /\ x.pw = r.pw + 1 /\ x.own = r.own /\ SamePerson(r, x)
  BY DEF Row, SamePerson
<1> HIDE DEF x
<1>3. /\ y \in Row /\ y.ver = x.ver /\ y.pw = x.pw /\ y.own = x.own /\ y.verified /\ SamePerson(x, y)
  BY <1>2 DEF Row, SamePerson
<1> HIDE DEF y
<1>4. /\ z \in Row /\ z.ver = y.ver /\ z.pw = y.pw /\ z.own = y.own
      /\ z.verified = y.verified /\ SamePerson(y, z)
  BY <1>3 DEF Row, SamePerson
<1> HIDE DEF z
<1> QED BY <1>1, <1>2, <1>3, <1>4 DEF SamePerson

LEMMA ReadsTyped ==
  ASSUME Typed, NEW c \in Clients, NEW op \in AccountOps, NEW a \in Ids, Exists(a), Reads(c, op, a)
  PROVE  Typed'
<1>1. acct[a] \in Row
  BY BumpedIsARow
<1>2. [op |-> op, account |-> a, row |-> acct[a]] \in RequestRow
  BY <1>1 DEF RequestRow, AccountRequest
<1>3. reqs' \in [Clients -> RequestRow]
  BY <1>2 DEF Reads, Typed
<1> QED BY <1>3 DEF Reads, Typed

LEMMA AnswerTyped ==
  ASSUME Typed, NEW c \in Clients, NEW op, Answer(c, op)
  PROVE  reqs' \in [Clients -> RequestRow]
BY DEF Answer, Typed, RequestRow

(* What a request that read an account holds.                              *)
LEMMA AccountRequests ==
  ASSUME Typed, NEW c \in Clients, reqs[c].op \in AccountOps
  PROVE  reqs[c].account \in Ids /\ reqs[c].row \in Row
<1>1. reqs[c] \in RequestRow
  BY DEF Typed
<1>2. reqs[c] \in AccountRequest
  BY <1>1 DEF RequestRow, NoRequest, ProviderRequest, OperatorRequest, AccountOps
<1> QED BY <1>2 DEF AccountRequest

LEMMA RequestTyped ==
  ASSUME Typed, NEW c \in Clients, Request(c)
  PROVE  Typed'
<1>1. CASE readVerification(c)
  BY <1>1, ReadsTyped DEF readVerification, AccountOps
<1>2. CASE issueVerification(c)
  <2> DEFINE a == reqs[c].account
             n == Token(a, "verify", reqs[c].row.email, 0, "none")
  <2>1. a \in Ids /\ reqs[c].row \in Row
    BY <1>2, AccountRequests DEF issueVerification, Answer, AccountOps
  <2>2. FreshIds # {} => n \in MailToken
    BY <2>1, FreshIdIsFresh DEF Token, MailToken, Row
  <2>3. tokens' \subseteq MailToken /\ IsFiniteSet(tokens')
    <3>1. CASE tokens' = tokens
      BY <3>1 DEF Typed
    <3>2. CASE FreshIds # {} /\ tokens' = tokens \cup {n}
      BY <2>2, <3>2, FS_AddElement DEF Typed
    <3> QED BY <1>2, <3>1, <3>2 DEF issueVerification
  <2> QED BY <1>2, <2>3, AnswerTyped DEF issueVerification, Typed
<1>3. CASE readReset(c)
  BY <1>3, ReadsTyped DEF readReset, Standing, AccountOps
<1>4. CASE issueReset(c)
  <2> DEFINE a == reqs[c].account
             n == Token(a, "reset", reqs[c].row.email, 0, "none")
  <2>1. a \in Ids /\ reqs[c].row \in Row
    BY <1>4, AccountRequests DEF issueReset, Answer, AccountOps
  <2>2. FreshIds # {} => n \in MailToken
    BY <2>1, FreshIdIsFresh DEF Token, MailToken, Row
  <2>3. tokens' \subseteq MailToken /\ IsFiniteSet(tokens')
    <3>1. CASE tokens' = tokens
      BY <3>1 DEF Typed
    <3>2. CASE FreshIds # {} /\ tokens' = tokens \cup {n}
      BY <2>2, <3>2, FS_AddElement DEF Typed
    <3> QED BY <1>4, <3>1, <3>2 DEF issueReset
  <2> QED BY <1>4, <2>3, AnswerTyped DEF issueReset, Typed
<1>5. CASE readPassword(c)
  <2>1. PICK s \in sessions : Usable(s) /\ Reads(c, "changePassword", s.account)
    BY <1>5 DEF readPassword
  <2>2. s.account \in Ids /\ Exists(s.account)
    BY <2>1 DEF Typed, SessionRow, Usable, Good
  <2> QED BY <2>1, <2>2, ReadsTyped DEF AccountOps
<1>6. CASE changePassword(c)
  <2> DEFINE a == reqs[c].account
             n == [Bumped(a) EXCEPT !.pw = @ + 1, !.own = @ + 1, !.must = FALSE]
  <2>1. a \in Ids
    BY <1>6, AccountRequests DEF changePassword, Answer, AccountOps
  <2>2. Exists(a) => n \in Row
    BY <2>1, BumpedIsARow, ChangedRow
  <2>3. CASE acct' = acct /\ sessions' = sessions
    BY <1>6, <2>3, AnswerTyped DEF changePassword, Typed
  <2>4. CASE Exists(a) /\ acct' = [acct EXCEPT ![a] = n] /\ sessions' = Revoked(a)
    BY <1>6, <2>1, <2>2, <2>4, AnswerTyped DEF changePassword, Typed, Revoked
  <2> QED BY <1>6, <2>3, <2>4 DEF changePassword, Good
<1>7. CASE readEmailChange(c)
  BY <1>7, ReadsTyped DEF readEmailChange, Good, AccountOps
<1>8. CASE issueEmailChange(c)
  <2> DEFINE a == reqs[c].account
  <2>1. a \in Ids
    BY <1>8, AccountRequests DEF issueEmailChange, Answer, AccountOps
  <2>2. tokens' \subseteq MailToken /\ IsFiniteSet(tokens')
    <3>1. CASE tokens' = tokens
      BY <3>1 DEF Typed
    <3>2. CASE tokens' # tokens
      <4>1. PICK e \in Emails :
              /\ Good(a) /\ \E m, n \in FreshIds : m # n
              /\ tokens' = Void(Purposes(a, {Current, New}))
                  \cup {Token(a, Current, acct[a].email, FreshId, e),
                        [Token(a, New, e, FreshId, e) EXCEPT !.id = NextFreshId]}
        BY <1>8, <3>2 DEF issueEmailChange, Current, New
      <4> DEFINE p == Token(a, Current, acct[a].email, FreshId, e)
                 q == [Token(a, New, e, FreshId, e) EXCEPT !.id = NextFreshId]
                 V == Void(Purposes(a, {Current, New}))
      <4>2. p \in MailToken /\ q \in MailToken
        BY <2>1, <4>1, BumpedIsARow, TwoIdsAreFresh DEF Token, MailToken, Row, Good, Proofs
      <4>3. V \subseteq MailToken /\ IsFiniteSet(V)
        BY VoidRestates, RestatedTyped
      <4>4. IsFiniteSet(V \cup {p}) /\ IsFiniteSet((V \cup {p}) \cup {q})
        BY <4>3, FS_AddElement
      <4>5. tokens' = (V \cup {p}) \cup {q}
        BY <4>1
      <4> QED BY <4>2, <4>3, <4>4, <4>5
    <3> QED BY <3>1, <3>2
  <2> QED BY <1>8, <2>2, AnswerTyped DEF issueEmailChange, Typed
<1>9. CASE readSignIn(c)
  BY <1>9, ReadsTyped DEF readSignIn, Good, AccountOps
<1>10. CASE issueSession(c)
  <2> DEFINE a == reqs[c].account
             n == [account |-> a, ver |-> acct[a].ver, pw |-> reqs[c].row.pw, role |-> reqs[c].row.role]
  <2>1. a \in Ids /\ reqs[c].row \in Row
    BY <1>10, AccountRequests DEF issueSession, Answer, AccountOps
  <2>2. Good(a) => n \in SessionRow
    BY <2>1, BumpedIsARow DEF Good, SessionRow, Row
  <2>3. sessions' \subseteq SessionRow
    BY <1>10, <2>2 DEF issueSession, Typed
  <2> QED BY <1>10, <2>3, AnswerTyped DEF issueSession, Typed
<1>11. CASE readProvider(c)
  <2>1. PICK a \in Ids : reqs' = [reqs EXCEPT ![c] = [op |-> "replace", account |-> a, row |-> provider[a]]]
    BY <1>11 DEF readProvider
  <2>2. [op |-> "replace", account |-> a, row |-> provider[a]] \in RequestRow
    BY DEF RequestRow, ProviderRequest, Typed
  <2> QED BY <1>11, <2>1, <2>2 DEF readProvider, Typed
<1>12. CASE replaceProvider(c)
  <2> DEFINE a == reqs[c].account
  <2>1. CASE provider' = provider
    BY <1>12, <2>1, AnswerTyped DEF replaceProvider, Typed
  <2>2. CASE provider' # provider
    <3>1. Good(a) /\ provider' = [provider EXCEPT ![a] = [ver |-> @.ver + 1, by |-> c, on |-> TRUE]]
      BY <1>12, <2>2 DEF replaceProvider
    <3>2. a \in Ids
      BY <2>2, <3>1 DEF Typed
    <3>3. provider' \in [Ids -> ProviderRow]
      BY <3>1, <3>2 DEF Typed, ProviderRow
    <3> QED BY <1>12, <3>3, AnswerTyped DEF replaceProvider, Typed
  <2> QED BY <2>1, <2>2
<1>13. CASE readOperator(c)
  <2>1. [op |-> "operator", row |-> operator] \in RequestRow
    BY DEF RequestRow, OperatorRequest, Typed
  <2> QED BY <1>13, <2>1 DEF readOperator, Typed
<1>14. CASE issueOperatorSession(c)
  <2>1. reqs[c] \in OperatorRequest
    <3>1. reqs[c] \in RequestRow /\ reqs[c].op = "operator"
      BY <1>14 DEF issueOperatorSession, Answer, Typed
    <3> QED BY <3>1 DEF RequestRow, NoRequest, AccountRequest, ProviderRequest, AccountOps
  <2>2. reqs[c].row.ver \in Nat
    BY <2>1 DEF OperatorRequest, OperatorRow
  <2>3. operator' \in OperatorRow
    BY <1>14, <2>2 DEF issueOperatorSession, Typed, OperatorRow
  <2> QED BY <1>14, <2>3, AnswerTyped DEF issueOperatorSession, Typed
<1> QED BY <1>1, <1>2, <1>3, <1>4, <1>5, <1>6, <1>7, <1>8, <1>9, <1>10, <1>11, <1>12, <1>13, <1>14
     DEF Request

(* A registration: what expired goes, and a pending account may come.      *)
Expired == {b \in Ids : Exists(b) /\ ~acct[b].verified /\ ~acct[b].fresh}
Pending(e) ==
    [st |-> "row", email |-> e, role |-> "user", active |-> TRUE, verified |-> FALSE, fresh |-> TRUE,
     must |-> FALSE, pw |-> 1, own |-> 0, ver |-> 1]

LEMMA Registered ==
  ASSUME Typed, registerPending
  PROVE  \E a \in Ids, e \in Emails :
           /\ ~Exists(a) /\ Pending(e) \in Row
           /\ acct' \in [Ids -> Row \cup {NoAccount}]
           /\ acct'[a] = Pending(e) => \A b \in Ids \ Expired : Exists(b) => acct[b].email # e
           /\ acct'[a] \in {Pending(e), acct[a]}
           /\ \A b \in Ids \ {a} : acct'[b] = IF b \in Expired THEN NoAccount ELSE acct[b]
           /\ tokens' = {t \in tokens : t.account \notin Expired}
<1>1. PICK a \in Ids, e \in Emails :
        LET free == \A b \in Ids \ Expired : Exists(b) => acct[b].email # e
        IN  /\ ~Exists(a)
            /\ acct' = [b \in Ids |-> IF b = a /\ free THEN Pending(e)
                                      ELSE IF b \in Expired THEN NoAccount ELSE acct[b]]
            /\ tokens' = {t \in tokens : t.account \notin Expired}
  BY DEF registerPending, Pending, Expired
<1> DEFINE free == \A b \in Ids \ Expired : Exists(b) => acct[b].email # e
<1>2. Pending(e) \in Row
  BY DEF Pending, Row, Roles
<1>3. acct' \in [Ids -> Row \cup {NoAccount}]
  BY <1>1, <1>2 DEF Typed
<1>4. a \notin Expired
  BY <1>1 DEF Expired
<1>5. acct[a] = NoAccount /\ acct[a] # Pending(e)
  BY <1>1 DEF Typed, Exists, NoAccount, Pending, Row
<1>6. acct'[a] = IF free THEN Pending(e) ELSE acct[a]
  BY <1>1, <1>4
<1>7. \A b \in Ids \ {a} : acct'[b] = IF b \in Expired THEN NoAccount ELSE acct[b]
  BY <1>1
<1> QED BY <1>1, <1>2, <1>3, <1>5, <1>6, <1>7

(* What an administrator's change leaves of a row.                         *)
LEMMA MutatedRow ==
  ASSUME Typed, NEW b \in Ids, Exists(b), NEW mutation \in Mutations
  PROVE  LET n == Mutated(b, mutation)
         IN  /\ n \in Row /\ n.ver = acct[b].ver + 1 /\ n.pw = acct[b].pw /\ n.own = acct[b].own
             /\ n.verified = acct[b].verified /\ n.email = acct[b].email
             /\ ~RemovesAdmin(b, mutation) /\ b \in Admins => n.role = "admin" /\ n.active
<1> DEFINE r == Bumped(b)
<1>1. /\ r \in Row /\ r.ver = acct[b].ver + 1 /\ r.pw = acct[b].pw /\ r.own = acct[b].own
      /\ r.verified = acct[b].verified /\ SamePerson(acct[b], r)
  BY BumpedIsARow
<1>2. Mutated(b, mutation) = CASE mutation[1] = "role" -> [r EXCEPT !.role = mutation[2]]
                               [] mutation[1] = "active" -> [r EXCEPT !.active = (mutation[2] = "yes")]
                               [] OTHER -> [r EXCEPT !.must = TRUE]
  BY DEF Mutated
<1>3. b \in Admins => acct[b].role = "admin" /\ acct[b].active
  BY DEF Admins, Good
<1> HIDE DEF r
<1>4. CASE mutation \in {<<"role", "admin">>, <<"role", "user">>}
  BY <1>1, <1>2, <1>3, <1>4 DEF Row, Roles, SamePerson, RemovesAdmin
<1>5. CASE mutation \in {<<"active", "yes">>, <<"active", "no">>}
  <2> DEFINE on == mutation[2] = "yes"
             n == [r EXCEPT !.active = on]
  <2>1. Mutated(b, mutation) = n
    BY <1>2, <1>5
  <2>2. ~RemovesAdmin(b, mutation) /\ b \in Admins => on
    BY <1>5 DEF RemovesAdmin
  <2>3. on \in BOOLEAN
    OBVIOUS
  <2> HIDE DEF on
  <2>4. /\ n \in Row /\ n.ver = r.ver /\ n.pw = r.pw /\ n.own = r.own
        /\ n.verified = r.verified /\ n.email = r.email /\ n.role = r.role /\ n.active = on
    BY <1>1, <2>3 DEF Row
  <2> HIDE DEF n
  <2> QED BY <1>1, <1>3, <2>1, <2>2, <2>4 DEF SamePerson
<1>6. CASE mutation = <<"password", "required">>
  BY <1>1, <1>2, <1>3, <1>6 DEF Row, SamePerson
<1> QED BY <1>4, <1>5, <1>6 DEF Mutations

LEMMA RotatedRow ==
  ASSUME Typed, rotateOperator
  PROVE  /\ operator' \in OperatorRow /\ operator'.ver = operator.ver + 1
         /\ operator'.old = operator.old \cup {operator.ver}
<1> DEFINE p == operator.pw + 1
           v == operator.ver + 1
           o == operator.old \cup {operator.ver}
           n == [active |-> operator.active, ver |-> v, pw |-> p, sessions |-> {}, old |-> o]
<1>1. operator' = n
  BY DEF rotateOperator, Typed, OperatorRow
<1>2. p \in Nat /\ v \in Nat /\ o \in SUBSET Nat /\ operator.active \in BOOLEAN
  BY DEF Typed, OperatorRow
<1>3. n \in OperatorRow
  BY <1>2 DEF OperatorRow
<1> QED BY <1>1, <1>3

LEMMA SubsetTyped ==
  ASSUME Typed, NEW T, T \subseteq tokens
  PROVE  T \subseteq MailToken /\ IsFiniteSet(T)
BY FS_Subset DEF Typed

LEMMA NextTyped ==
  ASSUME Typed, FlowsPaired, [AccountsNext]_accountsVars
  PROVE  Typed'
<1>1. ASSUME NEW c \in Clients, Request(c)
      PROVE  Typed'
  BY <1>1, RequestTyped
<1>2. CASE registerPending
  <2>1. acct' \in [Ids -> Row \cup {NoAccount}] /\ tokens' \subseteq tokens
    BY <1>2, Registered
  <2>2. tokens' \subseteq MailToken /\ IsFiniteSet(tokens')
    BY <2>1, SubsetTyped
  <2> QED BY <1>2, <2>1, <2>2 DEF registerPending, Typed
<1>3. CASE Age
  <2>1. PICK a \in Ids : Exists(a) /\ acct' = [acct EXCEPT ![a].fresh = FALSE]
    BY <1>3 DEF Age
  <2>2. acct[a] \in Row
    BY <2>1, BumpedIsARow
  <2>3. acct' \in [Ids -> Row \cup {NoAccount}]
    BY <2>1, <2>2 DEF Typed, Row
  <2> QED BY <1>3, <2>3 DEF Age, Typed
<1>4. CASE confirmVerification
  <2>1. PICK t \in tokens : /\ t.st = "live" /\ Standing(t.account)
                            /\ acct' = [acct EXCEPT ![t.account].verified = TRUE]
                            /\ tokens' = Used(t, Purposes(t.account, {"verify"}))
    BY <1>4 DEF confirmVerification
  <2>2. t.account \in Ids /\ acct[t.account] \in Row
    BY <2>1, BumpedIsARow DEF Typed, MailToken, Standing
  <2>3. acct' \in [Ids -> Row \cup {NoAccount}]
    BY <2>1, <2>2 DEF Typed, Row
  <2>4. tokens' \subseteq MailToken /\ IsFiniteSet(tokens')
    BY <2>1, UsedRestates, RestatedTyped
  <2> QED BY <1>4, <2>3, <2>4 DEF confirmVerification, Typed
<1>5. CASE completeReset
  <2>1. PICK t \in tokens :
          /\ t.st = "live" /\ Standing(t.account)
          /\ acct' = [acct EXCEPT ![t.account] = [Bumped(t.account) EXCEPT !.pw = @ + 1,
                                                       !.verified = TRUE, !.must = FALSE]]
          /\ tokens' = Used(t, Purposes(t.account, {"reset", "verify"}))
          /\ sessions' = Revoked(t.account)
    BY <1>5 DEF completeReset
  <2>2. t.account \in Ids /\ Exists(t.account)
    BY <2>1 DEF Typed, MailToken, Standing
  <2>3. acct' \in [Ids -> Row \cup {NoAccount}]
    BY <2>1, <2>2, BumpedIsARow, ResetRow DEF Typed
  <2>4. tokens' \subseteq MailToken /\ IsFiniteSet(tokens')
    BY <2>1, UsedRestates, RestatedTyped
  <2> QED BY <1>5, <2>1, <2>3, <2>4 DEF completeReset, Typed, Revoked
<1>6. CASE confirmEmailChange
  <2>1. PICK t \in tokens :
          /\ t.flow # 0 /\ t.st = "live" /\ Good(t.account)
          /\ \/ tokens' = tokens /\ UNCHANGED <<acct, sessions>>
             \/ tokens' = Used(t, {}) /\ UNCHANGED <<acct, sessions>>
             \/ /\ acct' = [acct EXCEPT ![t.account] = [Bumped(t.account) EXCEPT !.email = t.proposed]]
                /\ tokens' = Used(t, Purposes(t.account, {"reset", Current, New}))
                /\ sessions' = Revoked(t.account)
    BY <1>6 DEF confirmEmailChange, Current, New
  <2>2. t.account \in Ids /\ Exists(t.account)
    BY <2>1 DEF Typed, MailToken, Good
  <2>3. tokens' \subseteq MailToken /\ IsFiniteSet(tokens')
    BY <2>1, UsedRestates, RestatedTyped DEF Typed
  <2>4. t.proposed \in Emails
    BY <2>1 DEF FlowsPaired
  <2>5. [Bumped(t.account) EXCEPT !.email = t.proposed] \in Row
    BY <2>2, <2>4, BumpedIsARow DEF Row
  <2>6. acct' \in [Ids -> Row \cup {NoAccount}] /\ sessions' \subseteq SessionRow
    BY <2>1, <2>2, <2>5 DEF Typed, Revoked
  <2> QED BY <1>6, <2>3, <2>6 DEF confirmEmailChange, Typed
<1>7. CASE signOut
  BY <1>7 DEF signOut, Typed
<1>8. CASE provisionAdmin
  <2>1. PICK a \in Ids, e \in Emails :
          acct' = [acct EXCEPT ![a] =
                [st |-> "row", email |-> e, role |-> "admin", active |-> TRUE, verified |-> TRUE,
                 fresh |-> TRUE, must |-> TRUE, pw |-> 1, own |-> 0, ver |-> 1]]
    BY <1>8 DEF provisionAdmin
  <2>2. acct' \in [Ids -> Row \cup {NoAccount}]
    BY <2>1 DEF Typed, Row, Roles
  <2> QED BY <1>8, <2>2 DEF provisionAdmin, Typed
<1>9. CASE mutateAccountAdmin
  <2>1. PICK b \in Ids, mutation \in Mutations :
          /\ Exists(b) /\ acct' = [acct EXCEPT ![b] = Mutated(b, mutation)]
          /\ sessions' = Revoked(b)
    BY <1>9 DEF mutateAccountAdmin
  <2>2. acct' \in [Ids -> Row \cup {NoAccount}]
    BY <2>1, MutatedRow DEF Typed
  <2> QED BY <1>9, <2>1, <2>2 DEF mutateAccountAdmin, Typed, Revoked
<1>10. CASE removeProvider
  BY <1>10 DEF removeProvider, Typed, ProviderRow
<1>11. CASE rotateOperator
  BY <1>11, RotatedRow DEF rotateOperator, Typed
<1>12. CASE disableOperator
  BY <1>12 DEF disableOperator, Typed, OperatorRow
<1>13. CASE UNCHANGED accountsVars
  BY <1>13 DEF accountsVars, Typed
<1> QED BY <1>1, <1>2, <1>3, <1>4, <1>5, <1>6, <1>7, <1>8, <1>9, <1>10, <1>11, <1>12, <1>13 DEF AccountsNext

---------------------------------------------------------------------------
(* What a step does to an account's row.                                   *)

(* The row is still there; while its version is, so are the password, the  *)
(* role and the address.                                                   *)
Lasts(a) ==
    LET r == acct[a]
        n == acct'[a]
    IN  /\ n \in Row /\ r.ver <= n.ver /\ (r.verified => n.verified)
        /\ n.ver = r.ver => n.pw = r.pw /\ n.own = r.own /\ n.role = r.role /\ n.email = r.email

LEMMA SameRowLasts ==
  ASSUME Typed, NEW a \in Ids, Exists(a), acct'[a] = acct[a]
  PROVE  Lasts(a)
<1>1. acct[a] \in Row
  BY BumpedIsARow
<1> QED BY <1>1 DEF Lasts, Row

(* A row of a later version may hold anything.                             *)
LEMMA NewVersionLasts ==
  ASSUME Typed, NEW a \in Ids, Exists(a), NEW b \in Ids, Exists(b), NEW n \in Row,
         acct' = [acct EXCEPT ![b] = n],
         n.ver = acct[b].ver + 1, acct[b].verified => n.verified
  PROVE  Lasts(a)
<1>1. CASE a = b
  <2>1. acct[a] \in Row
    BY BumpedIsARow
  <2>2. acct'[a] = n
    BY <1>1 DEF Typed
  <2> QED BY <1>1, <2>1, <2>2 DEF Lasts, Row
<1>2. CASE a # b
  BY <1>2, SameRowLasts DEF Typed
<1> QED BY <1>1, <1>2

LEMMA RowsLast ==
  ASSUME Typed, FlowsPaired, [AccountsNext]_accountsVars, NEW a \in Ids, Exists(a),
         acct[a].verified \/ ~registerPending
  PROVE  Lasts(a)
<1>0. acct[a] \in Row
  BY BumpedIsARow
<1>1. CASE acct' = acct
  BY <1>1, SameRowLasts
<1>2. ASSUME NEW c \in Clients, Request(c)
      PROVE  Lasts(a)
  <2>1. CASE changePassword(c) /\ acct' # acct
    <3> DEFINE b == reqs[c].account
               n == [Bumped(b) EXCEPT !.pw = @ + 1, !.own = @ + 1, !.must = FALSE]
    <3>1. b \in Ids
      BY <2>1, AccountRequests DEF changePassword, Answer, AccountOps
    <3>2. Exists(b) /\ acct' = [acct EXCEPT ![b] = n]
      BY <2>1 DEF changePassword, Good
    <3>3. n \in Row /\ n.ver = acct[b].ver + 1 /\ n.verified = acct[b].verified
      BY <3>1, <3>2, BumpedIsARow, ChangedRow
    <3> HIDE DEF n
    <3> QED BY <3>1, <3>2, <3>3, NewVersionLasts
  <2>2. CASE acct' = acct
    BY <2>2, <1>1
  <2> QED BY <1>2, <2>1, <2>2
       DEF Request, Reads, readVerification, issueVerification, readReset, issueReset, readPassword,
           readEmailChange, issueEmailChange, readSignIn, issueSession, readProvider, replaceProvider,
           readOperator, issueOperatorSession
<1>3. CASE registerPending
  <2>1. PICK b \in Ids, e \in Emails :
          /\ ~Exists(b)
          /\ \A x \in Ids \ {b} : acct'[x] = IF x \in Expired THEN NoAccount ELSE acct[x]
    BY <1>3, Registered
  <2>2. acct'[a] = acct[a]
    BY <1>3, <2>1 DEF Expired
  <2> QED BY <2>2, SameRowLasts
<1>4. CASE Age
  <2>1. PICK b \in Ids : acct' = [acct EXCEPT ![b].fresh = FALSE]
    BY <1>4 DEF Age
  <2>2. CASE b = a
    <3> DEFINE r == acct[a]
               n == [r EXCEPT !.fresh = FALSE]
    <3>1. acct'[a] = n
      BY <2>1, <2>2 DEF Typed
    <3> HIDE DEF r
    <3>2. /\ n \in Row /\ n.ver = r.ver /\ n.pw = r.pw /\ n.own = r.own /\ n.role = r.role
          /\ n.email = r.email /\ (r.verified => n.verified)
      BY <1>0 DEF Row, r
    <3>3. r.ver <= n.ver
      BY <1>0, <3>2 DEF Row, r
    <3> HIDE DEF n
    <3> QED BY <3>1, <3>2, <3>3 DEF Lasts, r
  <2>3. CASE b # a
    BY <2>1, <2>3, SameRowLasts DEF Typed
  <2> QED BY <2>2, <2>3
<1>5. CASE confirmVerification
  <2>1. PICK t \in tokens : acct' = [acct EXCEPT ![t.account].verified = TRUE]
    BY <1>5 DEF confirmVerification
  <2>2. CASE t.account = a
    <3> DEFINE r == acct[a]
               n == [r EXCEPT !.verified = TRUE]
    <3>1. acct'[a] = n
      BY <2>1, <2>2 DEF Typed
    <3> HIDE DEF r
    <3>2. /\ n \in Row /\ n.ver = r.ver /\ n.pw = r.pw /\ n.own = r.own /\ n.role = r.role
          /\ n.email = r.email /\ (r.verified => n.verified)
      BY <1>0 DEF Row, r
    <3>3. r.ver <= n.ver
      BY <1>0, <3>2 DEF Row, r
    <3> HIDE DEF n
    <3> QED BY <3>1, <3>2, <3>3 DEF Lasts, r
  <2>3. CASE t.account # a
    BY <2>1, <2>3, SameRowLasts DEF Typed
  <2> QED BY <2>2, <2>3
<1>6. CASE completeReset
  <2>1. PICK t \in tokens :
          /\ Standing(t.account)
          /\ acct' = [acct EXCEPT ![t.account] = [Bumped(t.account) EXCEPT !.pw = @ + 1,
                                                       !.verified = TRUE, !.must = FALSE]]
    BY <1>6 DEF completeReset
  <2>2. t.account \in Ids /\ Exists(t.account)
    BY <2>1 DEF Typed, MailToken, Standing
  <2> DEFINE n == [Bumped(t.account) EXCEPT !.pw = @ + 1, !.verified = TRUE, !.must = FALSE]
  <2>3. n \in Row /\ n.ver = acct[t.account].ver + 1 /\ n.verified
    BY <2>2, BumpedIsARow, ResetRow
  <2>4. acct' = [acct EXCEPT ![t.account] = n]
    BY <2>1
  <2> HIDE DEF n
  <2> QED BY <2>2, <2>3, <2>4, NewVersionLasts
<1>7. CASE confirmEmailChange /\ acct' # acct
  <2>1. PICK t \in tokens :
          /\ t.flow # 0 /\ Good(t.account)
          /\ acct' = [acct EXCEPT ![t.account] = [Bumped(t.account) EXCEPT !.email = t.proposed]]
    BY <1>7 DEF confirmEmailChange
  <2>2. t.account \in Ids /\ Exists(t.account) /\ t.proposed \in Emails
    BY <2>1 DEF Typed, MailToken, Good, FlowsPaired
  <2> DEFINE n == [Bumped(t.account) EXCEPT !.email = t.proposed]
  <2>3. n \in Row /\ n.ver = acct[t.account].ver + 1 /\ n.verified = acct[t.account].verified
    BY <2>2, BumpedIsARow DEF Row
  <2>4. acct' = [acct EXCEPT ![t.account] = n]
    BY <2>1
  <2> HIDE DEF n
  <2> QED BY <2>2, <2>3, <2>4, NewVersionLasts
<1>8. CASE provisionAdmin
  <2>1. PICK b \in Ids, e \in Emails : ~Exists(b) /\ acct' = [acct EXCEPT ![b] =
                [st |-> "row", email |-> e, role |-> "admin", active |-> TRUE, verified |-> TRUE,
                 fresh |-> TRUE, must |-> TRUE, pw |-> 1, own |-> 0, ver |-> 1]]
    BY <1>8 DEF provisionAdmin
  <2> QED BY <2>1, SameRowLasts DEF Typed
<1>9. CASE mutateAccountAdmin
  <2>1. PICK b \in Ids, mutation \in Mutations :
          Exists(b) /\ acct' = [acct EXCEPT ![b] = Mutated(b, mutation)]
    BY <1>9 DEF mutateAccountAdmin
  <2>2. /\ Mutated(b, mutation) \in Row /\ Mutated(b, mutation).ver = acct[b].ver + 1
        /\ Mutated(b, mutation).verified = acct[b].verified
    BY <2>1, MutatedRow
  <2> QED BY <2>1, <2>2, NewVersionLasts
<1> QED BY <1>1, <1>2, <1>3, <1>4, <1>5, <1>6, <1>7, <1>8, <1>9
     DEF AccountsNext, accountsVars, signOut, removeProvider, rotateOperator, disableOperator

(* What agreed with a row and knew its version agrees with it after.       *)
LEMMA AgreesStays ==
  ASSUME Typed, FlowsPaired, [AccountsNext]_accountsVars, NEW a \in Ids, NEW r,
         r.ver \in Nat, Agrees(a, r)
  PROVE  Agrees(a, r)'
<1>1. acct[a] \in Row /\ Lasts(a)
  BY BumpedIsARow, RowsLast DEF Agrees
<1> QED BY <1>1 DEF Lasts, Agrees, Row, Exists

---------------------------------------------------------------------------
(* Sessions, sign-ins, provider credentials and operators.                 *)

(* A request that holds what it read holds it until it is answered.        *)
LEMMA RequestsKept ==
  ASSUME Typed, [AccountsNext]_accountsVars, NEW c \in Clients, reqs'[c] # reqs[c]
  PROVE  \/ reqs'[c] = NoRequest
         \/ readSignIn(c) \/ readProvider(c)
         \/ reqs'[c].op \notin {"issueSession", "replace"}
<1>1. CASE reqs' = reqs
  BY <1>1
<1>2. ASSUME NEW d \in Clients, Request(d)
      PROVE  d = c
  BY <1>2 DEF Typed, Request, Reads, Answer, readVerification, issueVerification, readReset, issueReset,
           readPassword, changePassword, readEmailChange, issueEmailChange, readSignIn, issueSession,
           readProvider, replaceProvider, readOperator, issueOperatorSession
<1>3. CASE Request(c)
  <2>1. CASE \E op \in {"issueVerification", "issueReset", "changePassword", "issueEmailChange"} :
               \E a \in Ids : Reads(c, op, a)
    BY <2>1 DEF Reads, Typed
  <2>2. CASE \E op : Answer(c, op)
    BY <2>2 DEF Answer, Typed
  <2>3. CASE readOperator(c)
    BY <2>3 DEF readOperator, Typed
  <2>4. CASE readPassword(c)
    <3>1. PICK s \in sessions : Reads(c, "changePassword", s.account)
      BY <2>4 DEF readPassword
    <3>2. s.account \in Ids
      BY DEF Typed, SessionRow
    <3> QED BY <2>1, <3>1, <3>2
  <2> QED BY <1>3, <2>1, <2>2, <2>3, <2>4
       DEF Request, readVerification, issueVerification, readReset, issueReset,
           changePassword, readEmailChange, issueEmailChange, issueSession,
           replaceProvider, issueOperatorSession
<1> QED BY <1>1, <1>2, <1>3
     DEF AccountsNext, accountsVars, registerPending, Age, confirmVerification, completeReset,
         confirmEmailChange, signOut, provisionAdmin, mutateAccountAdmin, removeProvider,
         rotateOperator, disableOperator

LEMMA SignInsAgreeStep ==
  ASSUME Typed, FlowsPaired, SignInsAgree, [AccountsNext]_accountsVars
  PROVE  SignInsAgree'
<1> SUFFICES ASSUME NEW c \in Clients, reqs'[c].op = "issueSession"
             PROVE  Agrees(reqs[c].account, reqs[c].row)'
  BY DEF SignInsAgree
<1>1. CASE reqs'[c] = reqs[c]
  <2>1. reqs[c].account \in Ids /\ reqs[c].row \in Row
    BY <1>1, AccountRequests DEF AccountOps
  <2>2. Agrees(reqs[c].account, reqs[c].row)
    BY <1>1 DEF SignInsAgree
  <2>3. reqs[c].row.ver \in Nat
    BY <2>1 DEF Row
  <2> QED BY <1>1, <2>1, <2>2, <2>3, AgreesStays DEF Agrees, Exists
<1>2. CASE readSignIn(c)
  <2>1. PICK a \in Ids : Good(a) /\ Reads(c, "issueSession", a)
    BY <1>2 DEF readSignIn
  <2>2. reqs'[c] = [op |-> "issueSession", account |-> a, row |-> acct[a]] /\ acct' = acct
    BY <2>1 DEF Reads, Typed
  <2>3. acct[a] \in Row
    BY <2>1, BumpedIsARow DEF Good
  <2> QED BY <2>1, <2>2, <2>3 DEF Agrees, Exists, Good, Row
<1>3. CASE readProvider(c)
  BY <1>3 DEF readProvider, Typed
<1> QED BY <1>1, <1>2, <1>3, RequestsKept DEF NoRequest

LEMMA SessionsAgreeStep ==
  ASSUME Typed, FlowsPaired, SessionsAgree, SignInsAgree, [AccountsNext]_accountsVars
  PROVE  SessionsAgree'
<1>1. ASSUME NEW s \in sessions
      PROVE  Agrees(s.account, s)'
  <2>1. s.account \in Ids /\ s.ver \in Nat
    BY DEF Typed, SessionRow
  <2> QED BY <2>1, AgreesStays DEF SessionsAgree
<1>2. ASSUME NEW c \in Clients, issueSession(c), sessions' # sessions
      PROVE  SessionsAgree'
  <2>1. PICK a, n :
          /\ a = reqs[c].account
          /\ n = [account |-> a, ver |-> acct[a].ver, pw |-> reqs[c].row.pw, role |-> reqs[c].row.role]
    OBVIOUS
  <2>2. Good(a) /\ acct[a].ver = reqs[c].row.ver /\ sessions' = sessions \cup {n} /\ acct' = acct
    BY <1>2, <2>1 DEF issueSession
  <2>3. reqs[c].op = "issueSession" /\ a \in Ids
    BY <1>2, <2>1, AccountRequests DEF issueSession, Answer, AccountOps
  <2>4. Agrees(a, reqs[c].row)
    BY <2>1, <2>3 DEF SignInsAgree
  <2>5. n.account = a /\ Agrees(a, n)
    BY <2>1, <2>2, <2>4 DEF Agrees
  <2>6. Agrees(n.account, n)'
    BY <2>2, <2>5 DEF Agrees, Exists
  <2> QED BY <1>1, <2>2, <2>6 DEF SessionsAgree
<1>3. CASE sessions' \subseteq sessions
  BY <1>1, <1>3 DEF SessionsAgree
<1> QED BY <1>2, <1>3
     DEF AccountsNext, accountsVars, Request, Reads, Revoked, registerPending, Age, confirmVerification,
         completeReset, confirmEmailChange, signOut, provisionAdmin, mutateAccountAdmin, removeProvider,
         rotateOperator, disableOperator, readVerification, issueVerification, readReset, issueReset,
         readPassword, changePassword, readEmailChange, issueEmailChange, readSignIn, issueSession,
         readProvider, replaceProvider, readOperator, issueOperatorSession

(* A credential row changes by taking the next version.                    *)
LEMMA ProviderStep ==
  ASSUME Typed, [AccountsNext]_accountsVars, NEW a \in Ids
  PROVE  provider'[a] = provider[a] \/ provider'[a].ver = provider[a].ver + 1
<1>1. ASSUME NEW c \in Clients, replaceProvider(c)
      PROVE  provider'[a] = provider[a] \/ provider'[a].ver = provider[a].ver + 1
  BY <1>1 DEF replaceProvider, Typed, ProviderRow
<1>2. CASE removeProvider
  BY <1>2 DEF removeProvider, Typed, ProviderRow
<1>3. CASE provider' = provider
  BY <1>3
<1> QED BY <1>1, <1>2, <1>3
     DEF AccountsNext, accountsVars, Request, Reads, registerPending, Age, confirmVerification,
         completeReset, confirmEmailChange, signOut, provisionAdmin, mutateAccountAdmin,
         rotateOperator, disableOperator, readVerification, issueVerification, readReset, issueReset,
         readPassword, changePassword, readEmailChange, issueEmailChange, readSignIn, issueSession,
         readProvider, readOperator, issueOperatorSession

LEMMA ProviderRequests ==
  ASSUME Typed, NEW c \in Clients, reqs[c].op = "replace"
  PROVE  reqs[c].account \in Ids /\ reqs[c].row \in ProviderRow
<1>1. reqs[c] \in RequestRow
  BY DEF Typed
<1>2. reqs[c] \in ProviderRequest
  BY <1>1 DEF RequestRow, NoRequest, AccountRequest, OperatorRequest, AccountOps
<1> QED BY <1>2 DEF ProviderRequest

LEMMA ReplacementsSawStep ==
  ASSUME Typed, ReplacementsSaw, [AccountsNext]_accountsVars
  PROVE  ReplacementsSaw'
<1> SUFFICES ASSUME NEW c \in Clients, reqs'[c].op = "replace"
             PROVE  Seen(c)'
  BY DEF ReplacementsSaw
<1>1. CASE reqs'[c] = reqs[c]
  <2> DEFINE a == reqs[c].account
  <2>1. a \in Ids /\ reqs[c].row \in ProviderRow
    BY <1>1, ProviderRequests
  <2>2. Seen(c)
    BY <1>1 DEF ReplacementsSaw
  <2>3. provider[a].ver \in Nat /\ reqs[c].row.ver \in Nat
    BY <2>1 DEF Typed, ProviderRow
  <2>4. provider'[a] = provider[a] \/ provider'[a].ver = provider[a].ver + 1
    BY <2>1, ProviderStep
  <2> QED BY <1>1, <2>2, <2>3, <2>4 DEF Seen
<1>2. CASE readProvider(c)
  <2>1. PICK a \in Ids : reqs' = [reqs EXCEPT ![c] = [op |-> "replace", account |-> a, row |-> provider[a]]]
    BY <1>2 DEF readProvider
  <2>2. reqs'[c].account = a /\ reqs'[c].row = provider[a] /\ provider' = provider
    BY <1>2, <2>1 DEF readProvider, Typed
  <2>3. provider[a].ver \in Nat
    BY DEF Typed, ProviderRow
  <2> QED BY <2>2, <2>3 DEF Seen
<1>3. CASE readSignIn(c)
  BY <1>3 DEF readSignIn, Reads, Typed
<1> QED BY <1>1, <1>2, <1>3, RequestsKept DEF NoRequest

LEMMA OldIsOlderStep ==
  ASSUME Typed, OldIsOlder, [AccountsNext]_accountsVars
  PROVE  OldIsOlder'
<1>1. CASE operator'.ver = operator.ver /\ operator'.old = operator.old
  BY <1>1 DEF OldIsOlder
<1>2. CASE rotateOperator
  BY <1>2, RotatedRow DEF OldIsOlder, Typed, OperatorRow
<1>3. ASSUME NEW c \in Clients, issueOperatorSession(c)
      PROVE  operator'.ver = operator.ver /\ operator'.old = operator.old
  BY <1>3 DEF issueOperatorSession, Typed, OperatorRow
<1>4. CASE disableOperator
  BY <1>1, <1>4 DEF disableOperator, Typed, OperatorRow
<1> QED BY <1>1, <1>2, <1>3, <1>4
     DEF AccountsNext, accountsVars, Request, Reads, registerPending, Age, confirmVerification,
         completeReset, confirmEmailChange, signOut, provisionAdmin, mutateAccountAdmin, removeProvider,
         readVerification, issueVerification, readReset, issueReset,
         readPassword, changePassword, readEmailChange, issueEmailChange, readSignIn, issueSession,
         readProvider, replaceProvider, readOperator

---------------------------------------------------------------------------
(* Mailed tokens.                                                          *)

(* Tokens T are in order for accounts A: of accounts there, ids of their   *)
(* own, resets to the present address, and email proofs in pairs.          *)
Orderly(A, T) ==
    /\ \A t \in T : A[t.account].st # "none"
    /\ \A t, u \in T : t.id = u.id => t = u
    /\ \A t \in T : t.purpose = "reset" /\ t.st = "live" => t.to = A[t.account].email
    /\ \A t \in T : t.flow # 0 <=> t.purpose \in Proofs
    /\ \A t \in T : t.flow # 0 =>
        /\ A[t.account].verified /\ t.proposed \in Emails
        /\ \E u \in T : u.id = t.flow /\ u.flow = t.flow
        /\ \E u \in T : Paired(t, u)
    /\ \A t, u \in T : t.flow # 0 /\ t.flow = u.flow =>
        /\ t.purpose = u.purpose => t = u
        /\ t.st = "void" => u.st # "live"

TokensOrderly == Orderly(acct, tokens)

LEMMA OrderOfTokens ==
  ASSUME IdsAreUnique, ResetGoesToOwner, FlowsPaired
  PROVE  TokensOrderly
BY DEF IdsAreUnique, ResetGoesToOwner, FlowsPaired, TokensOrderly, Orderly, Exists

(* Two proofs of one change are one for each address.                      *)
LEMMA PartnersPaired ==
  ASSUME TokensOrderly, NEW t \in tokens, NEW u \in tokens, t.flow # 0, t.flow = u.flow, t # u
  PROVE  Paired(t, u)
<1>1. t.purpose \in Proofs /\ u.purpose \in Proofs /\ t.purpose # u.purpose
  BY DEF TokensOrderly, Orderly
<1>2. PICK p \in tokens : Paired(t, p)
  BY DEF TokensOrderly, Orderly
<1>3. p.flow = u.flow /\ p.flow # 0 /\ p.purpose \in Proofs /\ p.purpose # t.purpose
  BY <1>2 DEF TokensOrderly, Orderly, Paired
<1>4. p.purpose = u.purpose
  BY <1>1, <1>3 DEF Proofs
<1>5. p = u
  BY <1>3, <1>4 DEF TokensOrderly, Orderly
<1> QED BY <1>2, <1>5

(* Tokens whose state alone changes stay in order.                         *)
LEMMA RestatedOrderly ==
  ASSUME Typed, TokensOrderly, NEW h, NEW T, Restated(h, T), NEW A,
         \A t \in tokens : A[t.account].st # "none" /\ (acct[t.account].verified => A[t.account].verified),
         \A t \in tokens : t.purpose = "reset" /\ h[t].st = "live" => A[t.account].email = acct[t.account].email,
         \A t, u \in tokens : t.flow # 0 /\ t.flow = u.flow /\ h[t].st = "void" => h[u].st # "live"
  PROVE  Orderly(A, T)
<1>1. \A t \in T : \E x \in tokens : t = h[x]
  BY DEF Restated
<1>2. \A x \in tokens : h[x] \in T
  BY DEF Restated
<1>3. \A x \in tokens : /\ h[x].id = x.id /\ h[x].account = x.account /\ h[x].purpose = x.purpose
                        /\ h[x].to = x.to /\ h[x].flow = x.flow /\ h[x].proposed = x.proposed
                        /\ h[x].st = "live" => x.st = "live"
  BY DEF Restated
<1>4. \A t \in T : A[t.account].st # "none"
  BY <1>1, <1>3
<1>5. \A t, u \in T : t.id = u.id => t = u
  <2> SUFFICES ASSUME NEW x \in tokens, NEW y \in tokens, h[x].id = h[y].id
               PROVE  h[x] = h[y]
    BY <1>1
  <2> QED BY <1>3 DEF TokensOrderly, Orderly
<1>6. \A t \in T : t.purpose = "reset" /\ t.st = "live" => t.to = A[t.account].email
  <2> SUFFICES ASSUME NEW x \in tokens, h[x].purpose = "reset", h[x].st = "live"
               PROVE  h[x].to = A[h[x].account].email
    BY <1>1
  <2> QED BY <1>3 DEF TokensOrderly, Orderly
<1>7. \A t \in T : t.flow # 0 <=> t.purpose \in Proofs
  <2> SUFFICES ASSUME NEW x \in tokens
               PROVE  h[x].flow # 0 <=> h[x].purpose \in Proofs
    BY <1>1
  <2> QED BY <1>3 DEF TokensOrderly, Orderly
<1>8. ASSUME NEW x \in tokens, h[x].flow # 0
      PROVE  /\ A[h[x].account].verified /\ h[x].proposed \in Emails
             /\ \E u \in T : u.id = h[x].flow /\ u.flow = h[x].flow
             /\ \E u \in T : Paired(h[x], u)
  <2>1. acct[x.account].verified /\ x.proposed \in Emails
    BY <1>3, <1>8 DEF TokensOrderly, Orderly
  <2>2. PICK u \in tokens : u.id = x.flow /\ u.flow = x.flow
    BY <1>3, <1>8 DEF TokensOrderly, Orderly
  <2>3. PICK p \in tokens : Paired(x, p)
    BY <1>3, <1>8 DEF TokensOrderly, Orderly
  <2>4. h[u] \in T /\ h[u].id = h[x].flow /\ h[u].flow = h[x].flow
    BY <1>2, <1>3, <2>2
  <2>5. h[p] \in T /\ Paired(h[x], h[p])
    BY <1>2, <1>3, <2>3 DEF Paired
  <2> QED BY <1>3, <2>1, <2>4, <2>5
<1>9. ASSUME NEW x \in tokens, NEW y \in tokens, h[x].flow # 0, h[x].flow = h[y].flow
      PROVE  /\ h[x].purpose = h[y].purpose => h[x] = h[y]
             /\ h[x].st = "void" => h[y].st # "live"
  BY <1>3, <1>9 DEF TokensOrderly, Orderly
<1>10. \A t, u \in T : t.flow # 0 /\ t.flow = u.flow =>
        /\ t.purpose = u.purpose => t = u
        /\ t.st = "void" => u.st # "live"
  BY <1>1, <1>9
<1>11. \A t \in T : t.flow # 0 =>
        /\ A[t.account].verified /\ t.proposed \in Emails
        /\ \E u \in T : u.id = t.flow /\ u.flow = t.flow
        /\ \E u \in T : Paired(t, u)
  BY <1>1, <1>8
<1> QED BY <1>4, <1>5, <1>6, <1>7, <1>10, <1>11 DEF Orderly

(* Tokens that go take no email proof with them.                           *)
LEMMA KeptOrderly ==
  ASSUME TokensOrderly, NEW T, T \subseteq tokens, \A t \in tokens : t.flow # 0 => t \in T,
         NEW A, \A t \in T : A[t.account] = acct[t.account]
  PROVE  Orderly(A, T)
<1>1. \A t \in T : t.flow # 0 =>
        /\ A[t.account].verified /\ t.proposed \in Emails
        /\ \E u \in T : u.id = t.flow /\ u.flow = t.flow
        /\ \E u \in T : Paired(t, u)
  BY DEF TokensOrderly, Orderly, Paired
<1> QED BY <1>1 DEF TokensOrderly, Orderly

(* A verification or a reset may be mailed.                                *)
LEMMA AddedOrderly ==
  ASSUME NEW A, NEW T, Orderly(A, T), NEW n,
         A[n.account].st # "none", \A t \in T : t.id # n.id, n.flow = 0, n.purpose \notin Proofs,
         n.purpose = "reset" => n.to = A[n.account].email
  PROVE  Orderly(A, T \cup {n})
<1>1. \A t \in T \cup {n} : t.flow # 0 => t \in T
  OBVIOUS
<1>2. \A t \in T \cup {n} : t.flow # 0 =>
        /\ A[t.account].verified /\ t.proposed \in Emails
        /\ \E u \in T \cup {n} : u.id = t.flow /\ u.flow = t.flow
        /\ \E u \in T \cup {n} : Paired(t, u)
  BY <1>1 DEF Orderly
<1> QED BY <1>1, <1>2 DEF Orderly

(* So may the two proofs of a change.                                      *)
LEMMA PairOrderly ==
  ASSUME NEW A, NEW T, Orderly(A, T), NEW p, NEW q,
         A[p.account].st # "none" /\ A[p.account].verified, q.account = p.account,
         \A t \in T : t.id # p.id /\ t.id # q.id, p.id # q.id, p.id # 0,
         p.flow = p.id /\ q.flow = p.id, p.purpose = Current /\ q.purpose = New,
         p.proposed \in Emails /\ q.proposed = p.proposed, p.st = "live" /\ q.st = "live"
  PROVE  Orderly(A, (T \cup {p}) \cup {q})
<1> DEFINE U == (T \cup {p}) \cup {q}
<1>1. \A t \in U : t \in T \/ t = p \/ t = q
  OBVIOUS
<1>2. \A t \in T : t.flow # p.id
  <2> SUFFICES ASSUME NEW t \in T, t.flow = p.id
               PROVE  FALSE
    OBVIOUS
  <2>1. \E u \in T : u.id = t.flow
    BY DEF Orderly
  <2> QED BY <2>1
<1>3. Paired(p, q) /\ Paired(q, p)
  BY DEF Paired, Current, New
<1>4. p \in U /\ q \in U /\ T \subseteq U
  OBVIOUS
<1> HIDE DEF U
<1>5. \A t \in U : A[t.account].st # "none"
  BY <1>1 DEF Orderly
<1>6. \A t, u \in U : t.id = u.id => t = u
  BY <1>1 DEF Orderly
<1>7. \A t \in U : t.purpose = "reset" /\ t.st = "live" => t.to = A[t.account].email
  BY <1>1 DEF Orderly, Current, New
<1>8. \A t \in U : t.flow # 0 <=> t.purpose \in Proofs
  BY <1>1 DEF Orderly, Proofs
<1>9. \A t \in U : t.flow # 0 =>
        /\ A[t.account].verified /\ t.proposed \in Emails
        /\ \E u \in U : u.id = t.flow /\ u.flow = t.flow
        /\ \E u \in U : Paired(t, u)
  <2> SUFFICES ASSUME NEW t \in U, t.flow # 0
               PROVE  /\ A[t.account].verified /\ t.proposed \in Emails
                      /\ \E u \in U : u.id = t.flow /\ u.flow = t.flow
                      /\ \E u \in U : Paired(t, u)
    OBVIOUS
  <2>1. CASE t \in T
    BY <1>4, <2>1 DEF Orderly
  <2>2. CASE t \in {p, q}
    BY <1>3, <1>4, <2>2
  <2> QED BY <1>1, <2>1, <2>2
<1>10. \A t, u \in U : t.flow # 0 /\ t.flow = u.flow =>
        /\ t.purpose = u.purpose => t = u
        /\ t.st = "void" => u.st # "live"
  <2> SUFFICES ASSUME NEW t \in U, NEW u \in U, t.flow # 0, t.flow = u.flow
               PROVE  /\ t.purpose = u.purpose => t = u
                      /\ t.st = "void" => u.st # "live"
    OBVIOUS
  <2>1. CASE t \in T /\ u \in T
    BY <2>1 DEF Orderly
  <2>2. CASE t \in {p, q} /\ u \in {p, q}
    BY <2>2 DEF Current, New
  <2> QED BY <1>1, <1>2, <2>1, <2>2
<1> QED BY <1>5, <1>6, <1>7, <1>8, <1>9, <1>10 DEF Orderly, U

(* Passwords set in a session are counted apart from those set by mail.    *)
UsedResets(T, a) == {t \in T : t.account = a /\ t.purpose = "reset" /\ t.st = "used"}
Counted(A, T) == \A a \in Ids : A[a].st # "none" => A[a].pw = 1 + A[a].own + Cardinality(UsedResets(T, a))
ResetsCounted == Counted(acct, tokens)

LEMMA CountOfResets ==
  ResetWorksOnce <=> ResetsCounted
<1>1. \A a : {t \in Purposes(a, {"reset"}) : t.st = "used"} = UsedResets(tokens, a)
  BY DEF Purposes, UsedResets
<1> QED BY <1>1 DEF ResetWorksOnce, ResetsCounted, Counted, Exists

AddressesUnique == \A a, b \in Ids : Exists(a) /\ Exists(b) /\ acct[a].email = acct[b].email => a = b

MailInv == AddressesUnique /\ TokensOrderly /\ ResetsCounted

(* A changed row keeps the tokens in order unless the address moves with a *)
(* reset left.                                                             *)
LEMMA EditOrderly ==
  ASSUME Typed, MailInv, NEW b \in Ids, Exists(b), NEW n \in Row, acct' = [acct EXCEPT ![b] = n],
         acct[b].verified => n.verified, n.email = acct[b].email \/ ~Taken(n.email),
         NEW h, Restated(h, tokens'),
         n.email = acct[b].email
            \/ \A t \in tokens : t.account = b /\ t.purpose = "reset" => h[t].st # "live",
         \A t, u \in tokens : t.flow # 0 /\ t.flow = u.flow /\ h[t].st = "void" => h[u].st # "live"
  PROVE  AddressesUnique' /\ TokensOrderly'
<1>1. acct'[b] = n /\ \A a \in Ids \ {b} : acct'[a] = acct[a]
  BY DEF Typed
<1>2. n.st = "row"
  BY DEF Row
<1>3. AddressesUnique'
  BY <1>1, <1>2 DEF MailInv, AddressesUnique, Exists, Taken
<1>4. \A t \in tokens : /\ t.account \in Ids
                        /\ acct'[t.account].st # "none"
                        /\ acct[t.account].verified => acct'[t.account].verified
  BY <1>1, <1>2 DEF MailInv, TokensOrderly, Orderly, Typed, MailToken
<1>5. \A t \in tokens : t.purpose = "reset" /\ h[t].st = "live"
                        => acct'[t.account].email = acct[t.account].email
  BY <1>1, <1>4
<1>6. Orderly(acct', tokens')
  BY <1>4, <1>5, RestatedOrderly DEF MailInv
<1> QED BY <1>3, <1>6 DEF TokensOrderly

LEMMA CountKept ==
  ASSUME NEW h, NEW T, Restated(h, T),
         \A t \in tokens : t.purpose = "reset" /\ h[t].st = "used" => t.st = "used",
         NEW a
  PROVE  UsedResets(T, a) = UsedResets(tokens, a)
<1>1. \A t \in tokens : /\ h[t].account = t.account /\ h[t].purpose = t.purpose
                        /\ h[t].st # t.st => t.st = "live"
                        /\ h[t].st = t.st => h[t] = t
  BY DEF Restated
<1>2. ASSUME NEW t \in UsedResets(tokens, a)
      PROVE  t \in UsedResets(T, a)
  <2>1. t \in tokens /\ h[t] = t
    BY <1>1 DEF UsedResets
  <2> QED BY <2>1 DEF Restated, UsedResets
<1>3. ASSUME NEW u \in UsedResets(T, a)
      PROVE  u \in UsedResets(tokens, a)
  <2>1. PICK t \in tokens : u = h[t]
    BY DEF UsedResets, Restated
  <2>2. t.purpose = "reset" /\ t.account = a /\ h[t].st = "used"
    BY <1>1, <2>1 DEF UsedResets
  <2>3. h[t] = t
    BY <1>1, <2>2
  <2> QED BY <2>1, <2>2, <2>3 DEF UsedResets
<1> QED BY <1>2, <1>3

(* A row whose password was not set by mail, with no reset spent.          *)
LEMMA EditCounts ==
  ASSUME Typed, MailInv, NEW b \in Ids, Exists(b), NEW n \in Row, acct' = [acct EXCEPT ![b] = n],
         n.pw + acct[b].own = acct[b].pw + n.own,
         NEW h, Restated(h, tokens'),
         \A t \in tokens : t.purpose = "reset" /\ h[t].st = "used" => t.st = "used"
  PROVE  ResetsCounted'
<1>1. acct'[b] = n /\ \A a \in Ids \ {b} : acct'[a] = acct[a]
  BY DEF Typed
<1>2. \A a : UsedResets(tokens', a) = UsedResets(tokens, a)
  BY CountKept
<1>3. IsFiniteSet(UsedResets(tokens, b))
  BY FS_Subset DEF Typed, UsedResets
<1>4. Cardinality(UsedResets(tokens, b)) \in Nat
  BY <1>3, FS_CardinalityType
<1>5. acct[b] \in Row /\ acct[b].pw = 1 + acct[b].own + Cardinality(UsedResets(tokens, b))
  BY BumpedIsARow DEF MailInv, ResetsCounted, Counted, Exists
<1>6. n.pw = 1 + n.own + Cardinality(UsedResets(tokens, b))
  BY <1>4, <1>5 DEF Row
<1>7. Counted(acct', tokens')
  BY <1>1, <1>2, <1>6 DEF MailInv, ResetsCounted, Counted
<1> QED BY <1>7 DEF ResetsCounted

(* A row changed while the tokens stay.                                    *)
LEMMA EditKeepsMail ==
  ASSUME Typed, MailInv, NEW b \in Ids, Exists(b), NEW n \in Row, acct' = [acct EXCEPT ![b] = n],
         acct[b].verified => n.verified, n.email = acct[b].email,
         n.pw + acct[b].own = acct[b].pw + n.own, tokens' = tokens
  PROVE  MailInv'
<1> DEFINE h == [u \in tokens |-> u]
<1>1. Restated(h, tokens')
  BY SameRestates
<1>2. \A t \in tokens : h[t] = t
  OBVIOUS
<1> HIDE DEF h
<1>3. \A t, u \in tokens : t.flow # 0 /\ t.flow = u.flow /\ h[t].st = "void" => h[u].st # "live"
  BY <1>2 DEF MailInv, TokensOrderly, Orderly
<1> QED BY <1>1, <1>2, <1>3, EditOrderly, EditCounts DEF MailInv

(* Tokens that change their state while the accounts stay.                 *)
LEMMA RestatedKeepsMail ==
  ASSUME Typed, MailInv, acct' = acct, NEW h, Restated(h, tokens'),
         \A t \in tokens : t.purpose = "reset" /\ h[t].st = "used" => t.st = "used",
         \A t, u \in tokens : t.flow # 0 /\ t.flow = u.flow /\ h[t].st = "void" => h[u].st # "live"
  PROVE  MailInv'
<1>1. Orderly(acct', tokens')
  BY RestatedOrderly DEF MailInv, TokensOrderly, Orderly
<1>2. \A a : UsedResets(tokens', a) = UsedResets(tokens, a)
  BY CountKept
<1> QED BY <1>1, <1>2 DEF MailInv, TokensOrderly, ResetsCounted, Counted, AddressesUnique, Exists

(* A mailed reset or verification.                                         *)
LEMMA AddedKeepsMail ==
  ASSUME Typed, MailInv, acct' = acct, NEW n, tokens' = tokens \cup {n},
         acct[n.account].st # "none", \A t \in tokens : t.id # n.id, n.flow = 0, n.purpose \notin Proofs,
         n.purpose = "reset" => n.to = acct[n.account].email, n.st = "live"
  PROVE  MailInv'
<1>1. Orderly(acct', tokens')
  BY AddedOrderly DEF MailInv, TokensOrderly
<1>2. \A a : UsedResets(tokens', a) = UsedResets(tokens, a)
  BY DEF UsedResets
<1> QED BY <1>1, <1>2 DEF MailInv, TokensOrderly, ResetsCounted, Counted, AddressesUnique, Exists

(* The request that mails the two proofs withdraws the earlier ones.       *)
LEMMA IssueEmailChangeKeepsMail ==
  ASSUME Typed, MailInv, NEW c \in Clients, issueEmailChange(c), tokens' # tokens
  PROVE  MailInv'
<1> DEFINE a == reqs[c].account
           S == Purposes(a, {Current, New})
           h == [u \in tokens |-> Voided(S, u)]
           V == Void(S)
<1>1. PICK e \in Emails :
        /\ Good(a) /\ \E m, n \in FreshIds : m # n
        /\ tokens' = V \cup {Token(a, Current, acct[a].email, FreshId, e),
                             [Token(a, New, e, FreshId, e) EXCEPT !.id = NextFreshId]}
  BY DEF issueEmailChange, Current, New
<1> DEFINE p == Token(a, Current, acct[a].email, FreshId, e)
           q == [Token(a, New, e, FreshId, e) EXCEPT !.id = NextFreshId]
<1>2. acct' = acct
  BY DEF issueEmailChange
<1>3. Restated(h, V)
  BY VoidRestates
<1>4. \A t \in tokens : h[t] = Voided(S, t)
  OBVIOUS
<1>5. /\ p.account = a /\ p.id = FreshId /\ p.flow = FreshId /\ p.purpose = Current
      /\ p.proposed = e /\ p.st = "live"
      /\ q.account = a /\ q.id = NextFreshId /\ q.flow = FreshId /\ q.purpose = New
      /\ q.proposed = e /\ q.st = "live"
  BY DEF Token
<1>6. tokens' = (V \cup {p}) \cup {q}
  BY <1>1
<1>7. \A t \in tokens : t.flow # 0 => t.purpose \in {Current, New}
  BY DEF MailInv, TokensOrderly, Orderly, Proofs
<1>8. tokens \subseteq MailToken
  BY DEF Typed
<1> HIDE DEF h, V, p, q
<1>9. \A t, u \in tokens : t.flow # 0 /\ t.flow = u.flow /\ h[t].st = "void" => h[u].st # "live"
  <2> SUFFICES ASSUME NEW t \in tokens, NEW u \in tokens, t.flow # 0, t.flow = u.flow, h[t].st = "void"
               PROVE  h[u].st # "live"
    OBVIOUS
  <2>1. CASE t.account = a
    <3>1. u.account = a
      BY <2>1, PartnersPaired DEF MailInv, Paired
    <3>2. u.st = "live" => u \in S
      BY <1>7, <3>1 DEF Purposes
    <3>3. h[u].st = IF u.st = "live" THEN "void" ELSE u.st
      BY <1>4, <1>8, <3>2 DEF Voided, MailToken
    <3> QED BY <3>3
  <2>2. CASE t.account # a
    <3>1. t \notin S
      BY <2>2 DEF Purposes
    <3>2. h[t] = t /\ t.st = "void"
      BY <1>4, <3>1 DEF Voided
    <3>3. u.st # "live"
      BY <3>2 DEF MailInv, TokensOrderly, Orderly
    <3>4. h[u] = u
      BY <1>4, <3>3 DEF Voided
    <3> QED BY <3>3, <3>4
  <2> QED BY <2>1, <2>2
<1>10. \A t \in tokens : t.purpose = "reset" /\ h[t].st = "used" => t.st = "used"
  BY <1>4, <1>8 DEF Voided, MailToken
<1>11. Orderly(acct, V)
  BY <1>3, <1>9, RestatedOrderly DEF MailInv, TokensOrderly, Orderly
<1>12. \A t \in V : t.id # FreshId /\ t.id # NextFreshId
  <2>1. \A t \in V : \E u \in tokens : t.id = u.id
    BY <1>3 DEF Restated
  <2> QED BY <1>1, <2>1, TwoIdsAreFresh
<1>13. Orderly(acct, tokens')
  BY <1>1, <1>5, <1>6, <1>11, <1>12, TwoIdsAreFresh, PairOrderly DEF Good, Exists
<1>14. \A b : UsedResets(tokens', b) = UsedResets(tokens, b)
  <2>1. \A b : UsedResets(V, b) = UsedResets(tokens, b)
    BY <1>3, <1>10, CountKept
  <2>2. \A b : UsedResets(tokens', b) = UsedResets(V, b)
    BY <1>5, <1>6 DEF UsedResets
  <2> QED BY <2>1, <2>2
<1> QED BY <1>2, <1>13, <1>14 DEF MailInv, TokensOrderly, ResetsCounted, Counted, AddressesUnique, Exists

(* A registration takes expired accounts and their tokens away.            *)
LEMMA RegisterKeepsMail ==
  ASSUME Typed, MailInv, registerPending
  PROVE  MailInv'
<1>1. PICK a \in Ids, e \in Emails :
        /\ ~Exists(a) /\ Pending(e) \in Row
        /\ acct'[a] = Pending(e) => \A b \in Ids \ Expired : Exists(b) => acct[b].email # e
        /\ acct'[a] \in {Pending(e), acct[a]}
        /\ \A b \in Ids \ {a} : acct'[b] = IF b \in Expired THEN NoAccount ELSE acct[b]
        /\ tokens' = {t \in tokens : t.account \notin Expired}
  BY Registered
<1>2. \A t \in tokens : t.account \in Ids /\ t.account # a
  BY <1>1 DEF MailInv, TokensOrderly, Orderly, Typed, MailToken, Exists
<1>3. \A t \in tokens : t.flow # 0 => t \in tokens'
  BY <1>1 DEF MailInv, TokensOrderly, Orderly, Expired
<1>4. Orderly(acct', tokens')
  <2>1. tokens' \subseteq tokens /\ \A t \in tokens' : acct'[t.account] = acct[t.account]
    BY <1>1, <1>2
  <2> QED BY <1>3, <2>1, KeptOrderly DEF MailInv
<1>5. \A b \in Ids \ {a} : Exists(b)' => acct'[b] = acct[b] /\ Exists(b) /\ b \notin Expired
  BY <1>1 DEF Exists, NoAccount
<1>6. Exists(a)' => acct'[a] = Pending(e)
  BY <1>1 DEF Exists
<1>7. Pending(e).email = e /\ Pending(e).pw = 1 /\ Pending(e).own = 0
  BY DEF Pending
<1>8. AddressesUnique'
  BY <1>1, <1>5, <1>6, <1>7 DEF MailInv, AddressesUnique
<1>9. \A b \in Ids \ {a} : Exists(b)' => UsedResets(tokens', b) = UsedResets(tokens, b)
  BY <1>1, <1>5 DEF UsedResets
<1>10. UsedResets(tokens', a) = {}
  BY <1>1, <1>2 DEF UsedResets
<1>11. ASSUME NEW b \in Ids, acct'[b].st # "none"
       PROVE  acct'[b].pw = 1 + acct'[b].own + Cardinality(UsedResets(tokens', b))
  <2>1. CASE b = a
    BY <1>6, <1>7, <1>10, <1>11, <2>1, FS_EmptySet DEF Exists
  <2>2. CASE b # a
    BY <1>5, <1>9, <1>11, <2>2 DEF Exists, MailInv, ResetsCounted, Counted
  <2> QED BY <2>1, <2>2
<1>12. Counted(acct', tokens')
  BY <1>11 DEF Counted
<1> QED BY <1>4, <1>8, <1>12 DEF MailInv, TokensOrderly, ResetsCounted

(* A provisioned administrator has an address of its own and no mail.      *)
LEMMA ProvisionKeepsMail ==
  ASSUME Typed, MailInv, provisionAdmin
  PROVE  MailInv'
<1>0. PICK a \in Ids, e \in Emails :
        /\ ~Exists(a) /\ ~Taken(e)
        /\ \E n : /\ n = [st |-> "row", email |-> e, role |-> "admin", active |-> TRUE,
                         verified |-> TRUE, fresh |-> TRUE, must |-> TRUE, pw |-> 1,
                         own |-> 0, ver |-> 1]
                 /\ acct' = [acct EXCEPT ![a] = n]
  BY DEF provisionAdmin
<1>1. PICK n :
        /\ n = [st |-> "row", email |-> e, role |-> "admin", active |-> TRUE, verified |-> TRUE,
                fresh |-> TRUE, must |-> TRUE, pw |-> 1, own |-> 0, ver |-> 1]
        /\ ~Exists(a) /\ ~Taken(e) /\ acct' = [acct EXCEPT ![a] = n]
  BY <1>0
<1>2. n.st = "row" /\ n.email = e /\ n.pw = 1 /\ n.own = 0
  BY <1>1
<1>3. acct'[a] = n /\ \A b \in Ids \ {a} : acct'[b] = acct[b]
  BY <1>1 DEF Typed
<1>4. tokens' = tokens
  BY DEF provisionAdmin
<1>5. \A t \in tokens : t.account \in Ids /\ t.account # a
  BY <1>1 DEF MailInv, TokensOrderly, Orderly, Typed, MailToken, Exists
<1>6. Orderly(acct', tokens')
  BY <1>3, <1>4, <1>5, KeptOrderly DEF MailInv
<1>7. AddressesUnique'
  BY <1>1, <1>2, <1>3 DEF MailInv, AddressesUnique, Exists, Taken
<1>8. UsedResets(tokens', a) = {}
  BY <1>4, <1>5 DEF UsedResets
<1>9. acct'[a].pw = 1 + acct'[a].own + Cardinality(UsedResets(tokens', a))
  BY <1>2, <1>3, <1>8, FS_EmptySet
<1>10. Counted(acct', tokens')
  BY <1>3, <1>4, <1>9 DEF MailInv, ResetsCounted, Counted
<1> QED BY <1>6, <1>7, <1>10 DEF MailInv, TokensOrderly, ResetsCounted

(* A verification withdraws the account's other verifications.             *)
LEMMA VerificationKeepsMail ==
  ASSUME Typed, MailInv, confirmVerification
  PROVE  MailInv'
<1>1. PICK t \in tokens :
        /\ t.purpose = "verify" /\ t.st = "live" /\ Standing(t.account)
        /\ acct' = [acct EXCEPT ![t.account].verified = TRUE]
        /\ tokens' = Used(t, Purposes(t.account, {"verify"}))
  BY DEF confirmVerification
<1> DEFINE a == t.account
           r == acct[a]
           n == [r EXCEPT !.verified = TRUE]
           S == Purposes(a, {"verify"})
           h == [u \in tokens |-> After(t, S, u)]
<1>2. a \in Ids /\ Exists(a) /\ r \in Row
  BY <1>1, BumpedIsARow DEF Typed, MailToken, Standing
<1>3. acct' = [acct EXCEPT ![a] = n]
  BY <1>1
<1>4. n \in Row /\ n.verified /\ n.email = r.email /\ n.pw = r.pw /\ n.own = r.own
  <2> HIDE DEF r
  <2> QED BY <1>2 DEF Row, r
<1>5. Restated(h, tokens')
  BY <1>1, UsedRestates
<1>6. \A u \in tokens : u.purpose # "verify" => h[u] = u
  BY <1>1 DEF After, Purposes
<1> HIDE DEF h, n
<1>7. \A u \in tokens : u.flow # 0 => h[u] = u
  BY <1>6 DEF MailInv, TokensOrderly, Orderly, Proofs, Current, New
<1>8. \A u \in tokens : u.purpose = "reset" /\ h[u].st = "used" => u.st = "used"
  BY <1>6
<1>9. \A u, v \in tokens : u.flow # 0 /\ u.flow = v.flow /\ h[u].st = "void" => h[v].st # "live"
  BY <1>7 DEF MailInv, TokensOrderly, Orderly
<1>10. n.pw + acct[a].own = acct[a].pw + n.own
  BY <1>2, <1>4 DEF Row
<1>11. AddressesUnique' /\ TokensOrderly'
  BY <1>2, <1>3, <1>4, <1>5, <1>9, EditOrderly
<1>12. ResetsCounted'
  BY <1>2, <1>3, <1>4, <1>5, <1>8, <1>10, EditCounts
<1> QED BY <1>11, <1>12 DEF MailInv

(* A reset spends its token and sets one password.                         *)
LEMMA ResetKeepsMail ==
  ASSUME Typed, MailInv, completeReset
  PROVE  MailInv'
<1>1. PICK t \in tokens :
        /\ t.purpose = "reset" /\ t.st = "live" /\ Standing(t.account)
        /\ acct' = [acct EXCEPT ![t.account] = [Bumped(t.account) EXCEPT !.pw = @ + 1,
                                                     !.verified = TRUE, !.must = FALSE]]
        /\ tokens' = Used(t, Purposes(t.account, {"reset", "verify"}))
  BY DEF completeReset
<1> DEFINE a == t.account
           n == [Bumped(a) EXCEPT !.pw = @ + 1, !.verified = TRUE, !.must = FALSE]
           S == Purposes(a, {"reset", "verify"})
           h == [u \in tokens |-> After(t, S, u)]
           spent == [t EXCEPT !.st = "used"]
<1>2. a \in Ids /\ Exists(a) /\ acct[a] \in Row
  BY <1>1, BumpedIsARow DEF Typed, MailToken, Standing
<1>3. acct' = [acct EXCEPT ![a] = n]
  BY <1>1
<1>4. n \in Row /\ n.verified /\ n.email = acct[a].email /\ n.pw = acct[a].pw + 1 /\ n.own = acct[a].own
  <2> DEFINE r == Bumped(a)
  <2>1. r \in Row /\ r.email = acct[a].email /\ r.pw = acct[a].pw /\ r.own = acct[a].own
    BY <1>2, BumpedIsARow DEF SamePerson
  <2>2. n = [r EXCEPT !.pw = @ + 1, !.verified = TRUE, !.must = FALSE]
    OBVIOUS
  <2> HIDE DEF r, n
  <2>3. n \in Row /\ n.verified /\ SamePerson(r, n) /\ n.pw = r.pw + 1 /\ n.own = r.own
    BY <2>1, <2>2, ResetRow
  <2> QED BY <2>1, <2>3 DEF SamePerson
<1>5. Restated(h, tokens')
  BY <1>1, UsedRestates
<1>6. \A u \in tokens : u.purpose \notin {"reset", "verify"} => h[u] = u
  BY <1>1 DEF After, Purposes
<1>7. h[t] = spent
  BY DEF After
<1>8. ASSUME NEW u \in tokens, u # t, h[u].st = "used"
      PROVE  u.st = "used"
  <2>1. u \in MailToken /\ h[u] = IF u \in S /\ u.st = "live" THEN [u EXCEPT !.st = "void"] ELSE u
    BY <1>8 DEF After, Typed
  <2> HIDE DEF h, S
  <2> QED BY <1>8, <2>1 DEF MailToken
<1>9. t \in MailToken
  BY DEF Typed
<1>10. spent.id = t.id /\ spent.account = a /\ spent.purpose = "reset" /\ spent.st = "used"
  BY <1>1, <1>9 DEF MailToken
<1> HIDE DEF h, n, spent
<1>11. \A u \in tokens : u.flow # 0 => h[u] = u
  BY <1>6 DEF MailInv, TokensOrderly, Orderly, Proofs, Current, New
<1>12. \A u, v \in tokens : u.flow # 0 /\ u.flow = v.flow /\ h[u].st = "void" => h[v].st # "live"
  BY <1>11 DEF MailInv, TokensOrderly, Orderly
<1>13. AddressesUnique' /\ TokensOrderly'
  BY <1>2, <1>3, <1>4, <1>5, <1>12, EditOrderly
<1>14. \A u \in tokens : /\ h[u] \in tokens'
                         /\ h[u].id = u.id /\ h[u].account = u.account /\ h[u].purpose = u.purpose
                         /\ h[u].st # u.st => u.st = "live"
                         /\ h[u].st = u.st => h[u] = u
  BY <1>5 DEF Restated
<1>15. \A v \in tokens' : \E u \in tokens : v = h[u]
  BY <1>5 DEF Restated
<1>16. UsedResets(tokens', a) = UsedResets(tokens, a) \cup {spent}
  <2>1. spent \in UsedResets(tokens', a)
    BY <1>7, <1>10, <1>14 DEF UsedResets
  <2>2. ASSUME NEW u \in UsedResets(tokens, a)
        PROVE  u \in UsedResets(tokens', a)
    <3>1. u \in tokens /\ h[u] = u
      BY <1>14 DEF UsedResets
    <3> QED BY <1>14, <3>1 DEF UsedResets
  <2>3. ASSUME NEW v \in UsedResets(tokens', a), v # spent
        PROVE  v \in UsedResets(tokens, a)
    <3>1. PICK u \in tokens : v = h[u]
      BY <1>15 DEF UsedResets
    <3>2. u # t /\ u.st = "used" /\ h[u] = u
      BY <1>7, <1>8, <1>14, <2>3, <3>1 DEF UsedResets
    <3> QED BY <1>14, <2>3, <3>1, <3>2 DEF UsedResets
  <2> QED BY <2>1, <2>2, <2>3
<1>17. spent \notin UsedResets(tokens, a)
  <2> SUFFICES ASSUME spent \in UsedResets(tokens, a)
               PROVE  FALSE
    OBVIOUS
  <2>1. spent \in tokens /\ spent.id = t.id
    BY <1>10 DEF UsedResets
  <2>2. spent = t
    BY <2>1 DEF MailInv, TokensOrderly, Orderly
  <2> QED BY <1>1, <1>10, <2>2
<1>18. IsFiniteSet(UsedResets(tokens, a))
  BY FS_Subset DEF Typed, UsedResets
<1>19. /\ Cardinality(UsedResets(tokens, a)) \in Nat
       /\ Cardinality(UsedResets(tokens', a)) = Cardinality(UsedResets(tokens, a)) + 1
  BY <1>16, <1>17, <1>18, FS_CardinalityType, FS_AddElement
<1>20. acct[a].pw = 1 + acct[a].own + Cardinality(UsedResets(tokens, a))
  BY <1>2 DEF MailInv, ResetsCounted, Counted, Exists
<1>21. n.pw = 1 + n.own + Cardinality(UsedResets(tokens', a))
  BY <1>2, <1>4, <1>19, <1>20 DEF Row
<1>22. ASSUME NEW b \in Ids, b # a
       PROVE  UsedResets(tokens', b) = UsedResets(tokens, b)
  <2>1. ASSUME NEW u \in UsedResets(tokens, b)
        PROVE  u \in UsedResets(tokens', b)
    <3>1. u \in tokens /\ h[u] = u
      BY <1>14 DEF UsedResets
    <3> QED BY <1>14, <2>1, <3>1 DEF UsedResets
  <2>2. ASSUME NEW v \in UsedResets(tokens', b)
        PROVE  v \in UsedResets(tokens, b)
    <3>1. PICK u \in tokens : v = h[u]
      BY <1>15 DEF UsedResets
    <3>2. u # t /\ u.st = "used" /\ h[u] = u
      BY <1>8, <1>14, <1>22, <2>2, <3>1 DEF UsedResets
    <3> QED BY <1>14, <2>2, <3>1, <3>2 DEF UsedResets
  <2> QED BY <2>1, <2>2
<1>23. acct'[a] = n /\ \A b \in Ids \ {a} : acct'[b] = acct[b]
  BY <1>2, <1>3 DEF Typed
<1>24. Counted(acct', tokens')
  BY <1>21, <1>22, <1>23 DEF MailInv, ResetsCounted, Counted
<1> QED BY <1>13, <1>24 DEF MailInv, ResetsCounted

(* A proof that is given spends its token; the second of a change moves    *)
(* the address and withdraws what was mailed to the old one.               *)
LEMMA EmailChangeKeepsMail ==
  ASSUME Typed, MailInv, confirmEmailChange
  PROVE  MailInv'
<1>1. PICK t \in tokens :
        /\ t.flow # 0 /\ t.st = "live" /\ Good(t.account)
        /\ \/ tokens' = tokens /\ UNCHANGED acct
           \/ tokens' = Used(t, {}) /\ UNCHANGED acct
           \/ /\ ~Taken(t.proposed)
              /\ acct' = [acct EXCEPT ![t.account] = [Bumped(t.account) EXCEPT !.email = t.proposed]]
              /\ tokens' = Used(t, Purposes(t.account, {"reset", Current, New}))
  BY DEF confirmEmailChange, Current, New
<1> DEFINE a == t.account
<1>2. t.purpose \in Proofs /\ t.proposed \in Emails
  BY <1>1 DEF MailInv, TokensOrderly, Orderly
<1>3. t \in MailToken /\ tokens \subseteq MailToken
  BY DEF Typed
<1>4. CASE tokens' = tokens /\ UNCHANGED acct
  BY <1>4 DEF MailInv, AddressesUnique, TokensOrderly, ResetsCounted, Exists
<1>5. CASE tokens' = Used(t, {}) /\ UNCHANGED acct
  <2> DEFINE h == [u \in tokens |-> After(t, {}, u)]
  <2>1. Restated(h, tokens')
    BY <1>1, <1>5, UsedRestates
  <2>2. \A u \in tokens : u # t => h[u] = u
    BY DEF After
  <2>3. h[t].st = "used"
    BY <1>3 DEF After, MailToken
  <2> HIDE DEF h
  <2>4. \A u \in tokens : u.purpose = "reset" /\ h[u].st = "used" => u.st = "used"
    BY <1>2, <2>2 DEF Proofs, Current, New
  <2>5. \A u, v \in tokens : u.flow # 0 /\ u.flow = v.flow /\ h[u].st = "void" => h[v].st # "live"
    BY <2>2, <2>3 DEF MailInv, TokensOrderly, Orderly
  <2> QED BY <1>5, <2>1, <2>4, <2>5, RestatedKeepsMail
<1>6. CASE /\ ~Taken(t.proposed)
           /\ acct' = [acct EXCEPT ![a] = [Bumped(a) EXCEPT !.email = t.proposed]]
           /\ tokens' = Used(t, Purposes(a, {"reset", Current, New}))
  <2> DEFINE S == Purposes(a, {"reset", Current, New})
             h == [u \in tokens |-> After(t, S, u)]
             n == [Bumped(a) EXCEPT !.email = t.proposed]
  <2>1. a \in Ids /\ Exists(a) /\ acct[a] \in Row
    BY <1>1, <1>3, BumpedIsARow DEF MailToken, Good
  <2>2. /\ n \in Row /\ n.verified = acct[a].verified /\ n.email = t.proposed
        /\ n.pw = acct[a].pw /\ n.own = acct[a].own
    BY <1>2, <2>1, BumpedIsARow DEF Row
  <2>3. acct' = [acct EXCEPT ![a] = n]
    BY <1>6
  <2>4. Restated(h, tokens')
    BY <1>1, <1>6, UsedRestates
  <2>5. \A u \in tokens : h[u] = After(t, S, u)
    OBVIOUS
  <2>6. ASSUME NEW u \in tokens, u.account = a, u.purpose \in {"reset", Current, New}
        PROVE  h[u].st # "live"
    <3>1. u \in S /\ u \in MailToken
      BY <1>3, <2>6 DEF Purposes
    <3>2. h[u] = IF u = t THEN [u EXCEPT !.st = "used"]
                 ELSE IF u.st = "live" THEN [u EXCEPT !.st = "void"] ELSE u
      BY <2>5, <3>1 DEF After
    <3> HIDE DEF h, S
    <3> QED BY <3>1, <3>2 DEF MailToken
  <2>7. ASSUME NEW u \in tokens, u.account # a
        PROVE  h[u] = u
    BY <2>5, <2>7 DEF After, Purposes
  <2>8. ASSUME NEW u \in tokens, u.purpose = "reset", h[u].st = "used"
        PROVE  u.st = "used"
    <3>1. u # t /\ u \in MailToken
      BY <1>2, <1>3, <2>8 DEF Proofs, Current, New
    <3>2. h[u] = IF u \in S /\ u.st = "live" THEN [u EXCEPT !.st = "void"] ELSE u
      BY <2>5, <3>1 DEF After
    <3> HIDE DEF h, S
    <3> QED BY <2>8, <3>1, <3>2 DEF MailToken
  <2> HIDE DEF h, n, S
  <2>9. \A u \in tokens : u.flow # 0 => u.purpose \in {Current, New}
    BY DEF MailInv, TokensOrderly, Orderly, Proofs
  <2>10. \A u, v \in tokens : u.flow # 0 /\ u.flow = v.flow /\ h[u].st = "void" => h[v].st # "live"
    <3> SUFFICES ASSUME NEW u \in tokens, NEW v \in tokens, u.flow # 0, u.flow = v.flow, h[u].st = "void"
                 PROVE  h[v].st # "live"
      OBVIOUS
    <3>1. u.account = v.account
      BY PartnersPaired DEF MailInv, Paired
    <3>2. CASE v.account = a
      BY <2>6, <2>9, <3>2
    <3>3. CASE v.account # a
      <4>1. h[u] = u /\ h[v] = v
        BY <2>7, <3>1, <3>3
      <4> QED BY <4>1 DEF MailInv, TokensOrderly, Orderly
    <3> QED BY <3>2, <3>3
  <2>11. n.pw + acct[a].own = acct[a].pw + n.own
    BY <2>1, <2>2 DEF Row
  <2>12. AddressesUnique' /\ TokensOrderly'
    <3>1. \A u \in tokens : u.account = a /\ u.purpose = "reset" => h[u].st # "live"
      BY <2>6
    <3>2. ~Taken(n.email)
      BY <1>6, <2>2
    <3>3. acct[a].verified => n.verified
      BY <2>2
    <3>4. n \in Row
      BY <2>2
    <3> HIDE DEF a
    <3> QED BY <2>1, <2>3, <2>4, <2>10, <3>1, <3>2, <3>3, <3>4, EditOrderly
  <2>13. ResetsCounted'
    BY <2>1, <2>2, <2>3, <2>4, <2>8, <2>11, EditCounts
  <2> QED BY <2>12, <2>13 DEF MailInv
<1> QED BY <1>1, <1>4, <1>5, <1>6

(* A request adds the token it mails, or changes the account's password.   *)
LEMMA RequestKeepsMail ==
  ASSUME Typed, MailInv, NEW c \in Clients, Request(c)
  PROVE  MailInv'
<1>1. CASE acct' = acct /\ tokens' = tokens
  BY <1>1 DEF MailInv, AddressesUnique, TokensOrderly, ResetsCounted, Exists
<1>2. CASE issueVerification(c) /\ tokens' # tokens
  <2> DEFINE n == Token(reqs[c].account, "verify", reqs[c].row.email, 0, "none")
  <2>1. /\ tokens' = tokens \cup {n} /\ acct' = acct
        /\ Exists(reqs[c].account) /\ FreshIds # {}
    BY <1>2 DEF issueVerification
  <2>2. /\ n.account = reqs[c].account /\ n.purpose = "verify" /\ n.flow = 0 /\ n.st = "live"
        /\ n.id = FreshId
    BY DEF Token
  <2>3. n.purpose \notin Proofs /\ n.purpose # "reset"
    BY <2>2 DEF Proofs, Current, New
  <2> HIDE DEF n
  <2> QED BY <2>1, <2>2, <2>3, FreshIdIsFresh, AddedKeepsMail DEF Exists
<1>3. CASE issueReset(c) /\ tokens' # tokens
  <2> DEFINE a == reqs[c].account
             n == Token(a, "reset", reqs[c].row.email, 0, "none")
  <2>1. /\ tokens' = tokens \cup {n} /\ acct' = acct
        /\ Standing(a) /\ acct[a].email = reqs[c].row.email /\ FreshIds # {}
    BY <1>3 DEF issueReset
  <2>2. /\ n.account = a /\ n.purpose = "reset" /\ n.flow = 0 /\ n.st = "live"
        /\ n.to = acct[a].email /\ n.id = FreshId
    BY <2>1 DEF Token
  <2>3. n.purpose \notin Proofs
    BY <2>2 DEF Proofs, Current, New
  <2> HIDE DEF n
  <2> QED BY <2>1, <2>2, <2>3, FreshIdIsFresh, AddedKeepsMail DEF Standing, Exists
<1>4. CASE changePassword(c) /\ acct' # acct
  <2> DEFINE b == reqs[c].account
             n == [Bumped(b) EXCEPT !.pw = @ + 1, !.own = @ + 1, !.must = FALSE]
  <2>1. b \in Ids
    BY <1>4, AccountRequests DEF changePassword, Answer, AccountOps
  <2>2. Exists(b) /\ acct' = [acct EXCEPT ![b] = n] /\ tokens' = tokens
    BY <1>4 DEF changePassword, Good
  <2>3. /\ n \in Row /\ n.verified = acct[b].verified /\ n.email = acct[b].email
        /\ n.pw = acct[b].pw + 1 /\ n.own = acct[b].own + 1 /\ acct[b] \in Row
    BY <2>1, <2>2, BumpedIsARow, ChangedRow DEF SamePerson
  <2> HIDE DEF n
  <2>4. n.pw + acct[b].own = acct[b].pw + n.own
    BY <2>3 DEF Row
  <2> QED BY <2>1, <2>2, <2>3, <2>4, EditKeepsMail
<1>5. CASE issueEmailChange(c) /\ tokens' # tokens
  BY <1>5, IssueEmailChangeKeepsMail
<1> QED BY <1>1, <1>2, <1>3, <1>4, <1>5
     DEF Request, Reads, readVerification, issueVerification, readReset, issueReset, readPassword,
         changePassword, readEmailChange, issueEmailChange, readSignIn, issueSession, readProvider,
         replaceProvider, readOperator, issueOperatorSession

LEMMA NextKeepsMail ==
  ASSUME Typed, MailInv, [AccountsNext]_accountsVars
  PROVE  MailInv'
<1>1. CASE acct' = acct /\ tokens' = tokens
  BY <1>1 DEF MailInv, AddressesUnique, TokensOrderly, ResetsCounted, Exists
<1>2. ASSUME NEW c \in Clients, Request(c)
      PROVE  MailInv'
  BY <1>2, RequestKeepsMail
<1>3. CASE registerPending
  BY <1>3, RegisterKeepsMail
<1>4. CASE Age
  <2>1. PICK b \in Ids : Exists(b) /\ acct' = [acct EXCEPT ![b].fresh = FALSE] /\ tokens' = tokens
    BY <1>4 DEF Age
  <2> DEFINE r == acct[b]
             n == [r EXCEPT !.fresh = FALSE]
  <2>2. r \in Row /\ acct' = [acct EXCEPT ![b] = n]
    BY <2>1, BumpedIsARow
  <2>3. n \in Row /\ n.verified = r.verified /\ n.email = r.email /\ n.pw = r.pw /\ n.own = r.own
    <3> HIDE DEF r
    <3> QED BY <2>2 DEF Row
  <2> HIDE DEF n
  <2>4. n.pw + acct[b].own = acct[b].pw + n.own
    BY <2>2, <2>3 DEF Row
  <2> QED BY <2>1, <2>2, <2>3, <2>4, EditKeepsMail
<1>5. CASE confirmVerification
  BY <1>5, VerificationKeepsMail
<1>6. CASE completeReset
  BY <1>6, ResetKeepsMail
<1>7. CASE confirmEmailChange
  BY <1>7, EmailChangeKeepsMail
<1>8. CASE provisionAdmin
  BY <1>8, ProvisionKeepsMail
<1>9. CASE mutateAccountAdmin
  <2>1. PICK b \in Ids, mutation \in Mutations :
          Exists(b) /\ acct' = [acct EXCEPT ![b] = Mutated(b, mutation)] /\ tokens' = tokens
    BY <1>9 DEF mutateAccountAdmin
  <2> DEFINE n == Mutated(b, mutation)
  <2>2. /\ n \in Row /\ n.verified = acct[b].verified /\ n.email = acct[b].email
        /\ n.pw = acct[b].pw /\ n.own = acct[b].own /\ acct[b] \in Row
        /\ acct' = [acct EXCEPT ![b] = n]
    BY <2>1, MutatedRow, BumpedIsARow
  <2> HIDE DEF n
  <2>3. n.pw + acct[b].own = acct[b].pw + n.own
    BY <2>2 DEF Row
  <2> QED BY <2>1, <2>2, <2>3, EditKeepsMail
<1>10. CASE signOut \/ removeProvider \/ rotateOperator \/ disableOperator \/ UNCHANGED accountsVars
  BY <1>1, <1>10 DEF accountsVars, signOut, removeProvider, rotateOperator, disableOperator
<1> QED BY <1>2, <1>3, <1>4, <1>5, <1>6, <1>7, <1>8, <1>9, <1>10 DEF AccountsNext

---------------------------------------------------------------------------
(* Who an account is.                                                      *)

(* The address, the role and the active flag stay, and what was verified.  *)
Stands(a) ==
    LET r == acct[a]
        n == acct'[a]
    IN  /\ n \in Row /\ n.email = r.email /\ n.role = r.role /\ n.active = r.active
        /\ r.verified => n.verified

LEMMA SameRowStands ==
  ASSUME Typed, NEW a \in Ids, Exists(a), acct'[a] = acct[a]
  PROVE  Stands(a)
BY BumpedIsARow DEF Stands

LEMMA EditedRowStands ==
  ASSUME Typed, NEW a \in Ids, Exists(a), NEW b \in Ids, NEW n \in Row, acct' = [acct EXCEPT ![b] = n],
         n.email = acct[b].email, n.role = acct[b].role, n.active = acct[b].active,
         acct[b].verified => n.verified
  PROVE  Stands(a)
<1>1. CASE a = b
  BY <1>1 DEF Stands, Typed
<1>2. CASE a # b
  BY <1>2, SameRowStands DEF Typed
<1> QED BY <1>1, <1>2

(* The second proof of an address change moves the address.                *)
Moves(t) ==
    LET a == t.account IN
    /\ t.flow # 0 /\ t.st = "live" /\ Good(a) /\ Partner(t).st # "live"
    /\ acct' = [acct EXCEPT ![a] = [Bumped(a) EXCEPT !.email = t.proposed]]
    /\ tokens' = Used(t, Purposes(a, {"reset", Current, New}))

LEMMA OthersStand ==
  ASSUME Typed, [AccountsNext]_accountsVars, NEW a \in Ids, Exists(a),
         acct[a].verified \/ Exists(a)'
  PROVE  Stands(a) \/ mutateAccountAdmin \/ \E t \in tokens : Moves(t)
<1>1. CASE acct' = acct
  BY <1>1, SameRowStands
<1>2. ASSUME NEW c \in Clients, Request(c)
      PROVE  Stands(a)
  <2>1. CASE changePassword(c) /\ acct' # acct
    <3> DEFINE b == reqs[c].account
               n == [Bumped(b) EXCEPT !.pw = @ + 1, !.own = @ + 1, !.must = FALSE]
    <3>1. b \in Ids
      BY <2>1, AccountRequests DEF changePassword, Answer, AccountOps
    <3>2. Exists(b) /\ acct' = [acct EXCEPT ![b] = n]
      BY <2>1 DEF changePassword, Good
    <3> DEFINE r == Bumped(b)
    <3>3. r \in Row /\ r.verified = acct[b].verified /\ SamePerson(acct[b], r)
      BY <3>1, <3>2, BumpedIsARow
    <3>4. n \in Row /\ n.verified = r.verified /\ SamePerson(r, n)
      <4>1. n = [r EXCEPT !.pw = @ + 1, !.own = @ + 1, !.must = FALSE]
        OBVIOUS
      <4> HIDE DEF r
      <4> QED BY <3>3, <4>1, ChangedRow
    <3> HIDE DEF n, r
    <3>5. n.email = acct[b].email /\ n.role = acct[b].role /\ n.active = acct[b].active
      BY <3>3, <3>4 DEF SamePerson
    <3> QED BY <3>1, <3>2, <3>3, <3>4, <3>5, EditedRowStands
  <2>2. CASE acct' = acct
    BY <2>2, SameRowStands
  <2> QED BY <1>2, <2>1, <2>2
       DEF Request, Reads, readVerification, issueVerification, readReset, issueReset, readPassword,
           changePassword, readEmailChange, issueEmailChange, readSignIn, issueSession, readProvider,
           replaceProvider, readOperator, issueOperatorSession
<1>3. CASE registerPending
  <2>1. PICK b \in Ids, e \in Emails :
          /\ ~Exists(b)
          /\ \A x \in Ids \ {b} : acct'[x] = IF x \in Expired THEN NoAccount ELSE acct[x]
    BY <1>3, Registered
  <2>2. acct'[a] = acct[a]
    BY <1>3, <2>1 DEF Expired, Exists, NoAccount
  <2> QED BY <2>2, SameRowStands
<1>4. CASE Age
  <2>1. PICK b \in Ids : Exists(b) /\ acct' = [acct EXCEPT ![b].fresh = FALSE]
    BY <1>4 DEF Age
  <2> DEFINE r == acct[b]
             n == [r EXCEPT !.fresh = FALSE]
  <2>2. r \in Row /\ acct' = [acct EXCEPT ![b] = n]
    BY <2>1, BumpedIsARow
  <2>3. n \in Row /\ n.verified = r.verified /\ n.email = r.email /\ n.role = r.role /\ n.active = r.active
    <3> HIDE DEF r
    <3> QED BY <2>2 DEF Row
  <2> HIDE DEF n
  <2> QED BY <2>2, <2>3, EditedRowStands
<1>5. CASE confirmVerification
  <2>1. PICK t \in tokens : Standing(t.account) /\ acct' = [acct EXCEPT ![t.account].verified = TRUE]
    BY <1>5 DEF confirmVerification
  <2> DEFINE b == t.account
             r == acct[b]
             n == [r EXCEPT !.verified = TRUE]
  <2>2. b \in Ids /\ r \in Row /\ acct' = [acct EXCEPT ![b] = n]
    BY <2>1, BumpedIsARow DEF Typed, MailToken, Standing
  <2>3. n \in Row /\ n.verified /\ n.email = r.email /\ n.role = r.role /\ n.active = r.active
    <3> HIDE DEF r
    <3> QED BY <2>2 DEF Row
  <2> HIDE DEF n
  <2> QED BY <2>2, <2>3, EditedRowStands
<1>6. CASE completeReset
  <2>1. PICK t \in tokens :
          /\ Standing(t.account)
          /\ acct' = [acct EXCEPT ![t.account] = [Bumped(t.account) EXCEPT !.pw = @ + 1,
                                                       !.verified = TRUE, !.must = FALSE]]
    BY <1>6 DEF completeReset
  <2> DEFINE b == t.account
             r == Bumped(b)
             n == [r EXCEPT !.pw = @ + 1, !.verified = TRUE, !.must = FALSE]
  <2>2. b \in Ids /\ Exists(b) /\ acct' = [acct EXCEPT ![b] = n]
    BY <2>1 DEF Typed, MailToken, Standing
  <2>3. r \in Row /\ SamePerson(acct[b], r)
    BY <2>2, BumpedIsARow
  <2>4. n \in Row /\ n.verified /\ SamePerson(r, n)
    <3> HIDE DEF r
    <3> QED BY <2>3, ResetRow
  <2> HIDE DEF n, r
  <2> QED BY <2>2, <2>3, <2>4, EditedRowStands DEF SamePerson
<1>7. CASE confirmEmailChange
  BY <1>1, <1>7 DEF confirmEmailChange, Moves, Current, New
<1>8. CASE provisionAdmin
  <2>1. PICK b \in Ids, e \in Emails : ~Exists(b) /\ acct' = [acct EXCEPT ![b] =
                [st |-> "row", email |-> e, role |-> "admin", active |-> TRUE, verified |-> TRUE,
                 fresh |-> TRUE, must |-> TRUE, pw |-> 1, own |-> 0, ver |-> 1]]
    BY <1>8 DEF provisionAdmin
  <2> QED BY <2>1, SameRowStands DEF Typed
<1>9. CASE signOut \/ removeProvider \/ rotateOperator \/ disableOperator \/ UNCHANGED accountsVars
  BY <1>1, <1>9 DEF accountsVars, signOut, removeProvider, rotateOperator, disableOperator
<1> QED BY <1>2, <1>3, <1>4, <1>5, <1>6, <1>7, <1>8, <1>9 DEF AccountsNext

(* What an address change leaves of the account.                           *)
LEMMA MovedRow ==
  ASSUME Typed, TokensOrderly, NEW t \in tokens, Moves(t)
  PROVE  LET a == t.account
             n == acct'[a]
         IN  /\ a \in Ids /\ Exists(a) /\ \A b \in Ids \ {a} : acct'[b] = acct[b]
             /\ n \in Row /\ n.email = t.proposed /\ n.role = acct[a].role /\ n.active = acct[a].active
             /\ n.verified = acct[a].verified
<1> DEFINE a == t.account
           r == Bumped(a)
           n == [r EXCEPT !.email = t.proposed]
<1>1. a \in Ids /\ Exists(a) /\ acct' = [acct EXCEPT ![a] = n]
  BY DEF Moves, Good, Typed, MailToken
<1>2. t.proposed \in Emails
  BY DEF Moves, TokensOrderly, Orderly
<1>3. r \in Row /\ SamePerson(acct[a], r) /\ r.verified = acct[a].verified
  BY <1>1, BumpedIsARow
<1> HIDE DEF r
<1>4. n \in Row /\ n.email = t.proposed /\ n.role = r.role /\ n.active = r.active /\ n.verified = r.verified
  BY <1>2, <1>3 DEF Row
<1> HIDE DEF n
<1>5. acct'[a] = n /\ \A b \in Ids \ {a} : acct'[b] = acct[b]
  BY <1>1 DEF Typed
<1> QED BY <1>1, <1>3, <1>4, <1>5 DEF SamePerson

---------------------------------------------------------------------------
(* The action properties.                                                  *)

LEMMA StepMovesOnBothProofs ==
  ASSUME Typed, TokensOrderly, [AccountsNext]_accountsVars
  PROVE  EmailMovesOnBothProofs
<1> SUFFICES ASSUME NEW a \in Ids, Exists(a), acct'[a].st # "none", acct'[a].email # acct[a].email
             PROVE  \E t, u \in tokens' :
                      /\ t.flow = u.flow /\ t.flow # 0 /\ t.account = a
                      /\ t.purpose = "email_change_current" /\ u.purpose = "email_change_new"
                      /\ t.st = "used" /\ u.st = "used" /\ u.proposed = acct'[a].email
  BY DEF EmailMovesOnBothProofs
<1>1. ~Stands(a)
  BY DEF Stands
<1>2. ~mutateAccountAdmin
  <2> SUFFICES ASSUME mutateAccountAdmin
               PROVE  FALSE
    OBVIOUS
  <2>1. PICK b \in Ids, mutation \in Mutations : Exists(b) /\ acct' = [acct EXCEPT ![b] = Mutated(b, mutation)]
    BY DEF mutateAccountAdmin
  <2>2. Mutated(b, mutation).email = acct[b].email
    BY <2>1, MutatedRow
  <2> QED BY <2>1, <2>2 DEF Typed
<1>3. PICK t \in tokens : Moves(t)
  BY <1>1, <1>2, OthersStand DEF Exists
<1>4. t.account = a /\ acct'[a].email = t.proposed
  BY <1>3, MovedRow
<1> DEFINE S == Purposes(a, {"reset", Current, New})
           h == [u \in tokens |-> After(t, S, u)]
<1>5. t.flow # 0 /\ t.st = "live" /\ Partner(t).st # "live" /\ tokens' = Used(t, S)
  BY <1>3, <1>4 DEF Moves
<1>6. PICK p \in tokens : p = Partner(t) /\ p.flow = t.flow /\ p # t
  <2>1. \E u \in tokens : u.flow = t.flow /\ u # t
    BY <1>5 DEF TokensOrderly, Orderly, Paired
  <2> QED BY <2>1 DEF Partner
<1>7. Paired(t, p)
  BY <1>5, <1>6, PartnersPaired
<1>8. p.st = "used"
  <2>1. p.st # "void" /\ p.st # "live"
    BY <1>5, <1>6 DEF TokensOrderly, Orderly
  <2> QED BY <2>1 DEF Typed, MailToken
<1>9. Restated(h, tokens')
  BY <1>5, UsedRestates
<1>10. h[p] = p
  BY <1>6, <1>8 DEF After
<1>11. h[t].st = "used"
  BY DEF After, Typed, MailToken
<1> HIDE DEF h, S
<1>12. /\ p \in tokens' /\ h[t] \in tokens'
       /\ h[t].account = t.account /\ h[t].purpose = t.purpose /\ h[t].flow = t.flow
       /\ h[t].proposed = t.proposed
  BY <1>9, <1>10 DEF Restated
<1>13. t.purpose \in {Current, New} /\ p.purpose \in {Current, New} /\ p.purpose # t.purpose
       /\ p.account = a /\ p.proposed = t.proposed
  BY <1>4, <1>5, <1>6, <1>7 DEF TokensOrderly, Orderly, Proofs, Paired
<1>14. CASE t.purpose = Current
  BY <1>4, <1>5, <1>6, <1>8, <1>11, <1>12, <1>13, <1>14 DEF Current, New
<1>15. CASE t.purpose = New
  BY <1>4, <1>5, <1>6, <1>8, <1>11, <1>12, <1>13, <1>15 DEF Current, New
<1> QED BY <1>13, <1>14, <1>15

LEMMA StepLeavesAnAdmin ==
  ASSUME Typed, TokensOrderly, [AccountsNext]_accountsVars
  PROVE  AdminRemains
<1> SUFFICES ASSUME NEW x \in Admins
             PROVE  \E y \in Ids : y \in Admins'
  BY DEF AdminRemains, Admins
<1>1. x \in Ids /\ Exists(x) /\ acct[x].active /\ acct[x].verified /\ acct[x].role = "admin"
  BY DEF Admins, Good
<1>2. CASE Stands(x)
  BY <1>1, <1>2 DEF Stands, Admins, Good, Exists, Row
<1>3. ASSUME NEW t \in tokens, Moves(t)
      PROVE  x \in Admins'
  <2>1. CASE t.account = x
    BY <1>1, <1>3, <2>1, MovedRow DEF Admins, Good, Exists, Row
  <2>2. CASE t.account # x
    <3>1. acct'[x] = acct[x]
      BY <1>1, <1>3, <2>2, MovedRow
    <3> QED BY <1>1, <3>1 DEF Admins, Good, Exists
  <2> QED BY <2>1, <2>2
<1>4. CASE mutateAccountAdmin
  <2>1. PICK b \in Ids, mutation \in Mutations :
          /\ Exists(b) /\ acct' = [acct EXCEPT ![b] = Mutated(b, mutation)]
          /\ RemovesAdmin(b, mutation) => Cardinality(Admins) > 1
    BY <1>4 DEF mutateAccountAdmin
  <2>2. acct'[b] = Mutated(b, mutation) /\ \A y \in Ids \ {b} : acct'[y] = acct[y]
    BY <2>1 DEF Typed
  <2>3. \A y \in Admins \ {b} : y \in Ids /\ y \in Admins'
    BY <2>2 DEF Admins, Good, Exists
  <2>4. CASE Admins \ {b} # {}
    BY <2>3, <2>4
  <2>5. CASE Admins \ {b} = {}
    <3>1. Admins = {b} /\ b \in Admins
      BY <2>5
    <3>2. Cardinality(Admins) = 1
      BY <3>1, FS_Singleton
    <3>3. ~RemovesAdmin(b, mutation)
      BY <2>1, <3>2
    <3>4. LET n == Mutated(b, mutation)
          IN  n \in Row /\ n.verified = acct[b].verified /\ n.role = "admin" /\ n.active
      BY <2>1, <3>1, <3>3, MutatedRow
    <3>5. acct[b].verified
      BY <3>1 DEF Admins, Good
    <3> QED BY <2>2, <3>4, <3>5 DEF Admins, Good, Exists, Row
  <2> QED BY <2>4, <2>5
<1> QED BY <1>1, <1>2, <1>3, <1>4, OthersStand DEF Admins

LEMMA StepSawProvider ==
  ASSUME Typed, ReplacementsSaw, [AccountsNext]_accountsVars
  PROVE  ProviderSeen
<1> SUFFICES ASSUME NEW a \in Ids, NEW c \in Clients, provider'[a] # provider[a], reqs'[c] # reqs[c]
             PROVE  provider[a] = reqs[c].row
  BY DEF ProviderSeen
<1>1. ASSUME NEW d \in Clients, replaceProvider(d)
      PROVE  provider[a] = reqs[c].row
  <2>1. d = c
    BY <1>1 DEF replaceProvider, Answer, Typed
  <2>2. reqs[c].account = a /\ provider[a].ver = reqs[c].row.ver
    BY <1>1, <2>1 DEF replaceProvider, Typed
  <2>3. Seen(c)
    BY <1>1, <2>1 DEF replaceProvider, Answer, ReplacementsSaw
  <2> QED BY <2>2, <2>3 DEF Seen
<1>2. CASE removeProvider
  BY <1>2 DEF removeProvider
<1>3. CASE provider' = provider
  BY <1>3
<1> QED BY <1>1, <1>2, <1>3
     DEF AccountsNext, accountsVars, Request, Reads, registerPending, Age, confirmVerification,
         completeReset, confirmEmailChange, signOut, provisionAdmin, mutateAccountAdmin,
         rotateOperator, disableOperator, readVerification, issueVerification, readReset, issueReset,
         readPassword, changePassword, readEmailChange, issueEmailChange, readSignIn, issueSession,
         readProvider, readOperator, issueOperatorSession

---------------------------------------------------------------------------
(* The theorems.                                                           *)

LEMMA InitIInv ==
  AccountsInit => IInv
<1> SUFFICES ASSUME AccountsInit
             PROVE  IInv
  OBVIOUS
<1>1. NoAccount.st = "none" /\ NoRequest.op = "idle"
  BY DEF NoAccount, NoRequest
<1>2. /\ \A a \in Ids : acct[a] = NoAccount
      /\ tokens = {} /\ sessions = {} /\ \A c \in Clients : reqs[c] = NoRequest
  BY DEF AccountsInit
<1>3. Typed
  <2>1. IsFiniteSet(tokens)
    BY <1>2, FS_EmptySet
  <2>2. provider \in [Ids -> ProviderRow]
    BY DEF AccountsInit, ProviderRow
  <2>3. operator \in OperatorRow
    BY DEF AccountsInit, OperatorRow
  <2> QED BY <2>1, <2>2, <2>3 DEF AccountsInit, Typed, RequestRow
<1>4. IdsAreUnique /\ SessionsAgree /\ ResetGoesToOwner /\ ResetWorksOnce /\ FlowsPaired
  BY <1>1, <1>2 DEF IdsAreUnique, SessionsAgree, ResetGoesToOwner, ResetWorksOnce, FlowsPaired, Exists
<1>5. SignInsAgree /\ ReplacementsSaw
  BY <1>1, <1>2 DEF SignInsAgree, ReplacementsSaw
<1>6. OldIsOlder
  BY DEF AccountsInit, OldIsOlder
<1> QED BY <1>3, <1>4, <1>5, <1>6 DEF IInv

LEMMA NextIInv ==
  IInv /\ [AccountsNext]_accountsVars => IInv'
<1> SUFFICES ASSUME IInv, [AccountsNext]_accountsVars
             PROVE  IInv'
  OBVIOUS
<1>1. /\ Typed /\ IdsAreUnique /\ SessionsAgree /\ SignInsAgree /\ ReplacementsSaw
      /\ ResetGoesToOwner /\ ResetWorksOnce /\ FlowsPaired /\ OldIsOlder
  BY DEF IInv
<1>2. Typed'
  BY <1>1, NextTyped
<1>3. MailInv
  BY <1>1, OrderOfTokens, CountOfResets DEF MailInv, IdsAreUnique, AddressesUnique
<1>4. MailInv'
  BY <1>1, <1>3, NextKeepsMail
<1>5. SessionsAgree' /\ SignInsAgree' /\ ReplacementsSaw' /\ OldIsOlder'
  BY <1>1, SessionsAgreeStep, SignInsAgreeStep, ReplacementsSawStep, OldIsOlderStep
<1>6. IdsAreUnique'
  BY <1>4, <1>5 DEF MailInv, AddressesUnique, TokensOrderly, Orderly, SessionsAgree, Agrees,
                    IdsAreUnique, Exists
<1>7. ResetGoesToOwner' /\ FlowsPaired'
  BY <1>4 DEF MailInv, TokensOrderly, Orderly, ResetGoesToOwner, FlowsPaired, Exists
<1>8. ResetWorksOnce'
  BY <1>4, CountOfResets, PTL DEF MailInv
<1> QED BY <1>2, <1>5, <1>6, <1>7, <1>8 DEF IInv

LEMMA IInvGivesCredentials ==
  IInv => CredentialsAreCurrent
<1> SUFFICES ASSUME IInv
             PROVE  CredentialsAreCurrent
  OBVIOUS
<1>1. SessionIsCurrent
  BY DEF IInv, SessionIsCurrent, Usable, SessionsAgree, Agrees
<1>2. OperatorSessionIsCurrent
  BY DEF IInv, OperatorSessionIsCurrent, OperatorUsable, OldIsOlder, Typed, OperatorRow
<1> QED BY <1>1, <1>2 DEF IInv, CredentialsAreCurrent

LEMMA AccountsInductive == AccountsSpec => []IInv
BY InitIInv, NextIInv, PTL DEF AccountsSpec

(* However the requests of any browsers interleave between their reads and *)
(* their writes, a reset reaches the account's present address and sets    *)
(* one password, addresses stay unique, and a session that works carries   *)
(* the password and the role of now (accounts.ts, operators.ts).           *)
THEOREM CredentialsStayCurrent == AccountsSpec => []CredentialsAreCurrent
BY AccountsInductive, IInvGivesCredentials, PTL

(* An address moves only when both its holders confirmed the same change,  *)
(* the last administrator is never demoted or deactivated, and a provider  *)
(* credential is replaced only by who saw its latest change (accounts.ts). *)
THEOREM AccountStepsHold == AccountsSpec => AccountSteps
<1>1. IInv /\ [AccountsNext]_accountsVars
        => [EmailMovesOnBothProofs /\ AdminRemains /\ ProviderSeen]_accountsVars
  <2> SUFFICES ASSUME IInv, [AccountsNext]_accountsVars
               PROVE  EmailMovesOnBothProofs /\ AdminRemains /\ ProviderSeen
    OBVIOUS
  <2>1. Typed /\ TokensOrderly /\ ReplacementsSaw
    BY OrderOfTokens DEF IInv
  <2> QED BY <2>1, StepMovesOnBothProofs, StepLeavesAnAdmin, StepSawProvider
<1> QED BY <1>1, AccountsInductive, PTL DEF AccountsSpec, AccountSteps

===============================================================================
