----------------------------- MODULE DossierPage -----------------------------
(***************************************************************************)
(* How an open dossier follows the runs it waits for.  One poll loop asks  *)
(* after the runs of the last full read and reads the dossier again when   *)
(* they publish; a press of the reader (refresh, an added character, a     *)
(* tier search) starts a run and reads the dossier back beside the loop.   *)
(* Answers arrive in any order, and the tab is hidden and shown.  The      *)
(* research job a first visit follows and the retry times of partial       *)
(* evidence are left out.                                                  *)
(***************************************************************************)
EXTENDS Integers, FiniteSets

CONSTANTS
    Runs,
    Presses,        \* the reader's presses
    InOrder,        \* whether full reads are served in the order they were sent
    ReadBackFails,  \* whether the read after a press may fail
    Faults,         \* bound: failed requests of the loop
    Hides           \* bound: times the tab is hidden

PageAssumption ==
    {InOrder, ReadBackFails} \subseteq BOOLEAN /\ {Faults, Hides} \subseteq Nat

VARIABLES
    runs,       \* per run: "none", "active", "done"
    shown,      \* the dossier on show: runs published and runs active in it
    sent, applied,    \* requestSequence, appliedSequence
    stopped,    \* pollStopped
    hidden,
    timer,      \* whether the loop has a read scheduled
    read,       \* the loop's request in flight, None without one
    ghost,      \* whether an aborted request has still to settle
    watched, deadline,    \* the run watch: its runs, and publishDueAt
    back,       \* per press: its read
    asked,      \* runs the reader's presses started
    faults, hides

loop == <<timer, read, ghost, watched, deadline>>
page == <<shown, sent, applied, stopped, hidden>>
vars == <<runs, page, loop, back, asked, faults, hides>>

None == [kind |-> "none", seq |-> 0, moved |-> FALSE, served |-> FALSE, got |-> {}, live |-> {}]
Ask == [None EXCEPT !.kind = "ask"]
Full(seq) == [None EXCEPT !.kind = "full", !.seq = seq]

Of(s) == {r \in Runs : runs[r] = s}
Live(d) == d.live # {}
Active == ~stopped /\ Live(shown)

(* The effect of useAuthoritativePoll: the loop starts when polling becomes *)
(* active, ends when it no longer is, and goes on otherwise with a timer   *)
(* when "again" says its own read is over.                                 *)
Render(again) ==
    LET now == ~stopped' /\ Live(shown')
    IN IF ~now THEN timer' = FALSE /\ read' = None /\ ghost' = (ghost \/ (read # None /\ ~again))
       ELSE IF again \/ ~Active
       THEN timer' = ~hidden /\ read' = None /\ UNCHANGED ghost
       ELSE /\ UNCHANGED <<timer, ghost>>
            /\ read' = IF read = None THEN None ELSE [read EXCEPT !.moved = TRUE]

(* A read of the dossier is on show: its runs are watched from here.       *)
Lands(d, seq, again) ==
    /\ shown' = [done |-> d.got, live |-> d.live] /\ applied' = seq
    /\ watched' = d.live /\ deadline' = "none"
    /\ Render(again)

Again == timer' = ~hidden /\ read' = None /\ UNCHANGED ghost

TimerFires ==
    /\ timer /\ timer' = FALSE
    /\ IF ~Active \/ hidden \/ read # None THEN UNCHANGED <<read, sent>>
       ELSE IF watched # {} THEN read' = Ask /\ UNCHANGED sent
       ELSE sent' = sent + 1 /\ read' = Full(sent + 1)
    /\ UNCHANGED <<runs, shown, applied, stopped, hidden, ghost, watched, deadline, back,
                   asked, faults, hides>>

(* Full reads still to be served that were sent before this one.           *)
Earlier(seq) ==
    \/ read.kind = "full" /\ ~read.served /\ read.seq < seq
    \/ \E p \in Presses : back[p].kind = "full" /\ ~back[p].served /\ back[p].seq < seq

Answered(q) == [q EXCEPT !.served = TRUE, !.got = {r \in Runs : runs'[r] = "done"},
                         !.live = {r \in Runs : runs'[r] = "active"}]

(* A full read may queue a run before it reads.                            *)
Queues ==
    \/ UNCHANGED runs
    \/ \E r \in Of("none") : runs' = [runs EXCEPT ![r] = "active"]

ServeLoop ==
    /\ read # None /\ ~read.served
    /\ IF read.kind = "ask" THEN UNCHANGED runs
       ELSE (InOrder => ~Earlier(read.seq)) /\ Queues
    /\ read' = Answered(read)
    /\ UNCHANGED <<page, timer, ghost, watched, deadline, back, asked, faults, hides>>

ServeBack(p) ==
    /\ back[p].kind = "full" /\ ~back[p].served
    /\ (InOrder => ~Earlier(back[p].seq)) /\ Queues
    /\ back' = [back EXCEPT ![p] = Answered(@)]
    /\ UNCHANGED <<page, loop, asked, faults, hides>>

(* The first publish seen fixes the deadline.                              *)
Deadline(settled) == IF settled # {} /\ deadline = "none" THEN "set" ELSE deadline

(* observe: a run of the watch that is no longer active has published; the *)
(* dossier is read again when all have, or at the deadline.                *)
AskArrives ==
    LET settled == watched \ read.live
        reread == settled # {} /\ (settled = watched \/ Deadline(settled) = "due")
    IN /\ read.kind = "ask" /\ read.served
       /\ IF read.moved THEN Again /\ UNCHANGED <<deadline, sent>>
          ELSE /\ deadline' = Deadline(settled)
               /\ IF reread
                  THEN sent' = sent + 1 /\ read' = Full(sent + 1) /\ UNCHANGED <<timer, ghost>>
                  ELSE Again /\ UNCHANGED sent
       /\ UNCHANGED <<runs, shown, applied, stopped, hidden, watched, back, asked, faults, hides>>

DeadlinePasses ==
    /\ deadline = "set" /\ deadline' = "due"
    /\ UNCHANGED <<runs, page, timer, read, ghost, watched, back, asked, faults, hides>>

FullArrives ==
    /\ read.kind = "full" /\ read.served
    /\ UNCHANGED <<runs, sent, stopped, hidden, back, asked, faults, hides>>
    /\ IF read.seq < applied THEN Again /\ UNCHANGED <<shown, applied, watched, deadline>>
       ELSE Lands(read, read.seq, TRUE)

(* A request of the loop fails: tried again later; an ask refused for any  *)
(* other reason than the rate becomes a full read, and a full read refused *)
(* for good ends polling.                                                  *)
Fails ==
    /\ read # None /\ faults < Faults /\ faults' = faults + 1
    /\ \/ Again /\ UNCHANGED <<sent, applied, stopped>>
       \/ /\ read.kind = "ask" /\ ~read.moved
          /\ sent' = sent + 1 /\ read' = Full(sent + 1)
          /\ UNCHANGED <<timer, ghost, applied, stopped>>
       \/ /\ read.kind = "full" /\ read.seq >= applied
          /\ applied' = read.seq /\ stopped' = TRUE
          /\ timer' = FALSE /\ read' = None /\ UNCHANGED <<sent, ghost>>
    /\ UNCHANGED <<runs, shown, hidden, watched, deadline, back, asked, hides>>

(* An aborted request settles and is dropped.                              *)
GhostSettles ==
    /\ ghost /\ ghost' = FALSE
    /\ UNCHANGED <<runs, page, timer, read, watched, deadline, back, asked, faults, hides>>

(* The reader's request is accepted, and the dossier read back.            *)
Press(p) ==
    /\ back[p] = None /\ sent' = sent + 1
    /\ \E r \in Of("none") : runs' = [runs EXCEPT ![r] = "active"]
    /\ asked' = asked \cup (Of("none") \ {r \in Runs : runs'[r] = "none"})
    /\ back' = [back EXCEPT ![p] = Full(sent + 1)]
    /\ UNCHANGED <<shown, applied, stopped, hidden, loop, faults, hides>>

BackAlways(p) ==    \* mutant: an older answer replaces a newer one
    /\ back[p].served /\ back' = [back EXCEPT ![p] = [None EXCEPT !.kind = "over"]]
    /\ stopped' = FALSE /\ Lands(back[p], back[p].seq, FALSE)
    /\ UNCHANGED <<runs, sent, hidden, asked, faults, hides>>

(* refreshDossier: shown unless a read sent later already was.             *)
BackArrives(p) ==
    /\ back[p].served /\ back' = [back EXCEPT ![p] = [None EXCEPT !.kind = "over"]]
    /\ IF back[p].seq < applied
       THEN UNCHANGED <<shown, applied, stopped, loop>>
       ELSE stopped' = FALSE /\ Lands(back[p], back[p].seq, FALSE)
    /\ UNCHANGED <<runs, sent, hidden, asked, faults, hides>>

(* A read back that fails or is refused leaves the page as it was.         *)
BackFails(p) ==
    /\ ReadBackFails /\ back[p].kind = "full"
    /\ back' = [back EXCEPT ![p] = [None EXCEPT !.kind = "over"]]
    /\ UNCHANGED <<runs, page, loop, asked, faults, hides>>

Hide ==
    /\ ~hidden /\ hides < Hides /\ hides' = hides + 1
    /\ hidden' = TRUE /\ timer' = FALSE
    /\ UNCHANGED <<runs, shown, sent, applied, stopped, read, ghost, watched, deadline,
                   back, asked, faults>>

(* Shown again: what is in flight is given up and the loop reads at once.  *)
Show ==
    /\ hidden /\ hidden' = FALSE
    /\ timer' = Active /\ read' = None /\ ghost' = (ghost \/ read # None)
    /\ UNCHANGED <<runs, shown, sent, applied, stopped, watched, deadline, back, asked, faults, hides>>

Publish(r) ==
    /\ runs[r] = "active" /\ runs' = [runs EXCEPT ![r] = "done"]
    /\ UNCHANGED <<page, loop, back, asked, faults, hides>>

Init ==
    /\ runs = [r \in Runs |-> "none"] /\ shown = [done |-> {}, live |-> {}]
    /\ sent = 0 /\ applied = 0 /\ stopped = FALSE /\ hidden = FALSE
    /\ timer = FALSE /\ read = None /\ ghost = FALSE /\ watched = {} /\ deadline = "none"
    /\ back = [p \in Presses |-> None] /\ asked = {} /\ faults = 0 /\ hides = 0

Answers ==
    \/ ServeLoop \/ AskArrives \/ FullArrives
    \/ \E p \in Presses : ServeBack(p) \/ BackArrives(p)
Next ==
    \/ Answers \/ TimerFires \/ DeadlinePasses \/ Fails \/ GhostSettles \/ Hide \/ Show
    \/ \E p \in Presses : Press(p) \/ BackFails(p)
    \/ \E r \in Runs : Publish(r)

Spec == Init /\ [][Next]_vars
(* Timers fire, requests are answered, a hidden tab is shown again.  A run *)
(* need not end.                                                           *)
FairSpec ==
    /\ Spec /\ WF_vars(TimerFires) /\ WF_vars(DeadlinePasses) /\ WF_vars(Show)
    /\ WF_vars(ServeLoop) /\ WF_vars(AskArrives) /\ WF_vars(FullArrives)
    /\ \A p \in Presses : WF_vars(ServeBack(p)) /\ WF_vars(BackArrives(p))
-----------------------------------------------------------------------------
(* The loop is one: it never has a read scheduled beside one in flight,    *)
(* however often the tab is hidden or the dossier changes under it.        *)
OneLoop == ~(timer /\ read # None)

(* What has been shown stays shown: an answer still in flight never        *)
(* replaces a dossier read later (dossier-page-client.tsx: showDossier).   *)
NeverGoesBack == shown.done \subseteq shown'.done

(* A run the reader started, or the page found and watches, comes to be    *)
(* shown once it has published, though another run it waits for never ends *)
(* (#690), or the page says it stopped following.                          *)
Awaited(r) == runs[r] = "done" /\ r \in asked \cup watched
Told(r) == r \in shown.done \/ stopped
=============================================================================
