--------------------------- MODULE RequestLimiter --------------------------
(***************************************************************************)
(* The Blizzard client's request limiter: requests start in the order they *)
(* came, while few enough are in flight and few enough started within the  *)
(* trailing window.  One timer at a time wakes the queue.                  *)
(*                                                                         *)
(* Times are kept as ages, so that time has no bound.                      *)
(***************************************************************************)
EXTENDS Naturals, FiniteSets, SequencesExt

CONSTANTS
    Callers,        \* requests, each made again and again
    MaxConcurrent,
    MaxPerWindow,   \* maxPerSecond
    Window          \* ticks of a second

LimiterAssumption ==
    IsFiniteSet(Callers) /\ {MaxConcurrent, MaxPerWindow, Window} \subseteq Nat \ {0}

VARIABLES
    queue,    \* callers waiting for a slot
    active,   \* callers that hold one
    recent,   \* recentStarts as ages, oldest first
    timer,    \* ticks until the timer fires, Off when none is pending
    starts    \* ages of all starts within the window

vars == <<queue, active, recent, timer, starts>>

Off == Window + 1

Trimmed(ages) == SelectSeq(ages, LAMBDA age : age < Window)

Least(a, b) == IF a < b THEN a ELSE b

Wake(ages, before) == IF before # Off THEN before ELSE Window - Head(ages)

(* drain: as many as fit start at once; when the window is what stops it   *)
(* the timer is set.                                                       *)
Drain(q, act, ages, tm) ==
    LET kept == Trimmed(ages)
        room == MaxPerWindow - Len(kept)
        n    == Least(Len(q), Least(MaxConcurrent - Cardinality(act), room))
        rest == SubSeq(q, n + 1, Len(q))
        now  == act \cup {q[i] : i \in 1 .. n}
        new  == kept \o [i \in 1 .. n |-> 0]
    IN  IF q = <<>> \/ Cardinality(act) = MaxConcurrent
        THEN [queue |-> q, active |-> act, recent |-> ages, timer |-> tm, begun |-> 0]
        ELSE [queue |-> rest, active |-> now, recent |-> new, begun |-> n,
              timer |-> IF rest # <<>> /\ Cardinality(now) < MaxConcurrent THEN Wake(new, tm) ELSE tm]

Become(d) ==
    /\ queue' = d.queue /\ active' = d.active /\ recent' = d.recent /\ timer' = d.timer
    /\ starts' = starts \o [i \in 1 .. d.begun |-> 0]

acquire(c) ==
    /\ c \notin active /\ c \notin Range(queue)
    /\ Become(Drain(Append(queue, c), active, recent, timer))

(* However the request ends.                                               *)
release(c) ==
    /\ c \in active
    /\ Become(Drain(queue, active \ {c}, recent, timer))

onAbort(c) ==
    /\ c \in Range(queue)
    /\ queue' = SelectSeq(queue, LAMBDA x : x # c)
    /\ UNCHANGED <<active, recent, timer, starts>>

(* setTimeout may fire a tick early.                                       *)
TimerFires ==
    /\ timer <= 1
    /\ Become(Drain(queue, active, recent, Off))

Older(ages) == [i \in DOMAIN ages |-> Least(ages[i] + 1, Window)]

(* Time passes, but not past a timer that is due.                          *)
Tick ==
    /\ timer > 0
    /\ recent' = Older(recent)
    /\ starts' = SelectSeq(Older(starts), LAMBDA age : age < Window)
    /\ timer' = IF timer = Off THEN Off ELSE timer - 1
    /\ UNCHANGED <<queue, active>>

Init == queue = <<>> /\ active = {} /\ recent = <<>> /\ timer = Off /\ starts = <<>>

Next == (\E c \in Callers : acquire(c) \/ release(c) \/ onAbort(c)) \/ TimerFires \/ Tick

(* Every request ends, every timer fires and time passes.                  *)
Fairness == (\A c \in Callers : WF_vars(release(c))) /\ WF_vars(Tick) /\ SF_vars(timer = 0 /\ TimerFires)

Spec == Init /\ [][Next]_vars
LiveSpec == Spec /\ Fairness

---------------------------------------------------------------------------
(* Properties.                                                             *)

(* No span of a window, wherever it falls, sees more starts than allowed,  *)
(* and no more are in flight than allowed.                                 *)
RateBounded == Len(starts) <= MaxPerWindow /\ Cardinality(active) <= MaxConcurrent

(* A caller in the queue is never forgotten: whenever a slot is free for   *)
(* it a timer is pending.                                                  *)
TimerCovers == queue # <<>> /\ Cardinality(active) < MaxConcurrent => timer # Off

=============================================================================
