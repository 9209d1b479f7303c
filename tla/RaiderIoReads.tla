---------------------------- MODULE RaiderIoReads --------------------------
(***************************************************************************)
(* Two reads of the Raider.IO client that ask several endpoints at once:   *)
(* the historic tiers of a character, by a few workers that stop at a      *)
(* failure, and the two endpoints of a guild's ranks.                      *)
(*                                                                         *)
(* What upstream will answer each request with is chosen at the start, so  *)
(* that the result can be compared with that of asking one after another.  *)
(* A response is its status and the seconds of its Retry-After, 0 without. *)
(***************************************************************************)
EXTENDS Naturals, FiniteSets, FiniteSetsExt

CONSTANTS
    Tiers,         \* number of tiers asked for
    Concurrency,   \* historicMythicKillTierConcurrency
    Bosses,
    Dates,         \* days a first kill may be on, 0 for none
    Waits          \* Retry-After values

ReadsAssumption ==
    /\ Tiers \in Nat /\ Concurrency \in Nat \ {0} /\ IsFiniteSet(Bosses)
    /\ Dates \subseteq Nat /\ 0 \in Dates /\ Waits \subseteq Nat /\ 0 \in Waits

VARIABLES
    fate,     \* what each tier's request will bring
    pair,     \* what the two rank requests will bring
    worker,   \* each worker: the tier it asks for, 0 for none, Gone when it ended
    next,     \* the next tier
    failed,   \* whether a tier has failed
    outs,     \* outcomes by tier
    aborted,  \* whether the caller gave up
    result    \* of the walk

vars == <<fate, pair, worker, next, failed, outs, aborted, result>>

Gone == Tiers + 1
Crew == 1 .. Concurrency

Response(st, wait) == [st |-> st, wait |-> wait]

(* The guild endpoints' failures; a body that does not parse is garbled.   *)
Failures ==
    {Response(st, 0) : st \in {"guild not found", "timeout", "network", "garbled"}}
    \cup {Response(st, w) : st \in {"403", "404", "429", "503"}, w \in Waits}

Fine == [st |-> "ok", wait |-> 0]

(* classifyResponse, and the guild endpoints' exception for a 403 or 404   *)
(* that asks to be asked again.                                            *)
Kind(f, guild) ==
    CASE f.st = "guild not found" -> "guild"
      [] f.st = "garbled" -> "schema_drift"
      [] f.st = "404" /\ ~guild -> "not_found"
      [] f.st = "403" /\ (~guild \/ f.wait = 0) -> "forbidden"
      [] OTHER -> "transient"

(* raiderIoLimitation                                                      *)
Code(f, guild) ==
    CASE Kind(f, guild) \in {"guild", "not_found"} -> "not_found"
      [] Kind(f, guild) = "forbidden" -> "private"
      [] Kind(f, guild) = "schema_drift" -> "schema_drift"
      [] Kind(f, guild) = "transient" -> IF f.st = "429" THEN "rate_limited" ELSE "unavailable"

---------------------------------------------------------------------------
(* getHistoricMythicKills                                                  *)

TierFates ==
    {[st |-> "ok", kills |-> k] : k \in [Bosses -> Dates]} \cup {[st |-> "404"], [st |-> "503"]}

(* Kills merge in the order of the tiers; the earlier first kill stays.    *)
Merged(until, of) ==
    LET asked(b) == {i \in 1 .. until : of[i].kills[b] > 0}
        first(b) == CHOOSE i \in asked(b) : \A j \in asked(b) :
                        \/ of[i].kills[b] < of[j].kills[b]
                        \/ of[i].kills[b] = of[j].kills[b] /\ i <= j
    IN  [b \in {c \in Bosses : asked(c) # {}} |-> <<of[first(b)].kills[b], first(b)>>]

(* The first outcome that is a failure is the result.                      *)
Outcome(of, n) ==
    LET bad == {i \in 1 .. n : of[i].st # "ok"}
    IN  IF bad = {} THEN [kind |-> "evidence", kills |-> Merged(n, of)]
        ELSE [kind |-> "limitation", tier |-> Min(bad)]

take(w) ==
    /\ worker[w] = 0
    /\ IF ~failed /\ next <= Tiers
       THEN worker' = [worker EXCEPT ![w] = next] /\ next' = next + 1
       ELSE worker' = [worker EXCEPT ![w] = Gone] /\ UNCHANGED next
    /\ UNCHANGED <<fate, pair, failed, outs, aborted, result>>

Placed(i, out) == [outs EXCEPT ![i] = out]

(* A request is answered; the caller's abort ends it at once.              *)
answer(w) ==
    /\ worker[w] \in 1 .. Tiers
    /\ LET out == IF aborted THEN [st |-> "aborted"] ELSE fate[worker[w]]
       IN  /\ outs' = Placed(worker[w], out)
           /\ failed' = (failed \/ out.st # "ok")
    /\ worker' = [worker EXCEPT ![w] = 0]
    /\ UNCHANGED <<fate, pair, next, aborted, result>>

Abort ==
    /\ ~aborted /\ result.kind = "none"
    /\ aborted' = TRUE
    /\ UNCHANGED <<fate, pair, worker, next, failed, outs, result>>

finish ==
    /\ result.kind = "none" /\ \A w \in Crew : worker[w] = Gone
    /\ result' = IF aborted THEN [kind |-> "aborted"]
                 ELSE Outcome(outs, Cardinality({i \in 1 .. Tiers : outs[i].st # "none"}))
    /\ UNCHANGED <<fate, pair, worker, next, failed, outs, aborted>>

---------------------------------------------------------------------------
(* getMythicBossRankings of a guild                                        *)

(* rankingsLimitation: what kind of failure it is.                         *)
FailureCode(f) ==
    CASE Kind(f, TRUE) = "guild" -> "not_found"
      [] Kind(f, TRUE) = "forbidden" -> "private"
      [] Kind(f, TRUE) = "schema_drift" -> "schema"
      [] OTHER -> IF f.st = "429" \/ f.wait > 0 THEN "throttled" ELSE "retry"

Priority(f) ==
    CASE f = Response("404", 0) -> 4
      [] FailureCode(f) = "throttled" -> 0
      [] FailureCode(f) = "retry" -> 1
      [] FailureCode(f) = "schema" -> 2
      [] FailureCode(f) = "private" -> 3
      [] FailureCode(f) = "not_found" -> 4

(* The longest wait of the throttled ones.                                 *)
Wait(real, chosen) ==
    IF FailureCode(chosen) = "throttled"
    THEN Max({f.wait : f \in {g \in real : FailureCode(g) = "throttled"}}) ELSE chosen.wait

(* guildPairLimitation over the failures, in the order of the endpoints.   *)
guildPairLimitation(p) ==
    LET bad    == {i \in 1 .. 2 : p[i] # Fine}
        real   == {i \in bad : p[i].st # "guild not found"}
        pick   == CHOOSE i \in real : \A j \in real :
                        \/ Priority(p[i]) < Priority(p[j])
                        \/ Priority(p[i]) = Priority(p[j]) /\ i <= j
    IN  IF bad = {} THEN [code |-> "rankings"]
        ELSE IF real = {} THEN [code |-> "not_found", guild |-> TRUE, wait |-> 0]
        ELSE [code |-> Code(p[pick], TRUE), guild |-> FALSE, wait |-> Wait({p[i] : i \in real}, p[pick])]

---------------------------------------------------------------------------

Init ==
    /\ fate \in [1 .. Tiers -> TierFates]
    /\ pair \in [1 .. 2 -> Failures \cup {Fine}]
    /\ worker = [w \in Crew |-> 0] /\ next = 1 /\ failed = FALSE /\ aborted = FALSE
    /\ outs = [i \in 1 .. Tiers |-> [st |-> "none"]]
    /\ result = [kind |-> "none"]

Next == (\E w \in Crew : take(w) \/ answer(w)) \/ Abort \/ finish

(* Only one of the two reads is followed at a time.                        *)
InitWalk == Init /\ pair = <<Fine, Fine>>
InitPair == Init /\ \A i \in 1 .. Tiers : fate[i].st = "404"

---------------------------------------------------------------------------
(* Properties.                                                             *)

(* The walk's result is what asking the tiers one after another gives: the *)
(* same kills, or the failure of the earliest tier that fails, in whatever *)
(* order the answers come.                                                 *)
WalkIsSerial == result.kind \in {"evidence", "limitation"} => result = Outcome(fate, Tiers)

(* A caller that gave up is told so, never that upstream failed.           *)
AbortIsNoLimitation == result.kind # "none" /\ aborted => result.kind = "aborted"

(* The longest wait either endpoint asked for is kept.                     *)
PairKeepsWait ==
    \A i \in 1 .. 2 : guildPairLimitation(pair).code # "rankings" /\ pair[i].wait > 0
        => guildPairLimitation(pair).wait >= pair[i].wait

Retryable(f) == f.st \in {"timeout", "network", "429", "503"} \/ f.wait > 0

(* A final answer about the guild never hides a failure that would be      *)
(* tried again, and a missing guild is said only if every failure says so. *)
PairFinalOnlyIfFinal ==
    LET out == guildPairLimitation(pair)
    IN  out.code \in {"not_found", "private", "schema_drift"} =>
            /\ \A i \in 1 .. 2 : ~Retryable(pair[i])
            /\ out.guild => \A i \in 1 .. 2 : pair[i] \in {Fine, Response("guild not found", 0)}

=============================================================================
