------------------------------ MODULE MCUpstream ------------------------------
(* What stands between the collections and the providers: the token        *)
(* source, the request limiter, the shared cache, the passes over          *)
(* Raider.IO profiles and the two Raider.IO reads.  They share no state,   *)
(* so each behaviour is about one of them.                                 *)
EXTENDS UpstreamTokens, TLC

CONSTANTS
    Parts,   \* the parts a behaviour may be about
    a, b, c, k1, k2, k3, r1, r2, own

Alike == Permutations(Requests \ Hidden) \cup Permutations({k1, k2, k3}) \cup Permutations({r1, r2})

Keys == {k1, k2, k3}
Readers == {r1, r2, own}
Callers == {"a", "b", "c", "d"}
Profile == <<"x">>
TwoProfiles == <<"x", "y">>
Subject == [p |-> "x", q |-> "z"]

VARIABLES
    part,   \* the part this behaviour is about
    queue, active, recent, timer, starts,   \* RequestLimiter
    entries, loading, reader, loads, used,   \* BoundedCache
    row, tried, passes, proved,   \* RosterPresence
    fate, pair, worker, next, failed, outs, aborted, result   \* RaiderIoReads

Limiter == INSTANCE RequestLimiter WITH
    MaxConcurrent <- 2, MaxPerWindow <- 3, Window <- 3
Cache == INSTANCE BoundedCache WITH
    Own <- {own}, MaxEntries <- 2, Ttl <- 3, NegativeTtl <- 1, pending <-
    loading
Overlap == INSTANCE RosterPresence WITH
    Locators <- 1..2, Real <- TwoProfiles, Broken <- {}, Passes <- {"p", "q"},
    Workers <- 1, MaxReads <- 2, Lease <- 1, Lifetime <- 2, Faults <- FALSE,
    pass <- passes
Late == INSTANCE RosterPresence WITH
    Locators <- {1}, Real <- Profile, Broken <- {}, Passes <- {"p", "q"},
    Workers <- 1, MaxReads <- 2, Lease <- 1, Lifetime <- 2, Faults <- TRUE,
    pass <- passes
Crew == INSTANCE RosterPresence WITH
    Locators <- 1..2, Real <- TwoProfiles, Broken <- {}, Passes <- {"p"},
    Workers <- 2, MaxReads <- 2, Lease <- 1, Lifetime <- 2, Faults <- TRUE,
    pass <- passes
Walk == INSTANCE RaiderIoReads WITH
    Tiers <- 4, Concurrency <- 3, Bosses <- {"b"}, Dates <- 0..1, Waits <- {0}
Pair == INSTANCE RaiderIoReads WITH
    Tiers <- 1, Concurrency <- 1, Bosses <- {"b"}, Dates <- {0}, Waits <- 0..2

ASSUME MCAssumption ==
  /\ Limiter!LimiterAssumption
  /\ Cache!CacheAssumption
  /\ Overlap!PresenceAssumption
  /\ Late!PresenceAssumption
  /\ Crew!PresenceAssumption
  /\ Walk!ReadsAssumption
  /\ Pair!ReadsAssumption

(* A component no step of the behaviour is about.                         *)
Unused == "unused"

LimiterOff ==
    /\ queue = Unused /\ active = Unused /\ recent = Unused /\ timer = Unused
    /\ starts = Unused
CacheOff ==
    /\ entries = Unused /\ loading = Unused /\ reader = Unused
    /\ loads = Unused /\ used = Unused
PresenceOff ==
    /\ row = Unused /\ tried = Unused /\ passes = Unused /\ proved = Unused
ReadsOff ==
    /\ fate = Unused /\ pair = Unused /\ worker = Unused /\ next = Unused
    /\ failed = Unused /\ outs = Unused /\ aborted = Unused /\ result = Unused

limiterVars == <<queue, active, recent, timer, starts>>
cacheVars == <<entries, loading, reader, loads, used>>
presenceVars == <<row, tried, passes, proved>>
readsVars == <<fate, pair, worker, next, failed, outs, aborted, result>>

MCInit ==
    /\ part \in Parts
    /\ Init
    /\ IF part = "limiter" THEN Limiter!Init ELSE LimiterOff
    /\ IF part = "cache" THEN Cache!Init ELSE CacheOff
    /\ \/ part = "overlap" /\ Overlap!Init
       \/ part = "late" /\ Late!Init
       \/ part = "crew" /\ Crew!Init
       \/ part \notin {"overlap", "late", "crew"} /\ PresenceOff
    /\ \/ part = "walk" /\ Walk!InitWalk
       \/ part = "pair" /\ Pair!InitPair
       \/ part \notin {"walk", "pair"} /\ ReadsOff

MCNext ==
    \/ /\ part = "tokens" /\ Next
       /\ UNCHANGED <<part, limiterVars, cacheVars, presenceVars, readsVars>>
    \/ /\ part = "limiter" /\ Limiter!Next
       /\ UNCHANGED <<part, vars, cacheVars, presenceVars, readsVars>>
    \/ /\ part = "cache" /\ Cache!Next
       /\ UNCHANGED <<part, vars, limiterVars, presenceVars, readsVars>>
    \/ /\ part = "overlap" /\ Overlap!Next
       /\ UNCHANGED <<part, vars, limiterVars, cacheVars, readsVars>>
    \/ /\ part = "late" /\ Late!Next
       /\ UNCHANGED <<part, vars, limiterVars, cacheVars, readsVars>>
    \/ /\ part = "crew" /\ Crew!Next
       /\ UNCHANGED <<part, vars, limiterVars, cacheVars, readsVars>>
    \/ /\ part = "walk" /\ Walk!Next
       /\ UNCHANGED <<part, vars, limiterVars, cacheVars, presenceVars>>
    \/ /\ part = "pair" /\ Pair!Next
       /\ UNCHANGED <<part, vars, limiterVars, cacheVars, presenceVars>>

mcVars == <<part, vars, limiterVars, cacheVars, presenceVars, readsVars>>

MCSpec == MCInit /\ [][MCNext]_mcVars

(* No window sees more starts than the limiter allows and no caller it     *)
(* queued is forgotten; the cache stays within its size, loads a key once  *)
(* for all who ask, and serves nothing past its time (request-limiter.ts,  *)
(* bounded-cache.ts).                                                      *)
LimitsHold ==
    /\ part = "limiter" => Limiter!RateBounded /\ Limiter!TimerCovers
    /\ part = "cache" => Cache!CacheBounded /\ Cache!OneLoad /\ Cache!ServedInTime

(* A verdict on a roster profile rests on answers of its own pass, however *)
(* passes overlap and storage fails; a walk of Raider.IO's tiers stays in  *)
(* order, and what it says of the provider is what the provider did        *)
(* (roster-profile-presence.ts, rankings-failures.ts).                     *)
ReadsTellTheTruth ==
    /\ part = "overlap" => Overlap!VerdictIsProof /\ Overlap!ReadsBounded
    /\ part = "late" => Late!VerdictIsProof /\ Late!ReadsBounded
    /\ part = "crew" => Crew!VerdictIsProof /\ Crew!ReadsBounded
    /\ part = "walk" => Walk!WalkIsSerial /\ Walk!AbortIsNoLimitation
    /\ part = "pair" => Pair!PairKeepsWait /\ Pair!PairFinalOnlyIfFinal

(* The entry that leaves a full cache is the one used longest ago; no read *)
(* of a profile begins in the provider's wait, a stopped pass reads no     *)
(* more, and a late answer does not replace a newer one                    *)
(* (bounded-cache.ts, roster-profile-presence.ts).                         *)
UpstreamSteps ==
    [][/\ part = "cache" => Cache!LeastUsedGoes
       /\ part = "overlap" => Overlap!CooldownKept /\ Overlap!StoppedReadsNothing /\ Overlap!AnswerStands
       /\ part = "late" => Late!CooldownKept /\ Late!StoppedReadsNothing /\ Late!AnswerStands
       /\ part = "crew" => Crew!CooldownKept /\ Crew!StoppedReadsNothing /\ Crew!AnswerStands]_mcVars

===============================================================================
