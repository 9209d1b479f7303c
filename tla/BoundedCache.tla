---------------------------- MODULE BoundedCache ---------------------------
(***************************************************************************)
(* The process-local cache behind the dossier's provider gateways: loaded  *)
(* values and remembered failures in one map kept in the order of use, and *)
(* one load in flight per key.  A reader with its own credentials uses     *)
(* neither.                                                                *)
(*                                                                         *)
(* Times are kept as ages.  A value is the number of the load it came from.*)
(***************************************************************************)
EXTENDS Naturals, FiniteSets, SequencesExt

CONSTANTS
    Keys,
    Readers,       \* reads that may run at once
    Own,           \* those with their own credentials
    MaxEntries,
    Ttl,           \* ticks a value is kept (ttlMs)
    NegativeTtl    \* ticks a failure is kept (negativeTtlMs)

CacheAssumption ==
    /\ IsFiniteSet(Keys) /\ Own \subseteq Readers
    /\ MaxEntries \in Nat \ {0} /\ Ttl \in Nat /\ NegativeTtl \in Nat

VARIABLES
    entries,   \* the map, least recently used first: key, kind, ticks left, age
    pending,   \* keys with a load in flight
    reader,    \* each reader
    loads,     \* loads in flight per key, those of readers with credentials too
    used       \* keys by their last read, oldest first

vars == <<entries, pending, reader, loads, used>>

Idle == [at |-> "idle"]
Served(how, age) == [at |-> "served", how |-> how, age |-> age]

Held(k) == SelectSeq(entries, LAMBDA e : e.key = k)
Without(k) == SelectSeq(entries, LAMBDA e : e.key # k)

(* The re-insert carries expiresAt over unchanged.                         *)
Renewed(e) == e

(* An entry keeps its place when it is read.                               *)
HitInPlace(k, e) == [i \in DOMAIN entries |-> IF entries[i].key = k THEN Renewed(e) ELSE entries[i]]

Hit(k, e) == Append(Without(k), Renewed(e))

Touched(k) == Append(SelectSeq(used, LAMBDA x : x # k), k)

(* A read that finds no entry starts a load though one is in flight.       *)
ReadAlone(r, k) ==
    /\ reader[r].at = "idle" /\ r \notin Own
    /\ LET held == Held(k)
           live == held # <<>> /\ held[1].left > 0
       IN  \/ /\ live
              /\ entries' = Hit(k, held[1]) /\ used' = Touched(k)
              /\ reader' = [reader EXCEPT ![r] = Served(held[1].kind, held[1].age)]
              /\ UNCHANGED <<pending, loads>>
           \/ /\ ~live
              /\ entries' = Without(k) /\ pending' = pending \cup {k}
              /\ loads' = [loads EXCEPT ![k] = @ + 1]
              /\ reader' = [reader EXCEPT ![r] = [at |-> "waits", key |-> k]]
              /\ UNCHANGED used

(* The cache's read: hit, shared, at capacity, or miss.                    *)
Read(r, k) ==
    /\ reader[r].at = "idle" /\ r \notin Own
    /\ LET held == Held(k)
           live == held # <<>> /\ held[1].left > 0
       IN  \/ /\ live
              /\ entries' = Hit(k, held[1]) /\ used' = Touched(k)
              /\ reader' = [reader EXCEPT ![r] = Served(held[1].kind, held[1].age)]
              /\ UNCHANGED <<pending, loads>>
           \/ /\ ~live /\ entries' = Without(k)
              /\ \/ /\ k \in pending
                    /\ reader' = [reader EXCEPT ![r] = [at |-> "waits", key |-> k]]
                    /\ UNCHANGED <<pending, loads>>
                 \/ /\ k \notin pending /\ Cardinality(pending) >= MaxEntries
                    /\ reader' = [reader EXCEPT ![r] = Served("capacity", 0)]
                    /\ UNCHANGED <<pending, loads>>
                 \/ /\ k \notin pending /\ Cardinality(pending) < MaxEntries
                    /\ pending' = pending \cup {k} /\ loads' = [loads EXCEPT ![k] = @ + 1]
                    /\ reader' = [reader EXCEPT ![r] = [at |-> "waits", key |-> k]]
              /\ UNCHANGED used

(* remember: the least recently used entry makes room.                     *)
Remember(e) ==
    Append(IF Len(entries) >= MaxEntries THEN Tail(entries) ELSE entries, e)

Answered(k, how) ==
    [r \in Readers |-> IF reader[r] = [at |-> "waits", key |-> k] THEN Served(how, 0) ELSE reader[r]]

LoadEnds(k) ==
    /\ k \in pending
    /\ pending' = pending \ {k} /\ loads' = [loads EXCEPT ![k] = @ - 1]
    /\ \/ /\ entries' = Remember([key |-> k, kind |-> "value", left |-> Ttl, age |-> 0])
          /\ reader' = Answered(k, "value") /\ used' = Touched(k)
       \/ /\ entries' = Remember([key |-> k, kind |-> "failure", left |-> NegativeTtl, age |-> 0])
          /\ reader' = Answered(k, "failure") /\ used' = Touched(k)
       \/ (* a failure that is not worth remembering *)
          /\ reader' = Answered(k, "failure") /\ UNCHANGED <<entries, used>>

(* The reader gives up; a shared load goes on.                             *)
Abort(r) ==
    /\ reader[r].at = "waits"
    /\ reader' = [reader EXCEPT ![r] = Idle]
    /\ UNCHANGED <<entries, pending, loads, used>>

(* A visitor-supplied gateway has no cache.                                *)
ReadOwn(r, k) ==
    /\ reader[r].at = "idle" /\ r \in Own
    /\ reader' = [reader EXCEPT ![r] = Served("own", 0)]
    /\ UNCHANGED <<entries, pending, loads, used>>

Return(r) ==
    /\ reader[r].at = "served"
    /\ reader' = [reader EXCEPT ![r] = Idle]
    /\ UNCHANGED <<entries, pending, loads, used>>

Tick ==
    /\ entries' = [i \in DOMAIN entries |->
                    [entries[i] EXCEPT !.left = IF @ > 0 THEN @ - 1 ELSE 0,
                                       !.age = IF @ > Ttl THEN @ ELSE @ + 1]]
    /\ UNCHANGED <<pending, reader, loads, used>>

Init ==
    /\ entries = <<>> /\ pending = {} /\ used = <<>>
    /\ reader = [r \in Readers |-> Idle] /\ loads = [k \in Keys |-> 0]

Next ==
    \/ \E r \in Readers : (\E k \in Keys : Read(r, k) \/ ReadOwn(r, k)) \/ Abort(r) \/ Return(r)
    \/ \E k \in Keys : LoadEnds(k)
    \/ Tick

Spec == Init /\ [][Next]_vars

---------------------------------------------------------------------------
(* Properties.                                                             *)

(* The map never outgrows its limit and holds each key once, whatever      *)
(* loads end between the reads.                                            *)
CacheBounded ==
    /\ Len(entries) <= MaxEntries
    /\ \A i, j \in DOMAIN entries : entries[i].key = entries[j].key => i = j

(* One load per key at a time, however many ask, expire or give up.        *)
OneLoad == \A k \in Keys : loads[k] <= 1

(* No answer is older than its time, however often it was read; a failure  *)
(* is forgotten sooner than a value.                                       *)
ServedInTime ==
    \A r \in Readers : reader[r].at = "served" =>
        reader[r].age <= (IF reader[r].how = "failure" THEN NegativeTtl ELSE Ttl)

(* An entry that makes room was used before all that stay.                 *)
LeastUsedGoes ==
    \A i \in DOMAIN entries :
        LET k == entries[i].key
        IN  Len(entries') >= Len(entries) /\ ~(\E j \in DOMAIN entries' : entries'[j].key = k)
            => \A j \in DOMAIN entries' : \E m, n \in DOMAIN used' :
                    m < n /\ used'[m] = k /\ used'[n] = entries'[j].key

=============================================================================
