---------------------------- MODULE ReplayCache -----------------------------
(***************************************************************************)
(* One shard of the replay checker (stats/mod.rs): a bounded LRU cache of  *)
(* the handshakes seen, and a queue of what was added, in time order, from *)
(* which expired entries are removed.  A shard is used under its mutex, so *)
(* each operation is one step; shards share nothing.                       *)
(***************************************************************************)
EXTENDS Integers, Sequences, FiniteSets, FiniteSetsExt

CONSTANTS Keys,       \* handshakes that fall into this shard
          Capacity,   \* shard_capacity
          Window,     \* the replay window; 0 keeps everything
          MaxTime,    \* bound: the clock
          MaxChecks   \* bound: operations

ASSUME ReplayAssumption ==
    /\ IsFiniteSet(Keys) /\ Capacity \in Nat \ {0} /\ {Window, MaxTime, MaxChecks} \subseteq Nat

VARIABLES
    cache,      \* LruCache: key -> [seq, used], used the operation that used it last
    expiry,     \* queue: [at, key, seq], the oldest first
    seq_counter,
    clock,      \* Instant::now()
    checks,     \* operations so far
    found,      \* what the last check_and_add returned, and for which key
    lastAdd,    \* history: when each key was added last, -1 if never
    lastUse     \* history: the operation that used each key last, 0 if none

replayVars == <<cache, expiry, seq_counter, clock, checks, found, lastAdd, lastUse>>

(* The variables have their types; the cache has at most Capacity entries, *)
(* and an entry of the queue for each of them.                             *)
ReplayTypeOK ==
    /\ DOMAIN cache \subseteq Keys /\ Cardinality(DOMAIN cache) <= Capacity
    /\ seq_counter \in Nat /\ clock \in 0..MaxTime /\ checks \in 0..MaxChecks
    /\ \A k \in DOMAIN cache : \E j \in DOMAIN expiry :
          expiry[j].key = k /\ expiry[j].seq = cache[k].seq

ReplayInit ==
    /\ cache = << >> /\ expiry = << >> /\ seq_counter = 0 /\ clock = 0 /\ checks = 0
    /\ found = << >> /\ lastAdd = [k \in Keys |-> -1] /\ lastUse = [k \in Keys |-> 0]

-----------------------------------------------------------------------------
Expired(e, now) == Window > 0 /\ e.at < now - Window

(* The loop of cleanup pops the front of the queue while it is expired.    *)
Popped(now) ==
    CHOOSE n \in 0..Len(expiry) : /\ \A i \in 1..n : Expired(expiry[i], now)
                                  /\ n = Len(expiry) \/ ~Expired(expiry[n + 1], now)
cleanup_queue(now) == SubSeq(expiry, Popped(now) + 1, Len(expiry))

Without(gone) == [k \in DOMAIN cache \ gone |-> cache[k]]

cleanup_any_seq(now) ==
    Without({k \in DOMAIN cache : \E i \in 1..Popped(now) : expiry[i].key = k})

(* Each takes the cached entry of its key with it unless the key was added *)
(* again since.                                                            *)
cleanup(now) ==
    Without({k \in DOMAIN cache : \E i \in 1..Popped(now) :
                 expiry[i].key = k /\ expiry[i].seq = cache[k].seq})

(* A new entry of a full cache evicts the least recently used one.         *)
Victims(c, k) ==
    IF k \in DOMAIN c \/ Cardinality(DOMAIN c) < Capacity THEN {}
    ELSE {CHOOSE v \in DOMAIN c : \A j \in DOMAIN c : c[v].used <= c[j].used}
put(c, k, e) ==
    [j \in (DOMAIN c \ Victims(c, k)) \cup {k} |-> IF j = k THEN e ELSE c[j]]

(* A hit refreshes the recency of the entry, never its time.               *)
get(c, k, now) == [c EXCEPT ![k].used = now]

add(c, k) ==
    /\ seq_counter' = seq_counter + 1
    /\ cache' = put(c, k, [seq |-> seq_counter + 1, used |-> checks + 1])
    /\ expiry' = Append(cleanup_queue(clock), [at |-> clock, key |-> k, seq |-> seq_counter + 1])
    /\ lastAdd' = [lastAdd EXCEPT ![k] = clock]

Operation(k) ==
    /\ checks < MaxChecks /\ checks' = checks + 1
    /\ lastUse' = [lastUse EXCEPT ![k] = checks + 1]
    /\ UNCHANGED clock

(* The shard is locked and the time read once for the check and the add.   *)
check_and_add_internal(k) ==
    LET kept == cleanup(clock) hit == k \in DOMAIN kept
    IN  /\ Operation(k) /\ found' = <<k, hit>>
        /\ IF hit
           THEN /\ cache' = get(kept, k, checks + 1)
                /\ expiry' = cleanup_queue(clock)
                /\ UNCHANGED <<seq_counter, lastAdd>>
           ELSE add(kept, k)

(* add_handshake and add_tls_digest record a key without looking for it.   *)
add_only(k) == Operation(k) /\ found' = << >> /\ add(cleanup(clock), k)

(* A pass over the shards reads the time before it locks any of them.      *)
run_periodic_cleanup ==
    \E now \in 0..clock :
        /\ cache' = cleanup(now) /\ expiry' = cleanup_queue(now)
        /\ UNCHANGED <<seq_counter, clock, checks, found, lastAdd, lastUse>>

time_passes ==
    /\ clock < MaxTime /\ clock' = clock + 1
    /\ UNCHANGED <<cache, expiry, seq_counter, checks, found, lastAdd, lastUse>>

ReplayNext ==
    \/ \E k \in Keys : check_and_add_internal(k) \/ add_only(k)
    \/ run_periodic_cleanup \/ time_passes
ReplaySpec == ReplayInit /\ [][ReplayNext]_replayVars

-----------------------------------------------------------------------------
InWindow(k) == lastAdd[k] >= 0 /\ (Window = 0 \/ lastAdd[k] >= clock - Window)
Recent(k) == lastUse[k] > 0 /\ Cardinality({j \in Keys : lastUse[j] > lastUse[k]}) < Capacity

(* ReplayDetected: check_and_add answers that a key was seen whenever the  *)
(* key was added within the window and at most Capacity - 1 other keys     *)
(* were used since, and only if it was added within the window: neither    *)
(* the expiry of an older entry of the same key nor a cleanup in between   *)
(* makes the shard forget it, and an expired key is never taken for a      *)
(* replay.                                                                 *)
ReplayDetected ==
    [][checks' # checks /\ found' # << >> =>
          LET k == found'[1] IN /\ (InWindow(k) /\ Recent(k) => found'[2])
                                /\ (found'[2] => InWindow(k))]_replayVars
=============================================================================
