---------------------------- MODULE StunReflect -----------------------------
(***************************************************************************)
(* How the pool learns its public address (pool_nat.rs,                    *)
(* maybe_reflect_public_addr): handshakes ask the STUN servers in a batch, *)
(* share what was reflected through a cache per family, remember which     *)
(* servers were alive, and back off, for both families at once, after a    *)
(* batch without an answer.  Time is counted in backoff units.             *)
(***************************************************************************)
EXTENDS Naturals, FiniteSets, FiniteSetsExt

CONSTANTS
    Tasks,          \* handshakes asking for the address
    BoundSets,      \* choices of those whose upstream is bound to an IPv4 address
    Configured,     \* configured_stun_servers
    InOrder,        \* whether they are configured in sorted order
    Worlds,         \* what the servers reflect: per family, server -> address or "none"
    Ttl,            \* STUN_CACHE_TTL
    MaxExponent,    \* cap on the backoff's exponent (6)
    AttemptWrap     \* nat_probe_attempts is an AtomicU8 (256)

VARIABLES
    bound,      \* the tasks whose upstream is bound to an address of its own
    world,      \* what the servers reflect now
    slot,       \* nat_reflection_cache: per family [ip, age] ("none": empty)
    backoff,    \* time left of stun_backoff_until
    attempts,   \* nat_probe_attempts
    live,       \* nat_stun_live_servers
    probe,      \* per task: the probe it waits for
    answer      \* what the step in hand gave a handshake, if it gave an answer

stunVars == <<bound, world, slot, backoff, attempts, live, probe, answer>>

ReflFamilies == {"v4", "v6"}
NoProbe == [on |-> FALSE, fam |-> "v4", shared |-> TRUE, attempt |-> 0,
            list |-> {}, again |-> FALSE]
Unheard == [s \in {} |-> "none"]
NoAnswer == [ip |-> "none", fam |-> "v4", how |-> "none", age |-> 0, heard |-> Unheard]

\* An answer from the cache, in or out of the backoff window.
Cached(ip, fam, how, age) ==
    [ip |-> ip, fam |-> fam, how |-> how, age |-> age, heard |-> Unheard]

Busy == \E t \in Tasks : probe[t].on

----------------------------------------------------------------------------
\* A slip: one slot for both families.
SlotOf_shared(fam) == "v4"

SlotOf(fam) == fam

Fresh(fam) == slot[SlotOf(fam)].ip # "none" /\ slot[SlotOf(fam)].age < Ttl

BackoffAfter(attempt) == 2 ^ Min({attempt, MaxExponent})

\* The servers asked first: those that answered last time, or all.
primary_servers == IF live = {} THEN Configured ELSE live

\* A caller within the backoff window gets what the cache holds, however old; the
\* cache is only tried, so that another task's access makes it look empty.
InWindow(t, fam) ==
    /\ backoff > 0
    /\ \E seen \in {slot[SlotOf(fam)]} \cup (IF Busy THEN {[ip |-> "none", age |-> 0]} ELSE {}) :
        answer' = Cached(seen.ip, fam, "backoff", seen.age)
    /\ UNCHANGED <<attempts, probe>>

FromCache(fam) ==
    /\ backoff = 0 /\ Fresh(fam)
    /\ answer' = Cached(slot[SlotOf(fam)].ip, fam, "cache", slot[SlotOf(fam)].age)
    /\ UNCHANGED <<attempts, probe>>

StartProbe(t, fam, shared) ==
    /\ probe' = [probe EXCEPT ![t] =
         [on |-> TRUE, fam |-> fam, shared |-> shared,
          attempt |-> IF shared THEN attempts ELSE 0, list |-> primary_servers,
          again |-> primary_servers # Configured \/ (live # {} /\ ~InOrder)]]
    /\ attempts' = IF shared THEN (attempts + 1) % AttemptWrap ELSE attempts
    /\ answer' = NoAnswer

\* maybe_reflect_public_addr up to the probe; a caller bound to an address of its
\* own uses neither the cache nor the backoff.
maybe_reflect_public_addr(t, fam, shared) ==
    /\ ~probe[t].on
    /\ IF shared /\ backoff > 0 THEN InWindow(t, fam)
       ELSE IF shared /\ Fresh(fam) THEN FromCache(fam)
       ELSE StartProbe(t, fam, shared)
    /\ UNCHANGED <<bound, world, slot, backoff, live>>

----------------------------------------------------------------------------
\* probe_stun_batch_for_family: the servers that answered, and the address most of
\* them reflect (a tie is decided by the hash map's order).

Answering(list, fam) == {s \in list : world[fam][s] # "none"}
Votes(list, fam, ip) == Cardinality({s \in list : world[fam][s] = ip})

best_reflected(list, fam) ==
    LET ips == {world[fam][s] : s \in Answering(list, fam)}
    IN {ip \in ips : \A other \in ips : Votes(list, fam, other) <= Votes(list, fam, ip)}

\* What a probe hands over, with what the servers said.
Probed(t, ip) ==
    [ip |-> ip, fam |-> probe[t].fam, how |-> "probe", age |-> 0,
     heard |-> [s \in Answering(probe[t].list, probe[t].fam) |-> world[probe[t].fam][s]]]

\* The batch found nobody: all configured servers are asked before giving up.
probe_again(t) ==
    /\ probe[t].on /\ probe[t].again /\ Answering(probe[t].list, probe[t].fam) = {}
    /\ probe' = [probe EXCEPT ![t].list = Configured, ![t].again = FALSE]
    /\ answer' = NoAnswer
    /\ UNCHANGED <<bound, world, slot, backoff, attempts, live>>

\* An address was reflected: the attempts start over and the cache is filled,
\* unless another task holds it.
probe_reflected(t) ==
    /\ probe[t].on /\ Answering(probe[t].list, probe[t].fam) # {}
    /\ \E ip \in best_reflected(probe[t].list, probe[t].fam) :
        /\ answer' = Probed(t, ip)
        /\ slot' \in IF ~probe[t].shared THEN {slot}
                     ELSE {[slot EXCEPT ![SlotOf(probe[t].fam)] = [ip |-> ip, age |-> 0]]}
                          \cup (IF \E o \in Tasks \ {t} : probe[o].on THEN {slot} ELSE {})
    /\ live' = Answering(probe[t].list, probe[t].fam)
    /\ attempts' = IF probe[t].shared THEN 0 ELSE attempts
    /\ probe' = [probe EXCEPT ![t] = NoProbe]
    /\ UNCHANGED <<bound, world, backoff>>

\* Nobody answered: no server is known to live, and the window opens.
probe_failed(t) ==
    /\ probe[t].on /\ ~probe[t].again /\ Answering(probe[t].list, probe[t].fam) = {}
    /\ live' = {}
    /\ backoff' = IF probe[t].shared THEN BackoffAfter(probe[t].attempt) ELSE backoff
    /\ answer' = Probed(t, "none")
    /\ probe' = [probe EXCEPT ![t] = NoProbe]
    /\ UNCHANGED <<bound, world, slot, attempts>>

----------------------------------------------------------------------------
\* Environment: time passes, the servers and the network change.

stun_tick ==
    /\ backoff' = IF backoff > 0 THEN backoff - 1 ELSE 0
    /\ slot' = [f \in ReflFamilies |->
                  [slot[f] EXCEPT !.age = IF slot[f].ip = "none" THEN 0 ELSE Min({@ + 1, Ttl})]]
    /\ answer' = NoAnswer
    /\ UNCHANGED <<bound, world, attempts, live, probe>>

stun_world ==
    /\ world' \in Worlds
    /\ answer' = NoAnswer
    /\ UNCHANGED <<bound, slot, backoff, attempts, live, probe>>

StunInit ==
    /\ bound \in BoundSets
    /\ world \in Worlds
    /\ slot = [f \in ReflFamilies |-> [ip |-> "none", age |-> 0]]
    /\ backoff = 0 /\ attempts = 0 /\ live = {}
    /\ probe = [t \in Tasks |-> NoProbe]
    /\ answer = NoAnswer

ProbeStep(t) == probe_again(t) \/ probe_reflected(t) \/ probe_failed(t)

StunNext ==
    \/ \E t \in Tasks \ bound, fam \in ReflFamilies : maybe_reflect_public_addr(t, fam, TRUE)
    \/ \E t \in bound : maybe_reflect_public_addr(t, "v4", FALSE)
    \/ \E t \in Tasks : ProbeStep(t)
    \/ stun_tick
    \/ stun_world

\* Probes have a timeout, and time passes.
StunSpec ==
    /\ StunInit /\ [][StunNext]_stunVars
    /\ \A t \in Tasks : WF_stunVars(ProbeStep(t))
    /\ WF_stunVars(stun_tick)

----------------------------------------------------------------------------
\* Properties.

\* The state is well formed; the backoff never exceeds its cap.
StunTypeOK ==
    /\ backoff \in 0 .. 2 ^ MaxExponent /\ attempts \in 0 .. AttemptWrap - 1
    /\ live \subseteq Configured
    /\ \A t \in Tasks : probe[t].list \subseteq Configured

\* A handshake is never given an address of the other family, whichever families
\* fill and read the shared cache.
FamilyKept ==
    answer.ip # "none" =>
        \E w \in Worlds : \E s \in Configured : w[answer.fam][s] = answer.ip

\* An address as old as the cache's lifetime is used only within the window.
StaleOnlyInBackoff == answer.how # "backoff" => answer.age < Ttl

\* When more than half of the servers that answered reflect one address, the probe
\* hands over that one.
MajorityBelieved ==
    \A ip \in {answer.heard[s] : s \in DOMAIN answer.heard} :
        2 * Cardinality({s \in DOMAIN answer.heard : answer.heard[s] = ip})
            > Cardinality(DOMAIN answer.heard) => answer.ip = ip

AllUp == \A f \in ReflFamilies, s \in Configured : world[f][s] # "none"

\* Once every server answers for good, the backoff runs out and no handshake is
\* left without an address any more.
ReflectionRecovers ==
    <>[]AllUp => <>[][answer'.how = "none" \/ answer'.ip # "none"]_answer

\* The reflected address is of the family asked for, outside the back-off not
\* older than the cache allows, the one most servers agree on, and available
\* again once the servers are.
ReflectionRight == [](FamilyKept /\ StaleOnlyInBackoff /\ MajorityBelieved) /\ ReflectionRecovers
=============================================================================
