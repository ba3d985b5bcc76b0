----------------------------- MODULE PoolUpkeep -----------------------------
(***************************************************************************)
(* The tasks that keep the writer pool at its floor: the health monitor    *)
(* (middle_proxy/health.rs), one task for the life of the process, and the *)
(* immediate refills (pool_refill.rs), one task per lost writer.           *)
(*                                                                         *)
(* A writer is abstracted to the endpoint it is connected to: alive[e] of  *)
(* them take bindings, busy[e] of those have clients.  Draining writers    *)
(* are not counted.  wait, owait, rwait and grace hold the DCs whose       *)
(* deadline of that kind lies in the future.                               *)
(***************************************************************************)
EXTENDS Integers, Sequences, FiniteSets, FiniteSetsExt, SequencesExt

CONSTANTS Dcs,            \* DC groups: the absolute value of a DC number
          Endpoints,
          Maps,           \* the proxy maps: DC -> set of endpoints
          MaxLosses,      \* bound: writers that may die in any of the Budgets
          FastRetries,    \* me_reconnect_fast_retry_count
          Shadow,         \* me_single_endpoint_shadow_writers
          MinWriters,     \* me_adaptive_floor_min_writers_single_endpoint
          Adaptive,       \* me_floor_mode = Adaptive
          OutageMode,     \* me_single_endpoint_outage_mode_enabled
          Rotate,         \* me_single_endpoint_shadow_rotate_every_secs > 0
          Budgets,        \* bounds: the map at the start, writers that may die, writers
                          \* with clients, changes of the map and of what answers
          None

ASSUME UpkeepAssumption ==
    /\ IsFiniteSet(Dcs) /\ IsFiniteSet(Endpoints) 
    /\ Maps \subseteq [Dcs -> SUBSET Endpoints]
    /\ {MaxLosses, FastRetries, Shadow, MinWriters} \subseteq Nat
    /\ Budgets \subseteq [map : Maps, losses : 0..MaxLosses, clients : Nat, changes : Nat, flips : Nat]
    /\ Adaptive \in BOOLEAN /\ OutageMode \in BOOLEAN /\ Rotate \in BOOLEAN

VARIABLES
    pmap,           \* proxy_map_v4
    up,             \* endpoints that accept a connection and a handshake
    alive, busy,    \* writers per endpoint that are not draining; those with clients
    quarantine,     \* endpoint_quarantine, in the order of expiry
    inflight,       \* refill_inflight
    inflight_dc,    \* refill_inflight_dc
    rpc,            \* where each refill task is
    raddr, rkeys,   \* its addr and dc_keys
    rtries,         \* attempts left in its current loop
    hpc, htodo,     \* the health monitor: where it is, the DCs left in this tick
    hmap, hsnap,    \* the map and the writer counts read at the start of the tick
    hdc, hneed,     \* the DC it works on, writers still to connect
    hlost,          \* endpoints that lost a writer since the start of the tick
    idle,           \* adaptive_idle_since: none, too short, long enough
    grace,          \* adaptive_recover_until
    wait, owait, rwait, \* next_attempt, outage_next_attempt, shadow_rotate_deadline
    outage,         \* single_endpoint_outage
    budget          \* what is left of the bounds

poolVars == <<pmap, up, alive, busy, quarantine, budget>>
refillVars == <<inflight, inflight_dc, rpc, raddr, rkeys, rtries>>
healthVars == <<hpc, htodo, hmap, hsnap, hdc, hneed, hlost>>
timerVars == <<idle, grace, wait, owait, rwait, outage>>
upkeepVars == <<poolVars, refillVars, healthVars, timerVars>>

Refills == 1..MaxLosses    \* the refill tasks, one for every writer that dies
RefillPcs == {"unused", "resolve", "gate", "gate_dc", "skip", "same", "fallback", "release", "release_dc", "done"}

(* The variables have their types; a writer with clients is a writer.      *)
UpkeepTypeOK ==
    /\ pmap \in Maps /\ up \subseteq Endpoints
    /\ alive \in [Endpoints -> Nat] /\ busy \in [Endpoints -> Nat]
    /\ \A e \in Endpoints : busy[e] <= alive[e]
    /\ inflight \subseteq Endpoints /\ inflight_dc \subseteq Dcs
    /\ rpc \in [Refills -> RefillPcs] /\ raddr \in [Refills -> Endpoints]
    /\ rkeys \in [Refills -> SUBSET Dcs] /\ rtries \in [Refills -> Nat]
    /\ hpc \in {"sleep", "dc", "connect", "outage", "rotate", "drain"}
    /\ htodo \subseteq Dcs /\ hlost \subseteq Endpoints
    /\ hdc \in Dcs \cup {None} /\ hneed \in Nat
    /\ idle \in [Dcs -> {"none", "short", "long"}]
    /\ grace \cup wait \cup owait \cup rwait \cup outage \subseteq Dcs

(* MePool::init has left one writer for every DC of the map.               *)
UpkeepInit ==
    /\ budget \in Budgets /\ pmap = budget.map /\ up = Endpoints
    /\ alive = [e \in Endpoints |-> IF \E d \in Dcs : e \in pmap[d] THEN 1 ELSE 0]
    /\ busy = [e \in Endpoints |-> 0]
    /\ quarantine = << >> /\ inflight = {} /\ inflight_dc = {}
    /\ rpc = [t \in Refills |-> "unused"] /\ raddr = [t \in Refills |-> CHOOSE e \in Endpoints : TRUE]
    /\ rkeys = [t \in Refills |-> {}] /\ rtries = [t \in Refills |-> 0]
    /\ hpc = "sleep" /\ htodo = {} /\ hmap = pmap /\ hsnap = [e \in Endpoints |-> 0]
    /\ hdc = None /\ hneed = 0 /\ hlost = {}
    /\ idle = [d \in Dcs |-> "none"] /\ grace = {} /\ wait = {} /\ owait = {} /\ rwait = {}
    /\ outage = {}

-----------------------------------------------------------------------------
(* Connecting.                                                             *)

required_writers_for_dc(n) == IF n = 0 THEN 0
                              ELSE IF n = 1 THEN Max({1 + Shadow, 3}) ELSE Max({n, 3})

required_writers_for_dc_with_floor_mode(n, reduce) ==
    IF reduce /\ n = 1 /\ Adaptive
    THEN Min({required_writers_for_dc(n), Max({MinWriters, 1})})
    ELSE required_writers_for_dc(n)

(* The endpoints that are not quarantined or, when all are, the one whose  *)
(* quarantine ends first.                                                  *)
connectable_endpoints(S) ==
    LET held == SelectSeq(quarantine, LAMBDA e : e \in S)
        ready == S \ ToSet(held)
    IN IF ready # {} \/ held = << >> THEN ready ELSE {Head(held)}

(* connect_one: a new writer for e.                                        *)
Connect(e) == alive' = [alive EXCEPT ![e] = @ + 1]

(* Starting anywhere in the candidates, the first that answers.            *)
CanConnect(S) == connectable_endpoints(S) \cap up # {}
connect_endpoints_round_robin(S) == \E e \in connectable_endpoints(S) \cap up : Connect(e)

endpoints_for_same_dc(e) == UNION {pmap[d] : d \in {c \in Dcs : e \in pmap[c]}}

(* The DC under which the map lists e; when several do, the first the hash *)
(* map happens to yield.                                                   *)
DcKeysFor(S) ==
    LET keyed == {e \in S : \E d \in Dcs : e \in pmap[d]}
    IN {{k[e] : e \in keyed} : k \in {k \in [keyed -> Dcs] : \A e \in keyed : e \in pmap[k[e]]}}

has_refill_inflight_for_endpoints(S) ==
    S \cap inflight # {} \/ \E K \in DcKeysFor(S) : K \cap inflight_dc # {}

-----------------------------------------------------------------------------
(* A writer dies: it leaves the pool, its endpoint may be quarantined when *)
(* it had been up only briefly, and a refill task is spawned.              *)
maybe_quarantine_flapping_endpoint(e) ==
    \/ UNCHANGED quarantine
    \/ quarantine' = Append(SelectSeq(quarantine, LAMBDA q : q # e), e)

writer_dies(e, t) ==
    /\ alive[e] > 0 /\ budget.losses > 0 /\ budget' = [budget EXCEPT !.losses = @ - 1]
    /\ rpc[t] = "unused" /\ \A u \in 1..(t - 1) : rpc[u] # "unused"
    /\ alive' = [alive EXCEPT ![e] = @ - 1]
    /\ \E b \in {busy[e], busy[e] - 1} :
          b \in 0..(alive[e] - 1) /\ busy' = [busy EXCEPT ![e] = b]
    /\ maybe_quarantine_flapping_endpoint(e)
    /\ rpc' = [rpc EXCEPT ![t] = "resolve"] /\ raddr' = [raddr EXCEPT ![t] = e]
    /\ hlost' = IF hpc = "sleep" THEN hlost ELSE hlost \cup {e}
    /\ UNCHANGED <<pmap, up, inflight, inflight_dc, rkeys, rtries,
                   hpc, htodo, hmap, hsnap, hdc, hneed, timerVars>>

-----------------------------------------------------------------------------
(* trigger_immediate_refill.  The task holds its address in                *)
(* refill_inflight and the keys it resolved in refill_inflight_dc.         *)
RefillGoto(t, to) == rpc' = [rpc EXCEPT ![t] = to]

refill_resolve(t) ==
    /\ rpc[t] = "resolve" /\ RefillGoto(t, "gate")
    /\ \E K \in DcKeysFor(endpoints_for_same_dc(raddr[t])) : rkeys' = [rkeys EXCEPT ![t] = K]
    /\ UNCHANGED <<poolVars, healthVars, timerVars, inflight, inflight_dc, raddr, rtries>>

refill_gate(t) ==
    /\ rpc[t] = "gate"
    /\ inflight' = inflight \cup {raddr[t]}
    /\ RefillGoto(t, IF raddr[t] \in inflight THEN "done" ELSE "gate_dc")
    /\ UNCHANGED <<poolVars, healthVars, timerVars, inflight_dc, raddr, rkeys, rtries>>

(* After the gates: is the endpoint quarantined?  It decides which of the  *)
(* two loops of attempts comes first.                                      *)
EnterRefill(t) ==
    /\ RefillGoto(t, IF raddr[t] \in ToSet(quarantine) THEN "fallback" ELSE "same")
    /\ rtries' = [rtries EXCEPT ![t] = Max({FastRetries, 1})]

refill_gate_dc(t) ==
    /\ rpc[t] = "gate_dc"
    /\ IF rkeys[t] \cap inflight_dc # {}
       THEN RefillGoto(t, "skip") /\ UNCHANGED <<inflight_dc, rtries>>
       ELSE inflight_dc' = inflight_dc \cup rkeys[t] /\ EnterRefill(t)
    /\ UNCHANGED <<poolVars, healthVars, timerVars, inflight, raddr, rkeys>>

(* Faulty: a task skipped for its DC keeps its address in flight.          *)
refill_skip_keeps_addr(t) ==
    /\ rpc[t] = "skip" /\ RefillGoto(t, "done")
    /\ UNCHANGED <<poolVars, healthVars, timerVars, inflight, inflight_dc, raddr, rkeys, rtries>>

refill_skip(t) ==
    /\ rpc[t] = "skip" /\ RefillGoto(t, "done")
    /\ inflight' = inflight \ {raddr[t]}
    /\ UNCHANGED <<poolVars, healthVars, timerVars, inflight_dc, raddr, rkeys, rtries>>

(* Attempts on the endpoint that was lost.                                 *)
refill_same_endpoint(t) ==
    /\ rpc[t] = "same"
    /\ IF raddr[t] \in up
       THEN Connect(raddr[t]) /\ RefillGoto(t, "release") /\ UNCHANGED rtries
       ELSE /\ rtries' = [rtries EXCEPT ![t] = IF @ > 1 THEN @ - 1 ELSE Max({FastRetries, 1})]
            /\ RefillGoto(t, IF rtries[t] > 1 THEN "same" ELSE "fallback")
            /\ UNCHANGED alive
    /\ UNCHANGED <<pmap, up, busy, quarantine, budget, healthVars, timerVars,
                   inflight, inflight_dc, raddr, rkeys>>

(* Attempts on any endpoint of the DC.                                     *)
refill_fallback(t) ==
    LET S == endpoints_for_same_dc(raddr[t]) IN
    /\ rpc[t] = "fallback"
    /\ IF CanConnect(S)
       THEN connect_endpoints_round_robin(S) /\ RefillGoto(t, "release") /\ UNCHANGED rtries
       ELSE /\ rtries' = [rtries EXCEPT ![t] = @ - 1]
            /\ RefillGoto(t, IF rtries[t] > 1 /\ S # {} THEN "fallback" ELSE "release")
            /\ UNCHANGED alive
    /\ UNCHANGED <<pmap, up, busy, quarantine, budget, healthVars, timerVars,
                   inflight, inflight_dc, raddr, rkeys>>

refill_release(t) ==
    /\ rpc[t] = "release" /\ RefillGoto(t, "release_dc")
    /\ inflight' = inflight \ {raddr[t]}
    /\ UNCHANGED <<poolVars, healthVars, timerVars, inflight_dc, raddr, rkeys, rtries>>

(* Faulty: the keys are resolved again when the task ends.                 *)
refill_release_dc_resolved_again(t) ==
    /\ rpc[t] = "release_dc" /\ RefillGoto(t, "done")
    /\ \E K \in DcKeysFor(endpoints_for_same_dc(raddr[t])) : inflight_dc' = inflight_dc \ K
    /\ UNCHANGED <<poolVars, healthVars, timerVars, inflight, raddr, rkeys, rtries>>

refill_release_dc(t) ==
    /\ rpc[t] = "release_dc" /\ RefillGoto(t, "done")
    /\ inflight_dc' = inflight_dc \ rkeys[t]
    /\ UNCHANGED <<poolVars, healthVars, timerVars, inflight, raddr, rkeys, rtries>>

RefillMoves(t) ==
    \/ refill_resolve(t) \/ refill_gate(t) \/ refill_gate_dc(t) \/ refill_skip(t)
    \/ refill_release(t) \/ refill_release_dc(t)

RefillStep(t) == RefillMoves(t) \/ refill_same_endpoint(t) \/ refill_fallback(t)

-----------------------------------------------------------------------------
(* me_health_monitor: a tick reads the map and the writers once, then goes *)
(* through the DCs.                                                        *)
health_tick ==
    /\ hpc = "sleep"
    /\ hmap' = pmap /\ hsnap' = alive
    /\ htodo' = {d \in Dcs : pmap[d] # {}}
    /\ hpc' = IF htodo' = {} THEN "sleep" ELSE "dc"
    /\ UNCHANGED <<poolVars, refillVars, timerVars, hdc, hneed, hlost>>

SnapAlive(d) == MapThenSumSet(LAMBDA e : hsnap[e], hmap[d])
Single(d) == Cardinality(hmap[d]) = 1

(* Clients bound to a writer of the snapshot.                              *)
has_bound_clients_on_endpoint(d) == \E e \in hmap[d] : hsnap[e] > 0 /\ busy[e] > 0

(* should_reduce_floor_for_idle: its answer and the deadlines it leaves.   *)
ReduceForIdle(d) ==
    /\ Single(d) /\ Adaptive /\ ~has_bound_clients_on_endpoint(d)
    /\ d \notin grace /\ idle[d] = "long"

IdleAfter(d) ==
    IF ~Single(d) \/ ~Adaptive \/ has_bound_clients_on_endpoint(d) \/ d \in grace
    THEN "none" ELSE IF idle[d] = "none" THEN "short" ELSE idle[d]

GraceAfter(d) ==
    IF Single(d) /\ Adaptive /\ has_bound_clients_on_endpoint(d) THEN grace \cup {d}
    ELSE IF Single(d) /\ Adaptive THEN grace ELSE grace \ {d}

InOutage(d) == Single(d) /\ OutageMode /\ SnapAlive(d) = 0

(* Go on with DC d at pc or, when the tick is done with it, with the next  *)
(* DC; the last one ends the tick and its local variables.                 *)
NextDc(d, pc) ==
    /\ htodo' = htodo \ {d}
    /\ hpc' = IF pc = "sleep" /\ htodo' # {} THEN "dc" ELSE pc
    /\ IF hpc' = "sleep" THEN hsnap' = [e \in Endpoints |-> 0] /\ hlost' = {} /\ hdc' = None
                         ELSE UNCHANGED <<hsnap, hlost>> /\ hdc' = d

(* Leaving the outage of a DC clears all its deadlines.                    *)
outage_ends(d) ==
    IF d \in outage
    THEN /\ outage' = outage \ {d} /\ owait' = owait \ {d}
         /\ rwait' = rwait \ {d}
         /\ idle' = [idle EXCEPT ![d] = "none"] /\ grace' = grace \ {d}
    ELSE /\ UNCHANGED <<outage, owait, rwait>>
         /\ idle' = [idle EXCEPT ![d] = IdleAfter(d)] /\ grace' = GraceAfter(d)

check_outage(d) ==
    /\ hpc = "dc" /\ d \in htodo /\ InOutage(d)
    /\ outage' = outage \cup {d}
    /\ idle' = [idle EXCEPT ![d] = IdleAfter(d)] /\ grace' = GraceAfter(d)
    /\ NextDc(d, IF d \in owait THEN "sleep" ELSE "outage") 
    /\ UNCHANGED <<poolVars, refillVars, hmap, hneed, wait, owait, rwait>>

(* Faulty: missing is computed before the DC is known to lack writers.     *)
check_floor_subtracts_first(d) ==
    LET required == required_writers_for_dc_with_floor_mode(Cardinality(hmap[d]), ReduceForIdle(d))
        enough == SnapAlive(d) >= required
        held == d \in wait \/ has_refill_inflight_for_endpoints(hmap[d])
    IN /\ hpc = "dc" /\ d \in htodo /\ ~InOutage(d)
       /\ outage_ends(d)
       /\ hneed' = required - SnapAlive(d)
       /\ NextDc(d, IF enough /\ Single(d) /\ Rotate THEN "rotate" ELSE IF enough \/ held THEN "sleep" ELSE "connect")
       /\ UNCHANGED <<poolVars, refillVars, hmap, wait>>

check_floor(d) ==
    LET required == required_writers_for_dc_with_floor_mode(Cardinality(hmap[d]), ReduceForIdle(d))
        enough == SnapAlive(d) >= required
        held == d \in wait \/ has_refill_inflight_for_endpoints(hmap[d])
    IN /\ hpc = "dc" /\ d \in htodo /\ ~InOutage(d)
       /\ outage_ends(d)
       /\ hneed' = IF enough \/ held THEN 0 ELSE required - SnapAlive(d)
       /\ NextDc(d, IF enough /\ Single(d) /\ Rotate THEN "rotate" ELSE IF enough \/ held THEN "sleep" ELSE "connect")
       /\ UNCHANGED <<poolVars, refillVars, hmap, wait>>

(* One of the missing writers; the last attempt sets the next deadline.    *)
health_connect ==
    /\ hpc = "connect"
    /\ IF CanConnect(hmap[hdc]) THEN connect_endpoints_round_robin(hmap[hdc]) ELSE UNCHANGED alive
    /\ hneed' = hneed - 1
    /\ IF hneed = 1
       THEN wait' = wait \cup {hdc} /\ NextDc(hdc, "sleep")
       ELSE UNCHANGED <<wait, hpc, htodo, hsnap, hlost, hdc>>
    /\ UNCHANGED <<pmap, up, busy, quarantine, budget, refillVars,
                   hmap, idle, grace, owait, rwait, outage>>

(* recover_single_endpoint_outage, which passes by the quarantine.         *)
recover_single_endpoint_outage ==
    /\ hpc = "outage"
    /\ \E e \in hmap[hdc] : IF e \in up THEN Connect(e) ELSE UNCHANGED alive
    /\ owait' = owait \cup {hdc} /\ NextDc(hdc, "sleep")
    /\ UNCHANGED <<pmap, up, busy, quarantine, budget, refillVars,
                   hmap, hneed, idle, grace, wait, rwait, outage>>

(* maybe_rotate_single_endpoint_shadow: a writer without clients is chosen *)
(* and a new one connected before the old one is drained.  A writer that   *)
(* died since the tick read the pool has no clients and may be chosen.     *)
MayBeCandidate(e) == hsnap[e] > 0 /\ (e \in hlost \/ busy[e] < alive[e])
MayLackCandidate(e) == hsnap[e] = 0 \/ (e \notin hlost /\ busy[e] >= hsnap[e])

RotateEnds == rwait' = rwait \cup {hdc} /\ NextDc(hdc, "sleep")

rotate_skipped ==
    /\ hpc = "rotate"
    /\ \E e \in hmap[hdc] :
          IF hdc \in rwait THEN UNCHANGED rwait /\ NextDc(hdc, "sleep")
          ELSE /\ e \in ToSet(quarantine) \/ MayLackCandidate(e) \/ e \notin up
               /\ RotateEnds
    /\ UNCHANGED <<poolVars, refillVars, hmap, hneed, idle, grace, wait, owait, outage>>

(* Faulty: the old writer is drained first.                                *)
rotate_connect_drains_first ==
    /\ hpc = "rotate" /\ hdc \notin rwait
    /\ \E e \in hmap[hdc] \ ToSet(quarantine) :
          /\ MayBeCandidate(e)
          /\ alive' = [alive EXCEPT ![e] = IF e \in up THEN @ ELSE @ - 1]
    /\ RotateEnds
    /\ UNCHANGED <<pmap, up, busy, quarantine, budget, refillVars,
                   hmap, hneed, idle, grace, wait, owait, outage>>

rotate_connect ==
    /\ hpc = "rotate" /\ hdc \notin rwait
    /\ \E e \in hmap[hdc] \cap up :
          e \notin ToSet(quarantine) /\ MayBeCandidate(e) /\ Connect(e)
    /\ hpc' = "drain"
    /\ UNCHANGED <<pmap, up, busy, quarantine, budget, refillVars,
                   htodo, hmap, hsnap, hdc, hneed, hlost, timerVars>>

(* The old writer is marked draining, whatever was bound to it since it    *)
(* was chosen, unless it was lost in the meantime.                         *)
rotate_drain ==
    /\ hpc = "drain"
    /\ \E e \in hmap[hdc] :
          \/ /\ alive[e] > 0 /\ alive' = [alive EXCEPT ![e] = @ - 1]
             /\ busy' = [busy EXCEPT ![e] = Min({@, alive[e] - 1})]
          \/ e \in hlost /\ UNCHANGED <<alive, busy>>
    /\ RotateEnds
    /\ UNCHANGED <<pmap, up, quarantine, budget, refillVars,
                   hmap, hneed, idle, grace, wait, owait, outage>>

HealthStep ==
    \/ health_tick \/ (\E d \in Dcs : check_outage(d) \/ check_floor(d))
    \/ health_connect \/ recover_single_endpoint_outage
    \/ rotate_skipped \/ rotate_connect \/ rotate_drain

-----------------------------------------------------------------------------
(* The clock and the surroundings.                                         *)

reconnect_due(d) ==
    /\ d \in wait /\ wait' = wait \ {d}
    /\ UNCHANGED <<poolVars, refillVars, healthVars, idle, grace, owait, rwait, outage>>

outage_due(d) ==
    /\ d \in owait /\ owait' = owait \ {d}
    /\ UNCHANGED <<poolVars, refillVars, healthVars, idle, grace, wait, rwait, outage>>

deadline_passes(d) ==
    /\ \/ idle[d] = "short" /\ idle' = [idle EXCEPT ![d] = "long"] /\ UNCHANGED <<grace, rwait>>
       \/ d \in grace /\ grace' = grace \ {d} /\ UNCHANGED <<idle, rwait>>
       \/ d \in rwait /\ rwait' = rwait \ {d} /\ UNCHANGED <<idle, grace>>
    /\ UNCHANGED <<poolVars, refillVars, healthVars, wait, owait, outage>>

quarantine_ends ==
    /\ quarantine # << >> /\ quarantine' = Tail(quarantine)
    /\ UNCHANGED <<pmap, up, alive, busy, budget, refillVars, healthVars, timerVars>>

client_binds(e) ==
    /\ busy[e] < alive[e] /\ MapThenSumSet(LAMBDA c : busy[c], Endpoints) < budget.clients
    /\ busy' = [busy EXCEPT ![e] = @ + 1]
    /\ UNCHANGED <<pmap, up, alive, quarantine, budget, refillVars, healthVars, timerVars>>

client_leaves(e) ==
    /\ busy[e] > 0 /\ busy' = [busy EXCEPT ![e] = @ - 1]
    /\ UNCHANGED <<pmap, up, alive, quarantine, budget, refillVars, healthVars, timerVars>>

map_changes ==
    /\ budget.changes > 0 /\ budget' = [budget EXCEPT !.changes = @ - 1]
    /\ pmap' \in Maps \ {pmap}
    /\ UNCHANGED <<up, alive, busy, quarantine, refillVars, healthVars, timerVars>>

reachability_changes ==
    /\ budget.flips > 0 /\ budget' = [budget EXCEPT !.flips = @ - 1]
    /\ up' \in (SUBSET Endpoints) \ {up}
    /\ UNCHANGED <<pmap, alive, busy, quarantine, refillVars, healthVars, timerVars>>

UpkeepNext ==
    \/ \E e \in Endpoints, t \in Refills : writer_dies(e, t)
    \/ \E t \in Refills : RefillStep(t)
    \/ HealthStep
    \/ \E d \in Dcs : reconnect_due(d) \/ outage_due(d) \/ deadline_passes(d)
    \/ quarantine_ends
    \/ \E e \in Endpoints : client_binds(e) \/ client_leaves(e)
    \/ map_changes \/ reachability_changes

(* The monitor and the refill tasks are scheduled by tokio, and deadlines  *)
(* pass with the clock.  The monitor puts a timeout on every connect       *)
(* (health.rs:230, 362, 386, 510); a refill does not (pool_refill.rs:237,  *)
(* 274), and a connect that asks a web service for the public address may  *)
(* never return (pool_nat.rs:190): its attempts are not fair.              *)
UpkeepFairness ==
    /\ WF_upkeepVars(HealthStep)
    /\ \A t \in Refills : WF_upkeepVars(RefillMoves(t))
    /\ \A d \in Dcs : WF_upkeepVars(reconnect_due(d)) /\ WF_upkeepVars(outage_due(d))
    /\ WF_upkeepVars(quarantine_ends)

UpkeepSpec == UpkeepInit /\ [][UpkeepNext]_upkeepVars /\ UpkeepFairness

-----------------------------------------------------------------------------
(* Properties.                                                             *)

Working == {"same", "fallback", "release", "release_dc"}
HoldsAddr == {"gate_dc", "skip", "same", "fallback", "release"}

(* The two in-flight sets hold exactly what the running refill tasks put   *)
(* there: no key outlives its task, although the map may change while it   *)
(* runs, and no task loses its key to another's clean-up                   *)
(* (pool_refill.rs:298-333).  A leaked key would keep both later refills   *)
(* and the health monitor away from the DC for ever.                       *)
InflightAccounted ==
    /\ inflight = {raddr[t] : t \in {r \in Refills : rpc[r] \in HoldsAddr}}
    /\ inflight_dc = UNION {rkeys[t] : t \in {r \in Refills : rpc[r] \in Working}}

(* Two refills never work for the same DC or from the same address at the  *)
(* same time, although the gates are two locks taken one after the other   *)
(* (pool_refill.rs:298-316).                                               *)
RefillSingleFlight ==
    \A t, u \in Refills : t # u =>
        /\ rpc[t] \in HoldsAddr /\ rpc[u] \in HoldsAddr => raddr[t] # raddr[u]
        /\ rpc[t] \in Working /\ rpc[u] \in Working => rkeys[t] \cap rkeys[u] = {}

AliveOf(d) == MapThenSumSet(LAMBDA e : alive[e], pmap[d])
Floor(d) == required_writers_for_dc_with_floor_mode(Cardinality(pmap[d]), \A e \in pmap[d] : busy[e] = 0)

(* A rotation of the shadow writer of a single-endpoint DC never leaves    *)
(* the endpoint with fewer writers than the tick found, unless a writer    *)
(* died in the meantime (health.rs:443-553).                               *)
RotationKeepsWriters ==
    [][(hpc \in {"rotate", "drain"} /\ hpc' # hpc)
         => (\A e \in hmap[hdc] \ hlost : alive'[e] >= hsnap[e])]_upkeepVars

(* The health monitor and the refills restore the floor: while the         *)
(* endpoints of a DC answer and no attempt of a refill lasts for ever, the *)
(* DC is at its floor again and again - whatever died, was quarantined,    *)
(* backed off or refilled at the same time, and with the full floor as     *)
(* long as clients are bound (health.rs:124-287, 290-327,                  *)
(* pool_refill.rs:292-335).  Without the second condition it fails: a      *)
(* refill that hangs keeps its mark, and the monitor keeps off the DC.     *)
FloorRestored ==
    (\A t \in Refills : []<>(rpc[t] \notin {"same", "fallback"}))
        => \A d \in Dcs : <>[](pmap[d] \subseteq up) => []<>(AliveOf(d) >= Floor(d))

(* RefillMarksRight: the in-flight marks of trigger_immediate_refill are   *)
(* those of the tasks that are running, map changes and early returns      *)
(* included, so no refill is blocked by a mark nobody holds, and no two    *)
(* tasks refill the same endpoint or DC.                                   *)
RefillMarksRight == InflightAccounted /\ RefillSingleFlight
=============================================================================
