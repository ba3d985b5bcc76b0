----------------------------- MODULE PoolReinit -----------------------------
(***************************************************************************)
(* The rotation of the Middle-End pool after a change of the endpoint map, *)
(* transport/middle_proxy/pool_reinit.rs, with the readers-writer lock it  *)
(* shares with everyone who touches the pool.                              *)
(*                                                                         *)
(* One cycle (zero_downtime_reinit_after_map_change) takes a snapshot of   *)
(* the map and chooses a generation.  With hardswap it then opens Warm     *)
(* writers of that generation, promotes them once every DC has enough of   *)
(* them, and drains every older writer.  Without hardswap it connects the  *)
(* DCs no writer reaches and drains the writers the map no longer names.   *)
(* The scheduler runs one cycle at a time (me_reinit_singleflight).        *)
(*                                                                         *)
(* The lock is tokio's RwLock: requests are served in order of arrival, so *)
(* a read waits behind a write that was queued before it.  Sections that   *)
(* hold the lock without awaiting anything are one step; a section that    *)
(* only reads is taken when the queue is empty.  Around the cycle run the  *)
(* other users of the pool: connects of the health and refill tasks        *)
(* (connect_one), and removals (remove_writer_only).                       *)
(***************************************************************************)
EXTENDS Naturals, Sequences, FiniteSets, FiniteSetsExt

CONSTANTS Addrs,        \* Middle-End endpoints
          Plans,        \* what a behaviour may be about, see below
          NumWriters,   \* bound: writers ever connected
          Shadow,       \* me_single_endpoint_shadow_writers
          MaxDeaths,    \* bound: writers that fail
          Nil

Writers == 1..NumWriters

(* A plan holds the endpoint maps that may be applied, keyed by |dc|, the  *)
(* writers a DC requires (floor, 3 in the code), the extra passes of the   *)
(* warm-up (me_hardswap_warmup_extra_passes), whether a reload may flip    *)
(* hardswap (toggle), and bounds: the map changes, expiries and toggles    *)
(* (changes), the connects outside the cycle (dials), and the cycles.      *)
ASSUME ReinitAssumption ==
    /\ {NumWriters, Shadow, MaxDeaths} \subseteq Nat /\ IsFiniteSet(Addrs)
    /\ \A p \in Plans :
          /\ \A m, n \in p.maps : DOMAIN m = DOMAIN n
          /\ \A m \in p.maps : IsFiniteSet(DOMAIN m) /\ Cardinality(DOMAIN m) <= NumWriters
          /\ \A m \in p.maps : \A d \in DOMAIN m : m[d] \in (SUBSET Addrs) \ {{}}
          /\ p.floor \in Nat \ {0} /\ p.passes \in 0..10 /\ p.toggle \in BOOLEAN
          /\ {p.changes, p.dials, p.cycles} \subseteq Nat

VARIABLES
    plan,               \* the plan of this behaviour
    wmap,               \* proxy_map_v4 / v6, keyed by |dc|
    hardswap,           \* the hot-reloadable flag
    generation,         \* last generation number handed out
    active_generation,
    warm_generation,
    pending,            \* pending_hardswap_{generation, map_hash} and its TTL
    st,                 \* writer -> none, dialing, connected (push queued), pool, gone
    wgen,               \* MeWriter.generation
    addr,               \* MeWriter.addr
    contour,            \* MeWriter.contour; Draining together with the draining flag
    guards,             \* read guards the cycle holds on pool.writers
    queue,              \* requests waiting for pool.writers, in order of arrival
    ri,                 \* the cycle: program counter and locals
    covered,            \* history: the map the last passed coverage check was for
    died,               \* history: writers removed since that check
    changes, dials, cycles

mapVars  == <<wmap, hardswap>>
genVars  == <<generation, active_generation, warm_generation, pending>>
wrVars   == <<st, wgen, addr, contour>>
lockVars == <<guards, queue>>
histVars == <<covered, died>>
boundVars == <<changes, dials, cycles>>
reinitVars == <<plan, mapVars, genVars, wrVars, lockVars, ri, histVars, boundVars>>

NoPending == [gen |-> 0, map |-> Nil, expired |-> FALSE]

Requests == [op : {"guard", "promote"}] \cup [op : {"push", "drain", "remove"}, w : Writers]

DCs == DOMAIN wmap
Entries == DCs \X {"dc", "mirror"}

Idle == [pc |-> "idle", hs |-> FALSE, gen |-> 0, desired |-> Nil, todo |-> {},
         dc |-> Nil, left |-> 0, pass |-> 0, w |-> 0, reach |-> {}, stale |-> {}]

(* The variables hold the values the fields of MePool and the locals of a  *)
(* cycle can hold (pool.rs, pool_reinit.rs:311-488), and the cycle holds a *)
(* guard exactly in the two sections that the guard spans.                 *)
ReinitTypeOK ==
    /\ wmap \in plan.maps /\ hardswap \in BOOLEAN
    /\ {generation, active_generation, warm_generation} \subseteq Nat
    /\ pending \in [gen : Nat, map : plan.maps \cup {Nil}, expired : BOOLEAN]
    /\ st \in [Writers -> {"none", "dialing", "connected", "pool", "gone"}]
    /\ wgen \in [Writers -> Nat] /\ addr \in [Writers -> Addrs \cup {Nil}]
    /\ contour \in [Writers -> {"Active", "Warm", "Draining"}]
    /\ queue \in Seq(Requests)
    /\ guards = IF ri.pc \in {"check", "promote"} THEN 1 ELSE 0
    /\ ri.pc \in {"idle", "warm", "attempt", "reconcile", "entries", "connect",
                  "guard", "check", "promote", "drain", "draining"}
    /\ ri.stale \subseteq Writers /\ ri.left \in Nat /\ ri.pass \in 0..plan.passes
    /\ covered \in plan.maps /\ died \subseteq Writers

(* The pool after start-up: generation 1, every DC of the map reachable.   *)
ReinitInit ==
    /\ plan \in Plans
    /\ wmap \in plan.maps /\ hardswap \in (IF plan.toggle THEN BOOLEAN ELSE {TRUE})
    /\ generation = 1 /\ active_generation = 1 /\ warm_generation = 0
    /\ pending = NoPending
    /\ \E a \in [1..Cardinality(DCs) -> Addrs] :
          /\ \A d \in DCs : \E i \in DOMAIN a : a[i] \in wmap[d]
          /\ addr = [w \in Writers |-> IF w \in DOMAIN a THEN a[w] ELSE Nil]
    /\ st = [w \in Writers |-> IF w <= Cardinality(DCs) THEN "pool" ELSE "none"]
    /\ wgen = [w \in Writers |-> 1]
    /\ contour = [w \in Writers |-> "Active"]
    /\ guards = 0 /\ queue = << >>
    /\ ri = Idle
    /\ covered = wmap /\ died = {}
    /\ changes = 0 /\ dials = 0 /\ cycles = 0

-----------------------------------------------------------------------------
(* Readings of the pool.                                                   *)

Serving == {w \in Writers : st[w] = "pool" /\ contour[w] # "Draining"}

required_writers_for_dc(n) ==
    IF n = 0 THEN 0 ELSE IF n = 1 THEN Max({1 + Shadow, plan.floor}) ELSE Max({n, plan.floor})

Required(d) == required_writers_for_dc(Cardinality(ri.desired[d]))

fresh_writer_count(gen, endpoints) ==
    Cardinality({w \in Serving : wgen[w] = gen /\ addr[w] \in endpoints})

coverage_complete(desired) ==
    \A d \in DCs : \E w \in Serving : addr[w] \in desired[d]

fresh_coverage_complete ==
    \A d \in DCs : fresh_writer_count(ri.gen, ri.desired[d]) >= Required(d)

(* A read of the pool that awaits nothing while it holds the lock.         *)
ShortRead == queue = << >>

(* A new writer: the dial succeeded and its push waits for the write lock. *)
NextId == CHOOSE w \in Writers : st[w] = "none" /\ \A v \in 1..(w - 1) : st[v] # "none"

FreeId == \E w \in Writers : st[w] = "none"

Connected(a, gen, cont) ==
    /\ FreeId
    /\ st' = [st EXCEPT ![NextId] = "connected"]
    /\ wgen' = [wgen EXCEPT ![NextId] = gen]
    /\ addr' = [addr EXCEPT ![NextId] = a]
    /\ contour' = [contour EXCEPT ![NextId] = cont]
    /\ queue' = Append(queue, [op |-> "push", w |-> NextId])

(* The connect the cycle started has returned: its push was served.        *)
Returned == ri.w \notin {w \in Writers : st[w] = "connected"}

-----------------------------------------------------------------------------
(* The cycle.                                                              *)

PendingUsable ==
    /\ pending.gen # 0 /\ pending.gen >= active_generation
    /\ pending.map = wmap /\ ~pending.expired

NewGeneration == generation' = generation + 1

(* Faulty: a pending generation is never picked up again.                  *)
choose_generation_always_new ==
    IF hardswap
    THEN /\ NewGeneration
         /\ pending' = [gen |-> generation', map |-> wmap, expired |-> FALSE]
         /\ warm_generation' = generation'
    ELSE /\ NewGeneration /\ pending' = NoPending /\ warm_generation' = 0

choose_generation ==
    IF ~hardswap
    THEN NewGeneration /\ pending' = NoPending /\ warm_generation' = 0
    ELSE IF PendingUsable
    THEN UNCHANGED <<generation, pending>> /\ warm_generation' = pending.gen
    ELSE /\ NewGeneration
         /\ pending' = [gen |-> generation', map |-> wmap, expired |-> FALSE]
         /\ warm_generation' = generation'

start_reinit ==
    /\ ri.pc = "idle" /\ cycles < plan.cycles /\ cycles' = cycles + 1
    /\ choose_generation
    /\ ri' = [Idle EXCEPT !.pc = IF hardswap THEN "warm" ELSE "reconcile", !.hs = hardswap,
                          !.gen = IF hardswap THEN pending'.gen ELSE generation',
                          !.desired = wmap, !.todo = DCs]
    /\ UNCHANGED <<mapVars, active_generation, wrVars, lockVars, histVars, changes, dials>>

(* warmup_generation_for_all_dcs: the next DC, in any order, and how many  *)
(* writers of the generation it lacks.                                     *)
Lacking(d) ==
    LET fresh == fresh_writer_count(ri.gen, ri.desired[d])
    IN  IF fresh >= Required(d) THEN 0 ELSE Required(d) - fresh

warm_dc ==
    /\ ri.pc = "warm" /\ ShortRead
    /\ \E d \in ri.todo :
          ri' = IF Lacking(d) = 0
                THEN [ri EXCEPT !.todo = @ \ {d}]
                ELSE [ri EXCEPT !.pc = "attempt", !.dc = d, !.left = Lacking(d), !.pass = 0, !.w = 0]
    /\ UNCHANGED <<mapVars, genVars, wrVars, lockVars, histVars, boundVars>>

warm_attempt ==
    /\ ri.pc = "attempt" /\ ri.left > 0 /\ Returned
    /\ \/ /\ \E a \in ri.desired[ri.dc] : Connected(a, ri.gen, "Warm")
          /\ ri' = [ri EXCEPT !.left = @ - 1, !.w = NextId]
       \/ /\ ri' = [ri EXCEPT !.left = @ - 1, !.w = 0]
          /\ UNCHANGED <<wrVars, queue>>
    /\ UNCHANGED <<mapVars, genVars, guards, histVars, boundVars>>

warm_pass_done ==
    /\ ri.pc = "attempt" /\ ri.left = 0 /\ Returned /\ ShortRead
    /\ ri' = IF Lacking(ri.dc) > 0 /\ ri.pass < plan.passes
             THEN [ri EXCEPT !.pass = @ + 1, !.left = Lacking(ri.dc), !.w = 0]
             ELSE [ri EXCEPT !.pc = "warm", !.todo = @ \ {ri.dc}, !.w = 0]
    /\ UNCHANGED <<mapVars, genVars, wrVars, lockVars, histVars, boundVars>>

(* reconcile_connections: which endpoints have a writer, then every entry  *)
(* of the map as it is now (each DC and its negative mirror).              *)
reconcile_read ==
    /\ ri.pc = "reconcile" /\ ShortRead
    /\ ri' = [ri EXCEPT !.pc = "entries", !.reach = {addr[w] : w \in Serving}]
    /\ UNCHANGED <<mapVars, genVars, wrVars, lockVars, histVars, boundVars>>

reconcile_entries ==
    /\ ri.pc = "entries"
    /\ ri' = [ri EXCEPT !.pc = "connect",
                        !.todo = {e \in Entries : wmap[e[1]] \cap ri.reach = {}}
                                     \X {wmap}]
    /\ UNCHANGED <<mapVars, genVars, wrVars, lockVars, histVars, boundVars>>

reconcile_connect ==
    /\ ri.pc = "connect" /\ Returned
    /\ \E e \in ri.todo :
          \/ /\ \E a \in e[2][e[1][1]] : Connected(a, active_generation, "Active")
             /\ ri' = [ri EXCEPT !.todo = @ \ {e}, !.w = NextId]
          \/ /\ ri' = [ri EXCEPT !.todo = @ \ {e}, !.w = 0]
             /\ UNCHANGED <<wrVars, queue>>
    /\ UNCHANGED <<mapVars, genVars, guards, histVars, boundVars>>

(* pool.writers.read() for the coverage check.                             *)
request_guard ==
    /\ ri.pc \in {"warm", "connect"} /\ ri.todo = {} /\ Returned
    /\ queue' = Append(queue, [op |-> "guard"])
    /\ ri' = [ri EXCEPT !.pc = "guard", !.w = 0]
    /\ UNCHANGED <<mapVars, genVars, wrVars, guards, histVars, boundVars>>

take_guard ==
    /\ queue # << >> /\ Head(queue).op = "guard"
    /\ queue' = Tail(queue) /\ guards' = guards + 1
    /\ ri' = [ri EXCEPT !.pc = "check"]
    /\ UNCHANGED <<mapVars, genVars, wrVars, histVars, boundVars>>

(* The writers a covered cycle drains: older generations after a hardswap, *)
(* endpoints the map no longer names otherwise.                            *)
stale_writers ==
    {w \in Serving : IF ri.hs THEN wgen[w] < ri.gen
                     ELSE \A d \in DCs : addr[w] \notin ri.desired[d]}

check_fails ==
    /\ ri.pc = "check"
    /\ ~(IF ri.hs THEN fresh_coverage_complete ELSE coverage_complete(ri.desired))
    /\ guards' = 0 /\ ri' = Idle
    /\ UNCHANGED <<mapVars, genVars, wrVars, queue, histVars, boundVars>>

(* Faulty: any writer on the DC's endpoints counts as fresh.               *)
hardswap_covered_stale_counts ==
    /\ ri.pc = "check" /\ ri.hs /\ coverage_complete(ri.desired)
    /\ active_generation' = ri.gen /\ warm_generation' = 0
    /\ queue' = Append(queue, [op |-> "promote"])
    /\ ri' = [ri EXCEPT !.pc = "promote"]
    /\ covered' = ri.desired /\ died' = {}
    /\ UNCHANGED <<mapVars, generation, pending, wrVars, guards, boundVars>>

(* The fresh generation covers every DC: promote_warm_generation_to_active *)
(* stores the generation and asks for a second read guard.                 *)
hardswap_covered ==
    /\ ri.pc = "check" /\ ri.hs /\ fresh_coverage_complete
    /\ active_generation' = ri.gen /\ warm_generation' = 0
    /\ queue' = Append(queue, [op |-> "promote"])
    /\ ri' = [ri EXCEPT !.pc = "promote"]
    /\ covered' = ri.desired /\ died' = {}
    /\ UNCHANGED <<mapVars, generation, pending, wrVars, guards, boundVars>>

(* Faulty: the guard of the coverage check outlives the choice of the      *)
(* stale writers (no drop(writers) before the drains).                     *)
promote_keeps_guard ==
    /\ queue # << >> /\ Head(queue).op = "promote"
    /\ contour' = [w \in Writers |-> IF w \in Serving /\ wgen[w] = ri.gen
                                     THEN "Active" ELSE contour[w]]
    /\ queue' = Tail(queue) /\ guards' = 1
    /\ ri' = [ri EXCEPT !.pc = "drain", !.stale = stale_writers]
    /\ UNCHANGED <<mapVars, genVars, st, wgen, addr, histVars, boundVars>>

promote ==
    /\ queue # << >> /\ Head(queue).op = "promote"
    /\ contour' = [w \in Writers |-> IF w \in Serving /\ wgen[w] = ri.gen
                                     THEN "Active" ELSE contour[w]]
    /\ queue' = Tail(queue) /\ guards' = 0
    /\ ri' = [ri EXCEPT !.pc = "drain", !.stale = stale_writers]
    /\ UNCHANGED <<mapVars, genVars, st, wgen, addr, histVars, boundVars>>

soft_covered ==
    /\ ri.pc = "check" /\ ~ri.hs /\ coverage_complete(ri.desired)
    /\ guards' = 0
    /\ ri' = [ri EXCEPT !.pc = "drain", !.stale = stale_writers]
    /\ covered' = ri.desired /\ died' = {}
    /\ UNCHANGED <<mapVars, genVars, wrVars, queue, boundVars>>

drain_request ==
    /\ ri.pc = "drain"
    /\ \E w \in ri.stale :
          /\ queue' = Append(queue, [op |-> "drain", w |-> w])
          /\ ri' = [ri EXCEPT !.pc = "draining", !.w = w]
    /\ UNCHANGED <<mapVars, genVars, wrVars, guards, histVars, boundVars>>

finish_reinit ==
    /\ ri.pc = "drain" /\ ri.stale = {}
    /\ IF ri.hs THEN pending' = NoPending /\ warm_generation' = 0
                ELSE UNCHANGED <<pending, warm_generation>>
    /\ ri' = Idle
    /\ UNCHANGED <<mapVars, generation, active_generation, wrVars, lockVars, histVars, boundVars>>

-----------------------------------------------------------------------------
(* Requests that need the lock for writing, served at the head of the      *)
(* queue once no read guard is held.                                       *)

Granted(op) == queue # << >> /\ Head(queue).op = op /\ guards = 0 /\ queue' = Tail(queue)

(* pool.writers.write().await.push(writer)                                 *)
push_writer ==
    /\ Granted("push")
    /\ st' = [st EXCEPT ![Head(queue).w] = "pool"]
    /\ UNCHANGED <<mapVars, genVars, wgen, addr, contour, guards, ri, histVars, boundVars>>

(* mark_writer_draining_with_timeout, called by the cycle.                 *)
mark_writer_draining ==
    /\ Granted("drain")
    /\ contour' = IF st[Head(queue).w] = "pool"
                  THEN [contour EXCEPT ![Head(queue).w] = "Draining"] ELSE contour
    /\ ri' = [ri EXCEPT !.pc = "drain", !.stale = @ \ {Head(queue).w}, !.w = 0]
    /\ UNCHANGED <<mapVars, genVars, st, wgen, addr, guards, histVars, boundVars>>

(* remove_writer_only takes the writer out of the pool.                    *)
remove_writer ==
    /\ Granted("remove")
    /\ st' = [st EXCEPT ![Head(queue).w] = "gone"]
    /\ died' = died \cup {Head(queue).w}
    /\ UNCHANGED <<mapVars, genVars, wgen, addr, contour, guards, ri, covered, boundVars>>

-----------------------------------------------------------------------------
(* The rest of the system.                                                 *)

(* connect_one of the health and refill tasks reads the generation before  *)
(* it dials ...                                                            *)
dial ==
    /\ FreeId /\ dials < plan.dials /\ dials' = dials + 1
    /\ \E d \in DCs : \E a \in wmap[d] : addr' = [addr EXCEPT ![NextId] = a]
    /\ st' = [st EXCEPT ![NextId] = "dialing"]
    /\ wgen' = [wgen EXCEPT ![NextId] = active_generation]
    /\ UNCHANGED <<mapVars, genVars, contour, lockVars, ri, histVars, changes, cycles>>

(* ... and asks to push the writer when the handshake is over.             *)
dialed(w) ==
    /\ st[w] = "dialing"
    /\ st' = [st EXCEPT ![w] = "connected"]
    /\ queue' = Append(queue, [op |-> "push", w |-> w])
    /\ UNCHANGED <<mapVars, genVars, wgen, addr, contour, guards, ri, histVars, boundVars>>

Removals == {w \in Writers : st[w] = "gone"}
                \cup {queue[i].w : i \in {j \in DOMAIN queue : queue[j].op = "remove"}}

(* A writer of the pool fails; its reader or ping task removes it.         *)
writer_dies(w) ==
    /\ st[w] = "pool" /\ w \notin Removals /\ Cardinality(Removals) < MaxDeaths
    /\ queue' = Append(queue, [op |-> "remove", w |-> w])
    /\ UNCHANGED <<mapVars, genVars, wrVars, guards, ri, histVars, boundVars>>

(* update_proxy_maps applies a new map.                                    *)
update_proxy_maps ==
    /\ changes < plan.changes /\ changes' = changes + 1
    /\ wmap' \in plan.maps \ {wmap}
    /\ UNCHANGED <<hardswap, genVars, wrVars, lockVars, ri, histVars, dials, cycles>>

(* ME_HARDSWAP_PENDING_TTL_SECS elapse since the pending generation began. *)
pending_expires ==
    /\ changes < plan.changes /\ changes' = changes + 1
    /\ pending.gen # 0 /\ ~pending.expired
    /\ pending' = [pending EXCEPT !.expired = TRUE]
    /\ UNCHANGED <<mapVars, generation, active_generation, warm_generation, wrVars,
                   lockVars, ri, histVars, dials, cycles>>

(* update_runtime_reinit_policy stores the reloaded flag.                  *)
toggle_hardswap ==
    /\ plan.toggle /\ changes < plan.changes /\ changes' = changes + 1
    /\ hardswap' = ~hardswap
    /\ UNCHANGED <<wmap, genVars, wrVars, lockVars, ri, histVars, dials, cycles>>

CycleStep ==
    \/ start_reinit \/ warm_dc \/ warm_attempt \/ warm_pass_done
    \/ reconcile_read \/ reconcile_entries \/ reconcile_connect
    \/ request_guard \/ take_guard \/ check_fails
    \/ hardswap_covered \/ promote \/ soft_covered
    \/ drain_request \/ finish_reinit

LockStep == push_writer \/ mark_writer_draining \/ remove_writer

EnvironmentStep ==
    \/ dial \/ \E w \in Writers : dialed(w) \/ writer_dies(w)
    \/ update_proxy_maps \/ pending_expires \/ toggle_hardswap

Cycle == CycleStep /\ UNCHANGED plan
Lock == LockStep /\ UNCHANGED plan
Environment == EnvironmentStep /\ UNCHANGED plan

ReinitNext == Cycle \/ Lock \/ Environment

ReinitSpec == ReinitInit /\ [][ReinitNext]_reinitVars

(* The runtime polls a woken task again, and tokio's lock wakes the head   *)
(* of its queue when the guards before it are dropped.                     *)
ReinitFairSpec == ReinitSpec /\ WF_reinitVars(Cycle) /\ WF_reinitVars(Lock)

-----------------------------------------------------------------------------
(* Properties.                                                             *)

(* Rotation never takes the last writer of a DC out of service: for the    *)
(* map the last passed coverage check was made for, every DC still has a   *)
(* writer on its endpoints that is not draining, unless it failed by       *)
(* itself after the check (pool_reinit.rs:402-435 against 446-484, with    *)
(* map changes, removals and connects in between).                         *)
SwapKeepsCoverage ==
    \A d \in DCs : \E w \in Writers :
        /\ st[w] = "pool" \/ w \in died
        /\ contour[w] # "Draining"
        /\ addr[w] \in covered[d]

(* No writer is left behind in the Warm contour: between cycles, when no   *)
(* generation is pending, every writer in service is Active, unless the    *)
(* flag was flipped while a generation was pending                         *)
(* (promote_warm_generation_to_active, pool_reinit.rs:46-61, and the drain *)
(* of abandoned generations, 446-484).                                     *)
NoOrphanWarm ==
    ~plan.toggle /\ ri.pc = "idle" /\ pending.gen = 0 => \A w \in Serving : contour[w] = "Active"

(* What a cycle warmed up is not thrown away: while the map stays the same *)
(* and the pending generation does not expire, no Warm writer is drained,  *)
(* however many cycles the warm-up takes (pool_reinit.rs:323-344).         *)
WarmKept ==
    [][\A w \in Writers : changes = 0 /\ contour[w] = "Warm" => contour'[w] # "Draining"]_reinitVars

(* A hardswap whose new generation covers every DC goes on to drain the    *)
(* old pool and ends.  config.full.toml:163 says it "等待完全就绪，迁移流量，     *)
(* 然后关闭旧池" (waits until ready, moves the traffic, closes the old pool).  *)
SwapCompletes == ri.pc = "promote" ~> ri.pc = "idle"

(* WarmAccounted: what a cycle has warmed is neither forgotten nor drained *)
(* by a later cycle for the same map: between cycles only a pending        *)
(* generation has Warm writers, and these never become Draining.           *)
WarmAccounted == []NoOrphanWarm /\ WarmKept
=============================================================================
