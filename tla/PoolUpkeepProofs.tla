-------------------------- MODULE PoolUpkeepProofs --------------------------
(***************************************************************************)
(* The refills and the rotation of shadow writers, for any map, any        *)
(* endpoints and any number of writers that die.                           *)
(*                                                                         *)
(* The in-flight sets and the single flight of the refills need each       *)
(* other: a task may clear its mark only because no other task shares it,  *)
(* and no other task shares it only because the mark was there.  A         *)
(* rotation keeps the writers of its endpoint because the writer it drains *)
(* is one more than the tick had found (RotationInv).                      *)
(***************************************************************************)
EXTENDS PoolUpkeep, FiniteSetTheorems, TLAPS

RefillTypes ==
    rpc \in [Refills -> RefillPcs] /\ DOMAIN raddr = Refills /\ DOMAIN rkeys = Refills

MarksInv == RefillTypes /\ RefillMarksRight

-----------------------------------------------------------------------------
(* The marks.                                                              *)

LEMMA MarksInit == UpkeepInit => MarksInv
  BY DEF UpkeepInit, MarksInv, RefillTypes, RefillPcs, RefillMarksRight, InflightAccounted,
         RefillSingleFlight, HoldsAddr, Working

\* A task that does not hold a mark before or after its step.
LEMMA MarksOutside ==
  ASSUME MarksInv, NEW t \in Refills, NEW p \in RefillPcs \ (HoldsAddr \cup Working),
         rpc[t] \notin HoldsAddr \cup Working, RefillGoto(t, p),
         DOMAIN raddr' = Refills, DOMAIN rkeys' = Refills,
         \A u \in Refills \ {t} : raddr'[u] = raddr[u] /\ rkeys'[u] = rkeys[u],
         UNCHANGED <<inflight, inflight_dc>>
  PROVE  MarksInv'
<1>1. rpc' \in [Refills -> RefillPcs]
  BY DEF MarksInv, RefillTypes, RefillGoto
<1>2. /\ \A u \in Refills : rpc'[u] \in HoldsAddr <=> rpc[u] \in HoldsAddr
      /\ \A u \in Refills : rpc'[u] \in Working <=> rpc[u] \in Working
      /\ \A u \in Refills : rpc[u] \in HoldsAddr => raddr'[u] = raddr[u]
      /\ \A u \in Refills : rpc[u] \in Working => rkeys'[u] = rkeys[u]
  BY DEF MarksInv, RefillTypes, RefillGoto
<1>3. {u \in Refills : rpc'[u] \in HoldsAddr} = {u \in Refills : rpc[u] \in HoldsAddr}
      /\ {u \in Refills : rpc'[u] \in Working} = {u \in Refills : rpc[u] \in Working}
  BY <1>2, SMTT(30)
<1>4. InflightAccounted'
  BY <1>2, <1>3 DEF MarksInv, RefillMarksRight, InflightAccounted
<1>5. RefillSingleFlight'
  BY <1>2, SMTT(30) DEF MarksInv, RefillMarksRight, RefillSingleFlight
<1> QED BY <1>1, <1>4, <1>5, SMTT(30) DEF MarksInv, RefillTypes, RefillMarksRight

\* A step from one place to another that takes or clears marks: what is left to
\* show are the two sets and the single flight.
LEMMA MarksMove ==
  ASSUME MarksInv, NEW t \in Refills, NEW p \in RefillPcs, RefillGoto(t, p), UNCHANGED <<raddr, rkeys>>,
         \* the address
         \/ UNCHANGED inflight /\ (rpc[t] \in HoldsAddr <=> p \in HoldsAddr)
         \/ rpc[t] \notin HoldsAddr /\ p \in HoldsAddr /\ raddr[t] \notin inflight
            /\ inflight' = inflight \cup {raddr[t]}
         \/ rpc[t] \in HoldsAddr /\ p \notin HoldsAddr /\ inflight' = inflight \ {raddr[t]},
         \* the keys
         \/ UNCHANGED inflight_dc /\ (rpc[t] \in Working <=> p \in Working)
         \/ rpc[t] \notin Working /\ p \in Working /\ rkeys[t] \cap inflight_dc = {}
            /\ inflight_dc' = inflight_dc \cup rkeys[t]
         \/ rpc[t] \in Working /\ p \notin Working /\ inflight_dc' = inflight_dc \ rkeys[t]
  PROVE  MarksInv'
<1>1. rpc' \in [Refills -> RefillPcs] /\ rpc'[t] = p /\ \A u \in Refills \ {t} : rpc'[u] = rpc[u]
  BY DEF MarksInv, RefillTypes, RefillGoto
<1>2. /\ \A a : a \in inflight <=> \E u \in Refills : rpc[u] \in HoldsAddr /\ a = raddr[u]
      /\ \A k : k \in inflight_dc <=> \E u \in Refills : rpc[u] \in Working /\ k \in rkeys[u]
  BY DEF MarksInv, RefillMarksRight, InflightAccounted
<1>3. \A u \in Refills \ {t} :
         /\ rpc[u] \in HoldsAddr /\ rpc[t] \in HoldsAddr => raddr[u] # raddr[t]
         /\ rpc[u] \in Working /\ rpc[t] \in Working => rkeys[u] \cap rkeys[t] = {}
  BY DEF MarksInv, RefillMarksRight, RefillSingleFlight
<1>4. \A a : a \in inflight' <=> \E u \in Refills : rpc'[u] \in HoldsAddr /\ a = raddr[u]
  BY <1>1, <1>2, <1>3
<1>5. \A k : k \in inflight_dc' <=> \E u \in Refills : rpc'[u] \in Working /\ k \in rkeys[u]
  BY <1>1, <1>2, <1>3, SMTT(30)
<1>6. InflightAccounted'
  <2>1. inflight' = {raddr[u] : u \in {v \in Refills : rpc'[v] \in HoldsAddr}}
    BY <1>4, SMTT(30)
  <2>2. inflight_dc' = UNION {rkeys[u] : u \in {v \in Refills : rpc'[v] \in Working}}
    BY <1>5, SMTT(30)
  <2> QED BY <2>1, <2>2 DEF InflightAccounted
<1>7. ASSUME NEW u \in Refills, NEW v \in Refills, u # v
      PROVE  /\ rpc'[u] \in HoldsAddr /\ rpc'[v] \in HoldsAddr => raddr[u] # raddr[v]
             /\ rpc'[u] \in Working /\ rpc'[v] \in Working => rkeys[u] \cap rkeys[v] = {}
  <2>1. /\ rpc[u] \in HoldsAddr /\ rpc[v] \in HoldsAddr => raddr[u] # raddr[v]
        /\ rpc[u] \in Working /\ rpc[v] \in Working => rkeys[u] \cap rkeys[v] = {}
    BY <1>7, SMTT(30) DEF MarksInv, RefillMarksRight, RefillSingleFlight
  <2>2. CASE u # t /\ v # t
    BY <1>1, <2>1, <2>2
  <2>3. CASE u = t
    BY <1>1, <1>2, <1>7, <2>1, <2>3
  <2>4. CASE v = t
    BY <1>1, <1>2, <1>7, <2>1, <2>4, SMTT(30)
  <2> QED BY <2>2, <2>3, <2>4
<1>8. RefillSingleFlight'
  BY <1>7, SMTT(30) DEF RefillSingleFlight
<1> QED BY <1>1, <1>6, <1>8, SMTT(30) DEF MarksInv, RefillTypes, RefillMarksRight

LEMMA MarksRefill ==
  ASSUME MarksInv, NEW t \in Refills, RefillStep(t)
  PROVE  MarksInv'
<1> USE DEF RefillPcs, HoldsAddr, Working
<1>1. CASE refill_resolve(t)
  <2>1. PICK K : rkeys' = [rkeys EXCEPT ![t] = K]
    BY <1>1, Zenon DEF refill_resolve
  <2>2. DOMAIN rkeys' = Refills /\ \A u \in Refills \ {t} : rkeys'[u] = rkeys[u]
    BY <2>1 DEF MarksInv, RefillTypes
  <2>3. /\ rpc[t] = "resolve" /\ RefillGoto(t, "gate")
        /\ UNCHANGED <<inflight, inflight_dc, raddr>> /\ DOMAIN raddr' = Refills
    BY <1>1, SMTT(30) DEF refill_resolve, MarksInv, RefillTypes
  <2> QED BY <2>2, <2>3, MarksOutside
<1>2. CASE refill_gate(t)
  <2>1. /\ rpc[t] = "gate" /\ UNCHANGED <<raddr, rkeys, inflight_dc>>
        /\ inflight' = inflight \cup {raddr[t]}
        /\ RefillGoto(t, IF raddr[t] \in inflight THEN "done" ELSE "gate_dc")
    BY <1>2, SMTT(30) DEF refill_gate
  <2>2. CASE raddr[t] \in inflight
    <3>1. RefillGoto(t, "done") /\ UNCHANGED inflight
      BY <2>1, <2>2
    <3> QED BY <2>1, <3>1, MarksMove, SMTT(30)
  <2>3. CASE raddr[t] \notin inflight
    <3>1. RefillGoto(t, "gate_dc")
      BY <2>1, <2>3, SMTT(30)
    <3> QED BY <2>1, <2>3, <3>1, MarksMove
  <2> QED BY <2>2, <2>3, SMTT(30)
<1>3. CASE refill_gate_dc(t)
  <2>1. rpc[t] = "gate_dc" /\ UNCHANGED <<raddr, rkeys, inflight>>
    BY <1>3 DEF refill_gate_dc
  <2>2. CASE rkeys[t] \cap inflight_dc # {}
    <3>1. RefillGoto(t, "skip") /\ UNCHANGED inflight_dc
      BY <1>3, <2>2, SMTT(30) DEF refill_gate_dc
    <3> QED BY <2>1, <3>1, MarksMove, ZenonT(60)
  <2>3. CASE rkeys[t] \cap inflight_dc = {}
    <3>1. inflight_dc' = inflight_dc \cup rkeys[t] /\ \E p \in {"fallback", "same"} : RefillGoto(t, p)
      BY <1>3, <2>3, SMTT(30) DEF refill_gate_dc, EnterRefill
    <3> QED BY <2>1, <2>3, <3>1, MarksMove, ZenonT(60)
  <2> QED BY <2>2, <2>3, SMTT(30)
<1>4. CASE refill_skip(t)
  <2>1. /\ rpc[t] = "skip" /\ RefillGoto(t, "done") /\ inflight' = inflight \ {raddr[t]}
        /\ UNCHANGED <<raddr, rkeys, inflight_dc>>
    BY <1>4 DEF refill_skip
  <2> QED BY <2>1, MarksMove, SMTT(30)
<1>5. CASE refill_same_endpoint(t)
  <2>1. /\ rpc[t] = "same" /\ \E p \in {"release", "same", "fallback"} : RefillGoto(t, p)
        /\ UNCHANGED <<raddr, rkeys, inflight, inflight_dc>>
    BY <1>5 DEF refill_same_endpoint
  <2> QED BY <2>1, MarksMove
<1>6. CASE refill_fallback(t)
  <2>1. /\ rpc[t] = "fallback" /\ \E p \in {"release", "fallback"} : RefillGoto(t, p)
        /\ UNCHANGED <<raddr, rkeys, inflight, inflight_dc>>
    BY <1>6, SMTT(30) DEF refill_fallback
  <2> QED BY <2>1, MarksMove
<1>7. CASE refill_release(t)
  <2>1. /\ rpc[t] = "release" /\ RefillGoto(t, "release_dc") /\ inflight' = inflight \ {raddr[t]}
        /\ UNCHANGED <<raddr, rkeys, inflight_dc>>
    BY <1>7, SMTT(30) DEF refill_release
  <2> QED BY <2>1, MarksMove
<1>8. CASE refill_release_dc(t)
  <2>1. /\ rpc[t] = "release_dc" /\ RefillGoto(t, "done") /\ inflight_dc' = inflight_dc \ rkeys[t]
        /\ UNCHANGED <<raddr, rkeys, inflight>>
    BY <1>8 DEF refill_release_dc
  <2> QED BY <2>1, MarksMove
<1> QED BY <1>1, <1>2, <1>3, <1>4, <1>5, <1>6, <1>7, <1>8 DEF RefillStep, RefillMoves

LEMMA MarksDeath ==
  ASSUME MarksInv, NEW e \in Endpoints, NEW t \in Refills, writer_dies(e, t)
  PROVE  MarksInv'
<1>1. /\ rpc[t] = "unused" /\ RefillGoto(t, "resolve") /\ raddr' = [raddr EXCEPT ![t] = e]
      /\ UNCHANGED <<inflight, inflight_dc, rkeys>>
  BY DEF writer_dies, RefillGoto
<1>2. /\ DOMAIN raddr' = Refills /\ DOMAIN rkeys' = Refills
      /\ \A u \in Refills \ {t} : raddr'[u] = raddr[u] /\ rkeys'[u] = rkeys[u]
  BY <1>1 DEF MarksInv, RefillTypes
<1> QED BY <1>1, <1>2, MarksOutside DEF RefillPcs, HoldsAddr, Working

\* Nobody else touches what belongs to the refill tasks.
LEMMA MarksStep == MarksInv /\ [UpkeepNext]_upkeepVars => MarksInv'
<1> SUFFICES ASSUME MarksInv, [UpkeepNext]_upkeepVars PROVE MarksInv'
  OBVIOUS
<1>1. CASE UNCHANGED refillVars
  BY <1>1 DEF refillVars, MarksInv, RefillTypes, RefillMarksRight, InflightAccounted, RefillSingleFlight
<1>2. CASE HealthStep
  <2>1. UNCHANGED refillVars
    BY <1>2, Zenon DEF HealthStep, health_tick, check_outage, check_floor, health_connect,
                recover_single_endpoint_outage, rotate_skipped, rotate_connect, rotate_drain
  <2> QED BY <1>1, <2>1
<1>3. CASE \/ \E d \in Dcs : reconnect_due(d) \/ outage_due(d) \/ deadline_passes(d)
           \/ quarantine_ends \/ map_changes \/ reachability_changes
           \/ \E e \in Endpoints : client_binds(e) \/ client_leaves(e)
           \/ UNCHANGED upkeepVars
  <2>1. UNCHANGED refillVars
    BY <1>3, Zenon DEF reconnect_due, outage_due, deadline_passes, quarantine_ends, map_changes,
                reachability_changes, client_binds, client_leaves, upkeepVars
  <2> QED BY <1>1, <2>1
<1> QED BY <1>2, <1>3, MarksDeath, MarksRefill DEF UpkeepNext

\* The marks of a refill are there exactly while its task works, and no two
\* tasks share one, whatever happens to the map and the endpoints meanwhile.
THEOREM RefillMarksAreRight == UpkeepSpec => []RefillMarksRight
<1>1. MarksInv => RefillMarksRight
  BY DEF MarksInv
<1> QED BY <1>1, MarksInit, MarksStep, PTL DEF UpkeepSpec

-----------------------------------------------------------------------------
(* The rotation.                                                           *)

Hpcs == {"sleep", "dc", "connect", "outage", "rotate", "drain"}

WritersOK ==
    /\ pmap \in Maps /\ up \subseteq Endpoints
    /\ alive \in [Endpoints -> Nat] /\ busy \in [Endpoints -> Nat]
    /\ \A e \in Endpoints : busy[e] <= alive[e]

TickOK ==
    /\ hpc \in Hpcs /\ htodo \subseteq Dcs /\ hmap \in [Dcs -> SUBSET Endpoints]
    /\ hsnap \in [Endpoints -> Nat]
    /\ hpc \notin {"sleep", "dc"} => hdc \in Dcs
    /\ hpc \in {"rotate", "drain"} => Single(hdc)

\* What a tick found is still there, lost writers aside; and while it drains it
\* has connected one more.
SnapInv ==
    /\ hpc # "sleep" => \A e \in Endpoints \ hlost : alive[e] >= hsnap[e]
    /\ hpc = "drain" => \A e \in hmap[hdc] \ hlost : alive[e] > hsnap[e]

RotationInv == WritersOK /\ TickOK /\ SnapInv

LEMMA MinPair ==
  ASSUME NEW a \in Int, NEW b \in Int
  PROVE  Min({a, b}) = IF a <= b THEN a ELSE b
<1> DEFINE m == IF a <= b THEN a ELSE b
<1>1. m \in {a, b} /\ \A y \in {a, b} : m =< y
  OBVIOUS
<1>2. \A x \in {a, b} : (\A y \in {a, b} : x =< y) => x = m
  OBVIOUS
<1> QED BY <1>1, <1>2 DEF Min

LEMMA RotationInit == UpkeepInit => RotationInv
<1> SUFFICES ASSUME UpkeepInit PROVE RotationInv
  OBVIOUS
<1>1. budget.map \in Maps /\ Maps \subseteq [Dcs -> SUBSET Endpoints]
  BY UpkeepAssumption DEF UpkeepInit
<1>2. WritersOK
  BY <1>1 DEF UpkeepInit, WritersOK
<1>3. TickOK /\ SnapInv
  BY <1>1 DEF UpkeepInit, TickOK, SnapInv, Hpcs
<1> QED BY <1>2, <1>3 DEF RotationInv

\* A new writer breaks nothing.
LEMMA ConnectKeeps ==
  ASSUME WritersOK, NEW e \in Endpoints, Connect(e), UNCHANGED <<pmap, up, busy>>
  PROVE  WritersOK' /\ \A d \in Endpoints : alive'[d] >= alive[d]
  BY DEF WritersOK, Connect

\* How a tick goes on with, or leaves, a DC.
LEMMA NextDcKeeps ==
  ASSUME TickOK, NEW d \in Dcs, NEW pc \in Hpcs \ {"dc", "drain"}, NextDc(d, pc), UNCHANGED hmap,
         pc = "rotate" => Single(d)
  PROVE  /\ TickOK' /\ hpc' # "drain"
         /\ hpc' # "sleep" => UNCHANGED <<hsnap, hlost>>
<1>1. /\ htodo' = htodo \ {d}
      /\ hpc' = IF pc = "sleep" /\ htodo' # {} THEN "dc" ELSE pc
      /\ hpc' = "sleep" => hsnap' = [e \in Endpoints |-> 0]
      /\ hpc' # "sleep" => UNCHANGED <<hsnap, hlost>> /\ hdc' = d
  BY DEF NextDc
<1>2. hsnap' \in [Endpoints -> Nat]
  BY <1>1 DEF TickOK
<1>3. hpc' = "rotate" => Single(d)'
  BY <1>1 DEF Single
<1> QED BY <1>1, <1>2, <1>3 DEF TickOK, Hpcs, Single

\* A tick that leaves the writers at what they were, or more.
LEMMA SnapNext ==
  ASSUME TickOK, SnapInv, hpc # "sleep", NEW d \in Dcs, NEW pc \in Hpcs \ {"dc", "drain"},
         NextDc(d, pc), UNCHANGED hmap, pc = "rotate" => Single(d), WritersOK, WritersOK',
         \A e \in Endpoints : alive'[e] >= alive[e]
  PROVE  TickOK' /\ SnapInv'
<1>1. TickOK' /\ hpc' # "drain" /\ (hpc' # "sleep" => UNCHANGED <<hsnap, hlost>>)
  BY NextDcKeeps
<1> QED BY <1>1 DEF SnapInv, WritersOK, TickOK

LEMMA RotationOthers ==
  ASSUME RotationInv, UNCHANGED healthVars, WritersOK', \A e \in Endpoints : alive'[e] >= alive[e]
  PROVE  RotationInv'
<1>1. TickOK'
  BY DEF RotationInv, TickOK, healthVars, Single
<1>2. SnapInv'
  <2> USE DEF RotationInv, healthVars, SnapInv, TickOK, WritersOK
  <2>1. hpc # "sleep" => \A e \in Endpoints \ hlost : alive'[e] >= hsnap[e]
    OBVIOUS
  <2>2. hpc = "drain" => \A e \in hmap[hdc] \ hlost : alive'[e] > hsnap[e]
    <3> SUFFICES ASSUME hpc = "drain", NEW e \in hmap[hdc] \ hlost PROVE alive'[e] > hsnap[e]
      OBVIOUS
    <3>1. e \in Endpoints
      OBVIOUS
    <3> QED BY <3>1
  <2> QED BY <2>1, <2>2
<1> QED BY <1>1, <1>2 DEF RotationInv

LEMMA ConnectableIn ==
  ASSUME NEW S, connect_endpoints_round_robin(S), WritersOK
  PROVE  \E e \in Endpoints : Connect(e)
  BY DEF connect_endpoints_round_robin, WritersOK

LEMMA RotationDeath ==
  ASSUME RotationInv, NEW e \in Endpoints, NEW t \in Refills, writer_dies(e, t)
  PROVE  RotationInv'
<1>1. /\ alive[e] > 0 /\ alive' = [alive EXCEPT ![e] = @ - 1]
      /\ hlost' = IF hpc = "sleep" THEN hlost ELSE hlost \cup {e}
      /\ UNCHANGED <<pmap, up, hpc, htodo, hmap, hsnap, hdc>>
  BY DEF writer_dies
<1>2. PICK b \in {busy[e], busy[e] - 1} : b \in 0..(alive[e] - 1) /\ busy' = [busy EXCEPT ![e] = b]
  BY Zenon DEF writer_dies
<1>3. WritersOK'
  BY <1>1, <1>2 DEF RotationInv, WritersOK
<1>4. TickOK'
  BY <1>1 DEF RotationInv, TickOK, Single
<1>5. SnapInv'
  <2>1. ASSUME NEW d \in Endpoints \ hlost', hpc # "sleep" PROVE alive'[d] = alive[d]
    BY <1>1, <2>1 DEF RotationInv, WritersOK
  <2> QED BY <1>1, <2>1 DEF RotationInv, SnapInv, TickOK
<1> QED BY <1>3, <1>4, <1>5 DEF RotationInv

LEMMA RotationRefill ==
  ASSUME RotationInv, NEW t \in Refills, RefillStep(t)
  PROVE  RotationInv'
<1>1. UNCHANGED <<healthVars, pmap, up, busy>>
  BY Zenon DEF RefillStep, RefillMoves, refill_resolve, refill_gate, refill_gate_dc, refill_skip, refill_same_endpoint,
         refill_fallback, refill_release, refill_release_dc, poolVars
<1>2. UNCHANGED alive \/ \E e \in Endpoints : Connect(e)
  BY ConnectableIn, Zenon DEF WritersOK, RefillStep, RefillMoves, refill_resolve, refill_gate, refill_gate_dc, refill_skip,
         refill_same_endpoint, refill_fallback, refill_release, refill_release_dc, poolVars, RotationInv
<1>3. WritersOK' /\ \A e \in Endpoints : alive'[e] >= alive[e]
  BY <1>1, <1>2, ConnectKeeps DEF RotationInv, WritersOK
<1> QED BY <1>1, <1>3, RotationOthers, SMTT(30)

\* The clients, the clock and the surroundings.
LEMMA RotationSurroundings ==
  ASSUME RotationInv,
         \/ \E d \in Dcs : reconnect_due(d) \/ outage_due(d) \/ deadline_passes(d)
         \/ quarantine_ends \/ map_changes \/ reachability_changes
         \/ \E e \in Endpoints : client_binds(e) \/ client_leaves(e)
         \/ UNCHANGED upkeepVars
  PROVE  RotationInv'
<1>1. UNCHANGED <<healthVars, alive>>
  BY Zenon DEF reconnect_due, outage_due, deadline_passes, quarantine_ends, map_changes,
         reachability_changes, client_binds, client_leaves, upkeepVars, poolVars
<1>2. pmap' \in Maps /\ up' \subseteq Endpoints
  BY Zenon DEF reconnect_due, outage_due, deadline_passes, quarantine_ends, map_changes,
         reachability_changes, client_binds, client_leaves, upkeepVars, poolVars, RotationInv, WritersOK
<1>3. busy' \in [Endpoints -> Nat] /\ \A e \in Endpoints : busy'[e] <= alive[e]
  <2>1. CASE \E e \in Endpoints : client_binds(e)
    BY <2>1 DEF client_binds, RotationInv, WritersOK
  <2>2. CASE \E e \in Endpoints : client_leaves(e)
    BY <2>2 DEF client_leaves, RotationInv, WritersOK
  <2>3. CASE UNCHANGED busy
    BY <2>3 DEF RotationInv, WritersOK
  <2> QED BY <2>1, <2>2, <2>3 DEF reconnect_due, outage_due, deadline_passes, quarantine_ends, map_changes,
             reachability_changes, upkeepVars, poolVars
<1>4. WritersOK' /\ \A e \in Endpoints : alive'[e] >= alive[e]
  BY <1>1, <1>2, <1>3, SMTT(30) DEF RotationInv, WritersOK
<1> QED BY <1>1, <1>4, RotationOthers

LEMMA RotationTick ==
  ASSUME RotationInv, health_tick
  PROVE  RotationInv'
<1>1. /\ hmap' = pmap /\ hsnap' = alive /\ htodo' \subseteq Dcs /\ hpc' \in {"sleep", "dc"}
      /\ UNCHANGED <<pmap, up, alive, busy, hdc, hlost>>
  BY DEF health_tick, poolVars
<1>2. WritersOK'
  BY <1>1 DEF RotationInv, WritersOK
<1>3. TickOK'
  BY <1>1, UpkeepAssumption DEF RotationInv, WritersOK, TickOK, Hpcs
<1>4. SnapInv'
  BY <1>1 DEF SnapInv, RotationInv, WritersOK
<1> QED BY <1>2, <1>3, <1>4, SMTT(30) DEF RotationInv

LEMMA RotationCheck ==
  ASSUME RotationInv, NEW d \in Dcs, check_outage(d) \/ check_floor(d)
  PROVE  RotationInv'
<1>1. UNCHANGED <<pmap, up, alive, busy, hmap>> /\ hpc = "dc"
  BY DEF check_outage, check_floor, poolVars
<1>2. \E pc \in Hpcs \ {"dc", "drain"} : NextDc(d, pc) /\ (pc = "rotate" => Single(d))
  BY DEF check_outage, check_floor, Hpcs
<1>3. WritersOK' /\ \A e \in Endpoints : alive'[e] >= alive[e]
  BY <1>1 DEF RotationInv, WritersOK
<1> QED BY <1>1, <1>2, <1>3, SnapNext DEF RotationInv

\* The steps of a tick that connect a writer, or skip a rotation.
LEMMA RotationConnects ==
  ASSUME RotationInv, health_connect \/ recover_single_endpoint_outage \/ rotate_skipped
  PROVE  RotationInv' /\ \A e \in Endpoints : alive'[e] >= alive[e]
<1>1. UNCHANGED <<pmap, up, busy, hmap>> /\ hpc \in {"connect", "outage", "rotate"} /\ hdc \in Dcs
  BY Zenon DEF health_connect, recover_single_endpoint_outage, rotate_skipped, poolVars, RotationInv, TickOK
<1>2. UNCHANGED alive \/ \E e \in Endpoints : Connect(e)
  BY ConnectableIn, ZenonT(60) DEF health_connect, recover_single_endpoint_outage, rotate_skipped, poolVars,
                       RotationInv, WritersOK
<1>3. WritersOK' /\ \A e \in Endpoints : alive'[e] >= alive[e]
  BY <1>1, <1>2, ConnectKeeps, SMTT(30) DEF RotationInv, WritersOK
<1>4. NextDc(hdc, "sleep") \/ (hpc # "drain" /\ UNCHANGED <<hpc, htodo, hsnap, hlost, hdc>>)
  BY Zenon DEF health_connect, recover_single_endpoint_outage, rotate_skipped, RotateEnds
<1>5. CASE NextDc(hdc, "sleep")
  BY <1>1, <1>3, <1>5, SnapNext, ZenonT(60) DEF RotationInv, Hpcs
<1>6. CASE hpc # "drain" /\ UNCHANGED <<hpc, htodo, hsnap, hlost, hdc>>
  <2>1. TickOK'
    BY <1>1, <1>6 DEF RotationInv, TickOK, Single
  <2>2. SnapInv'
    BY <1>1, <1>3, <1>6 DEF RotationInv, SnapInv, WritersOK, TickOK
  <2> QED BY <1>3, <2>1, <2>2 DEF RotationInv
<1> QED BY <1>3, <1>4, <1>5, <1>6, ZenonT(60)

\* The endpoint of the DC whose shadow writer is rotated.
LEMMA TheEndpoint ==
  ASSUME RotationInv, hpc \in {"rotate", "drain"}
  PROVE  \E e \in Endpoints : hmap[hdc] = {e}
<1>1. hdc \in Dcs /\ Single(hdc) /\ hmap[hdc] \subseteq Endpoints
  BY DEF RotationInv, TickOK
<1>2. IsFiniteSet(hmap[hdc])
  BY <1>1, UpkeepAssumption, FS_Subset
<1> QED BY <1>1, <1>2, FS_Singleton DEF Single

LEMMA RotationConnect ==
  ASSUME RotationInv, rotate_connect
  PROVE  RotationInv' /\ \A e \in Endpoints : alive'[e] >= alive[e]
<1>1. /\ hpc = "rotate" /\ hpc' = "drain"
      /\ UNCHANGED <<pmap, up, busy, htodo, hmap, hsnap, hdc, hlost>>
  BY DEF rotate_connect
<1>2. PICK e \in Endpoints : hmap[hdc] = {e}
  BY <1>1, TheEndpoint
<1>3. Connect(e)
  BY <1>2 DEF rotate_connect
<1>4. WritersOK' /\ \A d \in Endpoints : alive'[d] >= alive[d]
  BY <1>1, <1>3, ConnectKeeps, SMTT(30) DEF RotationInv
<1>5. TickOK'
  BY <1>1 DEF RotationInv, TickOK, Single, Hpcs
<1>6. SnapInv'
  BY <1>1, <1>2, <1>3, <1>4 DEF RotationInv, SnapInv, WritersOK, TickOK, Connect
<1> QED BY <1>4, <1>5, <1>6, SMTT(30) DEF RotationInv

LEMMA RotationDrain ==
  ASSUME RotationInv, rotate_drain
  PROVE  RotationInv' /\ \A e \in hmap[hdc] \ hlost : alive'[e] >= hsnap[e]
<1>1. hpc = "drain" /\ UNCHANGED <<pmap, up, hmap>> /\ NextDc(hdc, "sleep") /\ hdc \in Dcs
  BY DEF rotate_drain, RotateEnds, RotationInv, TickOK
<1>2. PICK e \in Endpoints : hmap[hdc] = {e}
  BY <1>1, TheEndpoint, SMTT(30)
<1>3. \/ /\ alive[e] > 0 /\ alive' = [alive EXCEPT ![e] = @ - 1]
         /\ busy' = [busy EXCEPT ![e] = Min({@, alive[e] - 1})]
      \/ e \in hlost /\ UNCHANGED <<alive, busy>>
  BY <1>2, ZenonT(60) DEF rotate_drain
<1>4. /\ WritersOK'
      /\ \A d \in Endpoints \ {e} : alive'[d] = alive[d]
      /\ e \notin hlost => alive'[e] >= hsnap[e]
  <2>1. CASE e \in hlost /\ UNCHANGED <<alive, busy>>
    BY <1>1, <2>1 DEF RotationInv, WritersOK
  <2>2. CASE /\ alive[e] > 0 /\ alive' = [alive EXCEPT ![e] = @ - 1]
             /\ busy' = [busy EXCEPT ![e] = Min({@, alive[e] - 1})]
    <3>1. alive[e] \in Nat /\ busy[e] \in Nat /\ busy[e] <= alive[e] /\ hsnap[e] \in Nat
      BY DEF RotationInv, WritersOK, TickOK
    <3>2. Min({busy[e], alive[e] - 1}) = IF busy[e] <= alive[e] - 1 THEN busy[e] ELSE alive[e] - 1
      BY <3>1, MinPair
    <3>3. Min({busy[e], alive[e] - 1}) \in Nat /\ Min({busy[e], alive[e] - 1}) <= alive[e] - 1
      BY <2>2, <3>1, <3>2
    <3>4. e \notin hlost => alive[e] > hsnap[e]
      BY <1>1, <1>2 DEF RotationInv, SnapInv
    <3>5. /\ alive' \in [Endpoints -> Nat] /\ alive'[e] = alive[e] - 1
          /\ \A d \in Endpoints \ {e} : alive'[d] = alive[d]
      BY <2>2, <3>1 DEF RotationInv, WritersOK
    <3>6. /\ busy' \in [Endpoints -> Nat] /\ busy'[e] <= alive[e] - 1
          /\ \A d \in Endpoints \ {e} : busy'[d] = busy[d]
      <4> DEFINE b == Min({busy[e], alive[e] - 1})
      <4>1. b \in Nat /\ b <= alive[e] - 1 /\ busy' = [busy EXCEPT ![e] = b]
        BY <2>2, <3>3
      <4> HIDE DEF b
      <4> QED BY <4>1 DEF RotationInv, WritersOK
    <3> QED BY <1>1, <3>1, <3>4, <3>5, <3>6 DEF RotationInv, WritersOK
  <2> QED BY <1>3, <2>1, <2>2
<1>5. TickOK' /\ hpc' # "drain" /\ (hpc' # "sleep" => UNCHANGED <<hsnap, hlost>>)
  BY <1>1, NextDcKeeps, SMTT(30) DEF RotationInv, Hpcs
<1>6. SnapInv'
  BY <1>1, <1>4, <1>5, ZenonT(60) DEF RotationInv, SnapInv
<1> QED BY <1>2, <1>4, <1>5, <1>6, ZenonT(60) DEF RotationInv

LEMMA RotationStep == RotationInv /\ [UpkeepNext]_upkeepVars => RotationInv'
  BY RotationDeath, RotationRefill, RotationSurroundings, RotationTick, RotationCheck, RotationConnects,
     RotationConnect, RotationDrain, ZenonT(60) DEF UpkeepNext, HealthStep

LEMMA RotationInvariant == UpkeepSpec => []RotationInv
  BY RotationInit, RotationStep, PTL DEF UpkeepSpec

\* A rotation of a shadow writer leaves the endpoint with the writers its tick
\* found, whoever connects, dies or binds at the same time: the old writer is
\* drained after the new one has joined the pool, and a failed connect drains
\* nothing.
THEOREM RotationIsSafe == UpkeepSpec => RotationKeepsWriters
<1> DEFINE Kept == (hpc \in {"rotate", "drain"} /\ hpc' # hpc)
                      => \A e \in hmap[hdc] \ hlost : alive'[e] >= hsnap[e]
<1>1. ASSUME RotationInv, [UpkeepNext]_upkeepVars PROVE [Kept]_upkeepVars
  <2> SUFFICES ASSUME hpc \in {"rotate", "drain"}, hpc' # hpc
               PROVE  \A e \in hmap[hdc] \ hlost : alive'[e] >= hsnap[e]
    OBVIOUS
  <2>1. rotate_skipped \/ rotate_connect \/ rotate_drain
    <3>1. CASE HealthStep
      BY <3>1, Zenon DEF HealthStep, health_tick, check_outage, check_floor, health_connect,
                  recover_single_endpoint_outage
    <3>2. CASE ~HealthStep
      <4>1. UNCHANGED hpc
        BY <1>1, <3>2, Zenon DEF UpkeepNext, upkeepVars, healthVars, writer_dies, RefillStep, RefillMoves, refill_resolve,
             refill_gate, refill_gate_dc, refill_skip, refill_same_endpoint, refill_fallback,
             refill_release, refill_release_dc, reconnect_due, outage_due, deadline_passes,
             quarantine_ends, map_changes, reachability_changes, client_binds, client_leaves
      <4> QED BY <4>1
    <3> QED BY <3>1, <3>2
  <2>2. CASE rotate_drain
    BY <1>1, <2>2, RotationDrain
  <2>3. CASE rotate_skipped \/ rotate_connect
    <3>1. \A e \in Endpoints : alive'[e] >= alive[e] /\ alive'[e] \in Nat
      BY <1>1, <2>3, RotationConnects, RotationConnect, ZenonT(60) DEF RotationInv, WritersOK
    <3>2. \A e \in Endpoints \ hlost : alive[e] >= hsnap[e] /\ alive[e] \in Nat /\ hsnap[e] \in Nat
      BY <1>1 DEF RotationInv, SnapInv, WritersOK, TickOK
    <3>3. hmap[hdc] \subseteq Endpoints
      BY <1>1 DEF RotationInv, TickOK
    <3> QED BY <3>1, <3>2, <3>3, SMTT(30)
  <2> QED BY <2>1, <2>2, <2>3
<1> QED BY <1>1, RotationInvariant, PTL DEF UpkeepSpec, RotationKeepsWriters
=============================================================================
