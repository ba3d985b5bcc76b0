-------------------------- MODULE PoolReinitProofs --------------------------
(***************************************************************************)
(* The rotation of the pool, for any endpoint maps, floors, numbers of     *)
(* writers and of connects, failures and reloads around it.                *)
(*                                                                         *)
(* Three invariants in turn.  Typed: what the locals of a cycle hold at    *)
(* each point of it, and that the queue of the lock holds at most one      *)
(* request of the cycle, the one it waits for.  CoverInv: each DC has a    *)
(* writer that serves it, outside the set the cycle is about to drain,     *)
(* unless that writer died.  WarmAll: which writers may be Warm at each    *)
(* point of the cycle.                                                     *)
(***************************************************************************)
EXTENDS PoolReinit, FiniteSetTheorems, WellFoundedInduction, TLAPS

-----------------------------------------------------------------------------
(* The operators of the model.                                             *)

LEMMA LeastNatural ==
  ASSUME NEW S, S \subseteq Nat, S # {}
  PROVE  \E x \in S : \A y \in S : ~(y < x)
<1> DEFINE R == OpToRel(<, Nat)
<1>1. IsWellFoundedOn(R, Nat)
  BY NatLessThanWellFounded, Zenon
<1>2. \A x, y \in Nat : <<y, x>> \in R <=> y < x
  BY DEF OpToRel
<1> HIDE DEF R
<1>3. \E x \in S : \A y \in S : ~(<<y, x>> \in R)
  BY <1>1, WFMin, Zenon
<1> QED BY <1>2, <1>3, Zenon

\* A fresh id is one no writer has had.
LEMMA NextIdFresh ==
  ASSUME FreeId
  PROVE  NextId \in Writers /\ st[NextId] = "none"
<1> DEFINE S == {w \in Writers : st[w] = "none"}
<1>1. S \subseteq Nat /\ S # {}
  BY DEF FreeId, Writers
<1>2. PICK x \in S : \A y \in S : ~(y < x)
  BY <1>1, LeastNatural, Zenon
<1>3. x \in Writers /\ st[x] = "none" /\ \A v \in 1..(x - 1) : st[v] # "none"
  <2> SUFFICES ASSUME NEW v \in 1..(x - 1), st[v] = "none" PROVE FALSE
    BY <1>2
  <2>1. x \in 1..NumWriters /\ NumWriters \in Nat
    BY <1>2, ReinitAssumption DEF Writers
  <2>2. v \in Writers /\ v < x
    BY <2>1 DEF Writers
  <2> QED BY <1>2, <2>2
<1>4. \E w \in Writers : st[w] = "none" /\ \A v \in 1..(w - 1) : st[v] # "none"
  BY <1>3
<1> QED BY <1>4 DEF NextId

\* What the plan says of the maps.
LEMMA MapFacts ==
  ASSUME plan \in Plans, NEW m \in plan.maps, NEW n \in plan.maps
  PROVE  /\ DOMAIN m = DOMAIN n
         /\ \A d \in DOMAIN m : /\ m[d] \subseteq Addrs /\ IsFiniteSet(m[d])
                                /\ Cardinality(m[d]) \in Nat \ {0}
<1>1. DOMAIN m = DOMAIN n
  BY ReinitAssumption
<1>2. ASSUME NEW d \in DOMAIN m
      PROVE  m[d] \subseteq Addrs /\ IsFiniteSet(m[d]) /\ Cardinality(m[d]) \in Nat \ {0}
  <2>1. m[d] \subseteq Addrs /\ m[d] # {} /\ IsFiniteSet(Addrs)
    BY ReinitAssumption
  <2>2. IsFiniteSet(m[d])
    BY <2>1, FS_Subset
  <2>3. Cardinality(m[d]) \in Nat /\ Cardinality(m[d]) # 0
    BY <2>1, <2>2, FS_CardinalityType, FS_EmptySet
  <2> QED BY <2>1, <2>2, <2>3
<1> QED BY <1>1, <1>2

LEMMA RequiredPositive ==
  ASSUME plan \in Plans, NEW n \in Nat \ {0}
  PROVE  required_writers_for_dc(n) \in Nat \ {0}
<1>1. plan.floor \in Nat \ {0} /\ Shadow \in Nat
  BY ReinitAssumption
<1>2. ASSUME NEW a \in Nat, NEW b \in Nat \ {0} PROVE Max({a, b}) \in Nat \ {0}
  <2>1. PICK x \in {a, b} : \A y \in {a, b} : x >= y
    OBVIOUS
  <2>2. Max({a, b}) \in {a, b} /\ \A y \in {a, b} : Max({a, b}) >= y
    BY <2>1 DEF Max
  <2> QED BY <2>2
<1>3. Max({1 + Shadow, plan.floor}) \in Nat \ {0} /\ Max({n, plan.floor}) \in Nat \ {0}
  BY <1>1, <1>2
<1> QED BY <1>3 DEF required_writers_for_dc

\* fresh_writer_count counts: it is a number, and not zero only if there is such a writer.
LEMMA FreshCount ==
  ASSUME NEW g, NEW E
  PROVE  /\ fresh_writer_count(g, E) \in Nat
         /\ fresh_writer_count(g, E) # 0 =>
                \E w \in Serving : wgen[w] = g /\ addr[w] \in E
<1> DEFINE S == {w \in Serving : wgen[w] = g /\ addr[w] \in E}
<1>1. IsFiniteSet(Writers)
  BY ReinitAssumption, FS_Interval DEF Writers
<1>2. IsFiniteSet(S)
  BY <1>1, FS_Subset DEF Serving
<1>3. Cardinality(S) \in Nat /\ (Cardinality(S) = 0 <=> S = {})
  BY <1>2, FS_CardinalityType, FS_EmptySet
<1> QED BY <1>3 DEF fresh_writer_count

-----------------------------------------------------------------------------
(* The queue of pool.writers.                                              *)

Waiting == {"guard", "promote", "draining"}

\* The cycle waits for at most one request, the one its program counter says.
QueueOK(q, pc, stale) ==
    /\ q \in Seq(Requests)
    /\ \A i \in 1..Len(q) :
          /\ q[i].op = "guard" => pc = "guard"
          /\ q[i].op = "promote" => pc = "promote"
          /\ q[i].op = "drain" => pc = "draining" /\ q[i].w \in stale
    /\ \A i, j \in 1..Len(q) :
          q[i].op \notin {"push", "remove"} /\ q[j].op \notin {"push", "remove"} => i = j

LEMMA RequestKinds ==
  ASSUME NEW r \in Requests
  PROVE  /\ r.op \in {"guard", "promote", "push", "drain", "remove"}
         /\ r.op \in {"push", "drain", "remove"} => r.w \in Writers
  BY DEF Requests

\* While the cycle waits for nothing the queue holds nothing of it.
LEMMA QueueFree ==
  ASSUME NEW q, NEW pc, NEW stale, QueueOK(q, pc, stale), pc \notin Waiting
  PROVE  /\ \A i \in 1..Len(q) : q[i].op \in {"push", "remove"}
         /\ \A pc2, stale2 : QueueOK(q, pc2, stale2)
<1>1. \A i \in 1..Len(q) : q[i] \in Requests
  BY DEF QueueOK
<1>2. \A i \in 1..Len(q) : q[i].op \in {"push", "remove"}
  BY <1>1, RequestKinds DEF QueueOK, Waiting
<1> QED BY <1>2 DEF QueueOK

LEMMA QueueAppend ==
  ASSUME NEW q, NEW pc, NEW stale, QueueOK(q, pc, stale),
         NEW r \in Requests, r.op \in {"push", "remove"}
  PROVE  QueueOK(Append(q, r), pc, stale)
<1> DEFINE a == Append(q, r)
<1>1. /\ q \in Seq(Requests) /\ Len(q) \in Nat /\ a \in Seq(Requests) /\ Len(a) = Len(q) + 1
      /\ a[Len(q) + 1] = r /\ \A i \in 1..Len(q) : a[i] = q[i]
  BY DEF QueueOK
<1>2. \A i \in 1..Len(a) : i \in 1..Len(q) \/ (i = Len(q) + 1 /\ a[i].op \in {"push", "remove"})
  BY <1>1
<1> HIDE DEF a
<1>3. QueueOK(a, pc, stale)
  <2>1. ASSUME NEW i \in 1..Len(a)
        PROVE  /\ a[i].op = "guard" => pc = "guard"
               /\ a[i].op = "promote" => pc = "promote"
               /\ a[i].op = "drain" => pc = "draining" /\ a[i].w \in stale
    <3>1. CASE i \in 1..Len(q)
      BY <1>1, <3>1 DEF QueueOK
    <3>2. CASE a[i].op \in {"push", "remove"}
      BY <3>2
    <3> QED BY <1>2, <3>1, <3>2
  <2>2. ASSUME NEW i \in 1..Len(a), NEW j \in 1..Len(a),
               a[i].op \notin {"push", "remove"}, a[j].op \notin {"push", "remove"}
        PROVE  i = j
    <3>1. i \in 1..Len(q) /\ j \in 1..Len(q)
      BY <1>2, <2>2
    <3> QED BY <1>1, <2>2, <3>1 DEF QueueOK
  <2> QED BY <1>1, <2>1, <2>2 DEF QueueOK
<1> QED BY <1>3 DEF a

\* The cycle enqueues a request of its own.
LEMMA QueueRequest ==
  ASSUME NEW q, NEW pc, NEW stale, QueueOK(q, pc, stale), pc \notin Waiting,
         NEW r \in Requests, NEW pc2, NEW stale2,
         \/ r.op = "guard" /\ pc2 = "guard"
         \/ r.op = "promote" /\ pc2 = "promote"
         \/ r.op = "drain" /\ pc2 = "draining" /\ r.w \in stale2
  PROVE  QueueOK(Append(q, r), pc2, stale2)
<1> DEFINE a == Append(q, r)
<1>1. /\ q \in Seq(Requests) /\ Len(q) \in Nat /\ a \in Seq(Requests) /\ Len(a) = Len(q) + 1
      /\ a[Len(q) + 1] = r /\ \A i \in 1..Len(q) : a[i] = q[i]
  BY DEF QueueOK
<1>2. \A i \in 1..Len(q) : q[i].op \in {"push", "remove"}
  BY QueueFree
<1>3. \A i \in 1..Len(a) : a[i].op \in {"push", "remove"} \/ (i = Len(q) + 1 /\ a[i] = r)
  BY <1>1, <1>2
<1> HIDE DEF a
<1>4. QueueOK(a, pc2, stale2)
  <2>1. ASSUME NEW i \in 1..Len(a)
        PROVE  /\ a[i].op = "guard" => pc2 = "guard"
               /\ a[i].op = "promote" => pc2 = "promote"
               /\ a[i].op = "drain" => pc2 = "draining" /\ a[i].w \in stale2
    BY <1>3
  <2>2. ASSUME NEW i \in 1..Len(a), NEW j \in 1..Len(a),
               a[i].op \notin {"push", "remove"}, a[j].op \notin {"push", "remove"}
        PROVE  i = j
    BY <1>3, <2>2
  <2> QED BY <1>1, <2>1, <2>2 DEF QueueOK
<1> QED BY <1>4 DEF a

\* A request leaves the head of the queue; if it was the cycle's, none is left.
LEMMA QueueTail ==
  ASSUME NEW q, NEW pc, NEW stale, QueueOK(q, pc, stale), q # << >>
  PROVE  /\ Head(q) \in Requests
         /\ Head(q).op = "guard" => pc = "guard"
         /\ Head(q).op = "promote" => pc = "promote"
         /\ Head(q).op = "drain" => pc = "draining" /\ Head(q).w \in stale
         /\ QueueOK(Tail(q), pc, stale)
         /\ Head(q).op \notin {"push", "remove"} => \A pc2, stale2 : QueueOK(Tail(q), pc2, stale2)
<1> DEFINE t == Tail(q)
<1>1. /\ q \in Seq(Requests) /\ Len(q) \in Nat /\ Len(q) > 0 /\ Head(q) = q[1] /\ q[1] \in Requests
      /\ t \in Seq(Requests) /\ Len(t) = Len(q) - 1 /\ \A i \in 1..Len(t) : t[i] = q[i + 1]
  BY DEF QueueOK
<1>2. 1 \in 1..Len(q) /\ \A i \in 1..Len(t) : i \in Nat /\ i + 1 \in 1..Len(q) /\ i + 1 # 1
  BY <1>1
<1> HIDE DEF t
<1>3. QueueOK(t, pc, stale)
  <2>1. ASSUME NEW i \in 1..Len(t), NEW j \in 1..Len(t),
               t[i].op \notin {"push", "remove"}, t[j].op \notin {"push", "remove"}
        PROVE  i = j
    <3>1. i + 1 = j + 1
      BY <1>1, <1>2, <2>1, Zenon DEF QueueOK
    <3> QED BY <1>2, <3>1
  <2> QED BY <1>1, <1>2, <2>1, SMTT(30) DEF QueueOK
<1>4. ASSUME Head(q).op \notin {"push", "remove"}, NEW pc2, NEW stale2
      PROVE  QueueOK(t, pc2, stale2)
  <2>1. ASSUME NEW i \in 1..Len(t) PROVE t[i].op \in {"push", "remove"}
    BY <1>1, <1>2, <1>4 DEF QueueOK
  <2> QED BY <1>1, <2>1, SMTT(30) DEF QueueOK
<1>5. /\ Head(q).op = "guard" => pc = "guard"
      /\ Head(q).op = "promote" => pc = "promote"
      /\ Head(q).op = "drain" => pc = "draining" /\ Head(q).w \in stale
  BY <1>1, <1>2 DEF QueueOK
<1> QED BY <1>1, <1>3, <1>4, <1>5 DEF t

-----------------------------------------------------------------------------
(* The types, with what the locals of a cycle hold at each point of it.    *)

Pcs == {"idle", "warm", "attempt", "reconcile", "entries", "connect",
        "guard", "check", "promote", "drain", "draining"}
Fields == {"pc", "hs", "gen", "desired", "todo", "dc", "left", "pass", "w", "reach", "stale"}

PoolOK ==
    /\ plan \in Plans /\ wmap \in plan.maps /\ hardswap \in BOOLEAN
    /\ generation \in Nat /\ active_generation \in Nat /\ warm_generation \in Nat
    /\ pending \in [gen : Nat, map : plan.maps \cup {Nil}, expired : BOOLEAN]

WritersOK ==
    /\ st \in [Writers -> {"none", "dialing", "connected", "pool", "gone"}]
    /\ wgen \in [Writers -> Nat] /\ addr \in [Writers -> Addrs \cup {Nil}]
    /\ contour \in [Writers -> {"Active", "Warm", "Draining"}]

CycleOK ==
    /\ DOMAIN ri = Fields /\ ri.pc \in Pcs /\ ri.hs \in BOOLEAN /\ ri.gen \in Nat
    /\ ri.left \in Nat /\ ri.pass \in 0..plan.passes /\ ri.stale \subseteq Writers
    /\ ri.pc # "idle" => ri.desired \in plan.maps
    /\ ri.pc \in {"warm", "attempt"} => ri.todo \subseteq DCs
    /\ ri.pc = "attempt" => ri.dc \in DCs
    /\ ri.pc = "connect" => ri.todo \subseteq (Entries \X plan.maps)
    /\ ri.pc \notin {"drain", "draining"} => ri.stale = {}
    /\ ri.pc = "promote" => ri.hs = TRUE

LockOK ==
    /\ QueueOK(queue, ri.pc, ri.stale)
    /\ guards = IF ri.pc \in {"check", "promote"} THEN 1 ELSE 0

HistOK ==
    /\ covered \in plan.maps /\ died \subseteq Writers
    /\ \A w \in died : st[w] # "none"

Typed == PoolOK /\ WritersOK /\ CycleOK /\ LockOK /\ HistOK

LEMMA IdleFields ==
  /\ DOMAIN Idle = Fields /\ Idle.pc = "idle" /\ Idle.hs = FALSE /\ Idle.gen = 0 /\ Idle.left = 0
  /\ Idle.pass = 0 /\ Idle.stale = {} /\ Idle.w = 0
  BY DEF Idle, Fields

LEMMA TypedInit == ReinitInit => Typed
<1> SUFFICES ASSUME ReinitInit PROVE Typed
  OBVIOUS
<1>1. plan \in Plans /\ wmap \in plan.maps /\ plan.passes \in 0..10
  BY ReinitAssumption DEF ReinitInit
<1>2. hardswap \in BOOLEAN
  BY Zenon DEF ReinitInit
<1>3. PoolOK
  BY <1>1, <1>2 DEF ReinitInit, PoolOK, NoPending
<1>4. WritersOK
  <2>1. PICK a \in [1..Cardinality(DCs) -> Addrs] :
          addr = [w \in Writers |-> IF w \in DOMAIN a THEN a[w] ELSE Nil]
    BY Zenon DEF ReinitInit
  <2>2. addr \in [Writers -> Addrs \cup {Nil}]
    BY <2>1
  <2> QED BY <2>2 DEF ReinitInit, WritersOK
<1>5. ri = Idle /\ queue = << >> /\ guards = 0 /\ covered = wmap /\ died = {}
  BY DEF ReinitInit
<1>6. CycleOK
  <2>1. ri.pc = "idle" /\ ri.hs \in BOOLEAN
    BY <1>5, IdleFields, Zenon
  <2>2. /\ DOMAIN ri = Fields /\ ri.gen \in Nat /\ ri.left \in Nat /\ ri.pass \in 0..plan.passes
        /\ ri.stale = {}
    BY <1>1, <1>5, IdleFields
  <2> QED BY <2>1, <2>2 DEF CycleOK, Pcs
<1>7. LockOK
  BY <1>5, IdleFields DEF LockOK, QueueOK
<1>8. HistOK
  BY <1>1, <1>5 DEF HistOK
<1> QED BY <1>3, <1>4, <1>6, <1>7, <1>8 DEF Typed

LEMMA PoolKept ==
  ASSUME PoolOK, UNCHANGED <<plan, mapVars, genVars>>
  PROVE  PoolOK' /\ DCs' = DCs /\ Entries' = Entries
  BY DEF PoolOK, mapVars, genVars, DCs, Entries

LEMMA WritersKept ==
  ASSUME WritersOK, UNCHANGED wrVars
  PROVE  WritersOK'
  BY DEF WritersOK, wrVars

LEMMA HistKept ==
  ASSUME HistOK, UNCHANGED <<plan, histVars>>, \A w \in Writers : st[w] # "none" => st'[w] # "none"
  PROVE  HistOK'
  BY DEF HistOK, histVars

LEMMA LackingType ==
  ASSUME PoolOK, CycleOK, ri.pc # "idle", NEW d \in DCs
  PROVE  Lacking(d) \in Nat
<1>1. ri.desired \in plan.maps /\ d \in DOMAIN ri.desired
  BY MapFacts DEF PoolOK, CycleOK, DCs
<1>2. Required(d) \in Nat
  BY <1>1, MapFacts, RequiredPositive DEF PoolOK, Required
<1> QED BY <1>2, FreshCount DEF Lacking

\* Steps of the cycle that only change its locals, waiting for nothing.
LEMMA LocalSteps ==
  ASSUME Typed, UNCHANGED <<plan, mapVars, genVars, wrVars, lockVars, histVars>>, CycleOK',
         ri.pc \notin Waiting, ri.pc # "check", ri'.pc \notin {"check", "promote"}
  PROVE  Typed'
<1>1. PoolOK' /\ WritersOK' /\ HistOK'
  BY PoolKept, WritersKept, HistKept DEF Typed, wrVars
<1>2. LockOK'
  <2>1. QueueOK(queue, ri.pc, ri.stale) /\ guards = 0 /\ UNCHANGED <<queue, guards>>
    BY DEF Typed, LockOK, Waiting, lockVars
  <2>2. QueueOK(queue', ri'.pc, ri'.stale)
    BY <2>1, QueueFree
  <2> QED BY <2>1, <2>2 DEF LockOK
<1> QED BY <1>1, <1>2 DEF Typed

LEMMA TypedWarmDc ==
  ASSUME Typed, warm_dc, UNCHANGED plan
  PROVE  Typed'
<1>1. PICK d \in ri.todo :
        ri' = IF Lacking(d) = 0
              THEN [ri EXCEPT !.todo = @ \ {d}]
              ELSE [ri EXCEPT !.pc = "attempt", !.dc = d, !.left = Lacking(d), !.pass = 0, !.w = 0]
  BY Zenon DEF warm_dc
<1>2. ri.pc = "warm" /\ CycleOK /\ PoolOK /\ d \in DCs /\ plan.passes \in 0..10
  BY <1>1, ReinitAssumption DEF warm_dc, Typed, CycleOK, PoolOK
<1>3. Lacking(d) \in Nat
  BY <1>2, LackingType
<1>4. CycleOK'
  <2>1. DCs' = DCs
    BY DEF warm_dc, mapVars, DCs
  <2>2. CASE ri' = [ri EXCEPT !.todo = @ \ {d}]
    BY <1>2, <2>1, <2>2 DEF CycleOK, Fields, Pcs
  <2>3. CASE ri' = [ri EXCEPT !.pc = "attempt", !.dc = d, !.left = Lacking(d), !.pass = 0, !.w = 0]
    BY <1>2, <1>3, <2>1, <2>3 DEF CycleOK, Fields, Pcs
  <2> QED BY <1>1, <2>2, <2>3
<1>5. ri'.pc \in {"warm", "attempt"}
  BY <1>1, <1>2 DEF CycleOK, Fields
<1> QED BY <1>2, <1>4, <1>5, LocalSteps DEF warm_dc, Waiting

LEMMA TypedPassDone ==
  ASSUME Typed, warm_pass_done, UNCHANGED plan
  PROVE  Typed'
<1>1. ri.pc = "attempt" /\ CycleOK /\ PoolOK /\ ri.dc \in DCs /\ plan.passes \in 0..10
  BY ReinitAssumption DEF warm_pass_done, Typed, CycleOK, PoolOK
<1>2. Lacking(ri.dc) \in Nat /\ DCs' = DCs
  BY <1>1, LackingType DEF warm_pass_done, mapVars, DCs
<1>3. CASE /\ ri.pass < plan.passes
           /\ ri' = [ri EXCEPT !.pass = @ + 1, !.left = Lacking(ri.dc), !.w = 0]
  <2>1. ri.pass + 1 \in 0..plan.passes
    BY <1>1, <1>3 DEF CycleOK
  <2>2. CycleOK' /\ ri'.pc = "attempt"
    BY <1>1, <1>2, <1>3, <2>1 DEF CycleOK, Fields, Pcs
  <2> QED BY <1>1, <2>2, LocalSteps DEF warm_pass_done, Waiting
<1>4. CASE ri' = [ri EXCEPT !.pc = "warm", !.todo = @ \ {ri.dc}, !.w = 0]
  <2>1. CycleOK' /\ ri'.pc = "warm"
    BY <1>1, <1>2, <1>4 DEF CycleOK, Fields, Pcs
  <2> QED BY <1>1, <2>1, LocalSteps DEF warm_pass_done, Waiting
<1> QED BY <1>3, <1>4 DEF warm_pass_done

LEMMA TypedReconcile ==
  ASSUME Typed, reconcile_read \/ reconcile_entries, UNCHANGED plan
  PROVE  Typed'
<1>1. CycleOK /\ PoolOK /\ DCs' = DCs /\ Entries' = Entries
  BY PoolKept DEF Typed, reconcile_read, reconcile_entries
<1>2. CASE reconcile_read
  <2>1. CycleOK' /\ ri'.pc = "entries"
    BY <1>1, <1>2 DEF reconcile_read, CycleOK, Fields, Pcs
  <2> QED BY <1>2, <2>1, LocalSteps DEF reconcile_read, Waiting
<1>3. CASE reconcile_entries
  <2> DEFINE T == {e \in Entries : wmap[e[1]] \cap ri.reach = {}} \X {wmap}
  <2>1. T \subseteq (Entries \X plan.maps)
    BY <1>1 DEF PoolOK
  <2>2. ri' = [ri EXCEPT !.pc = "connect", !.todo = T]
    BY <1>3 DEF reconcile_entries
  <2> HIDE DEF T
  <2>3. CycleOK' /\ ri'.pc = "connect"
    BY <1>1, <1>3, <2>1, <2>2, ZenonT(60) DEF reconcile_entries, CycleOK, Fields, Pcs
  <2> QED BY <1>3, <2>3, LocalSteps DEF reconcile_entries, Waiting
<1> QED BY <1>2, <1>3

LEMMA TypedStart ==
  ASSUME Typed, start_reinit, UNCHANGED plan
  PROVE  Typed'
<1>1. /\ PoolOK /\ CycleOK /\ ri.pc = "idle" /\ plan.passes \in 0..10
      /\ UNCHANGED <<wmap, hardswap, active_generation, wrVars, lockVars, histVars>>
  BY ReinitAssumption DEF Typed, PoolOK, start_reinit, mapVars
<1>2. generation' \in Nat /\ warm_generation' \in Nat
      /\ pending' \in [gen : Nat, map : plan.maps \cup {Nil}, expired : BOOLEAN]
  <2>1. CASE ~hardswap
    <3>1. generation' = generation + 1 /\ warm_generation' = 0 /\ pending' = NoPending
      BY <2>1 DEF start_reinit, choose_generation, NewGeneration
    <3>2. NoPending \in [gen : Nat, map : plan.maps \cup {Nil}, expired : BOOLEAN]
      BY DEF NoPending
    <3> QED BY <1>1, <3>1, <3>2 DEF PoolOK
  <2>2. CASE hardswap /\ PendingUsable
    <3>1. pending' = pending /\ generation' = generation /\ warm_generation' = pending.gen
      BY <2>2 DEF start_reinit, choose_generation
    <3> QED BY <1>1, <3>1 DEF PoolOK
  <2>3. CASE hardswap /\ ~PendingUsable
    <3>1. /\ generation' = generation + 1 /\ warm_generation' = generation'
          /\ pending' = [gen |-> generation', map |-> wmap, expired |-> FALSE]
      BY <2>3 DEF start_reinit, choose_generation, NewGeneration
    <3> QED BY <1>1, <3>1 DEF PoolOK
  <2> QED BY <2>1, <2>2, <2>3
<1>3. PoolOK'
  BY <1>1, <1>2 DEF PoolOK
<1>4. DCs' = DCs /\ pending'.gen \in Nat
  BY <1>1, <1>2 DEF DCs
<1>5. /\ DOMAIN ri' = Fields /\ ri'.pc \in {"warm", "reconcile"} /\ ri'.hs = hardswap /\ ri'.gen \in Nat
      /\ ri'.left = 0 /\ ri'.pass = 0 /\ ri'.stale = {} /\ ri'.desired = wmap /\ ri'.todo = DCs
  BY <1>2, <1>4, IdleFields DEF start_reinit, Fields
<1>6. CycleOK'
  <2>1. ri'.hs \in BOOLEAN /\ ri'.pc \in Pcs
    BY <1>1, <1>5 DEF PoolOK, Pcs
  <2> QED BY <1>1, <1>4, <1>5, <2>1 DEF CycleOK, PoolOK
<1>7. WritersOK' /\ HistOK'
  BY <1>1, WritersKept, HistKept DEF Typed, wrVars
<1>8. LockOK'
  <2>1. QueueOK(queue, ri.pc, ri.stale) /\ guards = 0 /\ UNCHANGED <<queue, guards>>
    BY <1>1 DEF Typed, LockOK, lockVars
  <2>2. QueueOK(queue', ri'.pc, ri'.stale)
    BY <1>1, <2>1, QueueFree DEF Waiting
  <2> QED BY <1>5, <2>1, <2>2 DEF LockOK
<1> QED BY <1>3, <1>6, <1>7, <1>8 DEF Typed

\* A connect of the cycle: a fresh writer, and its push at the end of the queue.
LEMMA ConnectedOK ==
  ASSUME WritersOK, NEW a \in Addrs, NEW g \in Nat, NEW c \in {"Active", "Warm"}, Connected(a, g, c)
  PROVE  /\ WritersOK'
         /\ [op |-> "push", w |-> NextId] \in Requests
         /\ queue' = Append(queue, [op |-> "push", w |-> NextId])
         /\ \A w \in Writers : st[w] # "none" => /\ st'[w] = st[w] /\ wgen'[w] = wgen[w]
                                                  /\ addr'[w] = addr[w] /\ contour'[w] = contour[w]
<1>1. NextId \in Writers /\ st[NextId] = "none"
  BY NextIdFresh DEF Connected
<1>2. WritersOK'
  BY <1>1 DEF WritersOK, Connected
<1>3. [op |-> "push", w |-> NextId] \in Requests
  BY <1>1 DEF Requests
<1>4. \A w \in Writers : st[w] # "none" => /\ st'[w] = st[w] /\ wgen'[w] = wgen[w]
                                           /\ addr'[w] = addr[w] /\ contour'[w] = contour[w]
  BY <1>1 DEF WritersOK, Connected
<1> QED BY <1>2, <1>3, <1>4 DEF Connected

\* What the cycle's connect leaves behind, whether it succeeds or fails.
LEMMA TypedConnect ==
  ASSUME Typed, UNCHANGED <<plan, mapVars, genVars, guards, histVars>>, CycleOK',
         ri.pc \in {"attempt", "connect"}, ri'.pc = ri.pc, ri'.stale = ri.stale,
         \/ UNCHANGED <<wrVars, queue>>
         \/ \E a \in Addrs, g \in Nat, c \in {"Active", "Warm"} : Connected(a, g, c)
  PROVE  Typed'
<1>1. PoolOK' /\ WritersOK /\ HistOK /\ LockOK
  BY PoolKept DEF Typed
<1>2. CASE UNCHANGED <<wrVars, queue>>
  BY <1>1, <1>2, WritersKept, HistKept DEF Typed, LockOK, wrVars
<1>3. CASE \E a \in Addrs, g \in Nat, c \in {"Active", "Warm"} : Connected(a, g, c)
  <2>1. /\ WritersOK' /\ [op |-> "push", w |-> NextId] \in Requests
        /\ queue' = Append(queue, [op |-> "push", w |-> NextId])
        /\ \A w \in Writers : st[w] # "none" => st'[w] = st[w]
    BY <1>1, <1>3, ConnectedOK
  <2>2. HistOK'
    BY <1>1, <2>1, HistKept
  <2>3. QueueOK(queue', ri.pc, ri.stale)
    BY <1>1, <2>1, QueueAppend DEF LockOK
  <2>4. LockOK'
    BY <1>1, <2>3 DEF LockOK
  <2> QED BY <1>1, <2>1, <2>2, <2>4 DEF Typed
<1> QED BY <1>2, <1>3

LEMMA TypedAttempt ==
  ASSUME Typed, warm_attempt, UNCHANGED plan
  PROVE  Typed'
<1>1. /\ CycleOK /\ PoolOK /\ ri.pc = "attempt" /\ ri.left > 0 /\ DCs' = DCs
      /\ ri.desired \in plan.maps /\ ri.dc \in DCs
  BY PoolKept DEF Typed, warm_attempt, CycleOK, mapVars, DCs
<1>2. ri.desired[ri.dc] \subseteq Addrs
  BY <1>1, MapFacts DEF PoolOK, DCs
<1>3. PICK v : ri' = [ri EXCEPT !.left = @ - 1, !.w = v]
  BY Zenon DEF warm_attempt
<1>4. CycleOK' /\ ri'.pc = ri.pc /\ ri'.stale = ri.stale
  BY <1>1, <1>3 DEF CycleOK, Fields, warm_attempt
<1>5. \/ UNCHANGED <<wrVars, queue>>
      \/ \E a \in Addrs, g \in Nat, c \in {"Active", "Warm"} : Connected(a, g, c)
  BY <1>1, <1>2 DEF warm_attempt, CycleOK
<1> QED BY <1>1, <1>4, <1>5, TypedConnect DEF warm_attempt

LEMMA TypedReconnect ==
  ASSUME Typed, reconcile_connect, UNCHANGED plan
  PROVE  Typed'
<1>1. /\ CycleOK /\ PoolOK /\ ri.pc = "connect" /\ DCs' = DCs /\ Entries' = Entries
      /\ ri.todo \subseteq (Entries \X plan.maps)
  BY PoolKept DEF Typed, reconcile_connect, CycleOK
<1>2. PICK e \in ri.todo :
        \/ /\ \E a \in e[2][e[1][1]] : Connected(a, active_generation, "Active")
           /\ ri' = [ri EXCEPT !.todo = @ \ {e}, !.w = NextId]
        \/ /\ ri' = [ri EXCEPT !.todo = @ \ {e}, !.w = 0]
           /\ UNCHANGED <<wrVars, queue>>
  BY Zenon DEF reconcile_connect
<1>3. e[2] \in plan.maps /\ e[1][1] \in DCs
  BY <1>1, <1>2 DEF Entries
<1>4. e[2][e[1][1]] \subseteq Addrs
  BY <1>1, <1>3, MapFacts DEF PoolOK, DCs
<1>5. PICK v : ri' = [ri EXCEPT !.todo = @ \ {e}, !.w = v]
  BY <1>2, Zenon
<1>6. CycleOK' /\ ri'.pc = ri.pc /\ ri'.stale = ri.stale
  BY <1>1, <1>5 DEF CycleOK, Fields
<1>7. \/ UNCHANGED <<wrVars, queue>>
      \/ \E a \in Addrs, g \in Nat, c \in {"Active", "Warm"} : Connected(a, g, c)
  BY <1>1, <1>2, <1>4 DEF PoolOK
<1> QED BY <1>1, <1>6, <1>7, TypedConnect DEF reconcile_connect

LEMMA TypedRequest ==
  ASSUME Typed, request_guard, UNCHANGED plan
  PROVE  Typed'
<1>1. /\ CycleOK /\ PoolOK' /\ WritersOK' /\ HistOK' /\ DCs' = DCs
  BY PoolKept, WritersKept, HistKept DEF Typed, request_guard, wrVars
<1>2. CycleOK' /\ ri'.pc = "guard"
  BY <1>1 DEF request_guard, CycleOK, Fields, Pcs
<1>3. LockOK'
  <2>1. QueueOK(queue, ri.pc, ri.stale) /\ guards = 0 /\ ri.pc \notin Waiting
    BY DEF Typed, LockOK, request_guard, Waiting
  <2>2. [op |-> "guard"] \in Requests
    BY DEF Requests
  <2>3. QueueOK(queue', ri'.pc, ri'.stale)
    BY <1>2, <2>1, <2>2, QueueRequest DEF request_guard
  <2> QED BY <1>2, <2>1, <2>3 DEF LockOK, request_guard
<1> QED BY <1>1, <1>2, <1>3 DEF Typed

\* The steps of the cycle that hold the lock, and those that give it back.
LEMMA TypedTake ==
  ASSUME Typed, take_guard, UNCHANGED plan
  PROVE  Typed'
<1>1. /\ CycleOK /\ LockOK /\ PoolOK' /\ WritersOK' /\ HistOK' /\ DCs' = DCs
  BY PoolKept, WritersKept, HistKept DEF Typed, take_guard, wrVars
<1>2. ri.pc = "guard" /\ \A pc2, stale2 : QueueOK(queue', pc2, stale2)
  BY <1>1, QueueTail, Zenon DEF LockOK, take_guard
<1>3. CycleOK' /\ ri'.pc = "check"
  BY <1>1, <1>2 DEF take_guard, CycleOK, Fields, Pcs
<1>4. LockOK'
  BY <1>1, <1>2, <1>3 DEF LockOK, take_guard
<1> QED BY <1>1, <1>3, <1>4 DEF Typed

LEMMA TypedFails ==
  ASSUME Typed, check_fails, UNCHANGED plan
  PROVE  Typed'
<1>1. /\ CycleOK /\ LockOK /\ PoolOK /\ PoolOK' /\ WritersOK' /\ HistOK' /\ plan.passes \in 0..10
  BY PoolKept, WritersKept, HistKept, ReinitAssumption, ZenonT(60) DEF Typed, check_fails, wrVars, PoolOK
<1>2. CycleOK' /\ ri'.pc = "idle"
  <2>1. ri'.pc = "idle" /\ ri'.hs \in BOOLEAN
    BY IdleFields, Zenon DEF check_fails
  <2>2. /\ DOMAIN ri' = Fields /\ ri'.gen \in Nat /\ ri'.left \in Nat /\ ri'.pass \in 0..plan'.passes
        /\ ri'.stale = {}
    BY <1>1, IdleFields DEF check_fails
  <2> QED BY <2>1, <2>2 DEF CycleOK, Pcs
<1>3. LockOK'
  BY <1>1, <1>2, QueueFree DEF LockOK, check_fails, Waiting
<1> QED BY <1>1, <1>2, <1>3 DEF Typed

LEMMA TypedCovered ==
  ASSUME Typed, hardswap_covered, UNCHANGED plan
  PROVE  Typed'
<1>1. CycleOK /\ LockOK /\ PoolOK /\ ri.pc = "check" /\ ri.hs = TRUE /\ DCs' = DCs
  BY DEF Typed, hardswap_covered, DCs, mapVars, CycleOK
<1>2. PoolOK' /\ WritersOK'
  BY <1>1, WritersKept DEF PoolOK, CycleOK, Typed, hardswap_covered, mapVars
<1>3. CycleOK' /\ ri'.pc = "promote" /\ ri'.stale = {}
  BY <1>1, Zenon DEF hardswap_covered, CycleOK, Fields, Pcs
<1>4. HistOK'
  BY <1>1 DEF hardswap_covered, HistOK, CycleOK
<1>5. LockOK'
  <2>1. [op |-> "promote"] \in Requests
    BY DEF Requests
  <2>2. QueueOK(queue', ri'.pc, ri'.stale)
    BY <1>1, <1>3, <2>1, QueueRequest DEF LockOK, hardswap_covered, Waiting
  <2> QED BY <1>1, <1>3, <2>2 DEF LockOK, hardswap_covered
<1> QED BY <1>2, <1>3, <1>4, <1>5 DEF Typed

LEMMA StaleWriters == stale_writers \subseteq Writers
  BY DEF stale_writers, Serving

LEMMA TypedPromote ==
  ASSUME Typed, promote, UNCHANGED plan
  PROVE  Typed'
<1>1. CycleOK /\ LockOK /\ PoolOK /\ PoolOK' /\ HistOK' /\ WritersOK
  BY PoolKept, HistKept DEF Typed, promote
<1>2. ri.pc = "promote" /\ \A pc2, stale2 : QueueOK(queue', pc2, stale2)
  BY <1>1, QueueTail, Zenon DEF LockOK, promote
<1>3. CycleOK' /\ ri'.pc = "drain"
  BY <1>1, <1>2, StaleWriters DEF promote, CycleOK, Fields, Pcs
<1>4. WritersOK'
  BY <1>1 DEF promote, WritersOK
<1>5. LockOK'
  BY <1>2, <1>3 DEF LockOK, promote
<1> QED BY <1>1, <1>3, <1>4, <1>5 DEF Typed

LEMMA TypedSoft ==
  ASSUME Typed, soft_covered, UNCHANGED plan
  PROVE  Typed'
<1>1. CycleOK /\ LockOK /\ PoolOK' /\ WritersOK' /\ ri.pc = "check"
  BY PoolKept, WritersKept DEF Typed, soft_covered
<1>2. CycleOK' /\ ri'.pc = "drain"
  BY <1>1, StaleWriters DEF soft_covered, CycleOK, Fields, Pcs
<1>3. HistOK'
  BY <1>1 DEF soft_covered, HistOK, CycleOK
<1>4. LockOK'
  BY <1>1, <1>2, QueueFree DEF LockOK, soft_covered, Waiting
<1> QED BY <1>1, <1>2, <1>3, <1>4 DEF Typed

LEMMA TypedDrainRequest ==
  ASSUME Typed, drain_request, UNCHANGED plan
  PROVE  Typed'
<1>1. CycleOK /\ LockOK /\ PoolOK' /\ WritersOK' /\ HistOK' /\ ri.pc = "drain"
  BY PoolKept, WritersKept, HistKept DEF Typed, drain_request, wrVars
<1>2. PICK w \in ri.stale : /\ queue' = Append(queue, [op |-> "drain", w |-> w])
                            /\ ri' = [ri EXCEPT !.pc = "draining", !.w = w]
  BY Zenon DEF drain_request
<1>3. CycleOK' /\ ri'.pc = "draining" /\ ri'.stale = ri.stale
  BY <1>1, <1>2 DEF CycleOK, Fields, Pcs, drain_request
<1>4. LockOK'
  <2>1. [op |-> "drain", w |-> w] \in Requests
    BY <1>1, <1>2 DEF Requests, CycleOK
  <2>2. QueueOK(queue', ri'.pc, ri'.stale)
    BY <1>1, <1>2, <1>3, <2>1, QueueRequest DEF LockOK, Waiting
  <2> QED BY <1>1, <1>3, <2>2 DEF LockOK, drain_request
<1> QED BY <1>1, <1>3, <1>4 DEF Typed

LEMMA TypedFinish ==
  ASSUME Typed, finish_reinit, UNCHANGED plan
  PROVE  Typed'
<1>1. /\ CycleOK /\ LockOK /\ PoolOK /\ WritersOK' /\ HistOK' /\ plan.passes \in 0..10
      /\ ri.pc = "drain" /\ ri' = Idle
  BY WritersKept, HistKept, ReinitAssumption DEF Typed, finish_reinit, wrVars, PoolOK
<1>2. PoolOK'
  <2>1. NoPending \in [gen : Nat, map : plan.maps \cup {Nil}, expired : BOOLEAN]
    BY DEF NoPending
  <2> QED BY <1>1, <2>1 DEF PoolOK, finish_reinit, mapVars
<1>3. CycleOK' /\ ri'.pc = "idle"
  <2>1. ri'.pc = "idle" /\ ri'.hs \in BOOLEAN
    BY <1>1, IdleFields, Zenon
  <2>2. /\ DOMAIN ri' = Fields /\ ri'.gen \in Nat /\ ri'.left \in Nat /\ ri'.pass \in 0..plan'.passes
        /\ ri'.stale = {}
    BY <1>1, IdleFields
  <2> QED BY <2>1, <2>2 DEF CycleOK, Pcs
<1>4. LockOK'
  BY <1>1, <1>3, QueueFree DEF LockOK, finish_reinit, lockVars, Waiting
<1> QED BY <1>1, <1>2, <1>3, <1>4, SMTT(30) DEF Typed

\* The requests for writing.
LEMMA TypedLock ==
  ASSUME Typed, LockStep, UNCHANGED plan
  PROVE  Typed'
<1>1. CycleOK /\ LockOK /\ PoolOK' /\ WritersOK /\ HistOK /\ DCs' = DCs /\ Entries' = Entries
  BY PoolKept DEF Typed, LockStep, push_writer, mark_writer_draining, remove_writer
<1>2. ASSUME UNCHANGED ri PROVE CycleOK'
  BY <1>1, <1>2 DEF CycleOK
<1>3. CASE push_writer
  <2>1. /\ Head(queue) \in Requests /\ Head(queue).op = "push" /\ QueueOK(queue', ri.pc, ri.stale)
    BY <1>1, <1>3, QueueTail DEF LockOK, push_writer, Granted
  <2>2. Head(queue).w \in Writers
    BY <2>1, RequestKinds
  <2>3. WritersOK' /\ HistOK'
    BY <1>1, <1>3, <2>2 DEF push_writer, WritersOK, HistOK, histVars
  <2> QED BY <1>1, <1>2, <1>3, <2>1, <2>3 DEF Typed, LockOK, push_writer
<1>4. CASE remove_writer
  <2>1. /\ Head(queue) \in Requests /\ Head(queue).op = "remove" /\ QueueOK(queue', ri.pc, ri.stale)
    BY <1>1, <1>4, QueueTail DEF LockOK, remove_writer, Granted
  <2>2. Head(queue).w \in Writers
    BY <2>1, RequestKinds
  <2>3. WritersOK' /\ HistOK'
    BY <1>1, <1>4, <2>2, ZenonT(60) DEF remove_writer, WritersOK, HistOK
  <2> QED BY <1>1, <1>2, <1>4, <2>1, <2>3 DEF Typed, LockOK, remove_writer
<1>5. CASE mark_writer_draining
  <2>1. /\ Head(queue) \in Requests /\ Head(queue).op = "drain" /\ ri.pc = "draining"
        /\ \A pc2, stale2 : QueueOK(queue', pc2, stale2)
    BY <1>1, <1>5, QueueTail, Zenon DEF LockOK, mark_writer_draining, Granted
  <2>2. WritersOK' /\ HistOK'
    BY <1>1, <1>5, Zenon DEF mark_writer_draining, WritersOK, HistOK, histVars
  <2>3. CycleOK' /\ ri'.pc = "drain"
    BY <1>1, <1>5, <2>1 DEF mark_writer_draining, CycleOK, Fields, Pcs
  <2> QED BY <1>1, <1>5, <2>1, <2>2, <2>3 DEF Typed, LockOK, mark_writer_draining
<1> QED BY <1>3, <1>4, <1>5 DEF LockStep

\* The rest of the system.
LEMMA TypedEnvironment ==
  ASSUME Typed, EnvironmentStep, UNCHANGED plan
  PROVE  Typed'
<1>1. CycleOK /\ LockOK /\ PoolOK /\ WritersOK /\ HistOK /\ UNCHANGED ri
  BY Zenon DEF Typed, EnvironmentStep, dial, dialed, writer_dies, update_proxy_maps, pending_expires,
         toggle_hardswap
<1>2. ASSUME wmap' \in plan.maps PROVE CycleOK'
  <2>1. DCs' = DCs /\ Entries' = Entries
    BY <1>1, <1>2, MapFacts DEF PoolOK, DCs, Entries
  <2> QED BY <1>1, <2>1 DEF CycleOK
<1>3. CASE dial
  <2>1. NextId \in Writers /\ st[NextId] = "none"
    BY <1>3, NextIdFresh DEF dial
  <2>2. PICK d \in DCs : \E a \in wmap[d] : addr' = [addr EXCEPT ![NextId] = a]
    BY <1>3, Zenon DEF dial
  <2>3. wmap[d] \subseteq Addrs
    BY <1>1, MapFacts DEF PoolOK, DCs
  <2>4. WritersOK' /\ HistOK'
    BY <1>1, <1>3, <2>1, <2>2, <2>3 DEF dial, WritersOK, HistOK, histVars, PoolOK
  <2>5. PoolOK' /\ CycleOK'
    BY <1>1, <1>2, <1>3, PoolKept DEF dial, mapVars, PoolOK
  <2> QED BY <1>1, <1>3, <2>4, <2>5 DEF Typed, LockOK, lockVars, dial
<1>4. ASSUME NEW w \in Writers, dialed(w) \/ writer_dies(w)
      PROVE  Typed'
  <2>1. PoolOK' /\ CycleOK'
    BY <1>1, <1>2, <1>4, PoolKept, SMTT(30) DEF dialed, writer_dies, mapVars, PoolOK
  <2>2. WritersOK' /\ HistOK'
    BY <1>1, <1>4, ZenonT(60) DEF dialed, writer_dies, WritersOK, HistOK, histVars, wrVars
  <2>3. [op |-> "push", w |-> w] \in Requests /\ [op |-> "remove", w |-> w] \in Requests
    BY DEF Requests
  <2>4. QueueOK(queue', ri.pc, ri.stale)
    <3>1. CASE dialed(w)
      BY <1>1, <2>3, <3>1, QueueAppend DEF LockOK, dialed
    <3>2. CASE writer_dies(w)
      BY <1>1, <2>3, <3>2, QueueAppend DEF LockOK, writer_dies
    <3> QED BY <1>4, <3>1, <3>2
  <2> QED BY <1>1, <1>4, <2>1, <2>2, <2>4 DEF Typed, LockOK, dialed, writer_dies
<1>5. CASE update_proxy_maps
  <2>1. PoolOK'
    BY <1>1, <1>5 DEF update_proxy_maps, PoolOK, genVars
  <2>2. WritersOK' /\ HistOK' /\ LockOK'
    BY <1>1, <1>5 DEF update_proxy_maps, WritersOK, HistOK, LockOK, wrVars, histVars, lockVars
  <2> QED BY <1>2, <1>5, <2>1, <2>2 DEF Typed, update_proxy_maps
<1>6. CASE pending_expires \/ toggle_hardswap
  <2>1. hardswap' \in BOOLEAN /\ UNCHANGED <<generation, active_generation, warm_generation, wmap>>
    BY <1>1, <1>6, Zenon DEF pending_expires, toggle_hardswap, PoolOK, mapVars, genVars
  <2>2. pending' \in [gen : Nat, map : plan.maps \cup {Nil}, expired : BOOLEAN]
    BY <1>1, <1>6, Zenon DEF pending_expires, toggle_hardswap, PoolOK, genVars
  <2>3. PoolOK'
    BY <1>1, <2>1, <2>2 DEF PoolOK
  <2>4. WritersOK' /\ HistOK' /\ LockOK'
    BY <1>1, <1>6 DEF pending_expires, toggle_hardswap, WritersOK, HistOK, LockOK, wrVars, histVars, lockVars
  <2> QED BY <1>1, <1>2, <2>1, <2>3, <2>4 DEF Typed, PoolOK
<1> QED BY <1>3, <1>4, <1>5, <1>6 DEF EnvironmentStep

LEMMA TypedStep == Typed /\ [ReinitNext]_reinitVars => Typed'
<1> SUFFICES ASSUME Typed, [ReinitNext]_reinitVars PROVE Typed'
  OBVIOUS
<1>1. CASE UNCHANGED reinitVars
  <2>1. PoolOK' /\ WritersOK' /\ HistOK' /\ DCs' = DCs /\ Entries' = Entries
    BY <1>1, PoolKept, WritersKept, HistKept, SMTT(30) DEF Typed, reinitVars, wrVars
  <2>2. CycleOK' /\ LockOK'
    BY <1>1, <2>1, ZenonT(60) DEF Typed, CycleOK, LockOK, reinitVars, lockVars
  <2> QED BY <2>1, <2>2 DEF Typed
<1>2. CASE Cycle
  BY <1>2, TypedStart, TypedWarmDc, TypedAttempt, TypedPassDone, TypedReconcile, TypedReconnect,
     TypedRequest, TypedTake, TypedFails, TypedCovered, TypedPromote, TypedSoft, TypedDrainRequest,
     TypedFinish DEF Cycle, CycleStep
<1>3. CASE Lock
  BY <1>3, TypedLock DEF Lock
<1>4. CASE Environment
  BY <1>4, TypedEnvironment DEF Environment
<1> QED BY <1>1, <1>2, <1>3, <1>4 DEF ReinitNext

(* Whatever the maps, the plan and the bounds, the fields of the pool and  *)
(* the locals of a cycle keep their types, and the cycle holds a read      *)
(* guard exactly in the two sections the code's guard spans.               *)
THEOREM ReinitTypes == ReinitSpec => []ReinitTypeOK
<1>1. Typed => ReinitTypeOK
  BY Zenon DEF Typed, PoolOK, WritersOK, CycleOK, LockOK, QueueOK, HistOK, Pcs, ReinitTypeOK
<1> QED BY <1>1, TypedInit, TypedStep, PTL DEF ReinitSpec

-----------------------------------------------------------------------------
(* Coverage.  Every DC has a writer that passed the last coverage check    *)
(* and that the cycle will not drain: it is not among the stale writers    *)
(* and, while the promotion waits for the lock, it is of the generation    *)
(* that is promoted.                                                       *)

Covers(d, w) ==
    /\ st[w] = "pool" \/ w \in died
    /\ contour[w] # "Draining" /\ addr[w] \in covered[d]
    /\ w \notin ri.stale
    /\ ri.pc = "promote" => wgen[w] = ri.gen

CoverInv == \A d \in DCs : \E w \in Writers : Covers(d, w)

LEMMA CoverInit == ReinitInit => CoverInv
<1> SUFFICES ASSUME ReinitInit, NEW d \in DCs PROVE \E w \in Writers : Covers(d, w)
  BY DEF CoverInv
<1>1. PICK a \in [1..Cardinality(DCs) -> Addrs] :
        /\ \A e \in DCs : \E i \in DOMAIN a : a[i] \in wmap[e]
        /\ addr = [w \in Writers |-> IF w \in DOMAIN a THEN a[w] ELSE Nil]
  BY Zenon DEF ReinitInit
<1>2. PICK i \in 1..Cardinality(DCs) : a[i] \in wmap[d]
  BY <1>1
<1>3. Cardinality(DCs) \in Nat /\ Cardinality(DCs) <= NumWriters
  BY ReinitAssumption, FS_CardinalityType, Zenon DEF ReinitInit, DCs
<1>4. i \in Writers /\ i <= Cardinality(DCs)
  BY <1>2, <1>3, ReinitAssumption, SMTT(30) DEF Writers
<1>5. addr[i] \in covered[d] /\ st[i] = "pool" /\ contour[i] # "Draining"
  BY <1>1, <1>2, <1>4, ZenonT(60) DEF ReinitInit
<1>6. ri.pc = "idle" /\ ri.stale = {}
  BY IdleFields DEF ReinitInit
<1> QED BY <1>4, <1>5, <1>6 DEF Covers

LEMMA CoverKept ==
  ASSUME CoverInv, DCs' = DCs, \A d \in DCs, w \in Writers : Covers(d, w) => Covers(d, w)'
  PROVE  CoverInv'
  BY DEF CoverInv

\* Steps that leave the writers alone and make nothing stale.
LEMMA CoverQuiet ==
  ASSUME CoverInv, DCs' = DCs, UNCHANGED <<wrVars, histVars>>, ri'.stale \subseteq ri.stale,
         ri'.pc = "promote" => ri.pc = "promote" /\ ri'.gen = ri.gen
  PROVE  CoverInv'
<1>1. \A d \in DCs, w \in Writers : Covers(d, w) => Covers(d, w)'
  BY DEF Covers, wrVars, histVars
<1> QED BY <1>1, CoverKept

LEMMA CoverCycleQuiet ==
  ASSUME Typed, CoverInv, UNCHANGED plan,
         \/ start_reinit \/ warm_dc \/ warm_pass_done \/ reconcile_read \/ reconcile_entries
         \/ request_guard \/ take_guard \/ check_fails \/ drain_request \/ finish_reinit
  PROVE  CoverInv'
<1>1. DOMAIN ri = Fields /\ UNCHANGED <<wrVars, histVars>> /\ DCs' = DCs
  BY Zenon DEF Typed, CycleOK, start_reinit, warm_dc, warm_pass_done, reconcile_read, reconcile_entries,
         request_guard, take_guard, check_fails, drain_request, finish_reinit, mapVars, DCs
<1>2. CASE start_reinit \/ check_fails \/ finish_reinit
  <2>1. ri'.stale = {} /\ ri'.pc # "promote"
    BY <1>2, IdleFields, ZenonT(60) DEF start_reinit, check_fails, finish_reinit, Fields
  <2> QED BY <1>1, <2>1, CoverQuiet
<1>3. CASE warm_dc \/ warm_pass_done
  <2>1. ri'.stale = ri.stale /\ ri'.pc # "promote"
    BY <1>1, <1>3, Zenon DEF warm_dc, warm_pass_done, Fields
  <2> QED BY <1>1, <2>1, CoverQuiet
<1>4. CASE reconcile_read \/ reconcile_entries \/ request_guard \/ take_guard \/ drain_request
  <2>1. ri'.stale = ri.stale /\ ri'.pc # "promote"
    BY <1>1, <1>4, Zenon DEF reconcile_read, reconcile_entries, request_guard, take_guard, drain_request, Fields
  <2> QED BY <1>1, <2>1, CoverQuiet
<1> QED BY <1>2, <1>3, <1>4

\* A connect takes an id that no writer of the pool has had.
LEMMA CoverConnect ==
  ASSUME Typed, CoverInv, UNCHANGED plan, warm_attempt \/ reconcile_connect
  PROVE  CoverInv'
<1>1. /\ DOMAIN ri = Fields /\ UNCHANGED <<histVars>> /\ DCs' = DCs
      /\ ri.pc \in {"attempt", "connect"} /\ HistOK /\ WritersOK
  BY Zenon DEF Typed, CycleOK, warm_attempt, reconcile_connect, mapVars, DCs
<1>2. ri'.stale = ri.stale /\ ri'.pc = ri.pc
  <2>1. CASE warm_attempt
    BY <1>1, <2>1, Zenon DEF warm_attempt, Fields
  <2>2. CASE reconcile_connect
    <3>1. PICK e, v : ri' = [ri EXCEPT !.todo = @ \ {e}, !.w = v]
      BY <2>2, Zenon DEF reconcile_connect
    <3> QED BY <1>1, <3>1 DEF Fields
  <2> QED BY <2>1, <2>2
<1>3. CASE UNCHANGED wrVars
  BY <1>1, <1>2, <1>3, CoverQuiet
<1>4. ASSUME NEW a, NEW g, NEW c, Connected(a, g, c) PROVE CoverInv'
  <2>1. NextId \in Writers /\ st[NextId] = "none"
    BY <1>4, NextIdFresh DEF Connected
  <2>2. ASSUME NEW d \in DCs, NEW w \in Writers, Covers(d, w) PROVE Covers(d, w)'
    <3>1. w # NextId
      BY <1>1, <2>1, <2>2 DEF Covers, HistOK
    <3>2. st'[w] = st[w] /\ addr'[w] = addr[w] /\ contour'[w] = contour[w] /\ wgen'[w] = wgen[w]
      BY <1>1, <1>4, <3>1 DEF Connected, WritersOK
    <3> QED BY <1>1, <1>2, <2>2, <3>2 DEF Covers, histVars
  <2> QED BY <1>1, <2>2, CoverKept
<1> QED BY <1>3, <1>4, Zenon DEF warm_attempt, reconcile_connect

LEMMA CoverHardswap ==
  ASSUME Typed, UNCHANGED plan, hardswap_covered
  PROVE  CoverInv'
<1>1. /\ CycleOK /\ PoolOK /\ ri.pc = "check" /\ fresh_coverage_complete /\ covered' = ri.desired
      /\ UNCHANGED <<mapVars, wrVars>> /\ ri' = [ri EXCEPT !.pc = "promote"] /\ DCs' = DCs
  BY DEF Typed, hardswap_covered, mapVars, DCs
<1>2. ri'.pc = "promote" /\ ri'.gen = ri.gen /\ ri'.stale = {} /\ ri.desired \in plan.maps
  BY <1>1 DEF CycleOK, Fields
<1> SUFFICES ASSUME NEW d \in DCs PROVE \E w \in Writers : Covers(d, w)'
  BY <1>1 DEF CoverInv
<1>3. Required(d) \in Nat \ {0}
  BY <1>1, <1>2, MapFacts, RequiredPositive DEF PoolOK, Required, DCs
<1>4. fresh_writer_count(ri.gen, ri.desired[d]) # 0
  BY <1>1, <1>3, FreshCount DEF fresh_coverage_complete
<1>5. PICK w \in Serving : wgen[w] = ri.gen /\ addr[w] \in ri.desired[d]
  BY <1>4, FreshCount
<1> QED BY <1>1, <1>2, <1>5 DEF Covers, Serving, wrVars

LEMMA CoverPromote ==
  ASSUME Typed, CoverInv, UNCHANGED plan, promote
  PROVE  CoverInv'
<1>1. /\ CycleOK /\ WritersOK /\ LockOK /\ DCs' = DCs /\ UNCHANGED <<st, wgen, addr, histVars>>
      /\ ri' = [ri EXCEPT !.pc = "drain", !.stale = stale_writers]
      /\ contour' = [w \in Writers |-> IF w \in Serving /\ wgen[w] = ri.gen
                                       THEN "Active" ELSE contour[w]]
  BY DEF Typed, promote, mapVars, DCs
<1>2. ri.pc = "promote" /\ ri.hs = TRUE /\ ri.gen \in Nat
  BY <1>1, QueueTail, Zenon DEF LockOK, promote, CycleOK
<1>3. ri'.pc = "drain" /\ ri'.stale = stale_writers
  BY <1>1 DEF CycleOK, Fields
<1>4. ASSUME NEW d \in DCs, NEW w \in Writers, Covers(d, w) PROVE Covers(d, w)'
  <2>1. wgen[w] = ri.gen
    BY <1>2, <1>4 DEF Covers
  <2>2. w \notin stale_writers
    BY <1>2, <2>1 DEF stale_writers
  <2>3. contour'[w] # "Draining"
    BY <1>1, <1>4 DEF Covers
  <2> QED BY <1>1, <1>3, <1>4, <2>2, <2>3 DEF Covers, histVars
<1> QED BY <1>1, <1>4, CoverKept

LEMMA CoverSoft ==
  ASSUME Typed, UNCHANGED plan, soft_covered
  PROVE  CoverInv'
<1>1. /\ CycleOK /\ ~ri.hs /\ coverage_complete(ri.desired) /\ covered' = ri.desired
      /\ UNCHANGED <<mapVars, wrVars>> /\ DCs' = DCs
      /\ ri' = [ri EXCEPT !.pc = "drain", !.stale = stale_writers]
  BY DEF Typed, soft_covered, mapVars, DCs
<1>2. ri'.pc = "drain" /\ ri'.stale = stale_writers
  BY <1>1 DEF CycleOK, Fields
<1> SUFFICES ASSUME NEW d \in DCs PROVE \E w \in Writers : Covers(d, w)'
  BY <1>1 DEF CoverInv
<1>3. PICK w \in Serving : addr[w] \in ri.desired[d]
  BY <1>1 DEF coverage_complete
<1>4. w \notin stale_writers
  BY <1>1, <1>3 DEF stale_writers
<1> QED BY <1>1, <1>2, <1>3, <1>4 DEF Covers, Serving, wrVars

LEMMA CoverLock ==
  ASSUME Typed, CoverInv, UNCHANGED plan, LockStep
  PROVE  CoverInv'
<1>1. WritersOK /\ CycleOK /\ LockOK /\ HistOK /\ DCs' = DCs /\ UNCHANGED <<wgen, addr, covered>>
  BY DEF Typed, LockStep, push_writer, mark_writer_draining, remove_writer, mapVars, DCs, histVars
<1>2. CASE push_writer \/ remove_writer
  <2>1. /\ UNCHANGED <<contour, ri>> /\ died \subseteq died'
        /\ \A w \in Writers : st[w] = "pool" => st'[w] = "pool" \/ w \in died'
    BY <1>1, <1>2, ZenonT(60) DEF push_writer, remove_writer, WritersOK, histVars
  <2>2. \A d \in DCs, w \in Writers : Covers(d, w) => Covers(d, w)'
    BY <1>1, <2>1 DEF Covers
  <2> QED BY <1>1, <2>2, CoverKept
<1>3. CASE mark_writer_draining
  <2>1. ri.pc = "draining" /\ Head(queue).w \in ri.stale
    BY <1>1, <1>3, QueueTail, Zenon DEF LockOK, mark_writer_draining, Granted
  <2>2. ri'.pc = "drain" /\ ri'.stale \subseteq ri.stale
    BY <1>1, <1>3 DEF mark_writer_draining, CycleOK, Fields
  <2>3. ASSUME NEW d \in DCs, NEW w \in Writers, Covers(d, w) PROVE Covers(d, w)'
    <3>1. w # Head(queue).w
      BY <2>1, <2>3 DEF Covers
    <3>2. contour'[w] = contour[w] /\ UNCHANGED <<st, died>>
      BY <1>1, <1>3, <3>1 DEF mark_writer_draining, WritersOK, histVars
    <3> QED BY <1>1, <2>2, <2>3, <3>2 DEF Covers
  <2> QED BY <1>1, <2>3, CoverKept
<1> QED BY <1>2, <1>3 DEF LockStep

LEMMA CoverEnvironment ==
  ASSUME Typed, CoverInv, UNCHANGED plan, EnvironmentStep
  PROVE  CoverInv'
<1>1. WritersOK /\ HistOK /\ PoolOK /\ UNCHANGED <<ri, histVars>>
  BY Zenon DEF Typed, EnvironmentStep, dial, dialed, writer_dies, update_proxy_maps, pending_expires,
         toggle_hardswap
<1>2. DCs' = DCs
  <2>1. wmap' \in plan.maps
    BY <1>1, Zenon DEF EnvironmentStep, dial, dialed, writer_dies, update_proxy_maps, pending_expires,
         toggle_hardswap, mapVars, PoolOK
  <2> QED BY <1>1, <2>1, MapFacts DEF PoolOK, DCs
<1>3. CASE dial
  <2>1. NextId \in Writers /\ st[NextId] = "none"
    BY <1>3, NextIdFresh DEF dial
  <2>2. ASSUME NEW d \in DCs, NEW w \in Writers, Covers(d, w) PROVE Covers(d, w)'
    <3>1. w # NextId
      BY <1>1, <2>1, <2>2 DEF Covers, HistOK
    <3>2. PICK a : addr' = [addr EXCEPT ![NextId] = a]
      BY <1>3, Zenon DEF dial
    <3>3. st'[w] = st[w] /\ addr'[w] = addr[w] /\ contour'[w] = contour[w] /\ wgen'[w] = wgen[w]
      BY <1>1, <1>3, <3>1, <3>2, Zenon DEF dial, WritersOK
    <3> QED BY <1>1, <2>2, <3>3 DEF Covers, histVars
  <2> QED BY <1>2, <2>2, CoverKept
<1>4. ASSUME NEW v \in Writers, dialed(v) PROVE CoverInv'
  <2>1. \A w \in Writers : st[w] = "pool" => st'[w] = "pool"
    BY <1>1, <1>4 DEF dialed, WritersOK
  <2>2. \A d \in DCs, w \in Writers : Covers(d, w) => Covers(d, w)'
    BY <1>1, <1>4, <2>1, ZenonT(60) DEF Covers, dialed, histVars
  <2> QED BY <1>2, <2>2, CoverKept
<1>5. CASE (\E w \in Writers : writer_dies(w)) \/ update_proxy_maps \/ pending_expires \/ toggle_hardswap
  <2>1. UNCHANGED <<wrVars, histVars, ri>>
    BY <1>5, Zenon DEF writer_dies, update_proxy_maps, pending_expires, toggle_hardswap
  <2> QED BY <1>2, <2>1, CoverQuiet
<1> QED BY <1>3, <1>4, <1>5 DEF EnvironmentStep

LEMMA CoverStep == Typed /\ CoverInv /\ [ReinitNext]_reinitVars => CoverInv'
<1> SUFFICES ASSUME Typed, CoverInv, [ReinitNext]_reinitVars PROVE CoverInv'
  OBVIOUS
<1>1. CASE UNCHANGED reinitVars
  BY <1>1, CoverQuiet, ZenonT(60) DEF reinitVars, mapVars, DCs
<1>2. CASE Cycle
  BY <1>2, CoverCycleQuiet, CoverConnect, CoverHardswap, CoverPromote, CoverSoft DEF Cycle, CycleStep
<1>3. CASE Lock
  BY <1>3, CoverLock DEF Lock
<1>4. CASE Environment
  BY <1>4, CoverEnvironment DEF Environment
<1> QED BY <1>1, <1>2, <1>3, <1>4 DEF ReinitNext

(* Rotation never takes the last writer of a DC out of service, for any    *)
(* maps, floors and numbers of writers, and whatever connects, fails or is *)
(* reloaded while the cycle waits for the lock.                            *)
THEOREM RotationKeepsCoverage == ReinitSpec => []SwapKeepsCoverage
<1>1. ReinitInit => Typed /\ CoverInv
  BY TypedInit, CoverInit
<1>2. Typed /\ CoverInv /\ [ReinitNext]_reinitVars => (Typed /\ CoverInv)'
  BY TypedStep, CoverStep
<1>3. CoverInv => SwapKeepsCoverage
  BY DEF CoverInv, Covers, SwapKeepsCoverage
<1> QED BY <1>1, <1>2, <1>3, PTL DEF ReinitSpec

-----------------------------------------------------------------------------
(* The Warm writers of a rotation (WarmAccounted), on top of the typing.   *)
(*                                                                         *)
(* The queue places every writer at most once, at the push of a connected  *)
(* writer or at the removal of one of the pool (PlacedOnce); generations   *)
(* only grow, and a hardswap cycle works on the pending one (GenInv);      *)
(* while the flag is not flipped (Steady), the Warm writers in service are *)
(* of a pending generation, and when the cycle reaches the drain they are  *)
(* all in the set it drains (WarmInv).                                     *)

Placing == {"push", "remove"}

PlacedOnce(q, s) ==
    /\ \A i \in 1..Len(q) : /\ q[i].op = "push" => s[q[i].w] = "connected"
                            /\ q[i].op = "remove" => s[q[i].w] = "pool"
    /\ \A i, j \in 1..Len(q) :
          q[i].op \in Placing /\ q[j].op \in Placing /\ q[i].w = q[j].w => i = j

Steady == ~plan.toggle \/ changes = 0

GenInv ==
    /\ changes \in Nat /\ pending.gen <= generation /\ active_generation <= generation
    /\ pending.gen # 0 => active_generation <= pending.gen
    /\ ri.pc # "idle" /\ ri.hs => ri.gen = pending.gen /\ ri.gen # 0
    /\ ri.pc \in {"warm", "attempt"} => ri.hs
    /\ changes = 0 /\ pending.gen # 0 => pending.map = wmap /\ ~pending.expired
    /\ ~plan.toggle => hardswap
    /\ Steady /\ ri.pc # "idle" => ri.hs = hardswap

WarmInv ==
    /\ \A w \in Writers : st[w] \in {"none", "dialing"} => contour[w] = "Active"
    /\ \A w \in Writers : contour[w] = "Warm" /\ st[w] = "connected" => ri.pc = "attempt" /\ ri.w = w
    /\ Steady => \A w \in Writers : contour[w] = "Warm" /\ st[w] \in {"connected", "pool"} =>
          /\ hardswap /\ pending.gen # 0 /\ wgen[w] <= pending.gen
          /\ changes = 0 => wgen[w] = pending.gen
    /\ Steady /\ ri.pc \in {"drain", "draining"} =>
          \A w \in Writers : contour[w] = "Warm" /\ st[w] = "pool" => w \in ri.stale
    /\ changes = 0 => \A w \in ri.stale : contour[w] # "Warm"

LEMMA PlacedState ==
  ASSUME NEW q, NEW s, NEW s2, PlacedOnce(q, s),
         \A i \in 1..Len(q) : q[i].op \in Placing => s2[q[i].w] = s[q[i].w]
  PROVE  PlacedOnce(q, s2)
  BY DEF PlacedOnce, Placing

LEMMA PlacedAppend ==
  ASSUME NEW q \in Seq(Requests), NEW s, PlacedOnce(q, s), NEW r \in Requests,
         r.op = "push" => s[r.w] = "connected", r.op = "remove" => s[r.w] = "pool",
         r.op \in Placing => \A i \in 1..Len(q) : q[i].op \in Placing => q[i].w # r.w
  PROVE  PlacedOnce(Append(q, r), s)
<1> DEFINE a == Append(q, r)
<1>1. /\ Len(q) \in Nat /\ Len(a) = Len(q) + 1
      /\ a[Len(q) + 1] = r /\ \A i \in 1..Len(q) : a[i] = q[i]
  OBVIOUS
<1>2. \A i \in 1..Len(a) : i \in 1..Len(q) \/ i = Len(q) + 1
  BY <1>1
<1> HIDE DEF a
<1>3. ASSUME NEW i \in 1..Len(a)
      PROVE  /\ a[i].op = "push" => s[a[i].w] = "connected"
             /\ a[i].op = "remove" => s[a[i].w] = "pool"
  BY <1>1, <1>2 DEF PlacedOnce
<1>4. ASSUME NEW i \in 1..Len(a), NEW j \in 1..Len(a),
             a[i].op \in Placing, a[j].op \in Placing, a[i].w = a[j].w
      PROVE  i = j
  BY <1>1, <1>2, <1>4 DEF PlacedOnce
<1>5. PlacedOnce(a, s)
  BY <1>3, <1>4 DEF PlacedOnce
<1> QED BY <1>5 DEF a

LEMMA PlacedTail ==
  ASSUME NEW q \in Seq(Requests), NEW s, PlacedOnce(q, s), q # << >>
  PROVE  /\ PlacedOnce(Tail(q), s)
         /\ Head(q).op = "push" => s[Head(q).w] = "connected"
         /\ Head(q).op = "remove" => s[Head(q).w] = "pool"
         /\ Head(q).op \in Placing =>
                \A i \in 1..Len(Tail(q)) : Tail(q)[i].op \in Placing => Tail(q)[i].w # Head(q).w
<1> DEFINE t == Tail(q)
<1>1. /\ Len(q) \in Nat /\ Len(q) > 0 /\ Head(q) = q[1]
      /\ Len(t) = Len(q) - 1 /\ \A i \in 1..Len(t) : t[i] = q[i + 1]
  OBVIOUS
<1>2. 1 \in 1..Len(q) /\ \A i \in 1..Len(t) : i \in Nat /\ i + 1 \in 1..Len(q) /\ i + 1 # 1
  BY <1>1
<1> HIDE DEF t
<1>3. PlacedOnce(t, s)
  <2>1. ASSUME NEW i \in 1..Len(t), NEW j \in 1..Len(t),
               t[i].op \in Placing, t[j].op \in Placing, t[i].w = t[j].w
        PROVE  i = j
    <3>1. i + 1 = j + 1
      BY <1>1, <1>2, <2>1, SMTT(30) DEF PlacedOnce
    <3> QED BY <1>2, <3>1, SMTT(30)
  <2>2. ASSUME NEW i \in 1..Len(t)
        PROVE  /\ t[i].op = "push" => s[t[i].w] = "connected"
               /\ t[i].op = "remove" => s[t[i].w] = "pool"
    <3>1. t[i] = q[i + 1] /\ i + 1 \in 1..Len(q)
      BY <1>1, <1>2
    <3> QED BY <3>1, Zenon DEF PlacedOnce
  <2> QED BY <2>1, <2>2, ZenonT(60) DEF PlacedOnce
<1>4. ASSUME Head(q).op \in Placing, NEW i \in 1..Len(t), t[i].op \in Placing
      PROVE  t[i].w # Head(q).w
  BY <1>1, <1>2, <1>4, SMTT(30) DEF PlacedOnce
<1>5. /\ Head(q).op = "push" => s[Head(q).w] = "connected"
      /\ Head(q).op = "remove" => s[Head(q).w] = "pool"
  BY <1>1, <1>2 DEF PlacedOnce
<1> QED BY <1>3, <1>4, <1>5, SMTT(30) DEF t

\* No writer placed in the queue is without a connection.
LEMMA PlacedKnown ==
  ASSUME NEW q, NEW s, PlacedOnce(q, s), NEW i \in 1..Len(q), q[i].op \in Placing
  PROVE  s[q[i].w] \in {"connected", "pool"}
  BY DEF PlacedOnce, Placing

LEMMA PlacedConnected ==
  ASSUME Typed, PlacedOnce(queue, st), NEW a, NEW g, NEW c, Connected(a, g, c)
  PROVE  PlacedOnce(queue', st')
<1>1. NextId \in Writers /\ st[NextId] = "none"
  BY NextIdFresh DEF Connected
<1> DEFINE r == [op |-> "push", w |-> NextId]
<1>2. r \in Requests /\ r.op = "push" /\ r.w = NextId /\ queue \in Seq(Requests)
  BY <1>1 DEF Requests, Typed, LockOK, QueueOK
<1>3. queue' = Append(queue, r) /\ st' = [st EXCEPT ![NextId] = "connected"] /\ WritersOK
  BY DEF Connected, Typed
<1> HIDE DEF r
<1>4. \A i \in 1..Len(queue) : queue[i].op \in Placing => queue[i].w # NextId
  BY <1>1, PlacedKnown
<1>5. st'[NextId] = "connected" /\ \A w : w # NextId /\ w \in Writers => st'[w] = st[w]
  BY <1>1, <1>3 DEF WritersOK
<1>6. \A i \in 1..Len(queue) : queue[i].op \in Placing => queue[i].w \in Writers
  BY <1>2, RequestKinds DEF Placing
<1>7. PlacedOnce(queue, st')
  BY <1>4, <1>5, <1>6, PlacedState
<1>8. PlacedOnce(Append(queue, r), st')
  BY <1>2, <1>4, <1>5, <1>7, PlacedAppend DEF Placing
<1> QED BY <1>3, <1>8

LEMMA PlacedStep ==
  ASSUME Typed, PlacedOnce(queue, st), [ReinitNext]_reinitVars
  PROVE  PlacedOnce(queue', st')
<1>1. queue \in Seq(Requests) /\ WritersOK /\ CycleOK
  BY DEF Typed, LockOK, QueueOK
<1>2. \A i \in 1..Len(queue) : queue[i] \in Requests /\ (queue[i].op \in Placing => queue[i].w \in Writers)
  BY <1>1, RequestKinds, SMTT(30) DEF Placing
<1>3. CASE UNCHANGED <<queue, st>>
  BY <1>3
<1>4. CASE Cycle
  <2>1. CASE \/ start_reinit \/ warm_dc \/ warm_pass_done \/ reconcile_read \/ reconcile_entries
             \/ check_fails \/ soft_covered \/ finish_reinit
    BY <1>3, <2>1, Zenon DEF start_reinit, warm_dc, warm_pass_done, reconcile_read, reconcile_entries,
             check_fails, soft_covered, finish_reinit, lockVars, wrVars
  <2>2. CASE warm_attempt \/ reconcile_connect
    BY <1>3, <2>2, PlacedConnected, ZenonT(60) DEF warm_attempt, reconcile_connect, wrVars
  <2>3. CASE request_guard \/ hardswap_covered \/ drain_request
    <3>1. PICK r \in Requests : queue' = Append(queue, r) /\ r.op \notin Placing
      <4>1. [op |-> "guard"] \in Requests /\ [op |-> "promote"] \in Requests
            /\ \A w \in Writers : [op |-> "drain", w |-> w] \in Requests
        BY DEF Requests
      <4>2. CASE request_guard \/ hardswap_covered
        BY <4>1, <4>2, SMTT(30) DEF request_guard, hardswap_covered, Placing
      <4>3. CASE drain_request
        <5>1. PICK w \in Writers : queue' = Append(queue, [op |-> "drain", w |-> w])
          BY <1>1, <4>3 DEF drain_request, CycleOK
        <5>2. [op |-> "drain", w |-> w] \in Requests /\ [op |-> "drain", w |-> w].op \notin Placing
          BY <4>1 DEF Placing
        <5> QED BY <5>1, <5>2, SMTT(30)
      <4> QED BY <2>3, <4>2, <4>3
    <3>2. PlacedOnce(Append(queue, r), st)
      BY <1>1, <3>1, PlacedAppend DEF Placing
    <3> QED BY <2>3, <3>1, <3>2, Zenon DEF request_guard, hardswap_covered, drain_request, wrVars
  <2>4. CASE take_guard \/ promote
    BY <1>1, <2>4, PlacedTail, ZenonT(60) DEF take_guard, promote, wrVars
  <2> QED BY <1>4, <2>1, <2>2, <2>3, <2>4 DEF Cycle, CycleStep
<1>5. CASE Lock
  <2>1. CASE mark_writer_draining
    BY <1>1, <2>1, PlacedTail DEF mark_writer_draining, Granted
  <2>2. CASE push_writer \/ remove_writer
    <3>1. queue # << >> /\ queue' = Tail(queue) /\ Head(queue).op \in Placing
      BY <2>2 DEF push_writer, remove_writer, Granted, Placing
    <3>2. /\ PlacedOnce(queue', st)
          /\ \A i \in 1..Len(queue') : queue'[i].op \in Placing => queue'[i].w # Head(queue).w
      BY <1>1, <3>1, PlacedTail, SMTT(30)
    <3>3. PICK x : st' = [st EXCEPT ![Head(queue).w] = x]
      BY <2>2 DEF push_writer, remove_writer
    <3>4. \A i \in 1..Len(queue') : queue'[i].op \in Placing => queue'[i].w \in Writers
      <4>1. queue' \in Seq(Requests)
        BY <1>1, <3>1, SMTT(30)
      <4> QED BY <4>1, RequestKinds DEF Placing
    <3>5. \A i \in 1..Len(queue') : queue'[i].op \in Placing => st'[queue'[i].w] = st[queue'[i].w]
      BY <1>1, <3>2, <3>3, <3>4 DEF WritersOK
    <3> QED BY <3>2, <3>5, PlacedState, SMTT(30)
  <2> QED BY <1>5, <2>1, <2>2 DEF Lock, LockStep
<1>6. CASE Environment
  <2>1. CASE dial
    <3>1. NextId \in Writers /\ st[NextId] = "none" /\ UNCHANGED queue
          /\ st' = [st EXCEPT ![NextId] = "dialing"]
      BY <2>1, NextIdFresh DEF dial, lockVars
    <3>2. \A i \in 1..Len(queue) : queue[i].op \in Placing => queue[i].w # NextId
      BY <3>1, PlacedKnown
    <3>3. \A i \in 1..Len(queue) : queue[i].op \in Placing => st'[queue[i].w] = st[queue[i].w]
      BY <1>1, <1>2, <3>1, <3>2 DEF WritersOK
    <3>4. PlacedOnce(queue, st')
      BY <3>3, PlacedState
    <3> QED BY <3>1, <3>4
  <2>2. ASSUME NEW w \in Writers, dialed(w) PROVE PlacedOnce(queue', st')
    <3>1. st[w] = "dialing" /\ st' = [st EXCEPT ![w] = "connected"]
          /\ queue' = Append(queue, [op |-> "push", w |-> w])
      BY <2>2 DEF dialed
    <3>2. \A i \in 1..Len(queue) : queue[i].op \in Placing => queue[i].w # w
      BY <3>1, PlacedKnown
    <3>3. \A i \in 1..Len(queue) : queue[i].op \in Placing => st'[queue[i].w] = st[queue[i].w]
      BY <1>1, <1>2, <3>1, <3>2 DEF WritersOK
    <3>4. PlacedOnce(queue, st') /\ st'[w] = "connected"
      <4>1. PlacedOnce(queue, st')
        BY <3>3, PlacedState
      <4>2. st'[w] = "connected"
        BY <1>1, <3>1 DEF WritersOK
      <4> QED BY <4>1, <4>2
    <3>5. [op |-> "push", w |-> w] \in Requests
      BY DEF Requests
    <3> QED BY <1>1, <3>1, <3>2, <3>4, <3>5, PlacedAppend, ZenonT(60) DEF Placing
  <2>3. ASSUME NEW w \in Writers, writer_dies(w) PROVE PlacedOnce(queue', st')
    <3>1. st[w] = "pool" /\ w \notin Removals /\ UNCHANGED st
          /\ queue' = Append(queue, [op |-> "remove", w |-> w])
      BY <2>3 DEF writer_dies, wrVars
    <3>2. ASSUME NEW i \in 1..Len(queue), queue[i].op \in Placing PROVE queue[i].w # w
      <4>1. DOMAIN queue = 1..Len(queue)
        BY <1>1
      <4>2. CASE queue[i].op = "remove"
        BY <3>1, <4>1, <4>2 DEF Removals
      <4>3. CASE queue[i].op = "push"
        BY <3>1, <4>3 DEF PlacedOnce
      <4> QED BY <3>2, <4>2, <4>3 DEF Placing
    <3>3. [op |-> "remove", w |-> w] \in Requests
      BY DEF Requests
    <3> QED BY <1>1, <3>1, <3>2, <3>3, PlacedAppend DEF Placing
  <2>4. CASE update_proxy_maps \/ pending_expires \/ toggle_hardswap
    BY <1>3, <2>4 DEF update_proxy_maps, pending_expires, toggle_hardswap, lockVars, wrVars
  <2> QED BY <1>6, <2>1, <2>2, <2>3, <2>4, SMTT(30) DEF Environment, EnvironmentStep
<1> QED BY <1>3, <1>4, <1>5, <1>6 DEF ReinitNext, reinitVars, lockVars, wrVars

LEMMA GenInit == ReinitInit => GenInv
<1> SUFFICES ASSUME ReinitInit PROVE GenInv
  OBVIOUS
<1>1. /\ changes = 0 /\ pending = NoPending /\ generation = 1 /\ active_generation = 1
      /\ ri.pc = "idle" /\ pending.gen = 0
  BY IdleFields DEF ReinitInit, NoPending
<1>2. ~plan.toggle => hardswap
  BY DEF ReinitInit
<1>3. changes \in Nat /\ pending.gen <= generation /\ active_generation <= generation
  BY <1>1
<1> QED BY <1>1, <1>2, <1>3 DEF GenInv

\* Steps that leave the generations, the flag and the map alone.
LEMMA GenQuiet ==
  ASSUME GenInv, UNCHANGED <<plan, mapVars, generation, active_generation, pending, changes>>,
         \/ ri'.pc = "idle"
         \/ /\ ri.pc # "idle" /\ ri'.hs = ri.hs /\ ri'.gen = ri.gen
            /\ ri'.pc \in {"warm", "attempt"} => ri.pc \in {"warm", "attempt"}
  PROVE  GenInv'
<1>1. UNCHANGED <<wmap, hardswap, Steady>>
  BY DEF mapVars, Steady
<1>2. CASE ri'.pc = "idle"
  BY <1>1, <1>2 DEF GenInv
<1>3. CASE /\ ri.pc # "idle" /\ ri'.hs = ri.hs /\ ri'.gen = ri.gen
           /\ ri'.pc \in {"warm", "attempt"} => ri.pc \in {"warm", "attempt"}
  BY <1>1, <1>3 DEF GenInv
<1> QED BY <1>2, <1>3

\* A step of a running cycle keeps its generation and its mode.
LEMMA CycleFrame ==
  ASSUME Typed, UNCHANGED plan,
         \/ warm_dc \/ warm_attempt \/ warm_pass_done \/ reconcile_read \/ reconcile_entries
         \/ reconcile_connect \/ request_guard \/ take_guard \/ hardswap_covered \/ promote
         \/ soft_covered \/ drain_request \/ mark_writer_draining
  PROVE  /\ ri.pc # "idle" /\ ri'.hs = ri.hs /\ ri'.gen = ri.gen
         /\ ri'.pc \in {"warm", "attempt"} => ri.pc \in {"warm", "attempt"}
<1>1. DOMAIN ri = Fields /\ QueueOK(queue, ri.pc, ri.stale)
  BY DEF Typed, CycleOK, LockOK
<1>2. CASE warm_dc \/ warm_attempt \/ warm_pass_done
  <2>1. CASE warm_dc
    BY <1>1, <2>1, Zenon DEF warm_dc, Fields
  <2>2. CASE warm_attempt
    <3>1. PICK v : ri' = [ri EXCEPT !.left = @ - 1, !.w = v]
      BY <2>2, Zenon DEF warm_attempt
    <3> QED BY <1>1, <2>2, <3>1 DEF warm_attempt, Fields
  <2>3. CASE warm_pass_done
    BY <1>1, <2>3 DEF warm_pass_done, Fields
  <2> QED BY <1>2, <2>1, <2>2, <2>3
<1>3. CASE reconcile_read \/ reconcile_entries \/ request_guard
  BY <1>1, <1>3, Zenon DEF reconcile_read, reconcile_entries, request_guard, Fields
<1>4. CASE reconcile_connect
  <2>1. PICK e, v : ri' = [ri EXCEPT !.todo = @ \ {e}, !.w = v]
    BY <1>4, Zenon DEF reconcile_connect
  <2> QED BY <1>1, <1>4, <2>1, Zenon DEF reconcile_connect, Fields
<1>5. CASE hardswap_covered \/ soft_covered \/ drain_request
  BY <1>1, <1>5, Zenon DEF hardswap_covered, soft_covered, drain_request, Fields
<1>6. CASE take_guard
  <2>1. ri.pc = "guard"
    BY <1>1, <1>6, QueueTail, Zenon DEF take_guard
  <2> QED BY <1>1, <1>6, <2>1 DEF take_guard, Fields
<1>7. CASE promote
  <2>1. ri.pc = "promote"
    BY <1>1, <1>7, QueueTail, Zenon DEF promote
  <2> QED BY <1>1, <1>7, <2>1 DEF promote, Fields
<1>8. CASE mark_writer_draining
  <2>1. ri.pc = "draining"
    BY <1>1, <1>8, QueueTail, Zenon DEF mark_writer_draining, Granted
  <2> QED BY <1>1, <1>8, <2>1 DEF mark_writer_draining, Fields
<1> QED BY <1>2, <1>3, <1>4, <1>5, <1>6, <1>7, <1>8

LEMMA GenStart ==
  ASSUME Typed, GenInv, UNCHANGED plan, start_reinit
  PROVE  /\ GenInv'
         /\ hardswap => ri'.gen = pending'.gen /\ pending'.gen # 0 /\ pending.gen <= pending'.gen
         /\ hardswap /\ changes = 0 /\ pending.gen # 0 => pending'.gen = pending.gen
         /\ hardswap /\ pending'.gen # pending.gen => pending'.gen > generation
<1>1. /\ PoolOK /\ ri.pc = "idle" /\ choose_generation
      /\ UNCHANGED <<wmap, hardswap, active_generation, changes, Steady>>
      /\ ri'.pc \in {"warm", "reconcile"} /\ ri'.hs = hardswap /\ (ri'.pc = "warm" <=> hardswap)
      /\ ri'.gen = IF hardswap THEN pending'.gen ELSE generation'
  BY IdleFields DEF Typed, start_reinit, mapVars, Steady, Fields
<1>2. /\ generation \in Nat /\ pending.gen \in Nat /\ active_generation \in Nat
      /\ pending.gen <= generation /\ active_generation <= generation
  BY <1>1 DEF PoolOK, GenInv
<1>3. CASE ~hardswap
  <2>1. generation' = generation + 1 /\ pending'.gen = 0
    BY <1>1, <1>3 DEF choose_generation, NewGeneration, NoPending
  <2> QED BY <1>1, <1>2, <1>3, <2>1 DEF GenInv
<1>4. CASE hardswap /\ PendingUsable
  <2>1. UNCHANGED <<generation, pending>> /\ pending.gen # 0
    BY <1>1, <1>4 DEF choose_generation, PendingUsable
  <2> QED BY <1>1, <1>2, <1>4, <2>1 DEF GenInv
<1>5. CASE hardswap /\ ~PendingUsable
  <2>1. generation' = generation + 1 /\ pending' = [gen |-> generation', map |-> wmap, expired |-> FALSE]
    BY <1>1, <1>5 DEF choose_generation, NewGeneration
  <2>2. pending'.gen = generation + 1 /\ pending'.map = wmap /\ pending'.expired = FALSE
    BY <2>1
  <2>3. ~(changes = 0 /\ pending.gen # 0)
    <3> SUFFICES ASSUME changes = 0, pending.gen # 0 PROVE PendingUsable
      BY <1>5
    <3> QED BY <1>2 DEF GenInv, PendingUsable
  <2> QED BY <1>1, <1>2, <1>5, <2>1, <2>2, <2>3 DEF GenInv
<1> QED BY <1>3, <1>4, <1>5

LEMMA GenStep ==
  ASSUME Typed, GenInv, [ReinitNext]_reinitVars
  PROVE  GenInv'
<1>0. PoolOK /\ CycleOK /\ UNCHANGED plan
  BY DEF Typed, ReinitNext, Cycle, Lock, Environment, reinitVars
<1>1. CASE UNCHANGED reinitVars
  <2>1. UNCHANGED <<plan, wmap, hardswap, generation, active_generation, pending, changes, ri, Steady>>
    BY <1>1 DEF reinitVars, mapVars, genVars, boundVars, Steady
  <2> QED BY <2>1 DEF GenInv
<1>2. CASE start_reinit
  BY <1>0, <1>2, GenStart
<1>3. CASE \/ warm_dc \/ warm_attempt \/ warm_pass_done \/ reconcile_read \/ reconcile_entries
           \/ reconcile_connect \/ request_guard \/ take_guard \/ promote \/ soft_covered
           \/ drain_request \/ mark_writer_draining
  <2>1. UNCHANGED <<mapVars, generation, active_generation, pending, changes>>
    BY <1>3, Zenon DEF warm_dc, warm_attempt, warm_pass_done, reconcile_read, reconcile_entries,
          reconcile_connect, request_guard, take_guard, promote, soft_covered, drain_request,
          mark_writer_draining, genVars, boundVars
  <2> QED BY <1>0, <1>3, <2>1, CycleFrame, GenQuiet
<1>4. CASE check_fails
  <2>1. UNCHANGED <<mapVars, generation, active_generation, pending, changes>> /\ ri'.pc = "idle"
    BY <1>4, IdleFields, Zenon DEF check_fails, genVars, boundVars
  <2> QED BY <1>0, <2>1, GenQuiet
<1>5. CASE hardswap_covered
  <2>1. /\ UNCHANGED <<wmap, hardswap, generation, pending, changes, Steady>> /\ active_generation' = ri.gen
        /\ ri.hs
    BY <1>0, <1>5 DEF hardswap_covered, mapVars, boundVars, Steady
  <2>2. ri'.pc = "promote"
    BY <1>0, <1>5 DEF hardswap_covered, CycleOK, Fields
  <2>3. ri.pc # "idle" /\ ri'.hs = ri.hs /\ ri'.gen = ri.gen
    BY <1>0, <1>5, CycleFrame
  <2>4. ri.gen = pending.gen /\ ri.gen # 0 /\ pending.gen <= generation /\ pending.gen \in Nat
    BY <1>0, <2>1, <2>3 DEF GenInv, PoolOK
  <2>5. active_generation' <= generation /\ active_generation' <= pending.gen
    BY <2>1, <2>4
  <2>6. Steady => ri.hs = hardswap
    BY <2>3 DEF GenInv
  <2> QED BY <1>0, <2>1, <2>2, <2>3, <2>4, <2>5, <2>6, Zenon DEF GenInv
<1>6. CASE finish_reinit
  <2>1. UNCHANGED <<wmap, hardswap, generation, active_generation, changes, Steady>> /\ ri'.pc = "idle"
    BY <1>0, <1>6, IdleFields DEF finish_reinit, mapVars, boundVars, Steady
  <2>2. pending' = NoPending \/ UNCHANGED pending
    BY <1>6 DEF finish_reinit
  <2>3. CASE pending' = NoPending
    <3>1. pending'.gen = 0 /\ generation \in Nat
      BY <1>0, <2>3 DEF NoPending, PoolOK
    <3> QED BY <1>0, <2>1, <3>1 DEF GenInv
  <2>4. CASE UNCHANGED pending
    BY <1>0, <2>1, <2>4 DEF GenInv
  <2> QED BY <2>2, <2>3, <2>4
<1>7. CASE push_writer \/ remove_writer \/ dial \/ (\E w \in Writers : dialed(w) \/ writer_dies(w))
  <2>1. UNCHANGED <<wmap, hardswap, generation, active_generation, pending, changes, ri, Steady>>
    BY <1>0, <1>7, Zenon DEF push_writer, remove_writer, dial, dialed, writer_dies, mapVars, genVars, boundVars, Steady
  <2> QED BY <1>0, <2>1 DEF GenInv
<1>8. CASE update_proxy_maps \/ pending_expires \/ toggle_hardswap
  <2>1. /\ changes' = changes + 1 /\ changes' \in Nat /\ changes' # 0
        /\ UNCHANGED <<generation, active_generation, ri>> /\ pending'.gen = pending.gen
    BY <1>0, <1>8 DEF update_proxy_maps, pending_expires, toggle_hardswap, genVars, GenInv, PoolOK
  <2>2. CASE update_proxy_maps \/ pending_expires
    <3>1. UNCHANGED hardswap /\ (Steady' => Steady)
      BY <1>0, <2>1, <2>2 DEF update_proxy_maps, pending_expires, mapVars, Steady
    <3> QED BY <1>0, <2>1, <3>1 DEF GenInv
  <2>3. CASE toggle_hardswap
    <3>1. plan'.toggle /\ ~Steady'
      BY <1>0, <2>1, <2>3 DEF toggle_hardswap, Steady
    <3> QED BY <1>0, <2>1, <3>1 DEF GenInv
  <2> QED BY <1>8, <2>2, <2>3
<1> QED BY <1>1, <1>2, <1>3, <1>4, <1>5, <1>6, <1>7, <1>8
        DEF ReinitNext, Cycle, CycleStep, Lock, LockStep, Environment, EnvironmentStep

LEMMA WarmInit == ReinitInit => WarmInv
<1> SUFFICES ASSUME ReinitInit PROVE WarmInv
  OBVIOUS
<1>1. (\A w \in Writers : contour[w] = "Active") /\ ri.stale = {}
  BY IdleFields DEF ReinitInit
<1> QED BY <1>1 DEF WarmInv

\* While no Warm writer is on its way to the pool, the cycle may move on.
LEMMA WarmQuiet ==
  ASSUME WarmInv, UNCHANGED <<plan, wrVars, hardswap, changes>>, pending'.gen = pending.gen,
         ri'.pc \in {"drain", "draining"} => ri.pc \in {"drain", "draining"} /\ ri'.stale = ri.stale,
         ri'.stale \subseteq ri.stale,
         \/ ri'.pc = ri.pc /\ ri'.w = ri.w
         \/ \A w \in Writers : ~(contour[w] = "Warm" /\ st[w] = "connected")
  PROVE  WarmInv'
<1>1. UNCHANGED <<st, wgen, contour, Steady>>
  BY DEF wrVars, Steady
<1>2. /\ (\A w \in Writers : st[w] \in {"none", "dialing"} => contour[w] = "Active")'
      /\ (\A w \in Writers : contour[w] = "Warm" /\ st[w] = "connected" => ri.pc = "attempt" /\ ri.w = w)'
  BY <1>1, Zenon DEF WarmInv
<1>3. (Steady => \A w \in Writers : contour[w] = "Warm" /\ st[w] \in {"connected", "pool"} =>
          /\ hardswap /\ pending.gen # 0 /\ wgen[w] <= pending.gen
          /\ changes = 0 => wgen[w] = pending.gen)'
  BY <1>1 DEF WarmInv
<1>4. /\ (Steady /\ ri.pc \in {"drain", "draining"} =>
            \A w \in Writers : contour[w] = "Warm" /\ st[w] = "pool" => w \in ri.stale)'
      /\ (changes = 0 => \A w \in ri.stale : contour[w] # "Warm")'
  BY <1>1 DEF WarmInv
<1> QED BY <1>2, <1>3, <1>4, Zenon DEF WarmInv

LEMMA WarmStart ==
  ASSUME Typed, GenInv, WarmInv, UNCHANGED plan, start_reinit
  PROVE  WarmInv'
<1>1. /\ UNCHANGED <<st, wgen, contour, hardswap, changes, Steady>> /\ ri.pc = "idle" /\ PoolOK /\ WritersOK
      /\ ri'.pc \in {"warm", "reconcile"} /\ ri'.stale = {}
  BY IdleFields DEF Typed, start_reinit, wrVars, mapVars, Steady, Fields
<1>2. \A w \in Writers : ~(contour[w] = "Warm" /\ st[w] = "connected")
  BY <1>1 DEF WarmInv
<1>3. ASSUME Steady, NEW w \in Writers, contour[w] = "Warm", st[w] \in {"connected", "pool"}
      PROVE  /\ hardswap /\ pending'.gen # 0 /\ wgen[w] <= pending'.gen
             /\ changes = 0 => wgen[w] = pending'.gen
  <2>1. hardswap /\ pending.gen # 0 /\ wgen[w] <= pending.gen /\ (changes = 0 => wgen[w] = pending.gen)
    BY <1>3 DEF WarmInv
  <2>2. /\ pending'.gen # 0 /\ pending.gen <= pending'.gen
        /\ changes = 0 => pending'.gen = pending.gen
    BY <2>1, GenStart
  <2>3. PoolOK'
    BY TypedStart DEF Typed
  <2>4. pending'.gen \in Nat /\ pending.gen \in Nat /\ wgen[w] \in Nat
    BY <1>1, <2>3 DEF PoolOK, WritersOK
  <2> QED BY <2>1, <2>2, <2>4
<1> QED BY <1>1, <1>2, <1>3 DEF WarmInv

\* The steps of the cycle that change no writer.
LEMMA WarmCycleQuiet ==
  ASSUME Typed, WarmInv, UNCHANGED plan,
         \/ warm_dc \/ warm_pass_done \/ reconcile_read \/ reconcile_entries \/ request_guard
         \/ take_guard \/ check_fails \/ hardswap_covered \/ drain_request
  PROVE  WarmInv'
<1>1. /\ UNCHANGED <<wrVars, hardswap, changes, pending>> /\ DOMAIN ri = Fields
      /\ QueueOK(queue, ri.pc, ri.stale)
  BY Zenon DEF Typed, CycleOK, LockOK, warm_dc, warm_pass_done, reconcile_read, reconcile_entries, request_guard,
         take_guard, check_fails, hardswap_covered, drain_request, mapVars, boundVars, genVars
<1>2. \A w \in Writers : ~(contour[w] = "Warm" /\ st[w] = "connected")
  <2>1. CASE warm_pass_done
    BY <2>1 DEF warm_pass_done, Returned, WarmInv
  <2>2. CASE take_guard
    <3>1. ri.pc = "guard"
      BY <1>1, <2>2, QueueTail, Zenon DEF take_guard
    <3> QED BY <3>1 DEF WarmInv
  <2>3. CASE \/ warm_dc \/ reconcile_read \/ reconcile_entries \/ request_guard
             \/ check_fails \/ hardswap_covered \/ drain_request
    BY <2>3, Zenon DEF WarmInv, warm_dc, reconcile_read, reconcile_entries, request_guard, check_fails,
                hardswap_covered, drain_request
  <2> QED BY <2>1, <2>2, <2>3
<1>3. /\ ri'.pc \in {"drain", "draining"} => ri.pc \in {"drain", "draining"} /\ ri'.stale = ri.stale
      /\ ri'.stale \subseteq ri.stale
  <2>1. CASE warm_dc \/ warm_pass_done
    BY <1>1, <2>1, Zenon DEF warm_dc, warm_pass_done, Fields
  <2>2. CASE check_fails
    BY <2>2, IdleFields DEF check_fails
  <2>3. CASE \/ reconcile_read \/ reconcile_entries \/ request_guard \/ take_guard
             \/ hardswap_covered \/ drain_request
    BY <1>1, <2>3, Zenon DEF reconcile_read, reconcile_entries, request_guard, take_guard, hardswap_covered,
                      drain_request, Fields
  <2> QED BY <2>1, <2>2, <2>3
<1> QED BY <1>1, <1>2, <1>3, WarmQuiet

LEMMA WarmFinish ==
  ASSUME Typed, GenInv, WarmInv, UNCHANGED plan, finish_reinit
  PROVE  WarmInv'
<1>1. /\ UNCHANGED <<wrVars, hardswap, changes>> /\ ri.pc = "drain" /\ ri.stale = {}
      /\ ri'.pc = "idle" /\ ri'.stale = {}
  BY IdleFields DEF finish_reinit, mapVars, boundVars
<1>2. Steady => \A w \in Writers : ~(contour[w] = "Warm" /\ st[w] \in {"connected", "pool"})
  BY <1>1 DEF WarmInv
<1>3. \A w \in Writers : ~(contour[w] = "Warm" /\ st[w] = "connected")
  BY <1>1 DEF WarmInv
<1>4. UNCHANGED <<st, wgen, contour, Steady>>
  BY <1>1 DEF wrVars, Steady
<1> QED BY <1>1, <1>2, <1>3, <1>4 DEF WarmInv

\* A connect of the cycle: the warm-up waits for the writer it opened.
LEMMA WarmConnect ==
  ASSUME Typed, GenInv, WarmInv, UNCHANGED plan, warm_attempt \/ reconcile_connect
  PROVE  WarmInv'
<1>1. /\ WritersOK /\ PoolOK /\ CycleOK /\ UNCHANGED <<hardswap, pending, changes, Steady>>
      /\ ri.pc \in {"attempt", "connect"}
  BY Zenon DEF Typed, warm_attempt, reconcile_connect, mapVars, genVars, boundVars, Steady
<1>2. \A w \in Writers : ~(contour[w] = "Warm" /\ st[w] = "connected")
  BY Zenon DEF WarmInv, warm_attempt, reconcile_connect, Returned
<1>3. PICK e, l, v : ri' = [ri EXCEPT !.todo = e, !.left = l, !.w = v]
  <2>1. CASE warm_attempt
    <3>1. PICK v : ri' = [ri EXCEPT !.left = ri.left - 1, !.w = v]
      BY <2>1, Zenon DEF warm_attempt
    <3>2. [ri EXCEPT !.left = ri.left - 1, !.w = v]
            = [ri EXCEPT !.todo = ri.todo, !.left = ri.left - 1, !.w = v]
      BY Zenon
    <3> QED BY <3>1, <3>2, Zenon
  <2>2. CASE reconcile_connect
    <3>1. PICK e, v : ri' = [ri EXCEPT !.todo = e, !.w = v]
      BY <2>2, Zenon DEF reconcile_connect
    <3>2. [ri EXCEPT !.todo = e, !.w = v]
            = [ri EXCEPT !.todo = e, !.left = ri.left, !.w = v]
      BY Zenon
    <3> QED BY <3>1, <3>2, Zenon
  <2> QED BY <2>1, <2>2, Zenon
<1>4. ri'.pc = ri.pc /\ ri'.stale = ri.stale /\ ri.stale = {}
  BY <1>1, <1>3 DEF CycleOK, Fields
<1>5. CASE UNCHANGED wrVars
  BY <1>1, <1>2, <1>4, <1>5, WarmQuiet, SMTT(30)
<1>6. ASSUME NEW a, NEW g, NEW c, Connected(a, g, c), c = "Active" \/ c = "Warm",
             c = "Warm" => ri.pc = "attempt" /\ ri'.w = NextId /\ g = ri.gen
      PROVE  WarmInv'
  <2>1. NextId \in Writers /\ st[NextId] = "none"
    BY <1>6, NextIdFresh DEF Connected
  <2>2. /\ st'[NextId] = "connected" /\ contour'[NextId] = c /\ wgen'[NextId] = g
        /\ \A w \in Writers : w # NextId => /\ st'[w] = st[w] /\ contour'[w] = contour[w]
                                            /\ wgen'[w] = wgen[w]
    BY <1>1, <1>6, <2>1 DEF Connected, WritersOK
  <2>3. c = "Warm" => /\ ri.gen = pending.gen /\ ri.gen # 0 /\ pending.gen \in Nat
                      /\ Steady => hardswap
    BY <1>1, <1>6, Zenon DEF GenInv, PoolOK
  <2>4. \A w \in Writers : st'[w] \in {"none", "dialing"} => contour'[w] = "Active"
    BY <2>2, ZenonT(60) DEF WarmInv
  <2>5. \A w \in Writers : contour'[w] = "Warm" /\ st'[w] = "connected" => ri'.pc = "attempt" /\ ri'.w = w
    BY <1>2, <1>4, <1>6, <2>2, Zenon
  <2>6. ASSUME Steady, NEW w \in Writers, contour'[w] = "Warm", st'[w] \in {"connected", "pool"}
        PROVE  /\ hardswap /\ pending.gen # 0 /\ wgen'[w] <= pending.gen
               /\ changes = 0 => wgen'[w] = pending.gen
    <3>1. CASE w = NextId
      <4>1. c = "Warm" /\ wgen'[w] = g
        BY <2>2, <2>6, <3>1, Zenon
      <4>2. g = pending.gen /\ pending.gen # 0 /\ pending.gen \in Nat /\ hardswap
        BY <1>6, <2>3, <2>6, <4>1, Zenon
      <4> QED BY <4>1, <4>2
    <3>2. CASE w # NextId
      BY <2>2, <2>6, <3>2, Zenon DEF WarmInv
    <3> QED BY <3>1, <3>2, Zenon
  <2> QED BY <1>1, <1>4, <2>4, <2>5, <2>6, Zenon DEF WarmInv
<1>7. CASE warm_attempt
  <2>1. CASE /\ \E a \in ri.desired[ri.dc] : Connected(a, ri.gen, "Warm")
             /\ ri' = [ri EXCEPT !.left = @ - 1, !.w = NextId]
    <3>1. ri'.w = NextId /\ ri.pc = "attempt"
      BY <1>1, <1>7, <2>1 DEF warm_attempt, CycleOK, Fields
    <3> QED BY <1>6, <2>1, <3>1
  <2> QED BY <1>5, <1>7, <2>1 DEF warm_attempt
<1>8. CASE reconcile_connect
  <2>1. UNCHANGED wrVars \/ \E a : Connected(a, active_generation, "Active")
    BY <1>8, Zenon DEF reconcile_connect
  <2> QED BY <1>5, <1>6, <2>1
<1> QED BY <1>7, <1>8

LEMMA WarmPromote ==
  ASSUME Typed, GenInv, WarmInv, UNCHANGED plan, promote
  PROVE  WarmInv'
<1>1. /\ CycleOK /\ WritersOK /\ PoolOK /\ QueueOK(queue, ri.pc, ri.stale)
      /\ UNCHANGED <<st, wgen, hardswap, pending, changes, Steady>>
      /\ ri' = [ri EXCEPT !.pc = "drain", !.stale = stale_writers]
      /\ contour' = [w \in Writers |-> IF w \in Serving /\ wgen[w] = ri.gen
                                       THEN "Active" ELSE contour[w]]
  BY DEF Typed, LockOK, promote, mapVars, genVars, boundVars, Steady
<1>2. ri.pc = "promote" /\ ri.hs = TRUE
  BY <1>1, QueueTail, Zenon DEF promote, CycleOK
<1>3. ri'.pc = "drain" /\ ri'.stale = stale_writers /\ ri.gen = pending.gen /\ ri.gen \in Nat
  BY <1>1, <1>2 DEF CycleOK, Fields, GenInv
<1>4. \A w \in Writers : contour'[w] = "Warm" => contour[w] = "Warm"
  BY <1>1
<1>5. \A w \in Writers : contour[w] = "Active" => contour'[w] = "Active"
  BY <1>1
<1>6. \A w \in Writers : ~(contour'[w] = "Warm" /\ st'[w] = "connected")
  BY <1>1, <1>2, <1>4 DEF WarmInv
<1>7. ASSUME Steady, NEW w \in Writers, contour'[w] = "Warm", st[w] = "pool" PROVE w \in stale_writers
  <2>1. contour[w] = "Warm" /\ w \in Serving
    BY <1>4, <1>7 DEF Serving
  <2>2. wgen[w] <= pending.gen /\ wgen[w] # ri.gen /\ wgen[w] \in Nat
    BY <1>1, <1>7, <2>1 DEF WarmInv, WritersOK
  <2>3. wgen[w] < ri.gen
    BY <1>3, <2>2
  <2> QED BY <1>2, <2>1, <2>3 DEF stale_writers
<1>8. ASSUME changes = 0, NEW w \in stale_writers PROVE contour'[w] # "Warm"
  <2>1. Steady /\ w \in Serving /\ w \in Writers /\ st[w] = "pool" /\ wgen[w] < ri.gen
    BY <1>2, <1>8 DEF stale_writers, Serving, Steady
  <2>2. SUFFICES ASSUME contour[w] = "Warm" PROVE FALSE
    BY <1>4, <2>1
  <2>3. wgen[w] = pending.gen
    BY <1>8, <2>1, <2>2 DEF WarmInv
  <2> QED BY <1>3, <2>1, <2>3
<1>9. (\A w \in Writers : st[w] \in {"none", "dialing"} => contour[w] = "Active")'
  BY <1>1, <1>5 DEF WarmInv
<1>10. (Steady => \A w \in Writers : contour[w] = "Warm" /\ st[w] \in {"connected", "pool"} =>
          /\ hardswap /\ pending.gen # 0 /\ wgen[w] <= pending.gen
          /\ changes = 0 => wgen[w] = pending.gen)'
  BY <1>1, <1>4 DEF WarmInv
<1> QED BY <1>1, <1>3, <1>6, <1>7, <1>8, <1>9, <1>10 DEF WarmInv

LEMMA WarmSoft ==
  ASSUME Typed, GenInv, WarmInv, UNCHANGED plan, soft_covered
  PROVE  WarmInv'
<1>1. /\ CycleOK /\ ri.pc = "check" /\ ~ri.hs
      /\ UNCHANGED <<st, wgen, contour, hardswap, pending, changes, Steady>>
      /\ ri' = [ri EXCEPT !.pc = "drain", !.stale = stale_writers]
  BY DEF Typed, soft_covered, wrVars, mapVars, genVars, boundVars, Steady
<1>2. ri'.pc = "drain" /\ ri'.stale = stale_writers
  BY <1>1 DEF CycleOK, Fields
<1>3. Steady => ~hardswap
  BY <1>1 DEF GenInv
<1>4. Steady => \A w \in Writers : ~(contour[w] = "Warm" /\ st[w] \in {"connected", "pool"})
  BY <1>3 DEF WarmInv
<1>5. \A w \in stale_writers : w \in Writers /\ st[w] = "pool"
  BY DEF stale_writers, Serving
<1>6. changes = 0 => Steady
  BY DEF Steady
<1> QED BY <1>1, <1>2, <1>4, <1>5, <1>6 DEF WarmInv

LEMMA WarmLock ==
  ASSUME Typed, PlacedOnce(queue, st), WarmInv, UNCHANGED plan, LockStep
  PROVE  WarmInv'
<1>1. /\ CycleOK /\ WritersOK /\ QueueOK(queue, ri.pc, ri.stale) /\ queue \in Seq(Requests) /\ queue # << >>
      /\ UNCHANGED <<wgen, hardswap, pending, changes, Steady>>
  BY Zenon DEF Typed, LockOK, QueueOK, LockStep, push_writer, mark_writer_draining, remove_writer, Granted,
         mapVars, genVars, boundVars, Steady
<1>2. CASE push_writer
  <2>1. Head(queue).op = "push" /\ st[Head(queue).w] = "connected" /\ UNCHANGED <<contour, ri>>
    BY <1>1, <1>2, PlacedTail, Zenon DEF push_writer, Granted
  <2>2. ASSUME NEW w \in Writers PROVE st'[w] = st[w] \/ (st[w] = "connected" /\ st'[w] = "pool")
    BY <1>1, <1>2, <2>1, Zenon DEF push_writer, WritersOK
  <2>3. (Steady => \A w \in Writers : contour[w] = "Warm" /\ st[w] \in {"connected", "pool"} =>
            /\ hardswap /\ pending.gen # 0 /\ wgen[w] <= pending.gen
            /\ changes = 0 => wgen[w] = pending.gen)'
    BY <1>1, <2>1, <2>2, Zenon DEF WarmInv
  <2>4. ASSUME Steady, ri.pc \in {"drain", "draining"}, NEW w \in Writers, contour[w] = "Warm", st'[w] = "pool"
        PROVE  w \in ri.stale
    BY <2>2, <2>4, Zenon DEF WarmInv
  <2> QED BY <1>1, <2>1, <2>2, <2>3, <2>4, ZenonT(60) DEF WarmInv
<1>3. CASE remove_writer
  <2>1. UNCHANGED <<contour, ri>> /\ \A w \in Writers : st'[w] = st[w] \/ st'[w] = "gone"
    BY <1>1, <1>3 DEF remove_writer, WritersOK
  <2> QED BY <1>1, <2>1, ZenonT(60) DEF WarmInv
<1>4. CASE mark_writer_draining
  <2> DEFINE h == Head(queue).w
  <2>1. ri.pc = "draining" /\ h \in ri.stale /\ h \in Writers /\ UNCHANGED st
    BY <1>1, <1>4, QueueTail, Zenon DEF mark_writer_draining, Granted, CycleOK
  <2>2. ri'.pc = "drain" /\ ri'.stale = ri.stale \ {h}
    BY <1>1, <1>4 DEF mark_writer_draining, CycleOK, Fields
  <2>3. /\ \A w \in Writers : w # h => contour'[w] = contour[w]
        /\ st[h] = "pool" => contour'[h] = "Draining"
        /\ st[h] # "pool" => contour'[h] = contour[h]
    BY <1>1, <1>4, <2>1 DEF mark_writer_draining, WritersOK
  <2> HIDE DEF h
  <2>4. \A w \in Writers : contour'[w] = "Warm" => contour[w] = "Warm" /\ (st[w] = "pool" => w # h)
    BY <2>1, <2>3
  <2>5. (\A w \in Writers : st[w] \in {"none", "dialing"} => contour[w] = "Active")'
    BY <2>1, <2>3, Zenon DEF WarmInv
  <2>6. \A w \in ri'.stale : w \in ri.stale /\ w \in Writers
    BY <1>1, <2>2, Zenon DEF CycleOK
  <2>7. (Steady => \A w \in Writers : contour[w] = "Warm" /\ st[w] \in {"connected", "pool"} =>
            /\ hardswap /\ pending.gen # 0 /\ wgen[w] <= pending.gen
            /\ changes = 0 => wgen[w] = pending.gen)'
    BY <1>1, <2>1, <2>4, Zenon DEF WarmInv
  <2>8. \A w \in Writers : ~(contour'[w] = "Warm" /\ st'[w] = "connected")
    BY <2>1, <2>4, Zenon DEF WarmInv
  <2>9. ASSUME Steady, NEW w \in Writers, contour'[w] = "Warm", st[w] = "pool" PROVE w \in ri'.stale
    BY <2>1, <2>2, <2>4, <2>9, Zenon DEF WarmInv
  <2>10. ASSUME changes = 0, NEW w \in ri'.stale PROVE contour'[w] # "Warm"
    BY <2>4, <2>6, <2>10, ZenonT(60) DEF WarmInv
  <2> QED BY <1>1, <2>1, <2>5, <2>7, <2>8, <2>9, <2>10, Zenon DEF WarmInv
<1> QED BY <1>2, <1>3, <1>4 DEF LockStep

LEMMA WarmEnvironment ==
  ASSUME Typed, GenInv, WarmInv, UNCHANGED plan, EnvironmentStep
  PROVE  WarmInv'
<1>1. WritersOK /\ PoolOK /\ UNCHANGED <<ri, contour>>
  BY Zenon DEF Typed, EnvironmentStep, dial, dialed, writer_dies, update_proxy_maps, pending_expires,
         toggle_hardswap, wrVars
<1>2. CASE dial
  <2>1. NextId \in Writers /\ st[NextId] = "none"
    BY <1>2, NextIdFresh DEF dial
  <2>2. /\ UNCHANGED <<hardswap, pending, changes, Steady>> /\ contour[NextId] = "Active"
        /\ st'[NextId] = "dialing"
        /\ \A w \in Writers : w # NextId => st'[w] = st[w] /\ wgen'[w] = wgen[w]
    BY <1>1, <1>2, <2>1, Zenon DEF dial, mapVars, genVars, Steady, WritersOK, WarmInv
  <2> QED BY <1>1, <2>1, <2>2, Zenon DEF WarmInv
<1>3. ASSUME NEW v \in Writers, dialed(v) PROVE WarmInv'
  <2>1. /\ UNCHANGED <<hardswap, pending, changes, wgen, Steady>> /\ contour[v] = "Active"
        /\ st'[v] = "connected" /\ \A w \in Writers : w # v => st'[w] = st[w]
    BY <1>1, <1>3, Zenon DEF dialed, mapVars, genVars, boundVars, Steady, WritersOK, WarmInv
  <2> QED BY <1>1, <2>1, Zenon DEF WarmInv
<1>4. CASE \E w \in Writers : writer_dies(w)
  <2>1. UNCHANGED <<hardswap, pending, changes, st, wgen, Steady>>
    BY <1>4 DEF writer_dies, wrVars, mapVars, genVars, boundVars, Steady
  <2> QED BY <1>1, <2>1, Zenon DEF WarmInv
<1>5. CASE update_proxy_maps \/ pending_expires \/ toggle_hardswap
  <2>1. UNCHANGED <<st, wgen>> /\ changes' # 0 /\ pending'.gen = pending.gen
    BY <1>1, <1>5 DEF update_proxy_maps, pending_expires, toggle_hardswap, wrVars, genVars, GenInv, PoolOK
  <2>2. Steady' => Steady /\ UNCHANGED hardswap
    BY <1>5, <2>1 DEF update_proxy_maps, pending_expires, toggle_hardswap, mapVars, Steady
  <2> QED BY <1>1, <2>1, <2>2, SMTT(30) DEF WarmInv
<1> QED BY <1>2, <1>3, <1>4, <1>5 DEF EnvironmentStep

WarmAll == Typed /\ PlacedOnce(queue, st) /\ GenInv /\ WarmInv

LEMMA WarmAllStep == WarmAll /\ [ReinitNext]_reinitVars => WarmAll'
<1> SUFFICES ASSUME WarmAll, [ReinitNext]_reinitVars PROVE WarmAll'
  OBVIOUS
<1>1. Typed' /\ PlacedOnce(queue, st)' /\ GenInv'
  BY TypedStep, PlacedStep, GenStep DEF WarmAll
<1>2. WarmInv'
  <2>1. CASE UNCHANGED reinitVars
    BY <2>1, WarmQuiet, Zenon DEF WarmAll, reinitVars, mapVars, genVars, boundVars
  <2>2. CASE Cycle
    BY <2>2, WarmStart, WarmCycleQuiet, WarmConnect, WarmPromote, WarmSoft, WarmFinish
       DEF WarmAll, Cycle, CycleStep
  <2>3. CASE Lock
    BY <2>3, WarmLock DEF WarmAll, Lock
  <2>4. CASE Environment
    BY <2>4, WarmEnvironment DEF WarmAll, Environment
  <2> QED BY <2>1, <2>2, <2>3, <2>4 DEF ReinitNext
<1> QED BY <1>1, <1>2 DEF WarmAll

\* Only the drain of a stale writer makes a writer Draining.
LEMMA WarmNotDrained ==
  ASSUME WarmAll, [ReinitNext]_reinitVars, changes = 0, NEW w \in Writers, contour[w] = "Warm"
  PROVE  contour'[w] # "Draining"
<1>1. WritersOK /\ QueueOK(queue, ri.pc, ri.stale) /\ WarmInv /\ st[w] # "none"
  BY Zenon DEF WarmAll, Typed, LockOK, WarmInv
<1>2. CASE UNCHANGED contour
  BY <1>2
<1>3. ASSUME NEW a, NEW g, NEW c, Connected(a, g, c) PROVE contour'[w] = contour[w]
  <2>1. NextId # w
    BY <1>1, <1>3, NextIdFresh, Zenon DEF Connected
  <2> QED BY <1>1, <1>3, <2>1, SMTT(30) DEF Connected, WritersOK
<1>4. CASE warm_attempt \/ reconcile_connect
  BY <1>2, <1>3, <1>4, Zenon DEF warm_attempt, reconcile_connect, wrVars
<1>5. CASE promote
  BY <1>5 DEF promote
<1>6. CASE mark_writer_draining
  <2>1. Head(queue).w \in ri.stale
    BY <1>1, <1>6, QueueTail, ZenonT(60) DEF mark_writer_draining, Granted
  <2>2. Head(queue).w # w
    BY <1>1, <2>1, Zenon DEF WarmInv
  <2> QED BY <1>1, <1>6, <2>2 DEF mark_writer_draining, WritersOK
<1>7. CASE \/ start_reinit \/ warm_dc \/ warm_pass_done \/ reconcile_read \/ reconcile_entries
           \/ request_guard \/ take_guard \/ check_fails \/ hardswap_covered \/ soft_covered
           \/ drain_request \/ finish_reinit \/ push_writer \/ remove_writer \/ EnvironmentStep
           \/ UNCHANGED reinitVars
  <2>1. UNCHANGED contour
    BY <1>7, Zenon DEF start_reinit, warm_dc, warm_pass_done, reconcile_read, reconcile_entries, request_guard,
         take_guard, check_fails, hardswap_covered, soft_covered, drain_request, finish_reinit,
         push_writer, remove_writer, EnvironmentStep, dial, dialed, writer_dies, update_proxy_maps,
         pending_expires, toggle_hardswap, wrVars, reinitVars
  <2> QED BY <2>1
<1> QED BY <1>4, <1>5, <1>6, <1>7, SMTT(30) DEF ReinitNext, Cycle, CycleStep, Lock, LockStep, Environment

(* What a cycle has warmed up is accounted for, for any maps, floors and   *)
(* numbers of passes: between cycles only a pending generation has Warm    *)
(* writers, unless the hardswap flag was flipped, and while nothing        *)
(* changes no cycle drains a Warm writer.                                  *)
THEOREM WarmIsAccounted == ReinitSpec => WarmAccounted
<1>1. ReinitInit => WarmAll
  <2>1. ReinitInit => PlacedOnce(queue, st)
    BY DEF ReinitInit, PlacedOnce
  <2> QED BY <2>1, TypedInit, GenInit, WarmInit, SMTT(30) DEF WarmAll
<1>2. WarmAll => NoOrphanWarm
  <2> SUFFICES ASSUME WarmAll, ~plan.toggle, ri.pc = "idle", pending.gen = 0, NEW w \in Serving
               PROVE  contour[w] = "Active"
    BY DEF NoOrphanWarm
  <2>1. w \in Writers /\ st[w] = "pool" /\ contour[w] \in {"Active", "Warm"}
    BY DEF WarmAll, Typed, WritersOK, Serving
  <2> QED BY <2>1 DEF WarmAll, WarmInv, Steady
<1>3. WarmAll /\ [ReinitNext]_reinitVars =>
        [\A w \in Writers : changes = 0 /\ contour[w] = "Warm" => contour'[w] # "Draining"]_reinitVars
  BY WarmNotDrained
<1> QED BY <1>1, <1>2, <1>3, WarmAllStep, PTL DEF ReinitSpec, WarmAccounted, WarmKept
=============================================================================
