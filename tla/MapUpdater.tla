----------------------------- MODULE MapUpdater -----------------------------
(***************************************************************************)
(* What keeps the pool's view of Telegram's middle proxies up to date: the *)
(* updater (config_updater.rs), which fetches the two proxy maps and the   *)
(* proxy secret and applies what was seen often enough; the maps and the   *)
(* secret it writes (pool_config.rs); and the scheduler and the rotation   *)
(* task (rotation.rs), which turn a change into a reinit cycle through a   *)
(* bounded queue of triggers.                                              *)
(*                                                                         *)
(* A map is a function from DC numbers to endpoint lists, a list is a      *)
(* value.  A family's server publishes pub[f]; `flaps` fetches may return  *)
(* something else: nothing, a bad status, another map.                     *)
(***************************************************************************)
EXTENDS Integers, Sequences, FiniteSets, FiniteSetsExt, Functions

CONSTANTS Published,     \* [Families -> set of maps a server may publish]
          Startup,       \* [Families -> the map main() starts the pool with]
          Secrets,       \* secrets; a secret stands for its key selector too
          FirstSecret,   \* the secret main() starts with
          Required,      \* me_config_stable_snapshots, proxy_secret_stable_snapshots
          MinLines,      \* me_snapshot_min_proxy_for_lines
          RejectEmpty,   \* me_snapshot_reject_empty_map
          QueueCap,      \* me_reinit_trigger_channel
          Modes,         \* the options below that a behaviour may run with
          MaxFlaps,      \* bound: fetches that do not return what is published
          None

Families == {"v4", "v6"}
Seen == (UNION {Published[f] : f \in Families}) \cup Secrets
Watched == Families \cup {"secret"}

ASSUME MapUpdaterAssumption ==
    /\ {Required, QueueCap} \subseteq Nat \ {0} /\ {MinLines, MaxFlaps} \subseteq Nat
    /\ DOMAIN Published = Families /\ DOMAIN Startup = Families
    /\ Modes \subseteq [coalesce : BOOLEAN, single : BOOLEAN, atomic : BOOLEAN]
    /\ None \notin Seen /\ FirstSecret \in Secrets

VARIABLES
    pub,               \* what the servers publish, [Watched -> Seen]
    flaps,             \* fetches left that may return something else
    cand, hits, done,  \* StableSnapshot: candidate_hash, candidate_hits, applied_hash
    recent,            \* history: the last accepted snapshots, newest first
    cool,              \* last_map_apply_at is within the apply cooldown
    proxy_map,              \* proxy_map_v4, proxy_map_v6
    secret,            \* proxy_secret
    upc,               \* where the updater is in run_update_cycle
    ready,             \* ready_v4, ready_v6
    changed,           \* maps_changed
    queue,             \* triggers in the channel
    spc,               \* where the scheduler is
    stale,             \* history: a map changed since the last cycle started
    mode,              \* me_reinit_coalesce_window_ms > 0, me_reinit_singleflight,
                       \* me_secret_atomic_snapshot
    hs                 \* the selector and the secret of a handshake

snapVars == <<cand, hits, done, recent>>
updVars == <<upc, ready, changed, cool>>
appliedVars == <<proxy_map, secret, stale>>
mapVars == <<pub, flaps, snapVars, updVars, appliedVars, queue, spc, mode, hs>>

Upcs == {"idle", "v4", "v6", "apply", "write_v4", "write_v6", "mirror_v4", "mirror_v6", "mark",
         "trigger", "secret"}

(* The variables have their types.                                         *)
MapTypeOK ==
    /\ pub \in [Watched -> Seen] /\ flaps \in 0..MaxFlaps
    /\ cand \in [Watched -> Seen \cup {None}] /\ done \in [Watched -> Seen \cup {None}]
    /\ hits \in [Watched -> 0..Required] /\ cool \in BOOLEAN
    /\ DOMAIN proxy_map = Families /\ secret \in Secrets
    /\ upc \in Upcs /\ ready \in [Families -> Seen \cup {None}] /\ changed \in BOOLEAN
    /\ queue \in 0..QueueCap /\ spc \in {"recv", "coalesce", "run"}
    /\ stale \in BOOLEAN

MapInit ==
    /\ pub \in {p \in [Watched -> Seen] :
                   /\ \A f \in Families : p[f] \in Published[f]
                   /\ p["secret"] \in Secrets}
    /\ flaps = MaxFlaps
    /\ cand = [w \in Watched |-> None] /\ done = [w \in Watched |-> None]
    /\ hits = [w \in Watched |-> 0] /\ recent = [w \in Watched |-> << >>]
    /\ cool = FALSE /\ proxy_map = Startup /\ secret = FirstSecret
    /\ upc = "idle" /\ ready = [f \in Families |-> None] /\ changed = FALSE
    /\ queue = 0 /\ spc = "recv" /\ stale = FALSE
    /\ mode \in Modes /\ hs = [ks |-> None, sec |-> None]

-----------------------------------------------------------------------------
(* Fetching                                                                *)

(* The responses of the server of f: what it publishes or, while flaps are *)
(* left, a failed fetch (None), a status outside 2xx, or any other map.    *)
retry_fetch(w, others) ==
    {[ok |-> TRUE, val |-> pub[w]]}
    \cup (IF flaps > 0 THEN [ok : BOOLEAN, val : others] \cup {None} ELSE {})

(* A snapshot counts when its status is 2xx and it has enough lines.       *)
snapshot_passes_guards(r) == r.ok /\ Cardinality(DOMAIN r.val) >= MinLines

observe_keeps_hits(w, v) ==
    /\ cand' = [cand EXCEPT ![w] = v]
    /\ hits' = [hits EXCEPT ![w] = Min({@ + 1, Required})]
    /\ recent' = [recent EXCEPT ![w] = SubSeq(<<v>> \o @, 1, Min({Len(@) + 1, Required}))]

(* The candidate is counted as long as it stays the same; counts above     *)
(* Required are not told apart.                                            *)
observe(w, v) ==
    /\ cand' = [cand EXCEPT ![w] = v]
    /\ hits' = [hits EXCEPT ![w] = IF cand[w] = v THEN Min({@ + 1, Required}) ELSE 1]
    /\ recent' = [recent EXCEPT ![w] = SubSeq(<<v>> \o @, 1, Min({Len(@) + 1, Required}))]

Stable(w, v) == hits'[w] >= Required /\ done[w] # v

(* The sleep of me_config_updater ends, or the interval was shortened.     *)
update_tick ==
    /\ upc = "idle" /\ upc' = "v4"
    /\ UNCHANGED <<pub, flaps, snapVars, ready, changed, cool, appliedVars, queue, spc, mode, hs>>

fetch_map(f) ==
    /\ upc = f
    /\ \E r \in retry_fetch(f, Published[f]) :
          /\ flaps' = IF r = [ok |-> TRUE, val |-> pub[f]] THEN flaps ELSE flaps - 1
          /\ IF r # None /\ snapshot_passes_guards(r)
             THEN /\ observe(f, r.val)
                  /\ ready' = [ready EXCEPT ![f] = IF Stable(f, r.val) THEN r.val ELSE None]
             ELSE ready' = [ready EXCEPT ![f] = None] /\ UNCHANGED <<cand, hits, recent>>
    /\ upc' = CASE f = "v4" -> "v6"
                [] ready' = [g \in Families |-> None] -> "trigger"
                [] OTHER -> "apply"
    /\ UNCHANGED <<pub, done, changed, cool, appliedVars, queue, spc, mode, hs>>

-----------------------------------------------------------------------------
(* Applying the maps                                                       *)

Entries(f) == IF ready[f] = None THEN {} ELSE DOMAIN ready[f]
UpdateIsEmpty == \A f \in Families : Entries(f) = {}

(* A ready snapshot waits for the cooldown; an update with no entry at all *)
(* is dropped or, when the option is off, marked as applied.               *)
apply_ready ==
    /\ upc = "apply"
    /\ upc' = CASE cool -> "trigger"
                [] ~cool /\ UpdateIsEmpty /\ ~RejectEmpty -> "mark"
                [] ~cool /\ UpdateIsEmpty /\ RejectEmpty -> "trigger"
                [] OTHER -> "write_v4"
    /\ ready' = IF upc' = "trigger" THEN [f \in Families |-> None] ELSE ready
    /\ UNCHANGED <<pub, flaps, snapVars, changed, cool, appliedVars, queue, spc, mode, hs>>

WriteAt == [v4 |-> "write_v4", v6 |-> "write_v6"]
MirrorAt == [v4 |-> "mirror_v4", v6 |-> "mirror_v6"]
NextWrite(f) == IF f = "v4" THEN "write_v6" ELSE "mirror_v4"
NextMirror(f) == IF f = "v4" THEN "mirror_v6" ELSE "mark"

(* update_proxy_maps takes a lock for each map it writes and then one for  *)
(* each map it mirrors; the tasks that read the maps run in between.       *)
write_map(f) ==
    /\ upc = WriteAt[f]
    /\ IF Entries(f) # {} /\ proxy_map[f] # ready[f]
       THEN proxy_map' = [proxy_map EXCEPT ![f] = ready[f]] /\ changed' = TRUE /\ stale' = TRUE
       ELSE UNCHANGED <<proxy_map, changed, stale>>
    /\ upc' = NextWrite(f)
    /\ UNCHANGED <<pub, flaps, snapVars, ready, cool, secret, queue, spc, mode, hs>>

(* A positive DC without a negative one gets a copy.                       *)
mirrored(m) ==
    LET new == {-j : j \in {i \in DOMAIN m : i > 0}} \ DOMAIN m
    IN  [k \in DOMAIN m \cup new |-> IF k \in new THEN m[-k] ELSE m[k]]

mirror_map(f) ==
    /\ upc = MirrorAt[f]
    /\ proxy_map' = [proxy_map EXCEPT ![f] = mirrored(@)]
    /\ upc' = NextMirror(f)
    /\ UNCHANGED <<pub, flaps, snapVars, ready, changed, cool, secret, stale, queue, spc, mode, hs>>

mark_applied ==
    /\ upc = "mark" /\ upc' = "trigger"
    /\ done' = [w \in Watched |-> IF w \in Families /\ ready[w] # None THEN ready[w] ELSE done[w]]
    /\ cool' = TRUE
    /\ ready' = [f \in Families |-> None]
    /\ UNCHANGED <<pub, flaps, cand, hits, recent, changed, appliedVars, queue, spc, mode, hs>>

cooldown_ends ==
    /\ cool /\ cool' = FALSE
    /\ UNCHANGED <<pub, flaps, snapVars, upc, ready, changed, appliedVars, queue, spc, mode, hs>>

-----------------------------------------------------------------------------
(* Triggers                                                                *)

enqueue_reinit_trigger_grows == queue' = queue + 1

(* try_send: a trigger that finds the queue full is dropped.               *)
enqueue_reinit_trigger == queue' = Min({queue + 1, QueueCap})

trigger_forgotten ==
    /\ upc = "trigger" /\ upc' = "secret"
    /\ IF changed /\ spc # "run" THEN enqueue_reinit_trigger ELSE UNCHANGED queue
    /\ changed' = FALSE
    /\ UNCHANGED <<pub, flaps, snapVars, ready, cool, appliedVars, spc, mode, hs>>

trigger_reinit ==
    /\ upc = "trigger" /\ upc' = "secret"
    /\ IF changed THEN enqueue_reinit_trigger ELSE UNCHANGED queue
    /\ changed' = FALSE
    /\ UNCHANGED <<pub, flaps, snapVars, ready, cool, appliedVars, spc, mode, hs>>

rotation_tick ==
    /\ enqueue_reinit_trigger
    /\ UNCHANGED <<pub, flaps, snapVars, updVars, appliedVars, spc, mode, hs>>

(* The cycle reads the maps after it has started.                          *)
StartCycle ==
    /\ stale' = FALSE
    /\ spc' = IF mode.single THEN "run" ELSE "recv"

scheduler_recv ==
    /\ spc = "recv" /\ queue > 0 /\ queue' = queue - 1
    /\ IF mode.coalesce THEN spc' = "coalesce" /\ UNCHANGED stale ELSE StartCycle
    /\ UNCHANGED <<pub, flaps, snapVars, updVars, proxy_map, secret, mode, hs>>

scheduler_coalesce ==
    /\ spc = "coalesce" /\ queue > 0 /\ queue' = queue - 1
    /\ UNCHANGED <<pub, flaps, snapVars, updVars, appliedVars, spc, mode, hs>>

scheduler_start ==
    /\ spc = "coalesce" /\ StartCycle
    /\ UNCHANGED <<pub, flaps, snapVars, updVars, proxy_map, secret, queue, mode, hs>>

cycle_ends ==
    /\ spc = "run" /\ spc' = "recv"
    /\ UNCHANGED <<pub, flaps, snapVars, updVars, appliedVars, queue, mode, hs>>

-----------------------------------------------------------------------------
(* The secret                                                              *)

(* The download has no status and no lines to guard.  update_secret swaps  *)
(* secret and selector under one lock; the reconnects it then makes are    *)
(* connections and drains of MePool.                                       *)
fetch_secret ==
    /\ upc = "secret" /\ upc' = "idle"
    /\ \E r \in {x \in retry_fetch("secret", Secrets) : x # None => x.ok} :
          /\ flaps' = IF r = [ok |-> TRUE, val |-> pub["secret"]] THEN flaps ELSE flaps - 1
          /\ IF r # None
             THEN /\ observe("secret", r.val)
                  /\ IF Stable("secret", r.val)
                     THEN done' = [done EXCEPT !["secret"] = r.val] /\ secret' = r.val
                     ELSE UNCHANGED <<done, secret>>
             ELSE UNCHANGED <<cand, hits, recent, done, secret>>
    /\ UNCHANGED <<pub, ready, changed, cool, proxy_map, stale, queue, spc, mode, hs>>

(* A handshake takes the selector and the secret from one snapshot or, in  *)
(* the compatible mode, from two.                                          *)
handshake_secret ==
    /\ hs.sec = None
    /\ \/ mode.atomic /\ hs' = [ks |-> secret, sec |-> secret]
       \/ ~mode.atomic /\ hs.ks = None /\ hs' = [hs EXCEPT !.ks = secret]
       \/ ~mode.atomic /\ hs.ks # None /\ hs' = [hs EXCEPT !.sec = secret]
    /\ UNCHANGED <<pub, flaps, snapVars, updVars, appliedVars, queue, spc, mode>>

handshake_ends ==
    /\ hs.sec # None /\ hs' = [ks |-> None, sec |-> None]
    /\ UNCHANGED <<pub, flaps, snapVars, updVars, appliedVars, queue, spc, mode>>

-----------------------------------------------------------------------------
fetch_step == fetch_secret \/ \E f \in Families : fetch_map(f)

updater_step ==
    \/ apply_ready \/ mark_applied \/ trigger_reinit
    \/ \E f \in Families : write_map(f) \/ mirror_map(f)

MapNext ==
    \/ update_tick \/ fetch_step \/ updater_step \/ cooldown_ends
    \/ rotation_tick \/ scheduler_recv \/ scheduler_coalesce \/ scheduler_start \/ cycle_ends
    \/ handshake_secret \/ handshake_ends

(* The timers of the updater and of the cooldown go off, and a task that   *)
(* can run runs.  A fetch has no timeout (config_updater.rs:173,           *)
(* secret.rs:82) and a cycle may wait for ever (PoolReinit), so neither is *)
(* assumed to come to an end.                                              *)
MapFairness ==
    /\ WF_mapVars(update_tick) /\ WF_mapVars(updater_step) /\ WF_mapVars(cooldown_ends)
    /\ WF_mapVars(scheduler_recv) /\ WF_mapVars(scheduler_start)
MapSpec == MapInit /\ [][MapNext]_mapVars /\ MapFairness

-----------------------------------------------------------------------------
(* StableGate: a map or a secret is replaced only by one that the last     *)
(* Required accepted fetches of that source all returned, however they     *)
(* were interleaved with failed and rejected ones.                         *)
AllRecent(w, v) == Len(recent[w]) = Required /\ \A i \in DOMAIN recent[w] : recent[w][i] = v
StableGate ==
    [][/\ \A f \in Families : upc = WriteAt[f] /\ proxy_map'[f] # proxy_map[f] => AllRecent(f, proxy_map'[f])
       /\ secret' # secret => AllRecent("secret", secret)']_mapVars

(* MapChangeNotLost: from the moment a map has changed until a cycle has   *)
(* started after it, the change is with the updater, in the queue or with  *)
(* the scheduler, although triggers are dropped when the queue is full and *)
(* coalesced when it is not.                                               *)
MapChangeNotLost ==
    stale => \/ upc \in {"write_v6", "mirror_v4", "mirror_v6", "mark", "trigger"}
             \/ queue > 0 \/ spc = "coalesce"

(* PublishedReachesPool: once the servers have settled, and as long as no  *)
(* request to them hangs, the pool ends up with every entry they publish,  *)
(* as published, and with an entry for the negative of each of its DCs; a  *)
(* map without entries changes nothing.  Guards, stability count, cooldown *)
(* and mirroring never keep it out.                                        *)
FetchesAnswered == []<>(upc \notin {"v4", "v6", "secret"})
Reflects(m, p) ==
    /\ \A k \in DOMAIN p : k \in DOMAIN m /\ m[k] = p[k]
    /\ \A k \in DOMAIN p : k > 0 => -k \in DOMAIN m
PublishedReachesPool ==
    FetchesAnswered =>
        <>[](secret = pub["secret"] /\ \A f \in Families : Reflects(proxy_map[f], pub[f]))

(* ChangeGetsCycle: as long as cycles end, a cycle starts after every      *)
(* change of a map, whether or not a later fetch hangs the updater.        *)
CyclesEnd == []<>(spc # "run")
ChangeGetsCycle == CyclesEnd => []<>(~stale)

(* HandshakePair: with me_secret_atomic_snapshot on, the selector a        *)
(* handshake announces is that of the secret it derives its keys from,     *)
(* even when the secret rotates meanwhile.                                 *)
HandshakePair == mode.atomic /\ hs.sec # None => hs.ks = hs.sec

(* ChangeSeen: a change of the map or of the secret is never half seen:    *)
(* until a cycle has run for it a trigger is on its way, and a handshake   *)
(* takes selector and keys from one secret.                                *)
ChangeSeen == MapChangeNotLost /\ HandshakePair

(* PublishedFollowed: the pool takes over what is published, in the end    *)
(* all of it and with a cycle after the change, and never what was only    *)
(* seen in passing.                                                        *)
PublishedFollowed == StableGate /\ PublishedReachesPool /\ ChangeGetsCycle
=============================================================================
