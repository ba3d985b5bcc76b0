----------------------------- MODULE UserLimits -----------------------------
(***************************************************************************)
(* Admission of authenticated sessions: the per-user limits that           *)
(* check_user_limits_static (proxy/client.rs) applies, the tracker of      *)
(* active client addresses (ip_tracker.rs) and the per-user connection     *)
(* counter of stats/mod.rs.                                                *)
(*                                                                         *)
(* Sessions run concurrently.  The tracker is behind a lock, the counter   *)
(* is an atomic, and the checks, the count and the clean-up of a session   *)
(* are separate steps.  Dropping the session's IpCleanupGuard spawns a     *)
(* task that removes the address some time later.                          *)
(***************************************************************************)
EXTENDS Naturals, FiniteSets

CONSTANTS Sessions,     \* client connections
          Users,
          Ips,          \* client addresses
          MaxIps,       \* user_max_unique_ips: user -> limit, for the users that have one
          MaxTcp,       \* user_max_tcp_conns, likewise
          Quota,        \* users with a data quota
          HotTelemetry, \* may a configuration reload flip user telemetry?
          None

ASSUME LimitsAssumption ==
    /\ IsFiniteSet(Sessions) /\ None \notin Users \cup Ips
    /\ DOMAIN MaxIps \subseteq Users /\ \A u \in DOMAIN MaxIps : MaxIps[u] \in Nat
    /\ DOMAIN MaxTcp \subseteq Users /\ \A u \in DOMAIN MaxTcp : MaxTcp[u] \in Nat
    /\ Quota \subseteq Users /\ HotTelemetry \in BOOLEAN

VARIABLES
    active_ips,     \* UserIpTracker.active_ips; a user without entry has {}
    curr_connects,  \* UserStats.curr_connects
    telemetry,      \* Stats.telemetry_user_enabled
    expired,        \* users past their expiration date
    spent,          \* users whose octet counters reached their quota
    pc,             \* where each session is
    user, ip        \* of each session

vars == <<active_ips, curr_connects, telemetry, expired, spent, pc, user, ip>>
envVars == <<telemetry, expired, spent>>

Pcs == {"new", "auth", "tracked", "admitted", "relay", "cleanup", "done",
        "refused", "refused_tracked"}

(* The tracker, the counter and the sessions hold values of their types    *)
(* and the tracker never holds more addresses of a user than the user's    *)
(* limit (ip_tracker.rs:96).                                               *)
LimitsTypeOK ==
    /\ active_ips \in [Users -> SUBSET Ips]
    /\ curr_connects \in [Users -> Nat]
    /\ telemetry \in BOOLEAN /\ expired \subseteq Users /\ spent \subseteq Quota
    /\ pc \in [Sessions -> Pcs]
    /\ user \in [Sessions -> Users \cup {None}] /\ ip \in [Sessions -> Ips \cup {None}]
    /\ \A u \in DOMAIN MaxIps : Cardinality(active_ips[u]) <= MaxIps[u]

Init ==
    /\ active_ips = [u \in Users |-> {}]
    /\ curr_connects = [u \in Users |-> 0]
    /\ telemetry = TRUE /\ expired = {} /\ spent = {}
    /\ pc = [s \in Sessions |-> "new"]
    /\ user = [s \in Sessions |-> None] /\ ip = [s \in Sessions |-> None]

Goto(s, to) == pc' = [pc EXCEPT ![s] = to]

-----------------------------------------------------------------------------
(* The handshake succeeded: the session has a user and an address.         *)
authenticated(s) ==
    /\ pc[s] = "new" /\ Goto(s, "auth")
    /\ \E u \in Users, i \in Ips :
          user' = [user EXCEPT ![s] = u] /\ ip' = [ip EXCEPT ![s] = i]
    /\ UNCHANGED <<active_ips, curr_connects, envVars>>

(* check_and_add answers Ok: the user has no limit, the address is already *)
(* there, or there is room for it.                                         *)
HasRoom(s) ==
    \/ user[s] \notin DOMAIN MaxIps
    \/ ip[s] \in active_ips[user[s]]
    \/ Cardinality(active_ips[user[s]]) < MaxIps[user[s]]

expired_user(s) ==
    /\ pc[s] = "auth" /\ user[s] \in expired /\ Goto(s, "refused")
    /\ UNCHANGED <<active_ips, curr_connects, envVars, user, ip>>

(* Faulty: the limit is compared with > instead of >=.                     *)
check_and_add_off_by_one(s) ==
    /\ pc[s] = "auth" /\ user[s] \notin expired
    /\ IF HasRoom(s) \/ Cardinality(active_ips[user[s]]) = MaxIps[user[s]]
       THEN /\ active_ips' = [active_ips EXCEPT ![user[s]] = @ \cup {ip[s]}]
            /\ Goto(s, "tracked")
       ELSE Goto(s, "refused") /\ UNCHANGED active_ips
    /\ UNCHANGED <<curr_connects, envVars, user, ip>>

check_and_add(s) ==
    /\ pc[s] = "auth" /\ user[s] \notin expired
    /\ IF HasRoom(s)
       THEN /\ active_ips' = [active_ips EXCEPT ![user[s]] = @ \cup {ip[s]}]
            /\ Goto(s, "tracked")
       ELSE Goto(s, "refused") /\ UNCHANGED active_ips
    /\ UNCHANGED <<curr_connects, envVars, user, ip>>

(* The connection and quota checks come after the address was added; a     *)
(* refusal returns before the clean-up guard exists.                       *)
OverLimit(s) ==
    \/ user[s] \in DOMAIN MaxTcp /\ curr_connects[user[s]] >= MaxTcp[user[s]]
    \/ user[s] \in spent

check_conns_and_quota(s) ==
    /\ pc[s] = "tracked"
    /\ Goto(s, IF OverLimit(s) THEN "refused_tracked" ELSE "admitted")
    /\ UNCHANGED <<active_ips, curr_connects, envVars, user, ip>>

(* The relay starts: register with the pool, or connect to the DC, and     *)
(* increment_user_curr_connects.                                           *)
increment_user_curr_connects(s) ==
    /\ pc[s] = "admitted" /\ Goto(s, "relay")
    /\ curr_connects' = IF telemetry THEN [curr_connects EXCEPT ![user[s]] = @ + 1]
                                     ELSE curr_connects
    /\ UNCHANGED <<active_ips, envVars, user, ip>>

(* The connect or the handshake with the DC fails before the count: only   *)
(* the guard is dropped.                                                   *)
connect_fails(s) ==
    /\ pc[s] = "admitted" /\ Goto(s, "cleanup")
    /\ UNCHANGED <<active_ips, curr_connects, envVars, user, ip>>

(* Faulty: the decrement is skipped while telemetry is off.                *)
decrement_gated(s) ==
    /\ pc[s] = "relay" /\ Goto(s, "cleanup")
    /\ curr_connects' = IF telemetry /\ curr_connects[user[s]] > 0
                        THEN [curr_connects EXCEPT ![user[s]] = @ - 1] ELSE curr_connects
    /\ UNCHANGED <<active_ips, envVars, user, ip>>

(* The relay ends: decrement_user_curr_connects, then the guard is dropped *)
(* and its clean-up task spawned.                                          *)
decrement_user_curr_connects(s) ==
    /\ pc[s] = "relay" /\ Goto(s, "cleanup")
    /\ curr_connects' = IF curr_connects[user[s]] = 0 THEN curr_connects
                        ELSE [curr_connects EXCEPT ![user[s]] = @ - 1]
    /\ UNCHANGED <<active_ips, envVars, user, ip>>

(* The spawned task removes the address.                                   *)
remove_ip(s) ==
    /\ pc[s] = "cleanup" /\ Goto(s, "done")
    /\ active_ips' = [active_ips EXCEPT ![user[s]] = @ \ {ip[s]}]
    /\ UNCHANGED <<curr_connects, envVars, user, ip>>

(* Relayed octets reach the quota; they are counted with telemetry only.   *)
quota_spent(s) ==
    /\ pc[s] = "relay" /\ telemetry /\ user[s] \in Quota \ spent
    /\ spent' = spent \cup {user[s]}
    /\ UNCHANGED <<active_ips, curr_connects, telemetry, expired, pc, user, ip>>

(* The expiration date of a user passes.                                   *)
expires(u) ==
    /\ u \notin expired /\ expired' = expired \cup {u}
    /\ UNCHANGED <<active_ips, curr_connects, telemetry, spent, pc, user, ip>>

(* A configuration reload applies a telemetry policy.                      *)
apply_telemetry_policy ==
    /\ HotTelemetry /\ telemetry' = ~telemetry
    /\ UNCHANGED <<active_ips, curr_connects, expired, spent, pc, user, ip>>

SessionStep(s) ==
    \/ authenticated(s) \/ expired_user(s) \/ check_and_add(s) \/ check_conns_and_quota(s)
    \/ increment_user_curr_connects(s) \/ connect_fails(s)
    \/ decrement_user_curr_connects(s) \/ remove_ip(s) \/ quota_spent(s)

Next ==
    \/ \E s \in Sessions : SessionStep(s)
    \/ \E u \in Users : expires(u)
    \/ apply_telemetry_policy

Spec == Init /\ [][Next]_vars

-----------------------------------------------------------------------------
(* Properties.                                                             *)

Relaying(u) == {s \in Sessions : pc[s] = "relay" /\ user[s] = u}

(* The counter the connection limit reads never exceeds the number of      *)
(* relays of the user, whatever the telemetry policy did between the count *)
(* and the decrement, so no user is locked out by sessions that are over   *)
(* (stats/mod.rs:629-656, client.rs:768).                                  *)
CountNeverExceedsRelays ==
    \A u \in Users : curr_connects[u] <= Cardinality(Relaying(u))

(* Every tracked address has a cause: a session of that user from that     *)
(* address that still owes its clean-up, or one that was refused after its *)
(* address was added, which happens only to users with a connection limit  *)
(* or a quota (client.rs:682-705, 756-782, ip_tracker.rs).  The second     *)
(* cause is a leak of the code: nothing ever removes such an address but   *)
(* the end of another session from it, although ip_tracker.rs:16 speaks of *)
(* automatic clean-up and docs/FAQ.md:38 of room for the next user after a *)
(* disconnect.                                                             *)
TrackedIpHasCause ==
    \A u \in Users : \A i \in active_ips[u] : \E s \in Sessions :
        /\ user[s] = u /\ ip[s] = i
        /\ \/ pc[s] \in {"tracked", "admitted", "relay", "cleanup"}
           \/ pc[s] = "refused_tracked" /\ u \in DOMAIN MaxTcp \cup Quota

(* As many different addresses use a secret at the same time as the limit  *)
(* allows.  docs/FAQ.md:38: "此参数限制同一时间内有多少个唯一 IP 可以使用一个链接".    *)
UniqueIpLimit ==
    \A u \in DOMAIN MaxIps : Cardinality({ip[s] : s \in Relaying(u)}) <= MaxIps[u]

(* LimitsKept: what the limits are checked against.  The counter never     *)
(* exceeds the relays there are.  A tracked address has a session that     *)
(* still owes its clean-up; addresses of sessions refused after the        *)
(* address check stay behind, and nothing else does.                       *)
LimitsKept == CountNeverExceedsRelays /\ TrackedIpHasCause
=============================================================================
