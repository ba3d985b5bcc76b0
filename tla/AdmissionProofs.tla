--------------------------- MODULE AdmissionProofs --------------------------
(***************************************************************************)
(* Proofs about the admission of clients: the handshake of any number of   *)
(* clients (ClientFront) and the limits of users (UserLimits), for any     *)
(* number of sessions, users and addresses and any limits.                 *)
(*                                                                         *)
(* ReplayOnce is not inductive by itself: a client is answered two steps   *)
(* after its digest was looked up.  ReplayInv keeps the digest of every    *)
(* client between the two, and of every client answered or authenticated,  *)
(* in the replay checker.  MaskInv follows the bytes of a masked client    *)
(* from the handshake that gave it up to the relay; and because the set of *)
(* running handlers is finite, however many clients there are, the permits *)
(* that are left can be counted.                                           *)
(***************************************************************************)
EXTENDS ClientFront, UserLimits, FiniteSetTheorems, TLAPS

-----------------------------------------------------------------------------
(* UserLimits.                                                             *)

(* What the proofs need besides the properties: a session has a user and   *)
(* an address from the moment it is authenticated, and the tracker's sets  *)
(* are finite.                                                             *)
SessionsInv ==
    /\ pc \in [Sessions -> Pcs]
    /\ user \in [Sessions -> Users \cup {None}] /\ ip \in [Sessions -> Ips \cup {None}]
    /\ \A s \in Sessions : pc[s] # "new" => user[s] \in Users /\ ip[s] \in Ips

TrackerInv ==
    /\ active_ips \in [Users -> SUBSET Ips]
    /\ \A u \in Users : IsFiniteSet(active_ips[u])
    /\ \A u \in DOMAIN MaxIps : Cardinality(active_ips[u]) <= MaxIps[u]

PolicyInv == telemetry \in BOOLEAN /\ expired \subseteq Users /\ spent \subseteq Quota

CounterInv == curr_connects \in [Users -> Nat] /\ CountNeverExceedsRelays

LimitsInv == SessionsInv /\ TrackerInv /\ PolicyInv /\ CounterInv /\ TrackedIpHasCause

-----------------------------------------------------------------------------
(* Every session step but the first moves one session and keeps users and  *)
(* addresses, so SessionsInv survives it.                                  *)
LEMMA GotoSessions ==
    ASSUME SessionsInv, NEW s \in Sessions, NEW to \in Pcs, pc[s] # "new",
           Goto(s, to), UNCHANGED <<user, ip>>
    PROVE  SessionsInv'
BY DEF SessionsInv, Goto

(* The relays of a user form a finite set.                                 *)
LEMMA RelayingFinite ==
    ASSUME NEW u \in Users
    PROVE  IsFiniteSet(Relaying(u)) /\ Cardinality(Relaying(u)) \in Nat
<1>1. Relaying(u) \in SUBSET Sessions
  BY DEF Relaying
<1> QED BY <1>1, FS_Subset, FS_CardinalityType, LimitsAssumption

(* A session that neither starts nor ends a relay leaves the sets of       *)
(* relays alone.                                                           *)
LEMMA RelayingSame ==
    ASSUME SessionsInv, NEW s \in Sessions, NEW to \in Pcs, Goto(s, to),
           pc[s] # "relay", to # "relay", UNCHANGED user
    PROVE  \A u \in Users : Relaying(u)' = Relaying(u)
BY DEF Relaying, Goto, SessionsInv

(* Starting a relay never lowers the counter's headroom.                   *)
LEMMA IncrementCounter ==
    ASSUME LimitsInv, NEW s \in Sessions, increment_user_curr_connects(s)
    PROVE  CounterInv'
<1>1. PICK u0 \in Users : u0 = user[s] /\ pc[s] = "admitted" /\ UNCHANGED user
  BY DEF increment_user_curr_connects, LimitsInv, SessionsInv
<1>2. \A u \in Users : Relaying(u)' = IF u = u0 THEN Relaying(u) \cup {s} ELSE Relaying(u)
  BY <1>1 DEF increment_user_curr_connects, LimitsInv, SessionsInv, Relaying, Goto
<1>3. s \notin Relaying(u0)
  BY <1>1 DEF Relaying
<1>4. Cardinality(Relaying(u0)') = Cardinality(Relaying(u0)) + 1
  <2>1. Relaying(u0)' = Relaying(u0) \cup {s}
    BY <1>1, <1>2
  <2> QED BY ONLY <2>1, <1>1, <1>3, RelayingFinite, FS_AddElement, ZenonT(60)
<1>5. \A u \in Users : curr_connects'[u] = curr_connects[u]
                       \/ (u = u0 /\ curr_connects'[u] = curr_connects[u] + 1)
  BY <1>1 DEF increment_user_curr_connects, LimitsInv, CounterInv
<1>6. curr_connects' \in [Users -> Nat]
  BY <1>1 DEF increment_user_curr_connects, LimitsInv, CounterInv
<1>7. ASSUME NEW u \in Users PROVE curr_connects'[u] <= Cardinality(Relaying(u)')
  <2>1. curr_connects[u] \in Nat /\ curr_connects[u] <= Cardinality(Relaying(u))
    BY DEF LimitsInv, CounterInv, CountNeverExceedsRelays
  <2>2. CASE u = u0
    BY <2>1, <2>2, <1>4, <1>5, RelayingFinite
  <2>3. CASE u # u0
    <3>1. Relaying(u)' = Relaying(u) /\ curr_connects'[u] = curr_connects[u]
      BY <2>3, <1>2, <1>5
    <3> QED BY <3>1, <2>1
  <2> QED BY <2>2, <2>3
<1> QED BY <1>6, <1>7 DEF CounterInv, CountNeverExceedsRelays

(* Ending a relay lowers the counter whenever it can be lowered.           *)
LEMMA DecrementCounter ==
    ASSUME LimitsInv, NEW s \in Sessions, decrement_user_curr_connects(s)
    PROVE  CounterInv'
<1>1. PICK u0 \in Users : u0 = user[s] /\ pc[s] = "relay" /\ UNCHANGED user
  BY DEF decrement_user_curr_connects, LimitsInv, SessionsInv
<1>2. \A u \in Users : Relaying(u)' = IF u = u0 THEN Relaying(u) \ {s} ELSE Relaying(u)
  BY <1>1 DEF decrement_user_curr_connects, LimitsInv, SessionsInv, Relaying, Goto
<1>3. s \in Relaying(u0)
  BY <1>1 DEF Relaying
<1>4. Cardinality(Relaying(u0)') = Cardinality(Relaying(u0)) - 1
  <2>1. Relaying(u0)' = Relaying(u0) \ {s}
    BY <1>1, <1>2
  <2> QED BY ONLY <2>1, <1>1, <1>3, RelayingFinite, FS_RemoveElement, ZenonT(60)
<1>5. curr_connects \in [Users -> Nat]
  BY DEF LimitsInv, CounterInv
<1>6. /\ curr_connects' \in [Users -> Nat]
      /\ \A u \in Users : u # u0 => curr_connects'[u] = curr_connects[u]
      /\ curr_connects'[u0] = IF curr_connects[u0] = 0 THEN 0 ELSE curr_connects[u0] - 1
  BY <1>1, <1>5 DEF decrement_user_curr_connects
<1>7. ASSUME NEW u \in Users PROVE curr_connects'[u] <= Cardinality(Relaying(u)')
  <2>1. curr_connects[u] \in Nat /\ curr_connects[u] <= Cardinality(Relaying(u))
    BY DEF LimitsInv, CounterInv, CountNeverExceedsRelays
  <2>2. CASE u = u0
    <3>1. Cardinality(Relaying(u0)) # 0
      BY <1>1, <1>3, RelayingFinite, FS_EmptySet
    <3> QED BY <2>1, <2>2, <3>1, <1>1, <1>4, <1>6, RelayingFinite
  <2>3. CASE u # u0
    <3>1. Relaying(u)' = Relaying(u) /\ curr_connects'[u] = curr_connects[u]
      BY <2>3, <1>2, <1>6
    <3> QED BY <3>1, <2>1
  <2> QED BY <2>2, <2>3
<1> QED BY <1>6, <1>7 DEF CounterInv, CountNeverExceedsRelays

(* check_and_add stays within the limit.                                   *)
LEMMA CheckAndAddTracker ==
    ASSUME LimitsInv, NEW s \in Sessions, check_and_add(s)
    PROVE  TrackerInv'
<1> DEFINE u0 == user[s]
<1>1. u0 \in Users /\ ip[s] \in Ips
  BY DEF check_and_add, LimitsInv, SessionsInv
<1>2. CASE UNCHANGED active_ips
  BY <1>2 DEF LimitsInv, TrackerInv
<1>3. CASE HasRoom(s) /\ active_ips' = [active_ips EXCEPT ![user[s]] = @ \cup {ip[s]}]
  <2>1. active_ips' \in [Users -> SUBSET Ips]
    BY <1>1, <1>3 DEF LimitsInv, TrackerInv
  <2>2. \A u \in Users : active_ips'[u] = IF u = u0 THEN active_ips[u] \cup {ip[s]} ELSE active_ips[u]
    BY <1>1, <1>3 DEF LimitsInv, TrackerInv
  <2>3. IsFiniteSet(active_ips[u0]) /\ Cardinality(active_ips[u0]) \in Nat
    BY <1>1, FS_CardinalityType DEF LimitsInv, TrackerInv
  <2>4. active_ips'[u0] = active_ips[u0] \cup {ip[s]}
    BY <2>2, <1>1, Zenon
  <2>5. /\ IsFiniteSet(active_ips'[u0])
        /\ Cardinality(active_ips'[u0]) = IF ip[s] \in active_ips[u0]
                                          THEN Cardinality(active_ips[u0])
                                          ELSE Cardinality(active_ips[u0]) + 1
    <3> DEFINE A == active_ips[u0]
               x == ip[s]
    <3> HIDE DEF A, x
    <3>1. IsFiniteSet(A) => /\ IsFiniteSet(A \cup {x})
                            /\ Cardinality(A \cup {x}) = IF x \in A THEN Cardinality(A)
                                                         ELSE Cardinality(A) + 1
      BY FS_AddElement
    <3> QED BY ONLY <3>1, <2>3, <2>4 DEF A, x
  <2>6. \A u \in Users : IsFiniteSet(active_ips'[u])
    BY <2>2, <2>5, Zenon DEF LimitsInv, TrackerInv
  <2>7. ASSUME NEW u \in DOMAIN MaxIps PROVE Cardinality(active_ips'[u]) <= MaxIps[u]
    <3>1. u \in Users /\ MaxIps[u] \in Nat /\ Cardinality(active_ips[u]) <= MaxIps[u]
      BY LimitsAssumption DEF LimitsInv, TrackerInv
    <3>2. CASE u = u0
      BY <3>1, <3>2, <2>3, <2>5, <1>3 DEF HasRoom
    <3>3. CASE u # u0
      <4>1. active_ips'[u] = active_ips[u]
        BY <3>1, <3>3, <2>2, Zenon
      <4> QED BY <4>1, <3>1
    <3> QED BY <3>2, <3>3
  <2> QED BY <2>1, <2>6, <2>7 DEF TrackerInv
<1> QED BY <1>2, <1>3 DEF check_and_add

(* Removing an address keeps the tracker within the limit.                 *)
LEMMA RemoveIpTracker ==
    ASSUME LimitsInv, NEW s \in Sessions, remove_ip(s)
    PROVE  TrackerInv'
<1> DEFINE u0 == user[s]
<1>1. u0 \in Users
  BY DEF remove_ip, LimitsInv, SessionsInv
<1>2. active_ips' \in [Users -> SUBSET Ips]
  BY <1>1 DEF remove_ip, LimitsInv, TrackerInv
<1>3. \A u \in Users : active_ips'[u] = IF u = u0 THEN active_ips[u] \ {ip[s]} ELSE active_ips[u]
  BY <1>1, Zenon DEF remove_ip, LimitsInv, TrackerInv
<1>4. ASSUME NEW u \in Users
      PROVE  /\ IsFiniteSet(active_ips'[u])
             /\ Cardinality(active_ips'[u]) <= Cardinality(active_ips[u])
             /\ Cardinality(active_ips'[u]) \in Nat /\ Cardinality(active_ips[u]) \in Nat
  <2>1. IsFiniteSet(active_ips[u]) /\ active_ips'[u] \in SUBSET active_ips[u]
    BY <1>3, Zenon DEF LimitsInv, TrackerInv
  <2> QED BY ONLY <2>1, FS_Subset, FS_CardinalityType
<1>5. ASSUME NEW u \in DOMAIN MaxIps PROVE Cardinality(active_ips'[u]) <= MaxIps[u]
  <2>1. u \in Users /\ MaxIps[u] \in Nat /\ Cardinality(active_ips[u]) <= MaxIps[u]
    BY LimitsAssumption DEF LimitsInv, TrackerInv
  <2> QED BY <2>1, <1>4
<1> QED BY <1>2, <1>4, <1>5 DEF TrackerInv

-----------------------------------------------------------------------------
LEMMA LimitsInitial == Init => LimitsInv
<1> SUFFICES ASSUME Init PROVE LimitsInv
  OBVIOUS
<1>1. SessionsInv /\ PolicyInv
  BY DEF Init, SessionsInv, PolicyInv, Pcs
<1>2. TrackerInv
  <2>1. \A u \in Users : IsFiniteSet(active_ips[u]) /\ Cardinality(active_ips[u]) = 0
    BY FS_EmptySet DEF Init
  <2> QED BY <2>1, LimitsAssumption DEF Init, TrackerInv
<1>3. CounterInv
  <2>1. \A u \in Users : Cardinality(Relaying(u)) \in Nat
    BY RelayingFinite
  <2> QED BY <2>1 DEF Init, CounterInv, CountNeverExceedsRelays
<1>4. TrackedIpHasCause
  BY DEF Init, TrackedIpHasCause
<1> QED BY <1>1, <1>2, <1>3, <1>4 DEF LimitsInv

(* A step that changes neither counter nor relays keeps CounterInv.        *)
LEMMA CounterSame ==
    ASSUME CounterInv, UNCHANGED curr_connects,
           \A u \in Users : Relaying(u)' = Relaying(u)
    PROVE  CounterInv'
<1>1. ASSUME NEW u \in Users PROVE curr_connects'[u] <= Cardinality(Relaying(u)')
  <2>1. Relaying(u)' = Relaying(u)
    OBVIOUS
  <2> QED BY <2>1 DEF CounterInv, CountNeverExceedsRelays
<1> QED BY <1>1 DEF CounterInv, CountNeverExceedsRelays

LEMMA SessionStepInv ==
    ASSUME LimitsInv, NEW s \in Sessions, SessionStep(s)
    PROVE  LimitsInv'
<1>0. LimitsInv /\ SessionsInv
  BY DEF LimitsInv
<1>1. CASE authenticated(s)
  <2>1. SessionsInv'
    BY <1>0, <1>1 DEF authenticated, SessionsInv, Goto, Pcs
  <2>2. TrackerInv' /\ PolicyInv'
    BY <1>1 DEF authenticated, LimitsInv, TrackerInv, PolicyInv, envVars
  <2>3. \A u \in Users : Relaying(u)' = Relaying(u)
    BY <1>0, <1>1 DEF authenticated, SessionsInv, Relaying, Goto
  <2>4. CounterInv'
    BY <1>1, <2>3, CounterSame DEF authenticated, LimitsInv
  <2>5. TrackedIpHasCause'
    BY <1>0, <1>1 DEF authenticated, LimitsInv, SessionsInv, TrackedIpHasCause, Goto
  <2> QED BY <2>1, <2>2, <2>4, <2>5 DEF LimitsInv
<1>2. CASE expired_user(s)
  <2>1. SessionsInv'
    BY <1>0, <1>2, GotoSessions DEF expired_user, Pcs
  <2>2. TrackerInv' /\ PolicyInv'
    BY <1>2 DEF expired_user, LimitsInv, TrackerInv, PolicyInv, envVars
  <2>3. CounterInv'
    BY <1>0, <1>2, RelayingSame, CounterSame DEF expired_user, LimitsInv, Pcs
  <2>4. TrackedIpHasCause'
    BY <1>0, <1>2 DEF expired_user, LimitsInv, SessionsInv, TrackedIpHasCause, Goto
  <2> QED BY <2>1, <2>2, <2>3, <2>4 DEF LimitsInv
<1>3. CASE check_and_add(s)
  <2>1. SessionsInv'
    BY <1>0, <1>3, GotoSessions DEF check_and_add, Pcs
  <2>2. TrackerInv' /\ PolicyInv'
    BY <1>3, CheckAndAddTracker DEF check_and_add, LimitsInv, PolicyInv, envVars
  <2>3. CounterInv'
    BY <1>0, <1>3, RelayingSame, CounterSame DEF check_and_add, LimitsInv, Pcs
  <2>4. TrackedIpHasCause'
    BY <1>0, <1>3 DEF check_and_add, LimitsInv, SessionsInv, TrackerInv, TrackedIpHasCause, Goto
  <2> QED BY <2>1, <2>2, <2>3, <2>4 DEF LimitsInv
<1>4. CASE check_conns_and_quota(s)
  <2>1. SessionsInv'
    BY <1>0, <1>4, GotoSessions DEF check_conns_and_quota, Pcs
  <2>2. TrackerInv' /\ PolicyInv'
    BY <1>4 DEF check_conns_and_quota, LimitsInv, TrackerInv, PolicyInv, envVars
  <2>3. CounterInv'
    BY <1>0, <1>4, RelayingSame, CounterSame DEF check_conns_and_quota, LimitsInv, Pcs
  <2>4. OverLimit(s) => user[s] \in DOMAIN MaxTcp \cup Quota
    BY DEF OverLimit, LimitsInv, PolicyInv
  <2>5. TrackedIpHasCause'
    <3>1. PICK p : p \in {"refused_tracked", "admitted"} /\ Goto(s, p)
                   /\ (p = "refused_tracked" => user[s] \in DOMAIN MaxTcp \cup Quota)
      BY <1>4, <2>4 DEF check_conns_and_quota
    <3> QED BY <1>0, <1>4, <3>1 DEF check_conns_and_quota, LimitsInv, SessionsInv, TrackedIpHasCause, Goto
  <2> QED BY <2>1, <2>2, <2>3, <2>5 DEF LimitsInv
<1>5. CASE increment_user_curr_connects(s)
  <2>1. SessionsInv'
    BY <1>0, <1>5, GotoSessions DEF increment_user_curr_connects, Pcs
  <2>2. TrackerInv' /\ PolicyInv'
    BY <1>5 DEF increment_user_curr_connects, LimitsInv, TrackerInv, PolicyInv, envVars
  <2>3. CounterInv'
    BY <1>5, IncrementCounter
  <2>4. TrackedIpHasCause'
    BY <1>0, <1>5 DEF increment_user_curr_connects, LimitsInv, SessionsInv, TrackedIpHasCause, Goto
  <2> QED BY <2>1, <2>2, <2>3, <2>4 DEF LimitsInv
<1>6. CASE connect_fails(s)
  <2>1. SessionsInv'
    BY <1>0, <1>6, GotoSessions DEF connect_fails, Pcs
  <2>2. TrackerInv' /\ PolicyInv'
    BY <1>6 DEF connect_fails, LimitsInv, TrackerInv, PolicyInv, envVars
  <2>3. CounterInv'
    BY <1>0, <1>6, RelayingSame, CounterSame DEF connect_fails, LimitsInv, Pcs
  <2>4. TrackedIpHasCause'
    BY <1>0, <1>6 DEF connect_fails, LimitsInv, SessionsInv, TrackedIpHasCause, Goto
  <2> QED BY <2>1, <2>2, <2>3, <2>4 DEF LimitsInv
<1>7. CASE decrement_user_curr_connects(s)
  <2>1. SessionsInv'
    BY <1>0, <1>7, GotoSessions DEF decrement_user_curr_connects, Pcs
  <2>2. TrackerInv' /\ PolicyInv'
    BY <1>7 DEF decrement_user_curr_connects, LimitsInv, TrackerInv, PolicyInv, envVars
  <2>3. CounterInv'
    BY <1>7, DecrementCounter
  <2>4. TrackedIpHasCause'
    BY <1>0, <1>7 DEF decrement_user_curr_connects, LimitsInv, SessionsInv, TrackedIpHasCause, Goto
  <2> QED BY <2>1, <2>2, <2>3, <2>4 DEF LimitsInv
<1>8. CASE remove_ip(s)
  <2>1. SessionsInv'
    BY <1>0, <1>8, GotoSessions DEF remove_ip, Pcs
  <2>2. TrackerInv' /\ PolicyInv'
    BY <1>8, RemoveIpTracker, Zenon DEF remove_ip, LimitsInv, PolicyInv, envVars
  <2>3. CounterInv'
    BY <1>0, <1>8, RelayingSame, CounterSame DEF remove_ip, LimitsInv, Pcs
  <2>4. TrackedIpHasCause'
    BY <1>0, <1>8 DEF remove_ip, LimitsInv, SessionsInv, TrackerInv, TrackedIpHasCause, Goto
  <2> QED BY <2>1, <2>2, <2>3, <2>4 DEF LimitsInv
<1>9. CASE quota_spent(s)
  <2>1. SessionsInv' /\ TrackerInv' /\ PolicyInv' /\ TrackedIpHasCause'
    BY <1>0, <1>9 DEF quota_spent, LimitsInv, SessionsInv, TrackerInv, PolicyInv, TrackedIpHasCause
  <2>2. CounterInv'
    BY <1>9, CounterSame DEF quota_spent, LimitsInv, Relaying
  <2> QED BY <2>1, <2>2, SMTT(30) DEF LimitsInv
<1> QED BY <1>1, <1>2, <1>3, <1>4, <1>5, <1>6, <1>7, <1>8, <1>9 DEF SessionStep

LEMMA LimitsStep == LimitsInv /\ [Next]_vars => LimitsInv'
<1> SUFFICES ASSUME LimitsInv, [Next]_vars PROVE LimitsInv'
  OBVIOUS
<1>1. CASE \E s \in Sessions : SessionStep(s)
  BY <1>1, SessionStepInv
<1>2. CASE \/ \E u \in Users : expires(u)
           \/ apply_telemetry_policy
           \/ UNCHANGED vars
  <2>1. SessionsInv' /\ TrackerInv' /\ TrackedIpHasCause'
    BY <1>2 DEF expires, apply_telemetry_policy, vars, LimitsInv, SessionsInv, TrackerInv,
                TrackedIpHasCause
  <2>2. PolicyInv'
    BY <1>2, Zenon DEF expires, apply_telemetry_policy, vars, LimitsInv, PolicyInv
  <2>3. CounterInv'
    BY <1>2, CounterSame DEF expires, apply_telemetry_policy, vars, LimitsInv, Relaying
  <2> QED BY <2>1, <2>2, <2>3 DEF LimitsInv
<1> QED BY <1>1, <1>2 DEF Next

THEOREM LimitsInvariant == Spec => []LimitsInv
BY LimitsInitial, LimitsStep, PTL DEF Spec

(* The tracker never holds more addresses of a user than the user's limit  *)
(* and everything keeps its type (check_and_add under its lock).           *)
THEOREM LimitsTypeCorrect == Spec => []LimitsTypeOK
<1>1. LimitsInv => LimitsTypeOK
  BY DEF LimitsInv, SessionsInv, TrackerInv, PolicyInv, CounterInv, LimitsTypeOK
<1> QED BY <1>1, LimitsInvariant, PTL

(* The connection counter never exceeds the relays of the user, under any  *)
(* sequence of telemetry reloads.                                          *)
THEOREM CounterNeverOverstates == Spec => []CountNeverExceedsRelays
<1>1. LimitsInv => CountNeverExceedsRelays
  BY DEF LimitsInv, CounterInv
<1> QED BY <1>1, LimitsInvariant, PTL

(* A tracked address always goes back to a session that is not cleaned up  *)
(* yet or, for a user with a connection limit or a quota, to one that was  *)
(* refused after its address was added.                                    *)
THEOREM TrackedAddressesHaveCause == Spec => []TrackedIpHasCause
<1>1. LimitsInv => TrackedIpHasCause
  BY DEF LimitsInv
<1> QED BY <1>1, LimitsInvariant, PTL

(* The limits are checked against sessions: the counter never exceeds the  *)
(* relays, and no address stays behind but those of sessions refused after *)
(* the address check.                                                      *)
THEOREM LimitsAreKept == Spec => []LimitsKept
<1>1. CountNeverExceedsRelays /\ TrackedIpHasCause => LimitsKept
  BY DEF LimitsKept
<1> QED BY <1>1, CounterNeverOverstates, TrackedAddressesHaveCause, PTL

-----------------------------------------------------------------------------
(* ClientFront.                                                            *)

Running == {c \in Conns : cpc[c] \in Handler}

ClientPcs == Handler \cup {"new", "accepted", "done"}

\* ClientTypeOK without the count.
FieldsOK ==
    /\ cpc \in [Conns -> ClientPcs]
    /\ script \in Workloads /\ got \in [Conns -> {"", "first", "hello", "all"}]
    /\ sent \in [Conns -> {"", "first", "hello", "all"}]
    /\ counted \in [Conns -> SUBSET {"bad", "timeout"}]
    /\ copying \in [Conns -> SUBSET Directions]
    /\ answered \subseteq Conns /\ authed \subseteq Conns /\ mask \in BOOLEAN

PermitInv ==
    /\ IsFiniteSet(Running) /\ permits \in Nat
    /\ permits = Permits - Cardinality(Running)

\* The clients whose digest was fresh.
Greeted == {c \in Conns : c \in answered \/ cpc[c] = "hello"}

ReplayInv ==
    /\ \A c \in authed : script[c].prekey \in seen
    /\ \A c \in Greeted : script[c].digest \in seen
    /\ \A c, d \in authed : c # d => script[c].prekey # script[d].prekey
    /\ \A c, d \in Greeted : c # d => script[c].digest # script[d].digest

\* Where a handler has not answered its client yet, and never will.
Silent == {"new", "accepted", "header", "first", "rest", "hello", "plain"} \cup Masking

MaskInv ==
    \A c \in Conns :
        /\ cpc[c] \in Silent \/ copying[c] # {} => c \notin answered
        /\ cpc[c] \in Masking \/ copying[c] # {} => sent[c] = got[c]
        /\ copying[c] # {} => cpc[c] \in {"relaying", "done"}

ClientInv == FieldsOK /\ PermitInv /\ ReplayInv /\ MaskInv

\* One field of one connection moves.
LEMMA PcType ==
  ASSUME cpc \in [Conns -> ClientPcs], NEW c \in Conns, NEW p \in ClientPcs, Move(c, p)
  PROVE  cpc' \in [Conns -> ClientPcs]
  BY DEF Move

LEMMA CountType ==
  ASSUME counted \in [Conns -> SUBSET {"bad", "timeout"}], NEW c \in Conns,
         NEW k \in {"bad", "timeout"}, Count(c, k)
  PROVE  counted' \in [Conns -> SUBSET {"bad", "timeout"}]
  BY DEF Count

USE DEF ClientPcs, Handler, Timed, Masking, Directions

-----------------------------------------------------------------------------

LEMMA ClientInitInv == ClientInit => ClientInv
<1> SUFFICES ASSUME ClientInit PROVE ClientInv
  OBVIOUS
<1>1. FieldsOK
  BY ClientAssumption, Zenon DEF ClientInit, FieldsOK
<1>2. PermitInv
  <2>1. Running = {}
    BY Zenon DEF ClientInit, Running
  <2>2. Permits \in Nat /\ permits = Permits
    BY ClientAssumption, Zenon DEF ClientInit
  <2> QED BY <2>1, <2>2, FS_EmptySet DEF PermitInv
<1>3. ReplayInv
  BY Zenon DEF ClientInit, ReplayInv, Greeted
<1>4. MaskInv
  BY Zenon DEF ClientInit, MaskInv, Silent
<1> QED BY <1>1, <1>2, <1>3, <1>4 DEF ClientInv

LEMMA FieldsStep ==
  ASSUME FieldsOK, NEW c \in Conns, client_step(c)
  PROVE  FieldsOK'
<1> USE DEF client_step, accept, acquire_permit, proxy_header, do_handshake, handle_tls_handshake,
            send_server_hello, handle_mtproto_tls, handle_mtproto_plain, client_closes, session_ends,
            mask_connect, mask_relay_timeout, consume_client_data, copy_ends, handshake_timeout,
            HeaderParsed, HeaderRefused, Authenticated, BadClient, Return
<1>1. cpc' \in [Conns -> ClientPcs]
  <2>1. cpc' = cpc \/ \E p \in ClientPcs : Move(c, p)
    BY Zenon
  <2> HIDE DEF client_step, ClientPcs
  <2> QED BY <2>1, PcType, Zenon DEF FieldsOK
<1>2. got' \in [Conns -> {"", "first", "hello", "all"}]
  <2>1. got' = got \/ \E b \in {"first", "hello", "all"} : got' = [got EXCEPT ![c] = b]
    BY Zenon
  <2> QED BY <2>1, ZenonT(60) DEF FieldsOK
<1>3. sent' \in [Conns -> {"", "first", "hello", "all"}]
  <2>1. sent' = sent \/ \E b \in {"first", "hello", "all"} : sent' = [sent EXCEPT ![c] = b]
    BY Zenon
  <2> QED BY <2>1, ZenonT(60) DEF FieldsOK
<1>4. counted' \in [Conns -> SUBSET {"bad", "timeout"}]
  <2>1. counted' = counted \/ \E k \in {"bad", "timeout"} : Count(c, k)
    BY ZenonT(60)
  <2> HIDE DEF client_step
  <2> QED BY <2>1, CountType, ZenonT(60) DEF FieldsOK
<1>5. copying' \in [Conns -> SUBSET Directions]
  <2>1. copying' = copying \/ \E D \in SUBSET Directions : copying' = [copying EXCEPT ![c] = D]
    BY Zenon DEF FieldsOK
  <2> QED BY <2>1, ZenonT(60) DEF FieldsOK
<1>6. answered' \subseteq Conns /\ authed' \subseteq Conns
  BY Zenon DEF FieldsOK
<1>7. UNCHANGED <<script, mask>>
  BY Zenon
<1> QED BY <1>1, <1>2, <1>3, <1>4, <1>5, <1>6, <1>7, Zenon DEF FieldsOK

-----------------------------------------------------------------------------
(* Permits.                                                                *)

\* A handler that goes on keeps its permit.
LEMMA PermitKept ==
  ASSUME FieldsOK, PermitInv, NEW c \in Conns, NEW p \in ClientPcs, Move(c, p),
         cpc[c] \in Handler <=> p \in Handler, UNCHANGED permits
  PROVE  PermitInv'
<1>1. Running' = Running
  BY Zenon DEF FieldsOK, Move, Running
<1> QED BY <1>1 DEF PermitInv

LEMMA PermitTaken ==
  ASSUME FieldsOK, PermitInv, NEW c \in Conns, NEW p \in Handler, Move(c, p),
         cpc[c] \notin Handler, permits > 0, permits' = permits - 1
  PROVE  PermitInv'
<1>1. c \notin Running /\ Running' = Running \cup {c}
  BY ZenonT(60) DEF FieldsOK, Move, Running
<1>2. IsFiniteSet(Running') /\ Cardinality(Running') = Cardinality(Running) + 1
  BY <1>1, FS_AddElement DEF PermitInv
<1>3. Cardinality(Running) \in Nat
  BY FS_CardinalityType DEF PermitInv
<1> QED BY <1>2, <1>3, ClientAssumption DEF PermitInv

LEMMA PermitGivenBack ==
  ASSUME FieldsOK, PermitInv, NEW c \in Conns, cpc[c] \in Handler, Return(c)
  PROVE  PermitInv'
<1>1. c \in Running /\ Running' = Running \ {c}
  BY Zenon DEF FieldsOK, Move, Return, Running
<1>2. IsFiniteSet(Running') /\ Cardinality(Running') = Cardinality(Running) - 1
  BY <1>1, FS_RemoveElement DEF PermitInv
<1>3. Cardinality(Running) \in Nat
  BY FS_CardinalityType DEF PermitInv
<1>4. permits' = permits + 1
  BY DEF Return
<1> QED BY <1>2, <1>3, <1>4, ClientAssumption DEF PermitInv

LEMMA PermitStep ==
  ASSUME FieldsOK, PermitInv, NEW c \in Conns, client_step(c)
  PROVE  PermitInv'
<1> USE DEF BadClient, Authenticated, HeaderParsed, HeaderRefused
<1>1. CASE accept(c)
  BY <1>1, PermitKept DEF accept
<1>2. CASE acquire_permit(c)
  BY <1>2, PermitTaken DEF acquire_permit
<1>3. CASE proxy_header(c)
  BY <1>3, PermitKept, PermitGivenBack DEF proxy_header
<1>4. CASE do_handshake(c)
  BY <1>4, PermitKept DEF do_handshake
<1>5. CASE handle_tls_handshake(c)
  BY <1>5, PermitKept DEF handle_tls_handshake
<1>6. CASE send_server_hello(c)
  BY <1>6, PermitKept, PermitGivenBack DEF send_server_hello
<1>7. CASE handle_mtproto_tls(c)
  BY <1>7, PermitKept, PermitGivenBack DEF handle_mtproto_tls
<1>8. CASE handle_mtproto_plain(c)
  BY <1>8, PermitKept DEF handle_mtproto_plain
<1>9. CASE client_closes(c) \/ session_ends(c) \/ handshake_timeout(c)
  BY <1>9, PermitGivenBack DEF client_closes, session_ends, handshake_timeout
<1>10. CASE mask_connect(c)
  BY <1>10, PermitKept, PermitGivenBack DEF mask_connect
<1>11. CASE mask_relay_timeout(c) \/ consume_client_data(c)
  BY <1>11, PermitGivenBack DEF mask_relay_timeout, consume_client_data
<1>12. ASSUME NEW d \in Directions, copy_ends(c, d) PROVE PermitInv'
  <2>1. CASE cpc[c] = "relaying"
    BY <1>12, <2>1, PermitGivenBack DEF copy_ends
  <2>2. CASE cpc[c] # "relaying"
    BY <1>12, <2>2 DEF copy_ends, PermitInv, Running
  <2> QED BY <2>1, <2>2
<1> QED BY <1>1, <1>2, <1>3, <1>4, <1>5, <1>6, <1>7, <1>8, <1>9, <1>10, <1>11, <1>12, SMTT(30) DEF client_step

-----------------------------------------------------------------------------
(* Replays.                                                                *)

\* A step that neither answers nor authenticates anybody, nor puts a handler
\* in front of the ServerHello.
LEMMA ReplayKept ==
  ASSUME ReplayInv, UNCHANGED <<script, answered, authed>>, seen \subseteq seen',
         Greeted' \subseteq Greeted
  PROVE  ReplayInv'
  BY DEF ReplayInv

LEMMA ReplayStep ==
  ASSUME FieldsOK, ReplayInv, NEW c \in Conns, client_step(c)
  PROVE  ReplayInv'
<1> USE DEF Move, Return, BadClient, Authenticated, HeaderParsed, HeaderRefused, Remember, ReplayOf
<1>1. CASE \/ accept(c) \/ acquire_permit(c) \/ proxy_header(c) \/ do_handshake(c)
           \/ client_closes(c) \/ session_ends(c) \/ handshake_timeout(c) \/ mask_connect(c)
           \/ mask_relay_timeout(c) \/ consume_client_data(c)
           \/ \E d \in Directions : copy_ends(c, d)
  <2>1. UNCHANGED <<script, answered, authed, seen>>
    BY <1>1, ZenonT(30) DEF accept, acquire_permit, proxy_header, do_handshake, client_closes, session_ends,
                handshake_timeout, mask_connect, mask_relay_timeout, consume_client_data, copy_ends
  <2>2. cpc' = cpc \/ \E p \in ClientPcs \ {"hello"} : cpc' = [cpc EXCEPT ![c] = p]
    BY <1>1, ZenonT(30) DEF accept, acquire_permit, proxy_header, do_handshake, client_closes, session_ends,
                handshake_timeout, mask_connect, mask_relay_timeout, consume_client_data, copy_ends
  <2>3. Greeted' \subseteq Greeted
    BY <2>1, <2>2, Zenon DEF Greeted, FieldsOK
  <2> QED BY <2>1, <2>3, ReplayKept, SMTT(30)
<1>2. CASE handle_tls_handshake(c)
  <2>1. /\ UNCHANGED <<script, answered, authed>>
        /\ seen' = seen \cup {script[c].digest}
    BY <1>2 DEF handle_tls_handshake
  <2>2. CASE script[c].digest \notin seen
    <3>1. Greeted' \subseteq Greeted \cup {c}
      BY <1>2, <2>1, ZenonT(60) DEF handle_tls_handshake, Greeted, FieldsOK
    <3> QED BY <2>1, <2>2, <3>1 DEF ReplayInv
  <2>3. CASE script[c].digest \in seen
    <3>1. Greeted' \subseteq Greeted
      BY <1>2, <2>1, <2>3, Zenon DEF handle_tls_handshake, Greeted, FieldsOK
    <3> QED BY <2>1, <3>1, ReplayKept
  <2> QED BY <2>2, <2>3
<1>3. CASE send_server_hello(c)
  <2>1. UNCHANGED <<script, authed, seen>> /\ cpc[c] = "hello"
    BY <1>3 DEF send_server_hello
  <2>2. Greeted' \subseteq Greeted
    BY <1>3, Zenon DEF send_server_hello, Greeted, FieldsOK
  <2> QED BY <2>1, <2>2 DEF ReplayInv
<1>4. CASE handle_mtproto_tls(c) \/ handle_mtproto_plain(c)
  <2>1. /\ UNCHANGED <<script, answered>>
        /\ seen' = seen \cup {script[c].prekey}
        /\ authed' = authed \/ (script[c].prekey \notin seen /\ authed' = authed \cup {c})
    BY <1>4 DEF handle_mtproto_tls, handle_mtproto_plain
  <2>2. Greeted' \subseteq Greeted
    BY <1>4, <2>1, Zenon DEF handle_mtproto_tls, handle_mtproto_plain, Greeted, FieldsOK
  <2> QED BY <2>1, <2>2 DEF ReplayInv
<1> QED BY <1>1, <1>2, <1>3, <1>4 DEF client_step

-----------------------------------------------------------------------------
(* Masking.                                                                *)

LEMMA MaskStep ==
  ASSUME FieldsOK, MaskInv, NEW c \in Conns, client_step(c)
  PROVE  MaskInv'
<1> USE DEF FieldsOK, MaskInv, Silent, Move, Return, BadClient, Authenticated, HeaderParsed, HeaderRefused
<1>1. CASE accept(c) \/ acquire_permit(c) \/ proxy_header(c)
  BY <1>1, ZenonT(60) DEF accept, acquire_permit, proxy_header
<1>2. CASE do_handshake(c)
  BY <1>2, ZenonT(60) DEF do_handshake
<1>3. CASE handle_tls_handshake(c)
  BY <1>3, ZenonT(60) DEF handle_tls_handshake
<1>4. CASE send_server_hello(c)
  <2>1. /\ cpc[c] = "hello" /\ UNCHANGED <<got, sent, copying>>
        /\ answered' \subseteq answered \cup {c}
        /\ \E p \in {"mtproto", "done"} : Move(c, p)
    BY <1>4, Zenon DEF send_server_hello
  <2>2. copying[c] = {}
    BY <2>1, Zenon
  <2> QED BY <2>1, <2>2, ZenonT(60)
<1>5. CASE handle_mtproto_tls(c)
  BY <1>5, ZenonT(60) DEF handle_mtproto_tls
<1>6. CASE handle_mtproto_plain(c)
  BY <1>6, ZenonT(60) DEF handle_mtproto_plain
<1>7. CASE client_closes(c) \/ session_ends(c) \/ handshake_timeout(c)
  BY <1>7, ZenonT(60) DEF client_closes, session_ends, handshake_timeout
<1>8. CASE mask_connect(c)
  BY <1>8, ZenonT(60) DEF mask_connect
<1>9. CASE mask_relay_timeout(c) \/ consume_client_data(c)
  BY <1>9, ZenonT(60) DEF mask_relay_timeout, consume_client_data
<1>10. ASSUME NEW d \in Directions, copy_ends(c, d) PROVE MaskInv'
  BY <1>10, ZenonT(60) DEF copy_ends
<1> QED BY <1>1, <1>2, <1>3, <1>4, <1>5, <1>6, <1>7, <1>8, <1>9, <1>10, Zenon DEF client_step

-----------------------------------------------------------------------------

HIDE DEF ClientPcs, Handler, Timed, Masking, Directions

LEMMA ClientInductive == ClientInv /\ [ClientNext]_clientVars => ClientInv'
<1> SUFFICES ASSUME ClientInv, [ClientNext]_clientVars PROVE ClientInv'
  OBVIOUS
<1>1. CASE ClientNext
  BY <1>1, FieldsStep, PermitStep, ReplayStep, MaskStep DEF ClientNext, ClientInv
<1>2. CASE UNCHANGED clientVars
  BY <1>2, ZenonT(60) DEF clientVars, ClientInv, FieldsOK, PermitInv, Running, ReplayInv, Greeted, MaskInv
<1> QED BY <1>1, <1>2

LEMMA ClientInvariant == ClientSpec => []ClientInv
  BY ClientInitInv, ClientInductive, PTL DEF ClientSpec

\* The permits that are left are those no running handler holds, and there are
\* never more running handlers than permits, for any number of clients.
THEOREM PermitsAreCounted == ClientSpec => []ClientTypeOK
<1>1. ASSUME ClientInv PROVE ClientTypeOK
  <2>1. FieldsOK /\ PermitInv
    BY <1>1 DEF ClientInv
  <2>2. permits = Permits - Cardinality({c \in Conns : cpc[c] \in Handler}) /\ permits >= 0
    BY <2>1 DEF PermitInv, Running
  <2> QED BY <2>1, <2>2, Zenon DEF ClientTypeOK, FieldsOK, ClientPcs
<1> QED BY <1>1, ClientInvariant, PTL

\* Whatever the order of the handlers, at most one of the connections with the
\* same prekey authenticates, and at most one of those with the same digest
\* gets a ServerHello.
THEOREM ReplayIsRefused == ClientSpec => []ReplayOnce
<1>1. ClientInv => ReplayOnce
  BY Zenon DEF ClientInv, ReplayInv, Greeted, FieldsOK, ReplayOnce
<1> QED BY <1>1, ClientInvariant, PTL

\* The proxy itself never answers a client it masks, and hands the mask host
\* all it has read of the client.
THEOREM MaskIsFaithful == ClientSpec => []MaskSeesClient
<1>1. ClientInv => MaskSeesClient
  BY DEF ClientInv, MaskInv, Silent, Masking, MaskSeesClient
<1> QED BY <1>1, ClientInvariant, PTL
=============================================================================
