----------------------------- MODULE Upstreams -----------------------------
(***************************************************************************)
(* The upstream manager (transport/upstream.rs): the routes to Telegram    *)
(* (direct, SOCKS4, SOCKS5), the startup ping of every DC through every    *)
(* route, the background health check and the connections that select a    *)
(* route, retry on it and update its health.                               *)
(*                                                                         *)
(* `reach` is the network: the endpoints that answer through a route.  An  *)
(* endpoint that does not answer is silent, so that only the timeout of    *)
(* the attempt ends it.  Latencies only weight the random choice among the *)
(* healthy routes and are left out.                                        *)
(***************************************************************************)
EXTENDS Naturals, Sequences, SequencesExt, FiniteSetsExt

CONSTANTS
    NumDcs,             \* NUM_DCS
    MinHealthyGroups,   \* MIN_HEALTHY_DC_GROUPS
    RetryAttempts,      \* connect_retry_attempts
    FailThreshold,      \* unhealthy_fail_threshold
    Fleets,             \* configurations: [ups, prefer6, ipv4, ipv6, overrides]
    Requests,           \* connections asked for: [target, scope]
    Reaches,            \* states of the network: sets of <<upstream, endpoint>>
    MaxChanges          \* bound: changes of the network

ASSUME UpstreamsAssumption ==
    /\ {NumDcs, MinHealthyGroups, RetryAttempts, FailThreshold} \subseteq Nat \ {0}
    /\ MaxChanges \in Nat

VARIABLES
    fleet,      \* the configuration
    groups,     \* the DC groups of the health check
    reach,      \* what answers now
    changes,    \* changes of the network so far
    ups,        \* per upstream: [healthy, fails]; fails counts up to FailThreshold
    pref,       \* per upstream and DC: the IpPreference
    rr,         \* per upstream: bind_rr, modulo 2
    ping,       \* the startup ping: position and answers of the present upstream
    hc,         \* the health check: position and healthy groups
    rotation,   \* endpoint_rotation
    conn        \* the connection being made

upVars == <<fleet, groups, reach, changes, ups, pref, rr, ping, hc, rotation, conn>>

Dcs == 1..NumDcs
Ups == DOMAIN fleet.ups
Endpoint(fam, dc, n) == [fam |-> fam, dc |-> dc, n |-> n]
Standard(fam, dc) == Endpoint(fam, dc, 0)
NoBind == [ip |-> "none", fam |-> "none"]

Answers(u, e) == <<u, e>> \in reach

----------------------------------------------------------------------------
\* Pure parts.

\* build_health_check_groups: per DC the standard address of each enabled family
\* and its overrides, without duplicates; the preferred family is primary.
FamilyEndpoints(f, fam, dc) ==
    IF ~(IF fam = "v4" THEN f.ipv4 ELSE f.ipv6) THEN {}
    ELSE (IF dc \in Dcs THEN {Standard(fam, dc)} ELSE {})
            \cup {e \in f.overrides : e.dc = dc /\ e.fam = fam}

Sorted(set) == SetToSortSeq(set, LAMBDA a, b : a.n < b.n)

build_health_check_groups(f) ==
    LET first == IF f.prefer6 THEN "v6" ELSE "v4"
        second == IF f.prefer6 THEN "v4" ELSE "v6"
        both(dc) == FamilyEndpoints(f, "v4", dc) \cup FamilyEndpoints(f, "v6", dc)
        dcs == {dc \in Dcs \cup {e.dc : e \in f.overrides} : both(dc) # {}}
        group(dc) == <<Sorted(FamilyEndpoints(f, first, dc)),
                       Sorted(FamilyEndpoints(f, second, dc))>>
        order == SetToSortSeq(dcs, LAMBDA a, b : a < b)
    IN [i \in DOMAIN order |-> group(order[i])]

required_healthy_group_count == Min({Len(groups), MinHealthyGroups})

\* The bind addresses of the target's family, those on the interface if one is named.
Candidates(cf, fam) ==
    SelectSeq(cf.binds, LAMBDA b : b.fam = fam /\ (cf.iface = "name" => b \in cf.addrs))

\* resolve_bind_address, for the counter value n.  An interface given as an IP
\* (iface = "ip", with that address as its only one) validates nothing and is
\* used where no bind address is of the target's family.
resolve_bind_address(cf, fam, n) ==
    LET cands == Candidates(cf, fam)
        onIface == {b \in cf.addrs : b.fam = fam}
    IN CASE cands # <<>> -> cands[(n % Len(cands)) + 1]
         [] cands = <<>> /\ cf.binds # <<>> /\ cf.iface = "name" -> NoBind
         [] OTHER -> IF onIface = {} THEN NoBind ELSE CHOOSE b \in onIface : TRUE

\* connect_via_upstream up to the await: what the socket is bound to.  A SOCKS
\* route binds towards its server, by interface only.
bind_for(u, fam) ==
    LET cf == fleet.ups[u]
    IN IF cf.kind = "direct" THEN resolve_bind_address(cf, fam, rr[u])
       ELSE resolve_bind_address([cf EXCEPT !.binds = <<>>], cf.proxyFam, rr[u])

\* fetch_add happens only where there are candidates to rotate over.
next_rr(u, fam) ==
    IF fleet.ups[u].kind = "direct" /\ Candidates(fleet.ups[u], fam) # <<>>
    THEN [rr EXCEPT ![u] = (@ + 1) % 2] ELSE rr

\* select_upstream: the routes of the scope, the healthy ones first; among several
\* the choice is random, weighted, and of weight zero only if all weigh nothing.
select_upstream(scope) ==
    LET scoped == {u \in Ups : IF scope = "none" THEN fleet.ups[u].scopes = {}
                               ELSE scope \in fleet.ups[u].scopes}
        healthy == {u \in scoped : ups[u].healthy}
        heavy == {u \in healthy : fleet.ups[u].weight > 0}
    IN CASE healthy = {} -> scoped
         [] heavy = {} -> healthy
         [] OTHER -> heavy

\* A successful connect, or a health check with enough groups.
mark_ok(u) == [ups EXCEPT ![u] = [healthy |-> TRUE, fails |-> 0]]

\* A connect that exhausted its attempts, or a health check below the threshold.
mark_failed(u) ==
    [ups EXCEPT ![u] = [fails |-> Min({@.fails + 1, FailThreshold}),
                        healthy |-> @.healthy /\ @.fails + 1 < FailThreshold]]

----------------------------------------------------------------------------
\* The startup ping: every upstream, IPv6 before IPv4, every DC; main awaits it.

PingList(f) ==
    LET fams == (IF f.ipv6 THEN <<"v6">> ELSE <<>>) \o (IF f.ipv4 THEN <<"v4">> ELSE <<>>)
        list(fam) == [dc \in Dcs |-> Standard(fam, dc)]
        wanted(e) == (e.fam = "v6" /\ f.ipv6) \/ (e.fam = "v4" /\ f.ipv4)
        extra == Sorted({e \in f.overrides : wanted(e)})
    IN FlattenSeq([i \in DOMAIN fams |-> list(fams[i])]) \o extra

Pinging == ping.u \in Ups

\* One ping_single_dc under its timeout: an answer is recorded, silence is not.
ping_single_dc ==
    /\ Pinging /\ ping.at <= Len(PingList(fleet))
    /\ LET e == PingList(fleet)[ping.at] IN
        /\ ping' = [ping EXCEPT !.at = @ + 1,
                                !.ok = IF Answers(ping.u, e) THEN @ \cup {e} ELSE @]
        /\ rr' = next_rr(ping.u, e.fam)
    /\ UNCHANGED <<fleet, groups, reach, changes, ups, pref, hc, rotation, conn>>

IpPreferenceOf(v6, v4) ==
    CASE v6 /\ v4 -> "BothWork" [] v6 /\ ~v4 -> "PreferV6"
      [] ~v6 /\ v4 -> "PreferV4" [] OTHER -> "Unavailable"

\* A slip: an override that answers counts for the DC's own address.
preference_any(dc, ok) ==
    IpPreferenceOf(\E e \in ok : e.dc = dc /\ e.fam = "v6",
                   \E e \in ok : e.dc = dc /\ e.fam = "v4")

\* The preference of a DC comes from its standard addresses only.
preference(dc, ok) == IpPreferenceOf(Standard("v6", dc) \in ok, Standard("v4", dc) \in ok)

\* The last ping of an upstream: record the preferences, go on to the next one.
ping_finish ==
    /\ Pinging /\ ping.at > Len(PingList(fleet))
    /\ pref' = [pref EXCEPT ![ping.u] = [dc \in Dcs |-> preference(dc, ping.ok)]]
    /\ ping' = [u |-> ping.u + 1, at |-> 1, ok |-> {}]
    /\ UNCHANGED <<fleet, groups, reach, changes, ups, rr, hc, rotation, conn>>

----------------------------------------------------------------------------
\* The health check.

Idle == [u |-> 0, g |-> 1, side |-> 1, step |-> 0, good |-> 0]
At(side, g) == groups[g][side]

\* The interval passed.  With no groups the loop only sleeps.
health_wake ==
    /\ ~Pinging /\ hc.u = 0 /\ groups # <<>>
    /\ hc' = [Idle EXCEPT !.u = 1]
    /\ UNCHANGED <<fleet, groups, reach, changes, ups, pref, rr, ping, rotation, conn>>

NextGroup(good) == [hc EXCEPT !.g = @ + 1, !.side = 1, !.step = 0, !.good = good]

\* Where the next check of these endpoints starts.
rotated(i, len) == (i + 1) % len

\* One connect to one endpoint of the group, under its timeout.
health_try ==
    /\ hc.u # 0 /\ hc.g <= Len(groups)
    /\ LET list == At(hc.side, hc.g)
           start == rotation[hc.u][hc.g][hc.side]
           i == (start + hc.step) % Len(list)
           last == hc.step + 1 = Len(list)
       IN IF list = <<>>
          THEN /\ hc' = IF hc.side = 1 THEN [hc EXCEPT !.side = 2] ELSE NextGroup(hc.good)
               /\ UNCHANGED <<rr, rotation>>
          ELSE /\ rr' = next_rr(hc.u, list[i + 1].fam)
               /\ rotation' =
                    [rotation EXCEPT ![hc.u][hc.g][hc.side] =
                        IF Answers(hc.u, list[i + 1]) THEN rotated(i, Len(list))
                        ELSE IF last THEN rotated(start, Len(list)) ELSE @]
               /\ hc' = CASE Answers(hc.u, list[i + 1]) -> NextGroup(hc.good + 1)
                          [] ~Answers(hc.u, list[i + 1]) /\ ~last -> [hc EXCEPT !.step = @ + 1]
                          [] OTHER -> IF hc.side = 1 THEN [hc EXCEPT !.side = 2, !.step = 0]
                                      ELSE NextGroup(hc.good)
    /\ UNCHANGED <<fleet, groups, reach, changes, ups, pref, ping, conn>>

\* All groups of an upstream were checked.
health_finish ==
    /\ hc.u # 0 /\ hc.g > Len(groups)
    /\ ups' = IF hc.good >= required_healthy_group_count THEN mark_ok(hc.u) ELSE mark_failed(hc.u)
    /\ hc' = IF hc.u + 1 \in Ups THEN [Idle EXCEPT !.u = hc.u + 1] ELSE Idle
    /\ UNCHANGED <<fleet, groups, reach, changes, pref, rr, ping, rotation, conn>>

----------------------------------------------------------------------------
\* A connection (connect_with_details).

NoConn == [u |-> 0, try |-> 0, req |-> [target |-> Standard("v4", 1), scope |-> "none"],
           bind |-> NoBind]

\* The ME pool, its monitor and the TLS front fetch connect from the start, before
\* and during the startup ping; clients after it.
connect_select(req) ==
    /\ conn = NoConn
    /\ \E u \in select_upstream(req.scope) :
        conn' = [u |-> u, try |-> 1, req |-> req, bind |-> bind_for(u, req.target.fam)]
    /\ rr' = next_rr(conn'.u, req.target.fam)
    /\ UNCHANGED <<fleet, groups, reach, changes, ups, pref, ping, hc, rotation>>

connect_ok ==
    /\ conn # NoConn /\ Answers(conn.u, conn.req.target)
    /\ ups' = mark_ok(conn.u)
    /\ conn' = NoConn
    /\ UNCHANGED <<fleet, groups, reach, changes, pref, rr, ping, hc, rotation>>

\* An attempt timed out: after a pause the same upstream is tried again, and only
\* the last failure counts against it.
connect_timeout ==
    /\ conn # NoConn /\ ~Answers(conn.u, conn.req.target)
    /\ IF conn.try < RetryAttempts
       THEN /\ conn' = [conn EXCEPT !.try = @ + 1,
                                    !.bind = bind_for(conn.u, conn.req.target.fam)]
            /\ rr' = next_rr(conn.u, conn.req.target.fam)
            /\ UNCHANGED ups
       ELSE /\ conn' = NoConn
            /\ ups' = mark_failed(conn.u)
            /\ UNCHANGED rr
    /\ UNCHANGED <<fleet, groups, reach, changes, pref, ping, hc, rotation>>

\* The network changes.
network ==
    /\ changes < MaxChanges
    /\ reach' \in Reaches \ {reach}
    /\ changes' = changes + 1
    /\ UNCHANGED <<fleet, groups, ups, pref, rr, ping, hc, rotation, conn>>

----------------------------------------------------------------------------
UpInit ==
    /\ fleet \in Fleets /\ groups = build_health_check_groups(fleet)
    /\ reach \in Reaches /\ changes = 0
    /\ ups = [u \in DOMAIN fleet.ups |-> [healthy |-> TRUE, fails |-> 0]]
    /\ pref = [u \in DOMAIN fleet.ups |-> [dc \in Dcs |-> "Unknown"]]
    /\ rr = [u \in DOMAIN fleet.ups |-> 0]
    /\ ping = [u |-> 1, at |-> 1, ok |-> {}]
    /\ hc = Idle
    /\ rotation = [u \in DOMAIN fleet.ups |-> [g \in DOMAIN groups |-> <<0, 0>>]]
    /\ conn = NoConn

PingStep == ping_single_dc \/ ping_finish
HealthStep == health_wake \/ health_try \/ health_finish
ConnectStep == connect_ok \/ connect_timeout

UpNext ==
    \/ PingStep \/ HealthStep \/ ConnectStep
    \/ \E req \in Requests : connect_select(req)
    \/ network

\* The tasks run and their timers fire; nobody has to ask for a connection.
UpSpec ==
    /\ UpInit /\ [][UpNext]_upVars
    /\ WF_upVars(PingStep) /\ WF_upVars(HealthStep) /\ WF_upVars(ConnectStep)

----------------------------------------------------------------------------
\* Properties.

\* The groups that answer through an upstream now.
Reachable(u) ==
    {g \in DOMAIN groups :
        \E side \in 1..2 : \E i \in DOMAIN At(side, g) : Answers(u, At(side, g)[i])}

\* The manager's state is well formed; the two writers of an upstream's health,
\* the connections and the health check, keep the mark and the count in step.
UpTypeOK ==
    /\ DOMAIN ups = Ups
    /\ \A u \in Ups : /\ ups[u].fails \in 0..FailThreshold
                      /\ ups[u].healthy <=> ups[u].fails < FailThreshold
    /\ hc.u \in {0} \cup Ups /\ hc.good <= Len(groups)
    /\ conn.try \in 0..RetryAttempts

\* After the startup ping on a steady network, the preference of every DC says
\* which families its standard address answers on, through each upstream.
PreferencesTrue ==
    (~Pinging /\ changes = 0) =>
        \A u \in Ups, dc \in Dcs :
            pref[u][dc] = IpPreferenceOf(fleet.ipv6 /\ Answers(u, Standard("v6", dc)),
                                         fleet.ipv4 /\ Answers(u, Standard("v4", dc)))

\* A direct connection leaves from an address of the target's family that the
\* configuration allows: one on the interface, if an interface is named, else a
\* bind address, and the interface's own IP only if there is no such address.
BindMatches ==
    LET cf == fleet.ups[conn.u]
        usable == {b \in ToSet(cf.binds) : /\ b.fam = conn.req.target.fam
                                           /\ cf.iface = "name" => b \in cf.addrs}
    IN  (conn # NoConn /\ conn.bind # NoBind /\ cf.kind = "direct") =>
            /\ conn.bind.fam = conn.req.target.fam
            /\ conn.bind \in (IF usable # {} THEN usable ELSE cf.addrs)

\* An upstream through which enough DC groups answer, on any family and after any
\* failures, is marked healthy again and again.
HealthRecovers ==
    \A u \in 1..2 :
        <>[](Cardinality(Reachable(u)) >= required_healthy_group_count) =>
            []<>(ups[u].healthy)

\* An upstream through which nothing answers is in the end marked unhealthy for good.
DeadNoticed ==
    \A u \in 1..2 : <>[](\A pair \in reach : pair[1] # u) => <>[](~ups[u].healthy)

\* Every attempt ends: the startup ping and the connections, whatever is silent.
AttemptsEnd == []<>(~Pinging) /\ []<>(conn = NoConn)

\* Endpoint i of the primary family of group g is tried next through upstream u.
TriedNext(u, g, i) ==
    /\ hc.u = u /\ hc.g = g /\ hc.side = 1
    /\ (rotation[u][g][1] + hc.step) % Len(At(1, g)) = i - 1

\* The health check comes back to every endpoint of a primary list, whether the
\* others answer or not.
EndpointsRotate ==
    \A i \in 1..2 : []<>(Len(At(1, 1)) = 2 => TriedNext(1, 1, i))

\* What is recorded of the upstreams follows the network: preferences are those
\* of the last ping, a bind address fits its target, a route that works becomes
\* healthy and one that is dead does not stay so, no attempt hangs, and no
\* endpoint is left out.
UpstreamsFollowed ==
    /\ [](PreferencesTrue /\ BindMatches)
    /\ HealthRecovers /\ DeadNoticed /\ AttemptsEnd /\ EndpointsRotate
=============================================================================
