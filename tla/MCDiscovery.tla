---------------------------- MODULE MCDiscovery -----------------------------
(***************************************************************************)
(* How the proxy learns where to connect and from which address, for TLC:  *)
(* the updater of the proxy maps and the secret (MapUpdater), the STUN     *)
(* reflection (StunReflect) and the choice of upstreams (Upstreams).  In   *)
(* each behaviour one of them moves; the others are at rest.               *)
(***************************************************************************)
EXTENDS MapUpdater, StunReflect, Upstreams, TLC

CONSTANTS a, b, s1, s2

VARIABLE part   \* the part that moves

\* The second map of v4 has an entry of its own for the media DC; v6 may have none.
ThePublished == "v4" :> {1 :> a, (1 :> a @@ -1 :> b)} @@ "v6" :> {1 :> b, << >>}
TheStartup == "v4" :> (1 :> a) @@ "v6" :> << >>
TheModes == { [coalesce |-> TRUE, single |-> TRUE, atomic |-> TRUE],
              [coalesce |-> FALSE, single |-> TRUE, atomic |-> FALSE],
              [coalesce |-> TRUE, single |-> FALSE, atomic |-> TRUE] }

Servers == {"s1", "s2", "s3"}
Reflect(ip) == [s \in Servers |-> ip]
TheWorlds ==
    { [v4 |-> Reflect("A"), v6 |-> Reflect("X")],
      [v4 |-> [Reflect("A") EXCEPT !["s1"] = "B"], v6 |-> [Reflect("none") EXCEPT !["s2"] = "X"]],
      [v4 |-> [Reflect("none") EXCEPT !["s3"] = "A"], v6 |-> Reflect("none")] }

B(ip, fam) == [ip |-> ip, fam |-> fam]
DirectConf == [kind |-> "direct", scopes |-> {}, weight |-> 1, iface |-> "name", proxyFam |-> "v4",
               binds |-> <<B("a", "v4"), B("b", "v4"), B("c", "v4")>>,
               addrs |-> {B("a", "v4"), B("c", "v4"), B("d", "v6")}]
\* An interface given as an IP, and a bind address of the other family.
DirectByIp == [DirectConf EXCEPT !.iface = "ip", !.binds = <<B("d", "v6")>>,
                                 !.addrs = {B("a", "v4")}]
Socks(scopes, weight) ==
    [kind |-> "socks5", scopes |-> scopes, weight |-> weight, iface |-> "none", proxyFam |-> "v4",
     binds |-> <<>>, addrs |-> {}]
Override == Endpoint("v4", 1, 1)
Extra == Endpoint("v4", 3, 1)
Fleet(first, second, six) == [ups |-> <<first, second>>, prefer6 |-> six, ipv4 |-> TRUE,
                       ipv6 |-> TRUE, overrides |-> {Override, Extra}]
TheFleets == {Fleet(DirectConf, Socks({}, 1), FALSE), Fleet(DirectByIp, Socks({"s"}, 0), TRUE)}
S4(dc) == Standard("v4", dc)
S6(dc) == Standard("v6", dc)
TheRequests == {[target |-> S4(2), scope |-> "none"], [target |-> S4(1), scope |-> "s"]}
Everything == {S4(1), S4(2), S6(1), S6(2), Override, Extra}
TheReaches == { {1, 2} \X Everything,
                ({1} \X {Override, S4(1), S6(2)}) \cup ({2} \X {S6(1)}),
                {1} \X {Override, S4(2)} }

mcVars == <<part, mapVars, stunVars, upVars>>

\* The pool has what the servers publish.
MapsAtRest ==
    /\ pub = "v4" :> (1 :> a @@ -1 :> b) @@ "v6" :> << >> @@ "secret" :> s1
    /\ flaps = 0
    /\ cand = [w \in Watched |-> None] /\ done = [w \in Watched |-> None]
    /\ hits = [w \in Watched |-> 0] /\ recent = [w \in Watched |-> << >>]
    /\ cool = FALSE /\ proxy_map = [f \in Families |-> pub[f]] /\ secret = s1
    /\ upc = "idle" /\ ready = [f \in Families |-> None] /\ changed = FALSE
    /\ queue = 0 /\ spc = "recv" /\ stale = FALSE
    /\ mode \in Modes /\ mode.coalesce /\ mode.single /\ hs = [ks |-> None, sec |-> None]

\* The startup ping is over and everything answers.
UpstreamsAtRest ==
    /\ fleet = Fleet(DirectByIp, Socks({"s"}, 0), TRUE) /\ groups = build_health_check_groups(fleet)
    /\ reach = {1, 2} \X Everything /\ changes = MaxChanges
    /\ ups = [u \in DOMAIN fleet.ups |-> [healthy |-> TRUE, fails |-> 0]]
    /\ pref = [u \in DOMAIN fleet.ups |-> [dc \in Dcs |-> "Unknown"]]
    /\ rr = [u \in DOMAIN fleet.ups |-> 0]
    /\ ping = [u |-> 3, at |-> 1, ok |-> {}]
    /\ hc = Idle /\ conn = NoConn
    /\ rotation = [u \in DOMAIN fleet.ups |-> [g \in DOMAIN groups |-> <<0, 0>>]]

MCInit ==
    /\ part \in {"maps", "stun", "upstreams"}
    /\ IF part = "maps" THEN MapInit ELSE MapsAtRest
    /\ StunInit
    /\ part # "stun" => bound = {} /\ world["v6"] = Reflect("X")
    /\ IF part = "upstreams" THEN UpInit ELSE UpstreamsAtRest

MCNext ==
    \/ part = "maps" /\ MapNext /\ UNCHANGED <<part, stunVars, upVars>>
    \/ part = "stun" /\ StunNext /\ UNCHANGED <<part, mapVars, upVars>>
    \/ part = "upstreams" /\ UpNext /\ UNCHANGED <<part, mapVars, stunVars>>

\* The fairness of each part, for the behaviours in which it moves.
MCFairness ==
    /\ WF_mapVars(part = "maps" /\ update_tick) /\ WF_mapVars(part = "maps" /\ updater_step)
    /\ WF_mapVars(part = "maps" /\ cooldown_ends) /\ WF_mapVars(part = "maps" /\ scheduler_recv)
    /\ WF_mapVars(part = "maps" /\ scheduler_start)
    /\ \A t \in Tasks : WF_stunVars(part = "stun" /\ ProbeStep(t))
    /\ WF_stunVars(part = "stun" /\ stun_tick)
    /\ WF_upVars(part = "upstreams" /\ PingStep) /\ WF_upVars(part = "upstreams" /\ HealthStep)
    /\ WF_upVars(part = "upstreams" /\ ConnectStep)

MCSpec == MCInit /\ [][MCNext]_mcVars /\ MCFairness

\* The type invariants of the three parts: updater, reflection, upstreams.
DiscoveryTypesOK == MapTypeOK /\ StunTypeOK /\ UpTypeOK
=============================================================================
