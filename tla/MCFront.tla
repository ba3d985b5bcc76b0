------------------------------- MODULE MCFront ------------------------------
(***************************************************************************)
(* The face of the proxy, for TLC: the handlers of new clients, the PROXY  *)
(* header in front of them, the cache of the TLS fronts they imitate, and  *)
(* the reload of the configuration all of them read.  They share no state  *)
(* the models tell apart, so one run checks them side by side: in each     *)
(* behaviour one part moves and the others stay in an initial state.       *)
(***************************************************************************)
EXTENDS ClientFront, ProxyHeader, TlsFront, HotReload, TLC

CONSTANTS c1, c2, c3

VARIABLE part   \* the part that moves

TheListeners == c1 :> "tcp" @@ c2 :> "tcp" @@ c3 :> "unix"
Tls == [first |-> "tls", digest |-> "d", hello |-> TRUE, prekey |-> "k", tag |-> "secure",
        auth |-> TRUE]
Plain == [Tls EXCEPT !.first = "plain"]
TheWorkloads ==
    { c1 :> Tls @@ c2 :> Tls @@ c3 :> Plain,
      c1 :> Tls @@ c2 :> [Tls EXCEPT !.digest = "e"] @@ c3 :> [Tls EXCEPT !.hello = FALSE],
      c1 :> Plain @@ c2 :> [Plain EXCEPT !.tag = "classic"] @@ c3 :> Plain,
      c1 :> [Plain EXCEPT !.first = "short"] @@ c2 :> [Tls EXCEPT !.auth = FALSE] @@ c3 :> Tls }

Addr(f, n) == [fam |-> f, name |-> n]
TheAddresses == {Addr("v4", "a"), Addr("v4", "b"), Addr("v6", "c")}
ThePeer == Addr("v4", "peer")
Sent(v, c, f, n) ==
    [version |-> v, command |-> c, fam |-> f, src |-> Addr("v4", "a"), dst |-> Addr("v4", "b"),
     len |-> n]
TheForeign ==
    { Sent(2, "proxy", "tcp4", 5), Sent(2, "proxy", "tcp4", 1), Sent(2, "proxy", "unix", 3),
      Sent(2, "local", "tcp4", 3), Sent(2, "proxy", "unknown", 1), Sent(2, "other", "tcp4", 3),
      Sent(1, "proxy", "unknown", 2), Sent(1, "proxy", "junk", 3), Sent(1, "proxy", "tcp4", 9),
      Sent(0, "proxy", "tcp4", 0) }

Site(r, c) == [raw |-> r, cert |-> c]
SetUp(s, ips, ttl, stops, files) ==
    [domains |-> DOMAIN s, sites |-> s, ips |-> ips, ttl |-> ttl, restarts |-> stops,
     writable |-> files]
\* The refresh of two sites, one of them silent or gone.
TwoSites == { SetUp([d1 |-> s, d2 |-> Site("ok", {"both"})], {}, 0, 0, FALSE) :
                 s \in {Site("ok", {}), Site("fail", {"none"})} }
\* What a client is given, with and without a time to live.
OneClient == { SetUp([d1 |-> o[1]], {"ip1"}, o[2], 1, FALSE) :
                 o \in {<<Site("ok", {"both", "none"}), 2>>, <<Site("ok", {"message"}), 0>>,
                        <<Site("silent", {"info", "both"}), 0>>} }
\* The files, for a site that does not always give its certificate.
Files == { SetUp([d1 |-> Site("ok", {"both", "none"})], {}, 1, 2, TRUE) }
TheFronts == TwoSites \cup OneClient \cup Files
TheJitter == {-1, 1}
TheRealSizes == <<3, 7>>

TheLoaded == {[hot |-> 1, dns |-> 1, cold |-> 0]}

mcVars == <<part, clientVars, headerVars, frontVars, reloadVars>>

MCInit ==
    /\ part \in {"client", "header", "front", "reload"}
    /\ ClientInit /\ HeaderInit /\ FrontInit /\ ReloadInit
    /\ part # "client" => script[c2].tag = "classic" /\ mask
    /\ part # "header" => header.version = 0
    /\ part # "front" => front.ttl = 2
    /\ part # "reload" => inotify

MCNext ==
    \/ part = "client" /\ ClientNext /\ UNCHANGED <<part, headerVars, frontVars, reloadVars>>
    \/ part = "header" /\ HeaderNext /\ UNCHANGED <<part, clientVars, frontVars, reloadVars>>
    \/ part = "front" /\ FrontNext /\ UNCHANGED <<part, clientVars, headerVars, reloadVars>>
    \/ part = "reload" /\ ReloadNext /\ UNCHANGED <<part, clientVars, headerVars, frontVars>>

\* The fairness of each part, for the behaviours in which it moves.
MCFairness ==
    /\ \A c \in Conns : WF_clientVars(part = "client" /\ handshake_timeout(c))
    /\ WF_headerVars(part = "header" /\ ParseStep)
    /\ WF_frontVars(part = "front" /\ \E f \in Fetches : FetchStep(f))
    /\ WF_frontVars(part = "front" /\ refresh_start)
    /\ WF_frontVars(part = "front" /\ refresh_join)
    /\ WF_frontVars(part = "front" /\ start)
    /\ WF_reloadVars(part = "reload" /\ spawn_config_watcher)
    /\ WF_reloadVars(part = "reload" /\ \E c \in Content : write_ends(c))
    /\ WF_reloadVars(part = "reload" /\ inotify_callback)
    /\ WF_reloadVars(part = "reload" /\ poll_callback)
    /\ WF_reloadVars(part = "reload" /\ recv_event)
    /\ WF_reloadVars(part = "reload" /\ debounce)
    /\ WF_reloadVars(part = "reload" /\ load_config)
    /\ WF_reloadVars(part = "reload" /\ reload_config)
    /\ \A c \in Consumers \ Ticking : WF_reloadVars(part = "reload" /\ on_changed(c))
    /\ \A c \in Ticking : SF_reloadVars(part = "reload" /\ on_changed(c))

MCSpec == MCInit /\ [][MCNext]_mcVars /\ MCFairness

\* The type invariants of the four parts: client, PROXY header, TLS front, hot
\* reload.
FrontTypesOK == ClientTypeOK /\ HeaderTypeOK /\ FrontTypeOK /\ ReloadTypeOK
=============================================================================
