----------------------------- MODULE MCTlsFront -----------------------------
(* An instance of TlsFront for TLC: two fronts, one of which falls silent  *)
(* within the handshake that fetches its certificate.                      *)
EXTENDS TlsFront

Site(r, c) == [raw |-> r, cert |-> c]
SilentFront == { [domains |-> {"d1", "d2"},
                  sites |-> [d1 |-> Site("ok", {}), d2 |-> Site("ok", {"both"})],
                  ips |-> {}, ttl |-> 0, restarts |-> 0, writable |-> TRUE] }
TheJitter == {-1, 1}
TheRealSizes == <<3, 7>>
=============================================================================
