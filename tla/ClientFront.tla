---------------------------- MODULE ClientFront -----------------------------
(***************************************************************************)
(* A client connection from its acceptance to its authentication, or to    *)
(* the mask host: the accept loops and their permits (main.rs), the PROXY  *)
(* header (transport/proxy_protocol.rs), the two handshakes                *)
(* (proxy/client.rs, proxy/handshake.rs) and the masking of clients that   *)
(* are not recognised (proxy/masking.rs).                                  *)
(*                                                                         *)
(* What a client sends is abstracted to a script: how its first bytes      *)
(* look, the digest of its ClientHello, the prekey of its MTProto          *)
(* handshake, and whether each of them matches a user.  The replay checker *)
(* is the set of digests and prekeys it was asked about (ReplayCache       *)
(* models it within its window and its capacity).                          *)
(***************************************************************************)
EXTENDS Integers, FiniteSets

CONSTANTS Conns,
          Workloads,       \* what the clients may send: a script for each of them: first bytes ("tls",
                           \* "short" or "plain"), digest, prekey, protocol tag; hello, auth: they match a user
          Listener,        \* [Conns -> {"tcp", "unix"}]
          ProxyProtocol,   \* whether the listeners expect a PROXY header
          Modes,           \* general.modes: those of classic, secure and tls that are on
          Masks,           \* values of censorship.mask a behaviour may have
          Permits          \* permits of the connection semaphore: 10000

ASSUME ClientAssumption ==
    /\ Permits \in Nat \ {0} /\ Listener \in [Conns -> {"tcp", "unix"}]
    /\ ProxyProtocol \in BOOLEAN /\ Modes \subseteq {"classic", "secure", "tls"} /\ Masks \subseteq BOOLEAN
    /\ \A w \in Workloads : DOMAIN w = Conns

VARIABLES
    cpc,        \* where the handler of each connection is
    script,
    permits,    \* permits left
    seen,       \* digests and prekeys the replay checker holds
    got,        \* bytes of the client the handler has read
    sent,       \* bytes the mask host got from the handler before the relay
    answered,   \* connections that were sent a ServerHello
    authed,     \* connections that passed the MTProto handshake
    counted,    \* connects_bad and handshake_timeouts of each connection
    copying,    \* directions of the mask relay whose task runs
    mask        \* censorship.mask

clientVars == <<cpc, script, permits, seen, got, sent, answered, authed, counted, copying, mask>>

(* The phases under the handshake timeout, and those that hold a permit.   *)
Masking == {"connect", "relaying", "consume"}
Timed == {"first", "rest", "hello", "mtproto", "plain"} \cup Masking
Handler == Timed \cup {"header", "session"}
Directions == {"c2m", "m2c"}

(* The variables have their types, and every running handler has a permit. *)
ClientTypeOK ==
    /\ cpc \in [Conns -> Handler \cup {"new", "accepted", "done"}]
    /\ script \in Workloads /\ got \in [Conns -> {"", "first", "hello", "all"}]
    /\ sent \in [Conns -> {"", "first", "hello", "all"}]
    /\ counted \in [Conns -> SUBSET {"bad", "timeout"}]
    /\ copying \in [Conns -> SUBSET Directions]
    /\ answered \cup authed \subseteq Conns /\ mask \in BOOLEAN
    /\ permits = Permits - Cardinality({c \in Conns : cpc[c] \in Handler}) /\ permits >= 0

ClientInit ==
    /\ cpc = [c \in Conns |-> "new"] /\ script \in Workloads
    /\ permits = Permits /\ seen = {} /\ mask \in Masks
    /\ got = [c \in Conns |-> ""] /\ sent = [c \in Conns |-> ""]
    /\ answered = {} /\ authed = {}
    /\ counted = [c \in Conns |-> {}] /\ copying = [c \in Conns |-> {}]

Move(c, p) == cpc' = [cpc EXCEPT ![c] = p]
Count(c, k) == counted' = [counted EXCEPT ![c] = @ \cup {k}]

Return_keeps_permit(c) == Move(c, "done") /\ UNCHANGED permits

(* The handler returns and drops its permit; the tasks it spawned go on.   *)
Return(c) == Move(c, "done") /\ permits' = permits + 1

-----------------------------------------------------------------------------
(* Acceptance                                                              *)

(* Each accept loop waits for a permit before it accepts the next client.  *)
accept(c) ==
    /\ cpc[c] = "new" /\ \A d \in Conns : Listener[d] = Listener[c] => cpc[d] # "accepted"
    /\ Move(c, "accepted")
    /\ UNCHANGED <<script, permits, seen, got, sent, answered, authed, counted, copying, mask>>

acquire_permit(c) ==
    /\ cpc[c] = "accepted" /\ permits > 0 /\ permits' = permits - 1
    /\ Move(c, IF ProxyProtocol THEN "header" ELSE "first")
    /\ UNCHANGED <<script, seen, got, sent, answered, authed, counted, copying, mask>>

HeaderParsed(c) == Move(c, "first") /\ UNCHANGED <<permits, counted>>
HeaderRefused(c) == Return(c) /\ Count(c, "bad")

(* A header that is not valid is counted and ends the handler.             *)
proxy_header(c) ==
    /\ cpc[c] = "header"
    /\ HeaderParsed(c) \/ HeaderRefused(c)
    /\ UNCHANGED <<script, seen, got, sent, answered, authed, copying, mask>>

-----------------------------------------------------------------------------
(* The first bytes                                                         *)

(* A client the proxy does not recognise: counted, then masked with what   *)
(* was read of it.                                                         *)
BadClient(c, bytes) ==
    /\ Count(c, "bad")
    /\ Move(c, IF mask THEN "connect" ELSE "consume")
    /\ sent' = [sent EXCEPT ![c] = bytes]

NonTlsEnabled == Modes \cap {"classic", "secure"} # {}

do_handshake(c) ==
    /\ cpc[c] = "first" /\ got' = [got EXCEPT ![c] = "first"]
    /\ LET s == script[c]
       IN  \/ /\ s.first = "tls"
              /\ Move(c, "rest") /\ UNCHANGED <<counted, sent>>
           \/ /\ s.first = "short" \/ (s.first = "plain" /\ ~NonTlsEnabled)
              /\ BadClient(c, "first")
           \/ /\ s.first = "plain" /\ NonTlsEnabled
              /\ Move(c, "plain") /\ UNCHANGED <<counted, sent>>
    /\ UNCHANGED <<script, permits, seen, answered, authed, copying, mask>>

-----------------------------------------------------------------------------
(* The handshakes                                                          *)

(* check_and_add: one step under the mutex of the shard.                   *)
ReplayOf(k) == k \in seen
Remember(k) == seen' = seen \cup {k}

mode_ok(tag) == IF tag = "secure" THEN Modes \cap {"tls", "secure"} # {} ELSE "classic" \in Modes

(* The prekey, with the secret of some user, decrypts to a tag whose mode  *)
(* is enabled.                                                             *)
MatchesUser(s) == s.auth /\ mode_ok(s.tag)

(* The whole record is read; its digest is looked up before it is          *)
(* validated.                                                              *)
handle_tls_handshake(c) ==
    /\ cpc[c] = "rest" /\ got' = [got EXCEPT ![c] = "hello"]
    /\ LET s == script[c]
       IN  /\ Remember(s.digest)
           /\ \/ ~ReplayOf(s.digest) /\ s.hello /\ Move(c, "hello") /\ UNCHANGED <<counted, sent>>
              \/ (ReplayOf(s.digest) \/ ~s.hello) /\ BadClient(c, "hello")
    /\ UNCHANGED <<script, permits, answered, authed, copying, mask>>

(* The delay is over and the ServerHello is written, or the write fails.   *)
send_server_hello(c) ==
    /\ cpc[c] = "hello"
    /\ \/ Move(c, "mtproto") /\ answered' = answered \cup {c} /\ UNCHANGED permits
       \/ Return(c) /\ UNCHANGED answered
    /\ UNCHANGED <<script, seen, got, sent, authed, counted, copying, mask>>

Authenticated(c) == Move(c, "session") /\ authed' = authed \cup {c}

handle_mtproto_masks(c) ==
    /\ cpc[c] = "mtproto" /\ got' = [got EXCEPT ![c] = "all"]
    /\ LET s == script[c]
       IN  /\ Remember(s.prekey)
           /\ \/ ~ReplayOf(s.prekey) /\ MatchesUser(s) /\ Authenticated(c) /\ UNCHANGED <<permits, counted, sent>>
              \/ (ReplayOf(s.prekey) \/ ~MatchesUser(s)) /\ BadClient(c, "all") /\ UNCHANGED <<permits, authed>>
    /\ UNCHANGED <<script, answered, copying, mask>>

(* Inside TLS a client that fails the MTProto handshake is dropped.        *)
handle_mtproto_tls(c) ==
    /\ cpc[c] = "mtproto" /\ got' = [got EXCEPT ![c] = "all"]
    /\ LET s == script[c]
       IN  /\ Remember(s.prekey)
           /\ \/ ~ReplayOf(s.prekey) /\ MatchesUser(s) /\ Authenticated(c) /\ UNCHANGED <<permits, counted>>
              \/ (ReplayOf(s.prekey) \/ ~MatchesUser(s)) /\ Return(c) /\ Count(c, "bad") /\ UNCHANGED authed
    /\ UNCHANGED <<script, sent, answered, copying, mask>>

handle_mtproto_unrecorded(c) ==
    /\ cpc[c] = "plain" /\ got' = [got EXCEPT ![c] = "all"]
    /\ LET s == script[c]
       IN  /\ UNCHANGED seen
           /\ \/ ~ReplayOf(s.prekey) /\ MatchesUser(s) /\ Authenticated(c) /\ UNCHANGED <<counted, sent>>
              \/ (ReplayOf(s.prekey) \/ ~MatchesUser(s)) /\ BadClient(c, "all") /\ UNCHANGED authed
    /\ UNCHANGED <<script, permits, answered, copying, mask>>

(* Without TLS it is masked.                                               *)
handle_mtproto_plain(c) ==
    /\ cpc[c] = "plain" /\ got' = [got EXCEPT ![c] = "all"]
    /\ LET s == script[c]
       IN  /\ Remember(s.prekey)
           /\ \/ ~ReplayOf(s.prekey) /\ MatchesUser(s) /\ Authenticated(c) /\ UNCHANGED <<counted, sent>>
              \/ (ReplayOf(s.prekey) \/ ~MatchesUser(s)) /\ BadClient(c, "all") /\ UNCHANGED authed
    /\ UNCHANGED <<script, permits, answered, copying, mask>>

(* The client closes while the handler waits for its bytes.                *)
client_closes(c) ==
    /\ cpc[c] \in {"first", "rest", "mtproto", "plain"}
    /\ Return(c)
    /\ UNCHANGED <<script, seen, got, sent, answered, authed, counted, copying, mask>>

(* The relay has ended (ClientRelay and MePool model it).                  *)
session_ends(c) ==
    /\ cpc[c] = "session" /\ Return(c)
    /\ UNCHANGED <<script, seen, got, sent, answered, authed, counted, copying, mask>>

-----------------------------------------------------------------------------
(* Masking                                                                 *)

(* The mask host answers and gets the PROXY header and the bytes read so   *)
(* far, or the client's data are thrown away.                              *)
mask_connect(c) ==
    /\ cpc[c] = "connect"
    /\ \/ /\ Move(c, "relaying") /\ copying' = [copying EXCEPT ![c] = Directions]
          /\ UNCHANGED permits
       \/ Move(c, "consume") /\ UNCHANGED <<copying, permits>>
       \/ Return(c) /\ UNCHANGED copying
    /\ UNCHANGED <<script, seen, got, sent, answered, authed, counted, mask>>

(* A direction ends when its source closes or its target fails; the select *)
(* then returns and leaves the other direction to itself.                  *)
copy_ends(c, d) ==
    /\ d \in copying[c] /\ copying' = [copying EXCEPT ![c] = @ \ {d}]
    /\ IF cpc[c] = "relaying" THEN Return(c) ELSE UNCHANGED <<cpc, permits>>
    /\ UNCHANGED <<script, seen, got, sent, answered, authed, counted, mask>>

mask_relay_timeout(c) ==
    /\ cpc[c] = "relaying" /\ Return(c)
    /\ UNCHANGED <<script, seen, got, sent, answered, authed, counted, copying, mask>>

consume_client_data(c) ==
    /\ cpc[c] = "consume" /\ Return(c)
    /\ UNCHANGED <<script, seen, got, sent, answered, authed, counted, copying, mask>>

-----------------------------------------------------------------------------
(* The timeout                                                             *)

handshake_timeout_until_masked(c) ==
    /\ cpc[c] \in Timed \ Masking \/ (cpc[c] = "header" /\ Listener[c] = "tcp")
    /\ Return(c) /\ Count(c, "timeout")
    /\ UNCHANGED <<script, seen, got, sent, answered, authed, copying, mask>>

(* client_handshake bounds all of it, masking included; on a Unix listener *)
(* the PROXY header is read before the timer starts.                       *)
handshake_timeout(c) ==
    /\ cpc[c] \in Timed \/ (cpc[c] = "header" /\ Listener[c] = "tcp")
    /\ Return(c) /\ Count(c, "timeout")
    /\ UNCHANGED <<script, seen, got, sent, answered, authed, copying, mask>>

client_step(c) ==
    \/ accept(c) \/ acquire_permit(c) \/ proxy_header(c) \/ do_handshake(c)
    \/ handle_tls_handshake(c) \/ send_server_hello(c)
    \/ handle_mtproto_tls(c) \/ handle_mtproto_plain(c)
    \/ client_closes(c) \/ session_ends(c)
    \/ mask_connect(c) \/ mask_relay_timeout(c) \/ consume_client_data(c)
    \/ \E d \in Directions : copy_ends(c, d)
    \/ handshake_timeout(c)
ClientNext == \E c \in Conns : client_step(c)

(* Timers go off; clients, mask hosts and the semaphore owe nothing.       *)
ClientFairness == \A c \in Conns : WF_clientVars(handshake_timeout(c))
ClientSpec == ClientInit /\ [][ClientNext]_clientVars /\ ClientFairness

-----------------------------------------------------------------------------
(* ReplayOnce: of the connections that present the same prekey at most one *)
(* is authenticated, and of those with the same ClientHello digest at most *)
(* one gets a ServerHello, in whatever order their handlers run.           *)
ReplayOnce ==
    \A c, d \in Conns : c # d =>
       /\ {c, d} \subseteq authed => script[c].prekey # script[d].prekey
       /\ {c, d} \subseteq answered => script[c].digest # script[d].digest

(* MaskSeesClient: a masked client was sent nothing by the proxy itself,   *)
(* and the mask host is given every byte the handler had read of it.       *)
MaskSeesClient ==
    \A c \in Conns : cpc[c] = "relaying" \/ copying[c] # {} => c \notin answered /\ sent[c] = got[c]

(* PermitReturned: a connection that does not authenticate gives its       *)
(* permit back, whatever the client and the mask host do; only the PROXY   *)
(* header on a Unix listener is read without a timer.                      *)
PermitReturned ==
    \A c \in Conns : []<>(\/ cpc[c] \in {"new", "accepted", "done", "session"}
                          \/ cpc[c] = "header" /\ Listener[c] = "unix")
=============================================================================
