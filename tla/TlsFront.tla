------------------------------ MODULE TlsFront ------------------------------
(***************************************************************************)
(* The TLS front: the cache of what the fronted sites answer               *)
(* (tls_front/cache.rs), its background fetches at start and once per      *)
(* round of the refresh task (main.rs, fetcher.rs), the files it is kept   *)
(* in across restarts, and the ServerHello a client is given               *)
(* (handshake.rs, emulator.rs).                                            *)
(*                                                                         *)
(* A fetch probes the site with a raw TLS hello, every step of which has a *)
(* timeout, and then takes the certificate with rustls, whose handshake    *)
(* has none: a site that falls silent there holds the fetch. The result is *)
(* put in memory and then written to its file, a write nobody checks.      *)
(***************************************************************************)
EXTENDS Integers, FiniteSets, FiniteSetsExt, Sequences, SequencesExt, Functions

CONSTANTS
    Fronts,         \* set-ups: [domains, sites, ips, ttl, restarts, writable]; a
                    \* site has its answer to the raw probe and the set of its
                    \* answers to rustls, empty when it is silent; the directory of
                    \* the files is writable or not
    MaxAge,         \* 72 h, in ticks
    DefaultLen,     \* fake_cert_len
    RealSizes,      \* sizes of the records a site sends
    CertLen,        \* length of the certificate message
    SplitAt,        \* certificates longer than this go in two records
    CompactLen,     \* length of the compact certificate payload
    MinApp, MaxApp, \* MIN_APP_DATA, MAX_APP_DATA
    Overhead,       \* marker and tag of a record (17)
    Jitter          \* the deltas the jitter may add

VARIABLES
    front,      \* the set-up
    up,         \* the process runs
    restarts,   \* restarts so far
    memory,     \* per domain: the cached entry
    disk,       \* per domain: the file
    fetching,   \* per domain and kind of fetch: how far it is
    refresher,  \* the refresh task: "sleep" or "join"
    cert_sent,       \* full_cert_sent: per client address, age or -1
    hello,      \* the ServerHello the step in hand built, if it built one
    history     \* what the properties remember: per domain the last entry a fetch
                \* brought and whether its write went undisturbed, and per address
                \* the time since it was let have the full certificate

frontVars == <<front, up, restarts, memory, disk, fetching, refresher, cert_sent, hello,
               history>>

Domains == front.domains
Kinds == {"first", "round"}
Fetches == Domains \X Kinds

Entry(real, cert) == [real |-> real, cert |-> cert]
\* What rustls brings: nothing, or the certificate message, its summary (cert_info)
\* or both.
Certs == {"none", "message", "info", "both"}
Default == Entry(FALSE, "none")
NoFile == [entry |-> Default, age |-> 0, state |-> "none"]
NoFetch == [at |-> "idle", raw |-> FALSE, got |-> Default]
NoHello == [full |-> FALSE, since |-> -1, own |-> 0, payload |-> 0, sizes |-> <<>>]

----------------------------------------------------------------------------
\* The fetch of one domain.

Begin == [NoFetch EXCEPT !.at = "raw"]

\* Connecting, writing and each read are under the timeout: a site that refuses or
\* says nothing makes the probe fail.
fetch_via_raw_tls(f) ==
    /\ up /\ fetching[f].at = "raw"
    /\ fetching' = [fetching EXCEPT ![f] =
                      [@ EXCEPT !.at = "rustls", !.raw = front.sites[f[1]].raw = "ok"]]
    /\ hello' = NoHello
    /\ UNCHANGED <<front, up, restarts, memory, disk, refresher, cert_sent, history>>

\* fetch_real_tls: the raw probe's records with what rustls brought, or whichever
\* half succeeded; the fetch fails when both did.
Fetched(f, cert) ==
    fetching' = [fetching EXCEPT ![f] =
        IF fetching[f].raw \/ cert # "none"
        THEN [NoFetch EXCEPT !.at = "set", !.got = Entry(fetching[f].raw, cert)]
        ELSE NoFetch]

\* The rustls handshake answers or fails; it waits for a silent site.
fetch_via_rustls(f) ==
    /\ up /\ fetching[f].at = "rustls"
    /\ \E cert \in front.sites[f[1]].cert : Fetched(f, cert)
    /\ hello' = NoHello
    /\ UNCHANGED <<front, up, restarts, memory, disk, refresher, cert_sent, history>>

\* A silent site may still answer or close one day.
site_wakes(f) ==
    /\ up /\ fetching[f].at = "rustls" /\ front.sites[f[1]].cert = {}
    /\ \E cert \in Certs : Fetched(f, cert)
    /\ hello' = NoHello
    /\ UNCHANGED <<front, up, restarts, memory, disk, refresher, cert_sent, history>>

Persisting(d) == {k \in Kinds : fetching[<<d, k>>].at \in {"open", "write"}}

\* update_from_fetch: the entry is put in memory; its file is written after that.
update_from_fetch(f) ==
    /\ up /\ fetching[f].at = "set"
    /\ memory' = [memory EXCEPT ![f[1]] = fetching[f].got]
    /\ fetching' = [fetching EXCEPT ![f].at = "open"]
    /\ history' = [history EXCEPT !.latest[f[1]] = fetching[f].got,
                                  !.clean[f[1]] = Persisting(f[1]) = {}]
    /\ hello' = NoHello
    /\ UNCHANGED <<front, up, restarts, disk, refresher, cert_sent>>

\* persist: the directory is made and the file opened, which truncates it. When
\* either fails the file stays as it was, and nobody is told.
persist_open(f) ==
    /\ up /\ fetching[f].at = "open"
    /\ \/ /\ front.writable
          /\ fetching' = [fetching EXCEPT ![f].at = "write"]
          /\ disk' = [disk EXCEPT ![f[1]].state =
                IF \E k \in Kinds : fetching[<<f[1], k>>].at = "write" THEN "mixed" ELSE "torn"]
          /\ UNCHANGED history
       \/ /\ fetching' = [fetching EXCEPT ![f] = NoFetch]
          /\ history' = [history EXCEPT !.clean[f[1]] = FALSE]
          /\ UNCHANGED disk
    /\ hello' = NoHello
    /\ UNCHANGED <<front, up, restarts, memory, refresher, cert_sent>>

\* The rest of persist: the file is whole. When another fetch of the domain wrote
\* to it at the same time, it may also be left mixed or with what the other wrote;
\* and a write that fails half-way leaves it torn.
persist(f) ==
    /\ up /\ fetching[f].at = "write"
    /\ \/ /\ disk' = [disk EXCEPT ![f[1]] =
                       [entry |-> fetching[f].got, age |-> 0, state |-> "whole"]]
          /\ UNCHANGED history
       \/ /\ disk[f[1]].state # "torn"
          /\ \E state \in {disk[f[1]].state, "mixed"} : disk' = [disk EXCEPT ![f[1]].state = state]
          /\ UNCHANGED history
       \/ /\ disk' = [disk EXCEPT ![f[1]].state = IF @ = "whole" THEN "torn" ELSE @]
          /\ history' = [history EXCEPT !.clean[f[1]] = FALSE]
    /\ fetching' = [fetching EXCEPT ![f] = NoFetch]
    /\ hello' = NoHello
    /\ UNCHANGED <<front, up, restarts, memory, refresher, cert_sent>>

FetchStep(f) ==
    fetch_via_raw_tls(f) \/ fetch_via_rustls(f) \/ update_from_fetch(f)
    \/ persist_open(f) \/ persist(f)

----------------------------------------------------------------------------
\* The refresh task: sleep, then fetch all domains and wait for every one.

refresh_start ==
    /\ up /\ refresher = "sleep"
    /\ refresher' = "join"
    /\ fetching' = [f \in Fetches |-> IF f[2] = "round" THEN Begin ELSE fetching[f]]
    /\ hello' = NoHello
    /\ UNCHANGED <<front, up, restarts, memory, disk, cert_sent, history>>

refresh_join ==
    /\ up /\ refresher = "join"
    /\ \A d \in Domains : fetching[<<d, "round">>].at = "idle"
    /\ refresher' = "sleep"
    /\ hello' = NoHello
    /\ UNCHANGED <<front, up, restarts, memory, disk, fetching, cert_sent, history>>

----------------------------------------------------------------------------
\* A stop at any point, and the next start.

crash ==
    /\ up /\ restarts < front.restarts
    /\ up' = FALSE /\ restarts' = restarts + 1
    /\ memory' = [d \in Domains |-> Default]
    /\ fetching' = [f \in Fetches |-> NoFetch] /\ refresher' = "sleep"
    /\ cert_sent' = [ip \in front.ips |-> -1] /\ hello' = NoHello
    /\ history' = [history EXCEPT
                     !.clean = [d \in Domains |-> @[d] /\ Persisting(d) = {}],
                     !.since = [ip \in front.ips |-> -1]]
    /\ UNCHANGED <<front, disk>>

\* load_from_disk: a file that does not parse, or is too old, is left out.
load_from_disk(d) ==
    IF disk[d].state = "whole" /\ disk[d].age <= MaxAge THEN disk[d].entry ELSE Default

\* The start: the files are loaded and the first fetches begin.
start ==
    /\ ~up /\ up' = TRUE
    /\ memory' = [d \in Domains |-> load_from_disk(d)]
    /\ fetching' = [f \in Fetches |-> IF f[2] = "first" THEN Begin ELSE NoFetch]
    /\ hello' = NoHello
    /\ UNCHANGED <<front, restarts, disk, refresher, cert_sent, history>>

----------------------------------------------------------------------------
\* The ServerHello given to a client.

Clamped(n) == Max({MinApp, Min({n, MaxApp})})

jitter_and_clamp_sizes(sizes) ==
    {[i \in DOMAIN sizes |-> Clamped(Clamped(sizes[i]) + delta)] : delta \in Jitter}

Body(size) == Max({0, size - Overhead})
app_data_body_capacity(sizes) ==
    MapThenSumSet(LAMBDA i : Body(sizes[i]), DOMAIN sizes)

\* Records for what is left of the payload.
more[left \in 0 .. CertLen] ==
    IF left = 0 THEN <<>>
    ELSE LET chunk == Clamped(left + Overhead)
         IN <<chunk>> \o more[Max({0, left - Body(chunk)})]

\* The last record grows first, then records are added.
ensure_payload_capacity(sizes, payload) ==
    LET have == app_data_body_capacity(sizes)
        last == Len(sizes)
        grow == Min({MaxApp - sizes[last], payload - have})
    IN IF have >= payload THEN sizes
       ELSE [sizes EXCEPT ![last] = @ + grow] \o more[payload - have - grow]

\* build_emulated_server_hello's choice of payload: the certificate message if it
\* may be used and there is one, else the summary of the certificate, else nothing
\* (the records then hold random bytes).
selected_payload(entry, full) ==
    IF full /\ entry.cert \in {"message", "both"} THEN CertLen
    ELSE IF entry.cert \in {"info", "both"} THEN CompactLen
    ELSE 0

\* The records of an entry: those the site sent, or as long as its certificate,
\* in two when it is long, or of the default length.
SizesOf(entry) ==
    IF entry.real THEN RealSizes
    ELSE IF entry.cert = "none" THEN <<DefaultLen>>
    ELSE IF CertLen > SplitAt THEN <<CertLen \div 2, CertLen - CertLen \div 2>>
    ELSE <<CertLen>>

build_emulated_server_hello(entry, full) ==
    LET payload == selected_payload(entry, full)
    IN {[payload |-> payload, sizes |-> ensure_payload_capacity(s, payload)] :
           s \in jitter_and_clamp_sizes(SizesOf(entry))}

\* Whether the full certificate goes to this address: not within the time to live.
take_full_cert_budget_for_ip(ip) ==
    front.ttl = 0 \/ cert_sent[ip] = -1 \/ cert_sent[ip] >= front.ttl

\* A slip: every connection renews the mark of its address, refused or not.
serve_renewing(ip, d) ==
    /\ up
    /\ LET full == take_full_cert_budget_for_ip(ip)
       IN /\ \E h \in build_emulated_server_hello(memory[d], full) :
                hello' = [full |-> full, since |-> history.since[ip],
                          own |-> Len(SizesOf(memory[d])),
                          payload |-> h.payload, sizes |-> h.sizes]
          /\ cert_sent' = [cert_sent EXCEPT ![ip] = 0]
          /\ history' = IF full THEN [history EXCEPT !.since[ip] = 0] ELSE history
    /\ UNCHANGED <<front, up, restarts, memory, disk, fetching, refresher>>

\* handle_tls_handshake: the entry of the domain asked for, and the budget.
serve(ip, d) ==
    /\ up
    /\ LET full == take_full_cert_budget_for_ip(ip)
       IN /\ \E h \in build_emulated_server_hello(memory[d], full) :
                hello' = [full |-> full, since |-> history.since[ip],
                          own |-> Len(SizesOf(memory[d])),
                          payload |-> h.payload, sizes |-> h.sizes]
          /\ cert_sent' = IF full THEN [cert_sent EXCEPT ![ip] = 0] ELSE cert_sent
          /\ history' = IF full THEN [history EXCEPT !.since[ip] = 0] ELSE history
    /\ UNCHANGED <<front, up, restarts, memory, disk, fetching, refresher>>

\* Time passes.
Aged(ages) == [ip \in front.ips |->
                  IF ages[ip] = -1 THEN -1 ELSE Min({ages[ip] + 1, front.ttl})]
front_tick ==
    /\ cert_sent' = Aged(cert_sent)
    /\ history' = [history EXCEPT !.since = Aged(@)]
    /\ disk' = [d \in Domains |->
                  IF disk[d].state = "whole" THEN [disk[d] EXCEPT !.age = Min({@ + 1, MaxAge + 1})]
                  ELSE disk[d]]
    /\ hello' = NoHello
    /\ UNCHANGED <<front, up, restarts, memory, fetching, refresher>>

----------------------------------------------------------------------------
FrontInit ==
    /\ front \in Fronts
    /\ up = TRUE /\ restarts = 0
    /\ memory = [d \in Domains |-> Default]
    /\ disk = [d \in Domains |-> NoFile]
    /\ fetching = [f \in Fetches |-> IF f[2] = "first" THEN Begin ELSE NoFetch]
    /\ refresher = "sleep"
    /\ cert_sent = [ip \in front.ips |-> -1]
    /\ hello = NoHello
    /\ history = [latest |-> memory, clean |-> [d \in Domains |-> FALSE], since |-> cert_sent]

FrontNext ==
    \/ \E f \in Fetches : FetchStep(f) \/ site_wakes(f)
    \/ refresh_start \/ refresh_join
    \/ crash \/ start
    \/ \E ip \in front.ips, d \in Domains : serve(ip, d)
    \/ front_tick

\* The tasks of the process run; sites need not wake up, nor the process crash.
FrontSpec ==
    /\ FrontInit /\ [][FrontNext]_frontVars
    /\ WF_frontVars(\E f \in Fetches : FetchStep(f))
    /\ WF_frontVars(refresh_start) /\ WF_frontVars(refresh_join) /\ WF_frontVars(start)

----------------------------------------------------------------------------
\* Properties.

\* The state is well formed: a fetch of the round belongs to a round, and a file
\* whose last write went undisturbed is whole when no fetch writes it.
FrontTypeOK ==
    /\ refresher \in {"sleep", "join"} /\ restarts \in 0 .. front.restarts
    /\ \A d \in Domains : (fetching[<<d, "round">>].at # "idle") => refresher = "join"
    /\ \A d \in Domains : (history.clean[d] /\ Persisting(d) = {}) => disk[d].state = "whole"

\* What the records of an emulated hello carry: the whole payload fits in them, none
\* is outside the bounds of a TLS record, and of the records added to those of the
\* site even the last one is needed.
PayloadCarried ==
    hello.payload > 0 =>
        /\ app_data_body_capacity(hello.sizes) >= hello.payload
        /\ \A i \in DOMAIN hello.sizes : hello.sizes[i] \in MinApp .. MaxApp
        /\ Len(hello.sizes) > hello.own => app_data_body_capacity(Front(hello.sizes)) < hello.payload

\* The window of the full certificate does not slide: an address is refused it
\* exactly while less than the time to live has passed since it was last let have
\* it, however many connections it opens in between.
BudgetExact ==
    hello # NoHello =>
        (hello.full <=> \/ front.ttl = 0 \/ hello.since = -1 \/ hello.since >= front.ttl)

\* Cache and files: a start takes over the entry the last fetch of a domain put in
\* memory before the stop, if its write was not cut by the stop, did not fail and
\* did not meet another fetch of the domain; a file older than MaxAge is left out
\* in any case.
RestartTakesOver ==
    [][ (~up /\ up') =>
          \A d \in Domains :
              IF disk[d].age > MaxAge THEN memory'[d] = Default
              ELSE history.clean[d] => memory'[d] = history.latest[d] ]_frontVars

NoneSilent == \A d \in Domains : front.sites[d].cert # {}

\* The rounds of the refresh task follow each other for ever, if no site falls
\* silent within the rustls handshake; probes that go unanswered do not stop it.
RefreshGoesOn == []<>(NoneSilent => refresher = "sleep")

\* main.rs describes its refresh task with "Periodic refresh with jitter": it
\* comes back to its sleep again and again, whatever the fronts do.
RefreshAlwaysPeriodic == []<>(refresher = "sleep")

\* The TLS front: an emulated hello carries its payload in no more records than it
\* needs, the window of the full certificate does not slide, a restart takes over
\* what was last cached unless its write was disturbed, and the refresh goes on as
\* long as no front falls silent.
FrontRight ==
    /\ [](PayloadCarried /\ BudgetExact)
    /\ RestartTakesOver /\ RefreshGoesOn
=============================================================================
