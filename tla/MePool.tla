------------------------------- MODULE MePool -------------------------------
(***************************************************************************)
(* The Middle-End writer pool at run time: client sessions that send over  *)
(* pooled ME connections (writers), the tasks that serve every writer, and *)
(* the removal procedure that they all may run at once.                    *)
(*                                                                         *)
(*   session c    c2me_sender of proxy/middle_relay.rs, with the pool's    *)
(*                send_proxy_req and send_close (send.rs)                  *)
(*   writer w     the command-channel task, the reader task, the ping task *)
(*                and the drain task (pool_writer.rs, reader.rs)           *)
(*   health       prune_closed_writers (pool_writer.rs)                    *)
(*                                                                         *)
(* One step is what a task does between two awaits that let others run;    *)
(* the registry operations come from ConnRegistry.  Requests are not told  *)
(* apart, command-channel capacity shows only as delay, and all writers    *)
(* serve the data centre the sessions ask for.                             *)
(***************************************************************************)
EXTENDS ConnRegistry, Naturals, FiniteSets

CONSTANTS
    MaxSends,   \* bound: requests a client makes in a session
    MaxMarks,   \* bound: times a writer is marked draining
    Drainable,  \* writers a reinit or a shadow rotation may drain
    CountMod    \* 2^w for the w-bit conn_count

ASSUME PoolAssumption ==
    /\ MaxSends \in Nat
    /\ MaxMarks \in Nat
    /\ Drainable \subseteq Writers
    /\ CountMod \in Nat \ {0}

VARIABLES
    pool,          \* ids in MePool.writers
    born,          \* ids taken from next_writer_id and pushed
    chan_open,     \* writers whose command-channel receiver is alive
    cancelled,     \* writers whose CancellationToken has fired
    draining,      \* writer -> "no", "stale_ok" (fallback binds), "stale_no"
    cleanup_done,  \* writers whose reader or ping task won the cleanup CAS
    conn_count,    \* MePool.conn_count, modulo CountMod
    removed_total, \* stats.me_writer_removed_total
    drain_active,  \* stats.pool_drain_active
    sent,          \* writer -> connections whose request entered its channel
    sess,          \* connection -> where its c2me_sender is
    cur,           \* connection -> the writer its sender is using, or None
    snap,          \* connection -> candidates its sender has yet to try
    sends,         \* connection -> requests made so far
    reader,        \* writer -> where its reader task is
    ping,          \* writer -> where its ping task is
    drain,         \* writer, mark -> where the drain task of that mark is
    prune,         \* ids prune_closed_writers has yet to handle
    rm             \* task -> its call of remove_writer_*

sessVars == <<sess, cur, snap, sends>>
wrVars   == <<born, chan_open, draining>>
taskVars == <<cleanup_done, reader, ping, drain, prune>>
cntVars  == <<conn_count, removed_total, drain_active>>
vars == <<regVars, pool, cancelled, sent, rm, sessVars, wrVars, taskVars, cntVars>>

\* The tasks that can run remove_writer_only or remove_writer_and_close_clients.
Sender(c) == <<"sender", c>>
Reader(w) == <<"reader", w>>
Ping(w)   == <<"ping", w>>
Drain(w, i) == <<"drain", w, i>>
Health    == <<"health", None>>
Marks == 1 .. MaxMarks
Tasks == ({"sender"} \X Conns) \cup ({"reader", "ping"} \X Writers)
           \cup ({"drain"} \X Writers \X Marks) \cup {Health}

CallAt(pc, w, todo, close) == [pc |-> pc, w |-> w, todo |-> todo, close |-> close]
NoCall == CallAt("idle", None, {}, FALSE)
Calls  == [pc : {"pool", "lost", "close"}, w : Writers,
           todo : SUBSET Conns, close : BOOLEAN]

SessPcs == {"new", "idle", "get", "send", "pick", "revive", "emergency", "try", "bind",
            "close_send", "close_unreg", "fin", "done"}

TypeOK ==
    /\ RegTypeOK
    /\ born \subseteq Writers
    /\ pool \subseteq born
    /\ chan_open \subseteq born
    /\ cancelled \subseteq born
    /\ draining \in [Writers -> {"no", "stale_ok", "stale_no"}]
    /\ cleanup_done \subseteq born
    /\ conn_count \in 0 .. CountMod - 1
    /\ removed_total \in Nat
    /\ drain_active \in Nat
    /\ sent \in [Writers -> SUBSET Conns]
    /\ sess \in [Conns -> SessPcs]
    /\ cur \in [Conns -> Writers \cup {None}]
    /\ snap \in [Conns -> SUBSET born]
    /\ sends \in [Conns -> 0 .. MaxSends]
    /\ reader \in [Writers -> {"none", "loop", "retain", "done"}]
    /\ ping \in [Writers -> {"none", "loop", "done"}]
    /\ drain \in [Writers \X Marks -> {"none", "loop", "done"}]
    /\ prune \subseteq born
    /\ rm \in [Tasks -> {NoCall} \cup Calls]

Init ==
    /\ RegInit
    /\ pool = {} /\ born = {} /\ chan_open = {} /\ cancelled = {}
    /\ draining = [w \in Writers |-> "no"]
    /\ cleanup_done = {}
    /\ conn_count = 0 /\ removed_total = 0 /\ drain_active = 0
    /\ sent = [w \in Writers |-> {}]
    /\ sess = [c \in Conns |-> "new"]
    /\ cur = [c \in Conns |-> None]
    /\ snap = [c \in Conns |-> {}]
    /\ sends = [c \in Conns |-> 0]
    /\ reader = [w \in Writers |-> "none"]
    /\ ping = [w \in Writers |-> "none"]
    /\ drain = [m \in Writers \X Marks |-> "none"]
    /\ prune = {}
    /\ rm = [t \in Tasks |-> NoCall]

---------------------------------------------------------------------------
(* remove_writer_only and remove_writer_and_close_clients, as a procedure  *)
(* of three steps that a task calls and then waits for.                    *)

Returned(t) == rm[t].pc = "idle"

Call(t, w, close) ==
    rm' = [rm EXCEPT ![t] = CallAt("pool", w, {}, close)]

\* The shape of the faulty variants of remove_from_pool.
faulty_remove(t, found, fired, count, undrains) ==
    LET w == rm[t].w
    IN  /\ rm[t].pc = "pool"
        /\ pool' = pool \ {w}
        /\ cancelled' = cancelled \cup fired
        /\ conn_count' = count
        /\ removed_total' = IF found THEN removed_total + 1 ELSE removed_total
        /\ drain_active' = IF undrains /\ drain_active > 0
                           THEN drain_active - 1 ELSE drain_active
        /\ rm' = [rm EXCEPT ![t] = CallAt("lost", w, {}, rm[t].close)]
        /\ UNCHANGED <<regVars, sent, sessVars, wrVars, taskVars>>

one_less == (conn_count + CountMod - 1) % CountMod

\* Faulty variant: conn_count is a signed integer.
remove_from_pool_no_wrap(t) ==
    LET w == rm[t].w
    IN  faulty_remove(t, w \in pool, {w} \cap pool,
                      IF w \in pool THEN conn_count - 1 ELSE conn_count,
                      w \in pool /\ draining[w] # "no")

\* Faulty variant: was_draining is not consulted.
remove_from_pool_any_undrains(t) ==
    LET w == rm[t].w
    IN  faulty_remove(t, w \in pool, {w} \cap pool,
                      IF w \in pool THEN one_less ELSE conn_count, w \in pool)

\* The block under the writers lock: only the caller that still finds the
\* writer in the pool counts the removal.
remove_from_pool(t) ==
    LET w == rm[t].w
        found == w \in pool
    IN  /\ rm[t].pc = "pool"
        /\ pool' = pool \ {w}
        /\ cancelled' = IF found THEN cancelled \cup {w} ELSE cancelled
        /\ conn_count' = IF found THEN (conn_count + CountMod - 1) % CountMod
                                  ELSE conn_count
        /\ removed_total' = IF found THEN removed_total + 1 ELSE removed_total
        /\ drain_active' = IF found /\ draining[w] # "no" /\ drain_active > 0
                           THEN drain_active - 1 ELSE drain_active
        /\ rm' = [rm EXCEPT ![t] = CallAt("lost", w, {}, rm[t].close)]
        /\ UNCHANGED <<regVars, sent, sessVars, wrVars, taskVars>>

\* registry.writer_lost; remove_writer_only's callers discard what it returns.
remove_from_registry(t) ==
    LET w == rm[t].w
        todo == lost_conns(w)
    IN  /\ rm[t].pc = "lost"
        /\ writer_lost(w)
        /\ rm' = [rm EXCEPT ![t] = IF rm[t].close /\ todo # {}
                                   THEN CallAt("close", w, todo, TRUE)
                                   ELSE NoCall]
        /\ UNCHANGED <<pool, cancelled, sent, sessVars, wrVars, taskVars, cntVars>>

\* One turn of the loop that routes Close to a client and unregisters it.
close_client(t, c) ==
    /\ rm[t].pc = "close"
    /\ c \in rm[t].todo
    /\ unregister(c)
    /\ rm' = [rm EXCEPT ![t] = IF rm[t].todo = {c} THEN NoCall
                               ELSE CallAt("close", rm[t].w, rm[t].todo \ {c}, TRUE)]
    /\ UNCHANGED <<pool, cancelled, sent, sessVars, wrVars, taskVars, cntVars>>

---------------------------------------------------------------------------
(* A session: the c2me_sender task.  Commands wait in a FIFO queue that    *)
(* only this task reads, so a command arrives when the sender asks for it. *)

\* writer_accepts_new_binding, which writer_eligible_for_selection repeats;
\* "stale_ok" is a drain with fallback while me_bind_stale_mode allows it.
accepts_new_binding(w) == draining[w] \in {"no", "stale_ok"}

Step(c, from, to) == sess[c] = from /\ sess' = [sess EXCEPT ![c] = to]

open_session(c) ==
    /\ Step(c, "new", "idle")
    /\ register(c)
    /\ UNCHANGED <<pool, cancelled, sent, rm, cur, snap, sends, wrVars, taskVars, cntVars>>

\* get_writer, and where the sender goes with and without a writer.
look_up(c, found, missing) ==
    /\ sess' = [sess EXCEPT ![c] = IF get_writer(c) # None THEN found ELSE missing]
    /\ cur' = [cur EXCEPT ![c] = get_writer(c)]
    /\ UNCHANGED <<regVars, pool, cancelled, sent, rm, snap, wrVars, taskVars, cntVars>>

\* Faulty variant: every request picks a writer afresh.
client_frame_round_robin(c) ==
    /\ sends[c] < MaxSends
    /\ Step(c, "idle", "pick")
    /\ sends' = [sends EXCEPT ![c] = @ + 1]
    /\ UNCHANGED <<regVars, pool, cancelled, sent, rm, cur, snap, wrVars, taskVars, cntVars>>

\* A client frame reaches send_proxy_req, which looks for a bound writer,
client_frame(c) ==
    /\ sess[c] = "idle" /\ sends[c] < MaxSends
    /\ sends' = [sends EXCEPT ![c] = @ + 1]
    /\ look_up(c, "send", "pick")

\* and looks again after every `continue` of its loop.
send_again(c) ==
    /\ sess[c] = "get" /\ Returned(Sender(c))
    /\ look_up(c, "send", "pick")
    /\ UNCHANGED sends

\* Bound: the request goes to that writer, or the writer is found dead and
\* removed by this session before it looks again.
send_bound(c) ==
    /\ cur' = [cur EXCEPT ![c] = None]
    /\ \/ /\ cur[c] \in chan_open
          /\ Step(c, "send", "idle")
          /\ sent' = [sent EXCEPT ![cur[c]] = @ \cup {c}]
          /\ UNCHANGED rm
       \/ /\ cur[c] \notin chan_open
          /\ Step(c, "send", "get")
          /\ Call(Sender(c), cur[c], TRUE)
          /\ UNCHANGED sent
    /\ UNCHANGED <<regVars, pool, cancelled, snap, sends, wrVars, taskVars, cntVars>>

\* Unbound: take a snapshot of the pool's eligible writers.
Eligible == {w \in pool : accepts_new_binding(w)}

pick_candidates(c) ==
    /\ Eligible # {}
    /\ Step(c, "pick", "try")
    /\ snap' = [snap EXCEPT ![c] = Eligible]
    /\ UNCHANGED <<regVars, pool, cancelled, sent, rm, cur, sends, wrVars, taskVars, cntVars>>

\* None is eligible: the sender connects to the endpoints itself, to those of
\* every DC when the pool is empty, else to those of the target.  The writers it
\* connects come in by connect_push.
connect_on_demand(c) ==
    /\ Eligible = {}
    /\ Step(c, "pick", IF pool = {} THEN "revive" ELSE "emergency")
    /\ UNCHANGED <<regVars, pool, cancelled, sent, rm, cur, snap, sends, wrVars, taskVars, cntVars>>

\* The pool is no longer empty, and the loop starts again (woken to a pool that
\* is empty once more, it comes back here); or the target has a candidate.
writer_turned_up(c) ==
    /\ \/ pool # {} /\ Step(c, "revive", "get") /\ UNCHANGED snap
       \/ /\ Eligible # {} /\ Step(c, "emergency", "try")
          /\ snap' = [snap EXCEPT ![c] = Eligible]
    /\ UNCHANGED <<regVars, pool, cancelled, sent, rm, cur, sends, wrVars, taskVars, cntVars>>

\* No writer turned up in time: send_proxy_req fails and the sender ends.
no_writer_available(c) ==
    /\ \/ pool = {} /\ Step(c, "revive", "fin")
       \/ Eligible = {} /\ Step(c, "emergency", "fin")
    /\ UNCHANGED <<regVars, pool, cancelled, sent, rm, cur, snap, sends, wrVars, taskVars, cntVars>>


\* Try one candidate of the snapshot, which may be out of date.  A full
\* channel makes it the last one tried.
try_candidate(c, w) ==
    /\ Returned(Sender(c))
    /\ w \in snap[c]
    /\ \/ /\ ~accepts_new_binding(w)
          /\ Step(c, "try", "try")
          /\ snap' = [snap EXCEPT ![c] = @ \ {w}]
          /\ UNCHANGED <<cur, sent, rm>>
       \/ /\ accepts_new_binding(w) /\ w \in chan_open
          /\ Step(c, "try", "bind")
          /\ snap' = [snap EXCEPT ![c] = {}]
          /\ cur' = [cur EXCEPT ![c] = w]
          /\ sent' = [sent EXCEPT ![w] = @ \cup {c}]
          /\ UNCHANGED rm
       \/ /\ accepts_new_binding(w) /\ w \notin chan_open
          /\ Step(c, "try", "try")
          /\ snap' = [snap EXCEPT ![c] = @ \ {w}]
          /\ Call(Sender(c), w, TRUE)
          /\ UNCHANGED <<cur, sent>>
    /\ UNCHANGED <<regVars, pool, cancelled, sends, wrVars, taskVars, cntVars>>

candidates_exhausted(c) ==
    /\ Returned(Sender(c))
    /\ snap[c] = {}
    /\ Step(c, "try", "get")
    /\ UNCHANGED <<regVars, pool, cancelled, sent, rm, cur, snap, sends, wrVars, taskVars, cntVars>>

\* The request is already in the writer's channel when the binding is made.
bind_session(c) ==
    /\ Step(c, "bind", "idle")
    /\ bind_writer(c, cur[c])
    /\ cur' = [cur EXCEPT ![c] = None]
    /\ UNCHANGED <<pool, cancelled, sent, rm, snap, sends, wrVars, taskVars, cntVars>>

\* Client EOF queues Close, which becomes send_close; a client error ends
\* the sender without it.
client_eof(c) ==
    /\ sess[c] = "idle"
    /\ look_up(c, "close_send", "close_unreg")
    /\ UNCHANGED sends

client_error(c) ==
    /\ Step(c, "idle", "fin")
    /\ UNCHANGED <<regVars, pool, cancelled, sent, rm, cur, snap, sends, wrVars, taskVars, cntVars>>

send_close_ext(c) ==
    /\ Step(c, "close_send", "close_unreg")
    /\ cur' = [cur EXCEPT ![c] = None]
    /\ IF cur[c] \in chan_open THEN UNCHANGED rm ELSE Call(Sender(c), cur[c], TRUE)
    /\ UNCHANGED <<regVars, pool, cancelled, sent, snap, sends, wrVars, taskVars, cntVars>>

send_close_unregister(c) ==
    /\ Returned(Sender(c))
    /\ Step(c, "close_unreg", "fin")
    /\ unregister(c)
    /\ UNCHANGED <<pool, cancelled, sent, rm, cur, snap, sends, wrVars, taskVars, cntVars>>

\* Faulty variant: a session someone else unregistered is taken for cleaned up.
close_session_if_registered(c) ==
    /\ Step(c, "fin", "done")
    /\ IF c \in map THEN unregister(c) ELSE UNCHANGED regVars
    /\ UNCHANGED <<pool, cancelled, sent, rm, cur, snap, sends, wrVars, taskVars, cntVars>>

\* The relay has joined its sender; its own unregister is the last word.
close_session(c) ==
    /\ Step(c, "fin", "done")
    /\ unregister(c)
    /\ UNCHANGED <<pool, cancelled, sent, rm, cur, snap, sends, wrVars, taskVars, cntVars>>

---------------------------------------------------------------------------
(* A writer: connect_one_with_generation_contour and the tasks it spawns.  *)

\* Connected and handshaken: the channel task runs, the writer is published.
connect_push(w) ==
    /\ w \notin born
    /\ born' = born \cup {w}
    /\ chan_open' = chan_open \cup {w}
    /\ pool' = pool \cup {w}
    /\ UNCHANGED <<regVars, cancelled, draining, sent, rm, sessVars, taskVars, cntVars>>

\* Only then is it counted, and its reader and ping tasks are spawned.
connect_count(w) ==
    /\ w \in born /\ reader[w] = "none"
    /\ conn_count' = (conn_count + 1) % CountMod
    /\ reader' = [reader EXCEPT ![w] = "loop"]
    /\ ping' = [ping EXCEPT ![w] = "loop"]
    /\ UNCHANGED <<regVars, pool, cancelled, sent, rm, sessVars, wrVars, cleanup_done,
                   drain, prune, removed_total, drain_active>>

\* The channel task stops on a failed socket write, or on its token or Close.
writer_task_stops(w) ==
    /\ w \in chan_open
    /\ chan_open' = chan_open \ {w}
    /\ UNCHANGED <<regVars, pool, cancelled, born, draining, sent, rm, sessVars, taskVars, cntVars>>

writer_io_error(w) == w \notin cancelled /\ writer_task_stops(w)

writer_cancelled(w) == w \in cancelled /\ writer_task_stops(w)

\* The reader unregisters a connection the ME server closes (CLOSE_EXT,
\* CLOSE_CONN) or whose answer cannot be routed.
reader_unregister(w, c) ==
    /\ reader[w] = "loop"
    /\ c \in sent[w]
    /\ unregister(c)
    /\ UNCHANGED <<pool, cancelled, sent, rm, sessVars, wrVars, taskVars, cntVars>>

\* reader_loop returns (EOF, bad frame, token) and the task enters cleanup.
reader_ends(w) ==
    /\ reader[w] = "loop"
    /\ reader' = [reader EXCEPT ![w] = "retain"]
    /\ cleanup_done' = cleanup_done \cup {w}
    /\ IF w \in cleanup_done THEN UNCHANGED rm ELSE Call(Reader(w), w, TRUE)
    /\ UNCHANGED <<regVars, pool, cancelled, sent, sessVars, wrVars, ping, drain, prune, cntVars>>

\* The reader's last act takes the writer out of the pool once more,
\* uncounted, whoever won the cleanup.
reader_retain(w) ==
    /\ reader[w] = "retain"
    /\ Returned(Reader(w))
    /\ pool' = pool \ {w}
    /\ reader' = [reader EXCEPT ![w] = "done"]
    /\ UNCHANGED <<regVars, cancelled, sent, rm, sessVars, wrVars, cleanup_done,
                   ping, drain, prune, cntVars>>

\* A ping cannot be queued: the task fires the token and enters cleanup.
ping_fails(w) ==
    /\ ping[w] = "loop"
    /\ w \notin chan_open
    /\ cancelled' = cancelled \cup {w}
    /\ ping' = [ping EXCEPT ![w] = "done"]
    /\ cleanup_done' = cleanup_done \cup {w}
    /\ IF w \in cleanup_done THEN UNCHANGED rm ELSE Call(Ping(w), w, TRUE)
    /\ UNCHANGED <<regVars, pool, sent, sessVars, wrVars, reader, drain, prune, cntVars>>

ping_cancelled(w) ==
    /\ ping[w] = "loop"
    /\ w \in cancelled
    /\ ping' = [ping EXCEPT ![w] = "done"]
    /\ UNCHANGED <<regVars, pool, cancelled, sent, rm, sessVars, wrVars, cleanup_done,
                   reader, drain, prune, cntVars>>

\* mark_writer_draining_with_timeout on a writer still in the pool.  A writer
\* that drains already is marked over (a secret renewal marks every writer, a
\* rotation one it chose before its connect): the mode is stored again and one
\* more drain task runs, but the gauge counts the writer once.
mark_writer_draining(w, i, mode) ==
    /\ w \in pool \cap Drainable
    /\ drain[<<w, i>>] = "none" /\ \A j \in 1 .. i - 1 : drain[<<w, j>>] # "none"
    /\ draining' = [draining EXCEPT ![w] = mode]
    /\ drain_active' = IF draining[w] = "no" THEN drain_active + 1 ELSE drain_active
    /\ drain' = [drain EXCEPT ![<<w, i>>] = "loop"]
    /\ UNCHANGED <<regVars, pool, cancelled, born, chan_open, sent, rm, sessVars,
                   cleanup_done, reader, ping, prune, conn_count, removed_total>>

\* The window in which a draining writer takes fallback binds closes.
stale_window_ends(w) ==
    /\ draining[w] = "stale_ok"
    /\ draining' = [draining EXCEPT ![w] = "stale_no"]
    /\ UNCHANGED <<regVars, pool, cancelled, born, chan_open, sent, rm, sessVars,
                   taskVars, cntVars>>

\* The drain loop ends at its deadline, closing clients, or on finding the
\* writer empty, and then drops whatever was bound since.
drain_deadline(w, i) ==
    /\ drain[<<w, i>>] = "loop"
    /\ drain' = [drain EXCEPT ![<<w, i>>] = "done"]
    /\ Call(Drain(w, i), w, TRUE)
    /\ UNCHANGED <<regVars, pool, cancelled, sent, sessVars, wrVars, cleanup_done,
                   reader, ping, prune, cntVars>>

\* Faulty variant: the loop breaks without remove_writer_only.
drain_found_empty_leaves(w, i) ==
    /\ drain[<<w, i>>] = "loop"
    /\ is_writer_empty(w)
    /\ drain' = [drain EXCEPT ![<<w, i>>] = "done"]
    /\ UNCHANGED <<regVars, pool, cancelled, sent, rm, sessVars, wrVars, cleanup_done,
                   reader, ping, prune, cntVars>>

drain_found_empty(w, i) ==
    /\ drain[<<w, i>>] = "loop"
    /\ is_writer_empty(w)
    /\ drain' = [drain EXCEPT ![<<w, i>>] = "done"]
    /\ Call(Drain(w, i), w, FALSE)
    /\ UNCHANGED <<regVars, pool, cancelled, sent, sessVars, wrVars, cleanup_done,
                   reader, ping, prune, cntVars>>

---------------------------------------------------------------------------
(* The health monitor: prune_closed_writers. *)

prune_snapshot ==
    /\ prune = {} /\ Returned(Health)
    /\ pool \ chan_open # {}
    /\ prune' = pool \ chan_open
    /\ UNCHANGED <<regVars, pool, cancelled, sent, rm, sessVars, wrVars, cleanup_done,
                   reader, ping, drain, cntVars>>

prune_one(w) ==
    /\ w \in prune /\ Returned(Health)
    /\ prune' = prune \ {w}
    /\ Call(Health, w, ~is_writer_empty(w))
    /\ UNCHANGED <<regVars, pool, cancelled, sent, sessVars, wrVars, cleanup_done,
                   reader, ping, drain, cntVars>>

---------------------------------------------------------------------------

RemoveStep(t) ==
    \/ remove_from_pool(t) \/ remove_from_registry(t)
    \/ \E c \in Conns : close_client(t, c)

SessionStep(c) ==
    \/ open_session(c) \/ client_frame(c) \/ client_eof(c) \/ client_error(c)
    \/ send_again(c) \/ send_bound(c)
    \/ pick_candidates(c) \/ connect_on_demand(c)
    \/ writer_turned_up(c) \/ no_writer_available(c)
    \/ (\E w \in Writers : try_candidate(c, w)) \/ candidates_exhausted(c)
    \/ bind_session(c)
    \/ send_close_ext(c) \/ send_close_unregister(c)
    \/ close_session(c)

WriterStep(w) ==
    \/ connect_push(w) \/ connect_count(w)
    \/ writer_io_error(w) \/ writer_cancelled(w)
    \/ (\E c \in Conns : reader_unregister(w, c)) \/ reader_ends(w) \/ reader_retain(w)
    \/ ping_fails(w) \/ ping_cancelled(w)
    \/ stale_window_ends(w)
    \/ \E i \in Marks :
         \/ \E mode \in {"stale_ok", "stale_no"} : mark_writer_draining(w, i, mode)
         \/ drain_deadline(w, i) \/ drain_found_empty(w, i)

HealthStep == prune_snapshot \/ \E w \in Writers : prune_one(w)

Next ==
    \/ \E t \in Tasks : RemoveStep(t)
    \/ \E c \in Conns : SessionStep(c)
    \/ \E w \in Writers : WriterStep(w)
    \/ HealthStep

Spec == Init /\ [][Next]_vars

\* A task that is neither waiting for its peer nor for a timer is scheduled
\* by the runtime.  Nothing is assumed of clients, ME servers or connects; so
\* close_session is not fair: after its sender failed the relay still waits in
\* read_client_payload for the client (middle_relay.rs:387), and a sender that
\* connects on demand may wait for a connect that never ends: the handshake may
\* ask a web service for the public address, without a timeout (pool_nat.rs:190).
Fairness ==
    /\ \A t \in Tasks : WF_vars(RemoveStep(t))
    /\ \A c \in Conns :
         WF_vars(\/ send_again(c) \/ send_bound(c) \/ pick_candidates(c)
                 \/ connect_on_demand(c) \/ (\E w \in Writers : try_candidate(c, w))
                 \/ candidates_exhausted(c) \/ bind_session(c) \/ send_close_ext(c)
                 \/ send_close_unregister(c))
    /\ \A w \in Writers :
         /\ WF_vars(connect_count(w))
         /\ WF_vars(writer_cancelled(w))
         /\ WF_vars(w \in cancelled /\ reader_ends(w))
         /\ WF_vars(reader_retain(w))
         /\ WF_vars(ping_fails(w) \/ ping_cancelled(w))
         /\ \A i \in Marks : WF_vars(drain_found_empty(w, i))
    /\ WF_vars(HealthStep)

FairSpec == Spec /\ Fairness

---------------------------------------------------------------------------
(* Safety. *)

\* Once the relay has returned, the registry holds nothing for the session,
\* although a remover or a reader may have unregistered it before its sender
\* made a late bind (send.rs:203), and may still do so afterwards.
NoResidue ==
    \A c \in Conns : sess[c] = "done" =>
        /\ c \notin map \cup meta
        /\ writer_for_conn[c] = None
        /\ \A w \in Writers : c \notin conns_for_writer[w]

\* However many tasks remove the same writer at once, its removal is counted
\* at most once (the position test under the lock, pool_writer.rs:274).
RemovedOnce == removed_total <= Cardinality(born \ pool)

\* conn_count follows pushes and counted removals through every interleaving,
\* even when a removal overtakes the increment and the counter wraps below 0.
Uncounted == {w \in born : reader[w] = "none"}

CountAccounts ==
    (conn_count + removed_total + Cardinality(Uncounted)) % CountMod
        = Cardinality(born) % CountMod

\* The draining gauge never reads less than the number of draining writers in
\* the pool: no removal takes back a writer's share of the gauge twice.
DrainGaugeCovers ==
    drain_active >= Cardinality({w \in pool : draining[w] # "no"})

---------------------------------------------------------------------------
(* The sessions as the clients see them. *)

Phase ==
    [c \in Conns |-> IF sess[c] = "new" THEN "new"
                     ELSE IF sess[c] = "done" THEN "over" ELSE "live"]

Binding == INSTANCE ConnBinding WITH
    phase <- Phase, open <- map, owner <- writer_for_conn

\* Every step of the pool is a step of ConnBinding or leaves it alone: a
\* binding is never overwritten, losing a writer unbinds exactly its own
\* connections, and a finished session never comes back to life.
BindingSpec == Binding!Spec

---------------------------------------------------------------------------
(* Liveness, under FairSpec. *)

\* A writer that leaves the pool, on whichever path, has all its tasks
\* stopped: no reader, ping or channel task outlives it with its socket.
LeavingWriterStops ==
    \A w \in Writers : []<>(w \in born \ pool =>
        w \notin chan_open /\ reader[w] = "done" /\ ping[w] = "done")


\* If every session ends, a writer that was marked draining leaves the pool,
\* without its deadline: it is found empty and removed (pool_writer.rs:358).
DrainCompletes ==
    (\A c \in Conns : <>[](sess[c] \in {"new", "done"})) =>
        \A w \in Writers : draining[w] # "no" ~> w \notin pool

\* Removals are accounted for: however many tasks remove a writer at once, it is
\* counted once, conn_count is the writers there are (the ones dropped uncounted
\* by a reader aside), and the draining gauge covers the writers that drain.
RemovalAccounted == RemovedOnce /\ CountAccounts /\ DrainGaugeCovers

\* Writers retire: the tasks of a removed writer end, and a drain without a
\* deadline removes its writer when the sessions are over.
WritersRetire == LeavingWriterStops /\ DrainCompletes
=============================================================================
