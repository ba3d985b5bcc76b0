--------------------------- MODULE ConnRegistry ---------------------------
(***************************************************************************)
(* The table that ties client connections to Middle-End (ME) writers:      *)
(* struct ConnRegistry of transport/middle_proxy/registry.rs.  Five hash   *)
(* maps live behind one RwLock, so every operation below is one step.      *)
(*                                                                         *)
(* A connection id names one client session and is never reused            *)
(* (next_id.fetch_add).  The value of a map entry (a channel end, a        *)
(* ConnMeta) is abstracted to its presence; a missing conns_for_writer     *)
(* entry and an empty one are not told apart, as no operation does.        *)
(***************************************************************************)
CONSTANTS
    Conns,      \* connection ids
    Writers,    \* ME writer ids
    None        \* "no writer"

ASSUME NoneAssumption == None \notin Writers

VARIABLES
    map,              \* connections with a response channel
    writers,          \* writers with a command channel in the registry
    writer_for_conn,  \* connection -> writer or None
    conns_for_writer, \* writer -> connections bound to it
    meta              \* connections with a ConnMeta entry

regVars == <<map, writers, writer_for_conn, conns_for_writer, meta>>

RegTypeOK ==
    /\ map \subseteq Conns
    /\ writers \subseteq Writers
    /\ writer_for_conn \in [Conns -> Writers \cup {None}]
    /\ conns_for_writer \in [Writers -> SUBSET Conns]
    /\ meta \subseteq Conns

RegInit ==
    /\ map = {}
    /\ writers = {}
    /\ writer_for_conn = [c \in Conns |-> None]
    /\ conns_for_writer = [w \in Writers |-> {}]
    /\ meta = {}

---------------------------------------------------------------------------
(* Queries. *)

get_writer(c) ==
    IF writer_for_conn[c] \in writers THEN writer_for_conn[c] ELSE None

is_writer_empty(w) == conns_for_writer[w] = {}

\* What writer_lost returns: the connections it unbinds that have a meta.
lost_conns(w) == conns_for_writer[w] \cap meta

---------------------------------------------------------------------------
(* Operations. *)

register(c) ==
    /\ map' = map \cup {c}
    /\ UNCHANGED <<writers, writer_for_conn, conns_for_writer, meta>>

\* Faulty variant: the writer's set keeps the connection.
unregister_keeps_index(c) ==
    /\ map' = map \ {c}
    /\ meta' = meta \ {c}
    /\ writer_for_conn' = [writer_for_conn EXCEPT ![c] = None]
    /\ UNCHANGED <<writers, conns_for_writer>>

\* The writer's own set loses the connection; its (maybe empty) entry stays.
unregister(c) ==
    /\ map' = map \ {c}
    /\ meta' = meta \ {c}
    /\ writer_for_conn' = [writer_for_conn EXCEPT ![c] = None]
    /\ conns_for_writer' =
         [w \in Writers |-> IF w = writer_for_conn[c]
                            THEN conns_for_writer[w] \ {c}
                            ELSE conns_for_writer[w]]
    /\ UNCHANGED writers

\* Neither the writer's liveness nor the connection's registration, nor a
\* binding the connection may already have, is looked at.
bind_writer(c, w) ==
    /\ meta' = meta \cup {c}
    /\ writer_for_conn' = [writer_for_conn EXCEPT ![c] = w]
    /\ writers' = writers \cup {w}
    /\ conns_for_writer' = [conns_for_writer EXCEPT ![w] = @ \cup {c}]
    /\ UNCHANGED map

writer_lost(w) ==
    /\ writers' = writers \ {w}
    /\ conns_for_writer' = [conns_for_writer EXCEPT ![w] = {}]
    /\ writer_for_conn' = [c \in Conns |-> IF c \in conns_for_writer[w]
                                           THEN None
                                           ELSE writer_for_conn[c]]
    /\ UNCHANGED <<map, meta>>

---------------------------------------------------------------------------
(* The registry under callers that obey no discipline at all. *)

RegNext ==
    \/ \E c \in Conns : register(c) \/ unregister(c)
    \/ \E c \in Conns, w \in Writers : bind_writer(c, w)
    \/ \E w \in Writers : writer_lost(w)

RegSpec == RegInit /\ [][RegNext]_regVars

\* Whatever the callers do, a binding points at a writer the registry still
\* knows and that lists the connection, so the second lookup of get_writer
\* (registry.rs:207) never fails and writer_lost reaches every binding.
BindingIsIndexed ==
    \A c \in Conns : writer_for_conn[c] # None =>
        /\ writer_for_conn[c] \in writers
        /\ c \in conns_for_writer[writer_for_conn[c]]

\* Whatever the callers do, a bound connection has a meta entry, so
\* writer_lost (registry.rs:224) returns every connection it unbinds and
\* none is dropped without its client being told.
BoundHasMeta ==
    \A c \in Conns : writer_for_conn[c] # None => c \in meta

\* Exact index: a writer lists exactly the connections bound to it.  This
\* one needs callers that never bind a connection that is already bound:
\* otherwise losing the first writer would unbind the second.
IndexExact ==
    \A c \in Conns, w \in Writers :
        c \in conns_for_writer[w] <=> writer_for_conn[c] = w

\* The indexes of the registry agree: a bound connection has a known writer,
\* which lists exactly the connections bound to it, and a meta entry, without
\* which writer_lost would not report it.
RegistryConsistent == BindingIsIndexed /\ IndexExact /\ BoundHasMeta
=============================================================================
