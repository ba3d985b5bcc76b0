---------------------------- MODULE MePoolProofs ----------------------------
(***************************************************************************)
(* The registry and the pool, for any number of sessions, writers and      *)
(* requests, in four parts: what the registry guarantees whatever its      *)
(* callers do, the safety of the pool, that the pool implements            *)
(* ConnBinding, and the accounting of removals.                            *)
(*                                                                         *)
(* IndexExact is not inductive by itself: bind_writer preserves it only    *)
(* when the connection is unbound.  SenderInv supplies that: a sender that *)
(* is choosing a writer has found none bound, and nobody else binds its    *)
(* connection.                                                             *)
(***************************************************************************)
EXTENDS MePool, FiniteSetTheorems, TLAPS

-----------------------------------------------------------------------------
(* The registry: what each operation does to the exact index, whoever      *)
(* calls it.                                                               *)

RegInv == RegTypeOK /\ BindingIsIndexed /\ BoundHasMeta

LEMMA RegInitial == RegInit => RegInv /\ IndexExact
  BY NoneAssumption DEF RegInit, RegInv, RegTypeOK, BindingIsIndexed, BoundHasMeta, IndexExact

LEMMA RegisterInv ==
  ASSUME RegInv, NEW c \in Conns, register(c)
  PROVE  RegInv'
  BY DEF RegInv, RegTypeOK, BindingIsIndexed, BoundHasMeta, register

LEMMA UnregisterInv ==
  ASSUME RegInv, NEW c \in Conns, unregister(c)
  PROVE  RegInv'
  BY DEF RegInv, RegTypeOK, BindingIsIndexed, BoundHasMeta, unregister

LEMMA BindInv ==
  ASSUME RegInv, NEW c \in Conns, NEW w \in Writers, bind_writer(c, w)
  PROVE  RegInv'
  BY DEF RegInv, RegTypeOK, BindingIsIndexed, BoundHasMeta, bind_writer

LEMMA WriterLostInv ==
  ASSUME RegInv, NEW w \in Writers, writer_lost(w)
  PROVE  RegInv'
  BY NoneAssumption DEF RegInv, RegTypeOK, BindingIsIndexed, BoundHasMeta, writer_lost

LEMMA RegStutter ==
  ASSUME UNCHANGED regVars
  PROVE  (RegInv => RegInv') /\ (IndexExact => IndexExact')
  BY DEF regVars, RegInv, RegTypeOK, BindingIsIndexed, BoundHasMeta, IndexExact

LEMMA RegisterExact ==
  ASSUME IndexExact, NEW c \in Conns, register(c)
  PROVE  IndexExact'
  BY DEF IndexExact, register

LEMMA UnregisterExact ==
  ASSUME RegTypeOK, IndexExact, NEW c \in Conns, unregister(c)
  PROVE  IndexExact'
  BY NoneAssumption DEF RegTypeOK, IndexExact, unregister

\* The one operation that needs a caller's discipline.
LEMMA BindExact ==
  ASSUME RegTypeOK, IndexExact, NEW c \in Conns, NEW w \in Writers,
         writer_for_conn[c] = None, bind_writer(c, w)
  PROVE  IndexExact'
  BY NoneAssumption DEF RegTypeOK, IndexExact, bind_writer

LEMMA WriterLostExact ==
  ASSUME RegTypeOK, IndexExact, NEW w \in Writers, writer_lost(w)
  PROVE  IndexExact'
  BY NoneAssumption DEF RegTypeOK, IndexExact, writer_lost

\* With every binding indexed, get_writer fails only for an unbound connection.
LEMMA GetWriter ==
  ASSUME RegInv, NEW c \in Conns
  PROVE  get_writer(c) = writer_for_conn[c]
  BY NoneAssumption DEF RegInv, RegTypeOK, BindingIsIndexed, get_writer

\* The registry keeps every binding indexed and accompanied by its meta entry
\* under arbitrary, concurrent callers.
THEOREM RegistrySafe == RegSpec => [](BindingIsIndexed /\ BoundHasMeta)
<1>1. RegInit => RegInv
  BY RegInitial
<1>2. RegInv /\ [RegNext]_regVars => RegInv'
  <2> SUFFICES ASSUME RegInv, [RegNext]_regVars
               PROVE  RegInv'
    OBVIOUS
  <2>1. CASE UNCHANGED regVars
    BY <2>1 DEF regVars, RegInv, RegTypeOK, BindingIsIndexed, BoundHasMeta
  <2>2. CASE RegNext
    BY <2>2, RegisterInv, UnregisterInv, BindInv, WriterLostInv DEF RegNext
  <2> QED BY <2>1, <2>2
<1>3. RegInv => BindingIsIndexed /\ BoundHasMeta
  BY DEF RegInv
<1> QED BY <1>1, <1>2, <1>3, PTL DEF RegSpec

-----------------------------------------------------------------------------
(* The pool.                                                               *)

SenderInv ==
    \A c \in Conns :
        /\ sess[c] \in {"new", "pick", "revive", "emergency", "try", "bind", "done"} => writer_for_conn[c] = None
        /\ sess[c] \in {"send", "bind", "close_send"} => cur[c] \in born
        /\ sess[c] \in {"new", "done"} => c \notin map /\ c \notin meta

\* Only a pushed writer has tasks.
SpawnedInv ==
    \A w \in Writers : reader[w] # "none" \/ ping[w] # "none" => w \in born

PoolInv ==
    /\ TypeOK
    /\ RegInv
    /\ IndexExact
    /\ writers \subseteq born
    /\ SenderInv
    /\ SpawnedInv

-----------------------------------------------------------------------------

LEMMA CallType ==
  ASSUME TypeOK, NEW t \in Tasks, NEW w \in Writers, NEW b \in BOOLEAN, Call(t, w, b)
  PROVE  rm' \in [Tasks -> {NoCall} \cup Calls]
  BY DEF TypeOK, Call, CallAt, Calls

LEMMA SentType ==
  ASSUME TypeOK, NEW c \in Conns, NEW w \in Writers,
         sent' = [sent EXCEPT ![w] = @ \cup {c}] \/ sent' = sent
  PROVE  sent' \in [Writers -> SUBSET Conns]
<1>1. sent \in [Writers -> SUBSET Conns]
  BY DEF TypeOK
<1>2. sent[w] \cup {c} \in SUBSET Conns
  BY <1>1
<1> QED BY <1>1, <1>2

LEMMA TaskNames ==
  /\ \A c \in Conns : Sender(c) \in Tasks
  /\ \A w \in Writers : Reader(w) \in Tasks /\ Ping(w) \in Tasks
  /\ \A w \in Writers, i \in Marks : Drain(w, i) \in Tasks
  /\ Health \in Tasks
  BY DEF Tasks, Sender, Reader, Ping, Drain, Health

\* A running removal has a writer; an idle one does nothing.
LEMMA RunningCall ==
  ASSUME TypeOK, NEW t \in Tasks, rm[t].pc # "idle"
  PROVE  rm[t] \in Calls
  BY DEF TypeOK, NoCall, CallAt

LEMMA InitInv == Init => PoolInv
<1> SUFFICES ASSUME Init PROVE PoolInv
  OBVIOUS
<1>1. RegInv /\ IndexExact
  BY RegInitial DEF Init
<1>2. TypeOK
  BY <1>1, PoolAssumption DEF Init, TypeOK, RegInv, SessPcs
<1>3. writers \subseteq born /\ SenderInv /\ SpawnedInv
  BY DEF Init, RegInit, SenderInv, SpawnedInv
<1> QED BY <1>1, <1>2, <1>3 DEF PoolInv

-----------------------------------------------------------------------------
(* The removal procedure. *)

LEMMA RemoveFromPoolInv ==
  ASSUME PoolInv, NEW t \in Tasks, remove_from_pool(t)
  PROVE  PoolInv'
<1> USE DEF PoolInv
<1>1. rm[t] \in Calls
  BY RunningCall DEF remove_from_pool
<1>2. RegInv' /\ IndexExact'
  BY RegStutter DEF remove_from_pool
<1>3. TypeOK'
  <2>1. rm' \in [Tasks -> {NoCall} \cup Calls]
    BY <1>1 DEF TypeOK, CallAt, Calls, remove_from_pool
  <2>2. conn_count' \in 0 .. CountMod - 1
    BY PoolAssumption DEF TypeOK, remove_from_pool
  <2>3. removed_total' \in Nat /\ drain_active' \in Nat
    BY DEF TypeOK, remove_from_pool
  <2> QED BY <1>2, <2>1, <2>2, <2>3 DEF TypeOK, RegInv, remove_from_pool, wrVars, taskVars, sessVars, regVars
<1>4. (writers \subseteq born)' /\ SenderInv' /\ SpawnedInv'
  BY DEF SpawnedInv, taskVars, SenderInv, remove_from_pool, regVars, sessVars, wrVars
<1> QED BY <1>2, <1>3, <1>4

LEMMA RemoveFromRegistryInv ==
  ASSUME PoolInv, NEW t \in Tasks, remove_from_registry(t)
  PROVE  PoolInv'
<1> USE DEF PoolInv
<1>1. rm[t] \in Calls /\ rm[t].w \in Writers
  BY RunningCall DEF remove_from_registry, Calls
<1>2. RegInv' /\ IndexExact'
  BY <1>1, WriterLostInv, WriterLostExact DEF RegInv, remove_from_registry
<1>3. TypeOK'
  <2>1. rm' \in [Tasks -> {NoCall} \cup Calls]
    BY <1>1, SMTT(30) DEF TypeOK, RegTypeOK, CallAt, Calls, remove_from_registry, lost_conns
  <2> QED BY <1>2, <2>1, Zenon DEF TypeOK, RegInv, remove_from_registry, wrVars, taskVars, sessVars, cntVars
<1>4. (writers \subseteq born)' /\ SenderInv' /\ SpawnedInv'
  BY <1>1 DEF SpawnedInv, taskVars, SenderInv, RegInv, RegTypeOK, remove_from_registry, writer_lost, sessVars, wrVars
<1> QED BY <1>2, <1>3, <1>4

LEMMA CloseClientInv ==
  ASSUME PoolInv, NEW t \in Tasks, NEW c \in Conns, close_client(t, c)
  PROVE  PoolInv'
<1> USE DEF PoolInv
<1>1. rm[t] \in Calls
  BY RunningCall DEF close_client
<1>2. RegInv' /\ IndexExact'
  BY UnregisterInv, UnregisterExact DEF RegInv, close_client
<1>3. TypeOK'
  <2>1. rm' \in [Tasks -> {NoCall} \cup Calls]
    BY <1>1, SMTT(30) DEF TypeOK, CallAt, Calls, close_client
  <2> QED BY <1>2, <2>1, Zenon DEF TypeOK, RegInv, close_client, wrVars, taskVars, sessVars, cntVars
<1>4. (writers \subseteq born)' /\ SenderInv' /\ SpawnedInv'
  BY DEF SpawnedInv, taskVars, SenderInv, RegInv, RegTypeOK, close_client, unregister, sessVars, wrVars
<1> QED BY <1>2, <1>3, <1>4

-----------------------------------------------------------------------------
(* Sessions. *)

LEMMA OpenSessionInv ==
  ASSUME PoolInv, NEW c \in Conns, open_session(c)
  PROVE  PoolInv'
<1> USE DEF PoolInv
<1>1. RegInv' /\ IndexExact'
  BY RegisterInv, RegisterExact DEF open_session
<1>2. TypeOK'
  BY <1>1 DEF TypeOK, RegInv, SessPcs, open_session, Step, wrVars, taskVars, cntVars
<1>3. (writers \subseteq born)' /\ SenderInv' /\ SpawnedInv'
  BY DEF SpawnedInv, taskVars, TypeOK, SenderInv, open_session, Step, register, wrVars
<1> QED BY <1>1, <1>2, <1>3

\* A sender goes on without a writer only when its connection has none.
LEMMA LookUpInv ==
  ASSUME PoolInv, NEW c \in Conns, NEW found, NEW missing,
         <<found, missing>> \in {<<"send", "pick">>, <<"close_send", "close_unreg">>},
         look_up(c, found, missing), sends' \in [Conns -> 0 .. MaxSends]
  PROVE  PoolInv'
<1> USE DEF PoolInv
<1>1. RegInv' /\ IndexExact'
  BY RegStutter DEF look_up
<1>2. get_writer(c) = writer_for_conn[c] /\ writer_for_conn[c] \in Writers \cup {None}
  BY GetWriter DEF RegInv, RegTypeOK
<1>3. writer_for_conn[c] # None => writer_for_conn[c] \in born
  BY DEF RegInv, BindingIsIndexed
<1>4. \/ found = "send" /\ missing = "pick"
      \/ found = "close_send" /\ missing = "close_unreg"
  OBVIOUS
<1>5. TypeOK'
  BY <1>1, <1>2, <1>4, ZenonT(60) DEF TypeOK, RegInv, SessPcs, look_up, wrVars, taskVars, cntVars
<1>6. (writers \subseteq born)' /\ SenderInv' /\ SpawnedInv'
  BY <1>2, <1>3, <1>4 DEF SpawnedInv, taskVars, TypeOK, SenderInv, look_up, regVars, wrVars
<1> QED BY <1>1, <1>5, <1>6

LEMMA ClientFrameInv ==
  ASSUME PoolInv, NEW c \in Conns, client_frame(c)
  PROVE  PoolInv'
<1>1. sends' \in [Conns -> 0 .. MaxSends]
  BY PoolAssumption DEF PoolInv, TypeOK, client_frame
<1> QED BY <1>1, LookUpInv DEF client_frame

LEMMA SendAgainInv ==
  ASSUME PoolInv, NEW c \in Conns, send_again(c) \/ client_eof(c)
  PROVE  PoolInv'
<1>1. sends' \in [Conns -> 0 .. MaxSends]
  BY DEF PoolInv, TypeOK, send_again, client_eof
<1> QED BY <1>1, LookUpInv DEF send_again, client_eof

LEMMA SendBoundInv ==
  ASSUME PoolInv, NEW c \in Conns, send_bound(c)
  PROVE  PoolInv'
<1> USE DEF PoolInv
<1>1. RegInv' /\ IndexExact'
  BY RegStutter DEF send_bound
<1>2. cur[c] \in Writers
  BY Zenon DEF TypeOK, SenderInv, send_bound, Step
<1>3. rm' \in [Tasks -> {NoCall} \cup Calls]
  BY <1>2, CallType, TaskNames, Zenon DEF TypeOK, send_bound
<1>4. TypeOK'
  <2>1. sess' \in [Conns -> SessPcs]
    BY ZenonT(60) DEF TypeOK, SessPcs, send_bound, Step
  <2>2. sent' \in [Writers -> SUBSET Conns]
    BY <1>2, SentType, Zenon DEF send_bound
  <2>3. cur' \in [Conns -> Writers \cup {None}]
    BY DEF TypeOK, send_bound
  <2> HIDE DEF PoolInv
  <2>4. /\ TypeOK
        /\ UNCHANGED <<regVars, pool, cancelled, snap, sends, wrVars, taskVars, cntVars>>
    BY DEF PoolInv, send_bound
  <2> QED BY <1>1, <1>3, <2>1, <2>2, <2>3, <2>4 DEF TypeOK, RegInv, wrVars, taskVars, cntVars
<1>5. (writers \subseteq born)' /\ SenderInv' /\ SpawnedInv'
  <2>1. /\ UNCHANGED <<writers, born, map, meta, writer_for_conn, reader, ping>>
        /\ cur' = [cur EXCEPT ![c] = None]
    BY DEF send_bound, regVars, wrVars, taskVars
  <2>2. \E pc \in {"idle", "get"} : sess' = [sess EXCEPT ![c] = pc]
    BY Zenon DEF send_bound, Step
  <2> QED BY <2>1, <2>2 DEF SpawnedInv, TypeOK, SenderInv
<1> QED BY <1>1, <1>4, <1>5

LEMMA PickInv ==
  ASSUME PoolInv, NEW c \in Conns, pick_candidates(c) \/ connect_on_demand(c) \/ writer_turned_up(c)
                                     \/ no_writer_available(c) \/ candidates_exhausted(c) \/ client_error(c)
  PROVE  PoolInv'
<1> USE DEF PoolInv, pick_candidates, Eligible, connect_on_demand, writer_turned_up, no_writer_available, candidates_exhausted, client_error
<1>1. RegInv' /\ IndexExact'
  BY RegStutter, SMTT(30)
<1>2. TypeOK'
  BY <1>1, SMTT(30) DEF TypeOK, RegInv, SessPcs, Step, wrVars, taskVars, cntVars
<1>3. (writers \subseteq born)' /\ SenderInv' /\ SpawnedInv'
  BY SMTT(30) DEF SpawnedInv, taskVars, TypeOK, SenderInv, Step, regVars, wrVars
<1> QED BY <1>1, <1>2, <1>3, SMTT(30)

LEMMA TryCandidateInv ==
  ASSUME PoolInv, NEW c \in Conns, NEW w \in Writers, try_candidate(c, w)
  PROVE  PoolInv'
<1> USE DEF PoolInv
<1>1. RegInv' /\ IndexExact'
  BY RegStutter DEF try_candidate
<1>2. rm' \in [Tasks -> {NoCall} \cup Calls]
  BY CallType, TaskNames, Zenon DEF TypeOK, try_candidate
<1>3. TypeOK'
  <2>1. sess' \in [Conns -> SessPcs]
    BY ZenonT(60) DEF TypeOK, SessPcs, try_candidate, Step
  <2>2. sent' \in [Writers -> SUBSET Conns] /\ snap' \in [Conns -> SUBSET born]
    BY SentType, ZenonT(60) DEF TypeOK, try_candidate
  <2>3. cur' \in [Conns -> Writers \cup {None}]
    BY ZenonT(60) DEF TypeOK, try_candidate
  <2> HIDE DEF PoolInv
  <2>4. /\ TypeOK
        /\ UNCHANGED <<regVars, pool, cancelled, sends, wrVars, taskVars, cntVars>>
    BY DEF PoolInv, try_candidate
  <2> QED BY <1>1, <1>2, <2>1, <2>2, <2>3, <2>4 DEF TypeOK, RegInv, wrVars, taskVars, cntVars
<1>4. (writers \subseteq born)' /\ SenderInv' /\ SpawnedInv'
  <2>1. UNCHANGED <<writers, born, map, meta, writer_for_conn, reader, ping>>
    BY DEF try_candidate, regVars, wrVars, taskVars
  <2>2. sess[c] = "try" /\ w \in born
    BY Zenon DEF TypeOK, try_candidate, Step
  <2>3. \/ sess' = [sess EXCEPT ![c] = "try"] /\ cur' = cur
        \/ sess' = [sess EXCEPT ![c] = "bind"] /\ cur' = [cur EXCEPT ![c] = w]
    BY ZenonT(60) DEF try_candidate, Step
  <2> QED BY <2>1, <2>2, <2>3 DEF SpawnedInv, TypeOK, SenderInv
<1> QED BY <1>1, <1>3, <1>4

LEMMA BindSessionInv ==
  ASSUME PoolInv, NEW c \in Conns, bind_session(c)
  PROVE  PoolInv'
<1> USE DEF PoolInv
<1>1. cur[c] \in Writers /\ cur[c] \in born /\ writer_for_conn[c] = None
  BY DEF TypeOK, SenderInv, bind_session, Step
<1>2. RegInv' /\ IndexExact'
  BY <1>1, BindInv, BindExact, SMTT(30) DEF RegInv, bind_session
<1>3. TypeOK'
  BY <1>2, SMTT(30) DEF TypeOK, RegInv, SessPcs, bind_session, Step, wrVars, taskVars, cntVars
<1>4. (writers \subseteq born)' /\ SenderInv' /\ SpawnedInv'
  BY <1>1 DEF SpawnedInv, taskVars, TypeOK, RegInv, RegTypeOK, SenderInv, bind_session, bind_writer, Step, wrVars
<1> QED BY <1>2, <1>3, <1>4

LEMMA SendCloseExtInv ==
  ASSUME PoolInv, NEW c \in Conns, send_close_ext(c)
  PROVE  PoolInv'
<1> USE DEF PoolInv
<1>1. RegInv' /\ IndexExact'
  BY RegStutter DEF send_close_ext
<1>2. cur[c] \in Writers
  BY DEF TypeOK, SenderInv, send_close_ext, Step
<1>3. rm' \in [Tasks -> {NoCall} \cup Calls]
  BY <1>2, CallType, TaskNames, ZenonT(60) DEF TypeOK, send_close_ext
<1>4. TypeOK'
  BY <1>1, <1>3 DEF TypeOK, RegInv, SessPcs, send_close_ext, Step, wrVars, taskVars, cntVars
<1>5. (writers \subseteq born)' /\ SenderInv' /\ SpawnedInv'
  BY DEF SpawnedInv, taskVars, TypeOK, SenderInv, send_close_ext, Step, regVars, wrVars
<1> QED BY <1>1, <1>4, <1>5

\* Both unregisters of a session leave it with nothing in the registry.
LEMMA UnregisterSessionInv ==
  ASSUME PoolInv, NEW c \in Conns, send_close_unregister(c) \/ close_session(c)
  PROVE  PoolInv'
<1> USE DEF PoolInv, send_close_unregister, close_session
<1>1. RegInv' /\ IndexExact'
  BY UnregisterInv, UnregisterExact, SMTT(30) DEF RegInv
<1>2. TypeOK'
  BY <1>1, ZenonT(60) DEF TypeOK, RegInv, SessPcs, Step, wrVars, taskVars, cntVars
<1>3. (writers \subseteq born)' /\ SenderInv' /\ SpawnedInv'
  <2>1. (writers \subseteq born)' /\ SpawnedInv'
    <3>1. UNCHANGED <<writers, born, reader, ping>>
      BY Zenon DEF unregister, taskVars, wrVars
    <3> QED BY <3>1, Zenon DEF SpawnedInv
  <2>2. SenderInv'
    BY SMTT(30) DEF SenderInv, TypeOK, RegInv, RegTypeOK, unregister, Step, wrVars
  <2> QED BY <2>1, <2>2
<1> QED BY <1>1, <1>2, <1>3

-----------------------------------------------------------------------------
(* Writers and the health monitor. *)

LEMMA ConnectInv ==
  ASSUME PoolInv, NEW w \in Writers, connect_push(w) \/ connect_count(w)
  PROVE  PoolInv'
<1> USE DEF PoolInv, connect_push, connect_count
<1>1. RegInv' /\ IndexExact'
  BY RegStutter
<1>2. conn_count' \in 0 .. CountMod - 1
  BY PoolAssumption DEF TypeOK, cntVars
<1>3. born \subseteq born'
  BY DEF wrVars
<1>4. TypeOK'
  BY <1>1, <1>2, <1>3 DEF TypeOK, RegInv, sessVars, wrVars, taskVars, cntVars
<1>5. (writers \subseteq born)' /\ SenderInv' /\ SpawnedInv'
  <2>1. (writers \subseteq born)' /\ SenderInv'
    BY <1>3, ZenonT(60) DEF SenderInv, regVars, sessVars
  <2>2. SpawnedInv'
    BY <1>3 DEF TypeOK, SpawnedInv, taskVars, wrVars
  <2> QED BY <2>1, <2>2
<1> QED BY <1>1, <1>4, <1>5

LEMMA ChannelTaskInv ==
  ASSUME PoolInv, NEW w \in Writers, writer_task_stops(w)
  PROVE  PoolInv'
<1> USE DEF PoolInv, writer_task_stops
<1>1. RegInv' /\ IndexExact'
  BY RegStutter, SMTT(30)
<1>2. TypeOK'
  BY <1>1 DEF TypeOK, RegInv, sessVars, taskVars, cntVars
<1>3. (writers \subseteq born)' /\ SenderInv' /\ SpawnedInv'
  BY ZenonT(60) DEF SpawnedInv, taskVars, SenderInv, regVars, sessVars
<1> QED BY <1>1, <1>2, <1>3

LEMMA ReaderUnregisterInv ==
  ASSUME PoolInv, NEW w \in Writers, NEW c \in Conns, reader_unregister(w, c)
  PROVE  PoolInv'
<1> USE DEF PoolInv, reader_unregister
<1>1. RegInv' /\ IndexExact'
  BY UnregisterInv, UnregisterExact DEF RegInv
<1>2. TypeOK'
  BY <1>1 DEF TypeOK, RegInv, sessVars, wrVars, taskVars, cntVars
<1>3. (writers \subseteq born)' /\ SenderInv' /\ SpawnedInv'
  BY Zenon DEF SpawnedInv, taskVars, SenderInv, RegInv, RegTypeOK, unregister, sessVars, wrVars
<1> QED BY <1>1, <1>2, <1>3, Zenon

\* A task that has been spawned serves a writer that was pushed.
LEMMA ReaderPingInv ==
  ASSUME PoolInv, NEW w \in Writers,
         \/ reader_ends(w) \/ reader_retain(w) \/ ping_fails(w) \/ ping_cancelled(w)
  PROVE  PoolInv'
<1> USE DEF PoolInv, reader_ends, reader_retain, ping_fails, ping_cancelled
<1>1. RegInv' /\ IndexExact'
  BY RegStutter, Zenon
<1>2. rm' \in [Tasks -> {NoCall} \cup Calls]
  BY CallType, TaskNames, Zenon DEF TypeOK
<1>3. w \in born
  BY Zenon DEF SpawnedInv
<1>4. TypeOK'
  BY <1>1, <1>2, <1>3, Zenon DEF TypeOK, RegInv, sessVars, wrVars, taskVars, cntVars
<1>5. (writers \subseteq born)' /\ SenderInv' /\ SpawnedInv'
  <2>1. (writers \subseteq born)' /\ SenderInv'
    BY Zenon DEF SenderInv, regVars, sessVars, wrVars
  <2>2. SpawnedInv'
    BY <1>3, ZenonT(60) DEF TypeOK, SpawnedInv, wrVars
  <2> QED BY <2>1, <2>2
<1> QED BY <1>1, <1>4, <1>5

LEMMA DrainInv ==
  ASSUME PoolInv, NEW w \in Writers, NEW i \in Marks,
         NEW mode \in {"stale_ok", "stale_no"},
         \/ mark_writer_draining(w, i, mode)
         \/ drain_deadline(w, i) \/ drain_found_empty(w, i)
  PROVE  PoolInv'
<1> USE DEF PoolInv, mark_writer_draining, drain_deadline, drain_found_empty
<1>1. RegInv' /\ IndexExact'
  BY RegStutter, Zenon
<1>2. rm' \in [Tasks -> {NoCall} \cup Calls]
  BY CallType, TaskNames, ZenonT(60) DEF TypeOK
<1>3. TypeOK'
  <2>1. drain' \in [Writers \X Marks -> {"none", "loop", "done"}]
    <3>1. drain \in [Writers \X Marks -> {"none", "loop", "done"}]
      BY Zenon DEF TypeOK
    <3>2. w \in Writers /\ i \in Marks
      OBVIOUS
    <3>3. drain' = [drain EXCEPT ![<<w, i>>] = "loop"] \/ drain' = [drain EXCEPT ![<<w, i>>] = "done"]
      BY Zenon
    <3> HIDE DEF PoolInv, mark_writer_draining, drain_deadline, drain_found_empty
    <3> QED BY <3>1, <3>2, <3>3
  <2>2. draining' \in [Writers -> {"no", "stale_ok", "stale_no"}]
    BY Zenon DEF TypeOK, wrVars
  <2>3. drain_active' \in Nat
    <3>1. drain_active' = drain_active \/ drain_active' = drain_active + 1
      BY Zenon DEF cntVars
    <3>2. drain_active \in Nat
      BY Zenon DEF TypeOK
    <3> HIDE DEF PoolInv, mark_writer_draining, drain_deadline, drain_found_empty
    <3> QED BY <3>1, <3>2
  <2>4. UNCHANGED <<pool, born, chan_open, cancelled, cleanup_done, conn_count, removed_total,
                    sent, sess, cur, snap, sends, reader, ping, prune>>
    BY Zenon DEF sessVars, wrVars, taskVars, cntVars
  <2> QED BY <1>1, <1>2, <2>1, <2>2, <2>3, <2>4, Zenon DEF TypeOK, RegInv
<1>4. (writers \subseteq born)' /\ SenderInv' /\ SpawnedInv'
  BY Zenon DEF SpawnedInv, taskVars, SenderInv, regVars, sessVars, wrVars
<1> QED BY <1>1, <1>3, <1>4

LEMMA StaleWindowInv ==
  ASSUME PoolInv, NEW w \in Writers, stale_window_ends(w)
  PROVE  PoolInv'
<1> USE DEF PoolInv, stale_window_ends
<1>1. RegInv' /\ IndexExact'
  BY RegStutter, Zenon
<1>2. draining' \in [Writers -> {"no", "stale_ok", "stale_no"}]
  BY Zenon DEF TypeOK, wrVars
<1>3. TypeOK'
  BY <1>1, <1>2, Zenon DEF TypeOK, RegInv, sessVars, wrVars, taskVars, cntVars
<1>4. (writers \subseteq born)' /\ SenderInv' /\ SpawnedInv'
  BY Zenon DEF SpawnedInv, taskVars, SenderInv, regVars, sessVars, wrVars
<1> QED BY <1>1, <1>3, <1>4

LEMMA HealthInv ==
  ASSUME PoolInv, HealthStep
  PROVE  PoolInv'
<1> USE DEF PoolInv, HealthStep, prune_snapshot, prune_one
<1>1. RegInv' /\ IndexExact'
  BY RegStutter
<1>2. rm' \in [Tasks -> {NoCall} \cup Calls]
  BY CallType, TaskNames, ZenonT(60) DEF TypeOK
<1>3. TypeOK'
  BY <1>1, <1>2, ZenonT(60) DEF TypeOK, RegInv, sessVars, wrVars, taskVars, cntVars
<1>4. (writers \subseteq born)' /\ SenderInv' /\ SpawnedInv'
  BY Zenon DEF SpawnedInv, taskVars, SenderInv, regVars, sessVars, wrVars
<1> QED BY <1>1, <1>3, <1>4

-----------------------------------------------------------------------------

LEMMA StutterInv ==
  ASSUME PoolInv, UNCHANGED vars
  PROVE  PoolInv'
<1>1. RegInv' /\ IndexExact'
  BY RegStutter DEF PoolInv, vars
<1> QED BY <1>1, Zenon DEF PoolInv, TypeOK, SenderInv, SpawnedInv, RegInv, vars, regVars, sessVars, wrVars, taskVars, cntVars

LEMMA StepInv == PoolInv /\ [Next]_vars => PoolInv'
<1> SUFFICES ASSUME PoolInv, [Next]_vars PROVE PoolInv'
  OBVIOUS
<1>1. CASE UNCHANGED vars
  BY <1>1, StutterInv
<1>2. ASSUME NEW t \in Tasks, RemoveStep(t) PROVE PoolInv'
  BY <1>2, RemoveFromPoolInv, RemoveFromRegistryInv, CloseClientInv DEF RemoveStep
<1>3. ASSUME NEW c \in Conns, SessionStep(c) PROVE PoolInv'
  BY <1>3, OpenSessionInv, ClientFrameInv, SendAgainInv, SendBoundInv, PickInv,
     TryCandidateInv, BindSessionInv, SendCloseExtInv, UnregisterSessionInv
     DEF SessionStep
<1>4. ASSUME NEW w \in Writers, WriterStep(w) PROVE PoolInv'
  BY <1>4, ConnectInv, ChannelTaskInv, ReaderUnregisterInv, ReaderPingInv, StaleWindowInv, DrainInv
     DEF WriterStep, writer_io_error, writer_cancelled
<1> QED BY <1>1, <1>2, <1>3, <1>4, HealthInv DEF Next

THEOREM PoolInvariant == Spec => []PoolInv
  BY InitInv, StepInv, PTL DEF Spec

\* Every variable of the pool keeps its type, and every pending removal, drain
\* or prune refers to a writer that exists.
THEOREM TypeCorrect == Spec => []TypeOK
<1>1. PoolInv => TypeOK
  BY DEF PoolInv
<1> QED BY <1>1, PoolInvariant, PTL

\* A writer lists exactly the connections bound to it, so losing it unbinds
\* all of them and no other, and an empty list means no client is served.
THEOREM IndexIsExact == Spec => []IndexExact
<1>1. PoolInv => IndexExact
  BY DEF PoolInv
<1> QED BY <1>1, PoolInvariant, PTL

\* A bound connection always has the meta entry that makes writer_lost report it.
THEOREM BindingsAreReported == Spec => []BoundHasMeta
<1>1. PoolInv => BoundHasMeta
  BY DEF PoolInv, RegInv
<1> QED BY <1>1, PoolInvariant, PTL

\* The indexes of the registry agree under every interleaving of the pool's tasks:
\* a lost writer reports exactly the clients that were bound to it.
THEOREM RegistryIsConsistent == Spec => []RegistryConsistent
<1>1. PoolInv => BindingIsIndexed
  BY DEF PoolInv, RegInv
<1>2. BindingIsIndexed /\ IndexExact /\ BoundHasMeta => RegistryConsistent
  BY DEF RegistryConsistent
<1> QED BY <1>1, <1>2, PoolInvariant, IndexIsExact, BindingsAreReported, PTL

\* A finished relay leaves nothing in the registry, whatever removers, readers
\* and late binds did before it returned.
THEOREM SessionsLeaveNothing == Spec => []NoResidue
<1>1. PoolInv => NoResidue
  BY NoneAssumption DEF PoolInv, SenderInv, IndexExact, NoResidue
<1> QED BY <1>1, PoolInvariant, PTL

-----------------------------------------------------------------------------
(* The pool implements ConnBinding: every step of the pool either leaves   *)
(* the sessions' phases, registrations and owners alone or is one step of  *)
(* ConnBinding.  The two steps that need the invariant are the bind (the   *)
(* connection is unowned) and the loss of a writer (its list is exact).    *)

BindingVars == <<Phase, map, writer_for_conn>>

LEMMA RefInit == Init => Binding!Init
  BY DEF Init, RegInit, Phase, Binding!Init

LEMMA PhaseStutter ==
  ASSUME UNCHANGED sess
  PROVE  UNCHANGED Phase
  BY DEF Phase

\* A sender that moves between two live places stays live.
LEMMA PhaseLive ==
  ASSUME TypeOK, NEW c \in Conns, NEW pc \in SessPcs \ {"new", "done"},
         sess[c] \notin {"new", "done"}, sess' = [sess EXCEPT ![c] = pc]
  PROVE  UNCHANGED Phase
  BY DEF TypeOK, Phase

LEMMA UnregisterIsDrop ==
  ASSUME RegTypeOK, NEW c \in Conns, unregister(c), UNCHANGED Phase
  PROVE  Binding!Drop(c)
  BY DEF RegTypeOK, unregister, Binding!Drop

-----------------------------------------------------------------------------

LEMMA RemoveRefines ==
  ASSUME PoolInv, NEW t \in Tasks, RemoveStep(t)
  PROVE  [Binding!Next]_BindingVars
<1> USE DEF PoolInv
<1>1. UNCHANGED Phase
  <2>1. UNCHANGED sess
    BY Zenon DEF RemoveStep, remove_from_pool, remove_from_registry, close_client, sessVars
  <2> QED BY <2>1, PhaseStutter
<1>2. CASE remove_from_pool(t)
  BY <1>1, <1>2, Zenon DEF remove_from_pool, regVars, BindingVars
<1>3. CASE remove_from_registry(t)
  <2>1. rm[t].w \in Writers
    BY <1>3, RunningCall DEF remove_from_registry, Calls
  <2>2. writer_for_conn' = [c \in Conns |-> IF writer_for_conn[c] = rm[t].w THEN None
                                            ELSE writer_for_conn[c]]
    <3>1. writer_lost(rm[t].w) /\ IndexExact
      BY <1>3, Zenon DEF remove_from_registry
    <3> HIDE DEF PoolInv
    <3> QED BY <2>1, <3>1 DEF writer_lost, IndexExact
  <2>3. Binding!Lose(rm[t].w)
    BY <1>1, <1>3, <2>2, Zenon DEF remove_from_registry, writer_lost, Binding!Lose
  <2> QED BY <2>1, <2>3 DEF Binding!Next
<1>4. ASSUME NEW c \in Conns, close_client(t, c) PROVE [Binding!Next]_BindingVars
  BY <1>1, <1>4, UnregisterIsDrop, Zenon DEF RegInv, close_client, Binding!Next
<1> QED BY <1>2, <1>3, <1>4 DEF RemoveStep

LEMMA SessionRefines ==
  ASSUME PoolInv, NEW c \in Conns, SessionStep(c)
  PROVE  [Binding!Next]_BindingVars
<1> USE DEF PoolInv
<1>1. CASE open_session(c)
  <2>1. Binding!Open(c)
    BY <1>1, Zenon DEF TypeOK, open_session, Step, register, Phase, Binding!Open
  <2> QED BY <2>1 DEF Binding!Next
<1>2. CASE bind_session(c)
  <2>1. cur[c] \in Writers /\ writer_for_conn[c] = None
    BY <1>2 DEF TypeOK, SenderInv, bind_session, Step
  <2>2. UNCHANGED Phase
    BY <1>2, PhaseLive, ZenonT(60) DEF bind_session, Step, SessPcs
  <2>3. Binding!Bind(c, cur[c])
    BY <1>2, <2>1, <2>2, Zenon DEF bind_session, bind_writer, Step, Phase, Binding!Bind
  <2> QED BY <2>1, <2>3 DEF Binding!Next
<1>3. CASE send_close_unregister(c)
  <2>1. UNCHANGED Phase
    BY <1>3, PhaseLive, Zenon DEF send_close_unregister, Step, SessPcs
  <2> QED BY <1>3, <2>1, UnregisterIsDrop DEF RegInv, send_close_unregister, Binding!Next
<1>4. CASE close_session(c)
  <2>1. Binding!End(c)
    BY <1>4, Zenon DEF TypeOK, RegInv, RegTypeOK, close_session, Step, unregister, Phase, Binding!End
  <2> QED BY <2>1 DEF Binding!Next
<1>5. CASE \/ client_frame(c) \/ client_eof(c) \/ client_error(c) \/ send_again(c)
           \/ send_bound(c) \/ pick_candidates(c) \/ connect_on_demand(c)
           \/ writer_turned_up(c) \/ no_writer_available(c)
           \/ (\E w \in Writers : try_candidate(c, w)) \/ candidates_exhausted(c)
           \/ send_close_ext(c)
  <2> USE DEF client_frame, client_eof, client_error, send_again, send_bound, pick_candidates,
              connect_on_demand, writer_turned_up, no_writer_available, try_candidate, candidates_exhausted, send_close_ext, look_up, Step
  <2>1. UNCHANGED regVars
    BY <1>5, Zenon
  <2>2. \E pc \in SessPcs \ {"new", "done"} : sess' = [sess EXCEPT ![c] = pc]
    BY <1>5, Zenon DEF SessPcs
  <2>3. sess[c] \notin {"new", "done"}
    BY <1>5, Zenon
  <2>4. UNCHANGED Phase
    BY <2>2, <2>3, PhaseLive, Zenon
  <2> QED BY <2>1, <2>4 DEF regVars, BindingVars
<1> QED BY <1>1, <1>2, <1>3, <1>4, <1>5 DEF SessionStep

LEMMA OthersRefine ==
  ASSUME PoolInv, HealthStep \/ \E w \in Writers : WriterStep(w)
  PROVE  [Binding!Next]_BindingVars
<1> USE DEF HealthStep, prune_snapshot, prune_one, WriterStep, connect_push, connect_count,
            writer_io_error, writer_cancelled, writer_task_stops, reader_unregister, reader_ends,
            reader_retain, ping_fails, ping_cancelled, mark_writer_draining, stale_window_ends,
            drain_deadline, drain_found_empty
<1>1. UNCHANGED Phase
  <2>1. UNCHANGED sess
    BY ZenonT(60) DEF sessVars
  <2> QED BY <2>1, PhaseStutter, Zenon
<1>2. \/ UNCHANGED regVars
      \/ \E c \in Conns : unregister(c)
  BY Zenon
<1>3. CASE UNCHANGED regVars
  BY <1>1, <1>3, Zenon DEF regVars, BindingVars
<1>4. ASSUME NEW c \in Conns, unregister(c) PROVE [Binding!Next]_BindingVars
  BY <1>1, <1>4, UnregisterIsDrop, Zenon DEF PoolInv, RegInv, Binding!Next
<1> QED BY <1>2, <1>3, <1>4, Zenon

LEMMA RefStep == PoolInv /\ [Next]_vars => [Binding!Next]_BindingVars
<1>1. ASSUME UNCHANGED vars PROVE UNCHANGED BindingVars
  BY <1>1, PhaseStutter DEF vars, sessVars, regVars, BindingVars
<1> QED BY <1>1, RemoveRefines, SessionRefines, OthersRefine DEF Next

\* The pool keeps the promise of ConnBinding to every session: no binding is
\* overwritten, no writer's loss touches another writer's connections, and
\* nothing outlives the session.
THEOREM PoolImplementsBinding == Spec => BindingSpec
  BY RefInit, RefStep, PoolInvariant, PTL DEF Spec, BindingSpec, Binding!Spec, BindingVars
-----------------------------------------------------------------------------
(* The accounting of the removals.  The counters are compared with numbers *)
(* of writers, so the argument is about cardinalities.  conn_count wraps   *)
(* around at CountMod: the sum of CountAccounts is kept modulo CountMod,   *)
(* and a step moves both sides by one, up or down (WrapUp, WrapDown).      *)

-----------------------------------------------------------------------------
(* Arithmetic modulo the width of a counter.                               *)

LEMMA ModType ==
  ASSUME NEW m \in Nat \ {0}, NEW a \in Nat
  PROVE  a % m \in 0 .. m - 1 /\ a \div m \in Nat /\ a = m * (a \div m) + (a % m)
  OBVIOUS

LEMMA ModUnique ==
  ASSUME NEW m \in Nat \ {0}, NEW a \in Nat, NEW q \in Nat, NEW r \in 0 .. m - 1,
         a = m * q + r
  PROVE  a % m = r
<1> DEFINE p == a \div m
           s == a % m
<1>1. s \in 0 .. m - 1 /\ p \in Nat /\ a = m * p + s
  BY ModType
<1> SUFFICES s = r
  OBVIOUS
<1> HIDE DEF p, s
<1>2. CASE p = q
  BY <1>1, <1>2
<1>3. CASE p > q
  <2> DEFINE k == p - q - 1
  <2>1. k \in Nat /\ m * p = m * q + m + m * k /\ m * k \in Nat
    BY <1>1, <1>3
  <2> HIDE DEF k
  <2> QED BY <1>1, <2>1
<1>4. CASE p < q
  <2> DEFINE k == q - p - 1
  <2>1. k \in Nat /\ m * q = m * p + m + m * k /\ m * k \in Nat
    BY <1>1, <1>4
  <2> HIDE DEF k
  <2> QED BY <1>1, <2>1
<1> QED BY <1>1, <1>2, <1>3, <1>4

LEMMA ModAdd ==
  ASSUME NEW m \in Nat \ {0}, NEW a \in Nat
  PROVE  (a + m) % m = a % m
<1> DEFINE p == a \div m
           s == a % m
<1>1. s \in 0 .. m - 1 /\ p \in Nat /\ a = m * p + s
  BY ModType, Zenon
<1> HIDE DEF p, s
<1>2. a + m = m * (p + 1) + s
  BY <1>1
<1>3. (a + m) % m = s
  BY <1>1, <1>2, ModUnique
<1> QED BY <1>3 DEF s

LEMMA ModSucc ==
  ASSUME NEW m \in Nat \ {0}, NEW a \in Nat, NEW b \in Nat, a % m = b % m
  PROVE  (a + 1) % m = (b + 1) % m
<1> DEFINE p == a \div m
           q == b \div m
           s == a % m
<1>1. s \in 0 .. m - 1 /\ p \in Nat /\ a = m * p + s /\ q \in Nat /\ b = m * q + s
  BY ModType, Zenon
<1> HIDE DEF p, q, s
<1>2. CASE s + 1 < m
  <2>1. a + 1 = m * p + (s + 1) /\ b + 1 = m * q + (s + 1) /\ s + 1 \in 0 .. m - 1
    BY <1>1, <1>2
  <2> QED BY <1>1, <2>1, ModUnique
<1>3. CASE s + 1 = m
  <2>1. a + 1 = m * (p + 1) + 0 /\ b + 1 = m * (q + 1) + 0 /\ 0 \in 0 .. m - 1
    BY <1>1, <1>3
  <2>2. (a + 1) % m = 0 /\ (b + 1) % m = 0
    BY <1>1, <2>1, ModUnique
  <2> QED BY <2>2
<1> QED BY <1>1, <1>2, <1>3

\* One step up or down of a counter that wraps is one step of the number it
\* stands for, up to a whole turn.
LEMMA WrapUp ==
  ASSUME NEW m \in Nat \ {0}, NEW k \in 0 .. m - 1, NEW x \in Nat
  PROVE  (((k + 1) % m) + x) % m = (k + 1 + x) % m
<1>1. CASE k + 1 < m
  <2>1. (k + 1) % m = k + 1
    BY <1>1
  <2> QED BY <2>1
<1>2. CASE k + 1 = m
  <2>1. (k + 1) % m = 0
    BY <1>2
  <2>2. k + 1 + x = x + m
    BY <1>2
  <2>3. (x + m) % m = x % m
    BY ModAdd, Zenon
  <2> QED BY <2>1, <2>2, <2>3
<1> QED BY <1>1, <1>2

LEMMA WrapDown ==
  ASSUME NEW m \in Nat \ {0}, NEW k \in 0 .. m - 1, NEW x \in Nat
  PROVE  (((k + m - 1) % m) + (x + 1)) % m = (k + x) % m
<1>1. CASE k = 0
  <2>1. (k + m - 1) % m = m - 1
    BY <1>1
  <2>2. (m - 1) + (x + 1) = x + m
    OBVIOUS
  <2>3. (x + m) % m = x % m
    BY ModAdd, Zenon
  <2> QED BY <1>1, <2>1, <2>2, <2>3
<1>2. CASE k > 0
  <2>1. k - 1 \in Nat /\ k + m - 1 = (k - 1) + m /\ (k - 1) % m = k - 1
    BY <1>2
  <2>2. (k + m - 1) % m = k - 1
    BY <2>1, ModAdd, Zenon
  <2> QED BY <1>2, <2>2
<1> QED BY <1>1, <1>2

DrainingInPool == {w \in pool : draining[w] # "no"}

\* Only a pushed writer drains.
AccountInv ==
    /\ IsFiniteSet(born)
    /\ \A w \in Writers : draining[w] # "no" => w \in born
    /\ RemovalAccounted

\* The sets that are counted are finite.
LEMMA CountedFinite ==
  ASSUME TypeOK, IsFiniteSet(born)
  PROVE  /\ IsFiniteSet(pool) /\ IsFiniteSet(born \ pool) /\ IsFiniteSet(Uncounted)
         /\ IsFiniteSet(DrainingInPool)
         /\ Cardinality(born) \in Nat /\ Cardinality(born \ pool) \in Nat
         /\ Cardinality(Uncounted) \in Nat /\ Cardinality(DrainingInPool) \in Nat
  BY FS_Subset, FS_CardinalityType DEF TypeOK, Uncounted, DrainingInPool

LEMMA AccountStutter ==
  ASSUME AccountInv, UNCHANGED <<born, pool, draining, cntVars>>, Uncounted' = Uncounted
  PROVE  AccountInv'
  BY DEF AccountInv, RemovalAccounted, RemovedOnce, CountAccounts, DrainGaugeCovers, cntVars

\* The only step that counts a removal: the writer was in the pool and now is not.
LEMMA RemoveFromPoolAccount ==
  ASSUME PoolInv, AccountInv, NEW t \in Tasks, remove_from_pool(t)
  PROVE  AccountInv'
<1> DEFINE w == rm[t].w
<1>1. TypeOK /\ w \in Writers
  BY RunningCall DEF PoolInv, remove_from_pool, Calls
<1>2. CASE w \notin pool
  <2>1. UNCHANGED <<born, pool, draining, cntVars, reader>>
    BY <1>2, Zenon DEF remove_from_pool, wrVars, taskVars, cntVars
  <2>2. Uncounted' = Uncounted
    BY <2>1 DEF Uncounted
  <2> QED BY <2>1, <2>2, AccountStutter, SMTT(30)
<1>3. CASE w \in pool
  <2>1. /\ pool' = pool \ {w}
        /\ conn_count' = (conn_count + CountMod - 1) % CountMod
        /\ removed_total' = removed_total + 1
        /\ drain_active' = IF draining[w] # "no" /\ drain_active > 0
                           THEN drain_active - 1 ELSE drain_active
        /\ UNCHANGED <<born, draining, reader>>
    BY <1>3, Zenon DEF remove_from_pool, wrVars, taskVars
  <2>2. Uncounted' = Uncounted
    BY <2>1 DEF Uncounted
  <2>3. RemovedOnce'
    <3>1. w \in born /\ w \notin born \ pool /\ (born \ pool)' = (born \ pool) \cup {w}
      BY <1>1, <1>3, <2>1 DEF TypeOK
    <3>2. Cardinality((born \ pool)') = Cardinality(born \ pool) + 1
      BY <1>1, <3>1, CountedFinite, FS_AddElement, Zenon DEF AccountInv
    <3>3. removed_total \in Nat /\ Cardinality(born \ pool) \in Nat
      BY <1>1, CountedFinite, Zenon DEF AccountInv, TypeOK
    <3>4. removed_total <= Cardinality(born \ pool) /\ removed_total' = removed_total + 1
      BY <2>1 DEF AccountInv, RemovalAccounted, RemovedOnce
    <3>5. removed_total' <= Cardinality((born \ pool)')
      BY <3>2, <3>3, <3>4
    <3> QED BY <3>5, Zenon DEF RemovedOnce
  <2>4. CountAccounts'
    <3> DEFINE x == removed_total + Cardinality(Uncounted)
    <3>1. x \in Nat /\ conn_count \in 0 .. CountMod - 1 /\ removed_total \in Nat
           /\ Cardinality(Uncounted) \in Nat
      BY <1>1, CountedFinite, SMTT(30) DEF TypeOK, AccountInv
    <3>2. (conn_count' + (x + 1)) % CountMod = (conn_count + x) % CountMod
      BY <2>1, <3>1, PoolAssumption, WrapDown, Zenon
    <3>3. conn_count' \in Int
      BY <2>1, <3>1, PoolAssumption
    <3>4. conn_count' + (x + 1) = conn_count' + removed_total' + Cardinality(Uncounted')
      BY <2>1, <2>2, <3>1, <3>3
    <3>5. conn_count + x = conn_count + removed_total + Cardinality(Uncounted)
      BY <3>1
    <3> HIDE DEF x
    <3> QED BY <2>1, <3>2, <3>4, <3>5, Zenon DEF AccountInv, RemovalAccounted, CountAccounts
  <2>5. DrainGaugeCovers'
    <3>1. CASE draining[w] = "no"
      <4>1. DrainingInPool' = DrainingInPool
        BY <2>1, <3>1 DEF DrainingInPool
      <4> QED BY <2>1, <3>1, <4>1, Zenon DEF AccountInv, RemovalAccounted, DrainGaugeCovers, DrainingInPool
    <3>2. CASE draining[w] # "no"
      <4>1. w \in DrainingInPool /\ DrainingInPool' = DrainingInPool \ {w}
        BY <1>3, <2>1, <3>2 DEF DrainingInPool
      <4>2. Cardinality(DrainingInPool') = Cardinality(DrainingInPool) - 1
        BY <1>1, <4>1, CountedFinite, FS_RemoveElement, Zenon DEF AccountInv
      <4>3. drain_active >= Cardinality(DrainingInPool) /\ drain_active \in Nat
        BY <1>1 DEF AccountInv, RemovalAccounted, DrainGaugeCovers, DrainingInPool, TypeOK
      <4>4. Cardinality(DrainingInPool) \in Nat
        BY <1>1, CountedFinite, Zenon DEF AccountInv
      <4>5. drain_active' >= Cardinality(DrainingInPool')
        <5>1. CASE drain_active > 0
          BY <2>1, <3>2, <4>2, <4>3, <4>4, <5>1, SMTT(30)
        <5>2. CASE ~(drain_active > 0)
          <6>1. drain_active' = 0 /\ Cardinality(DrainingInPool) = 0
            BY <2>1, <4>3, <4>4, <5>2, SMTT(30)
          <6> QED BY <4>2, <6>1
        <5> QED BY <5>1, <5>2
      <4> QED BY <4>5 DEF DrainGaugeCovers, DrainingInPool
    <3> QED BY <3>1, <3>2
  <2> QED BY <2>1, <2>3, <2>4, <2>5, Zenon DEF AccountInv, RemovalAccounted
<1> QED BY <1>2, <1>3

\* A push adds a writer that is in the pool and not yet counted.
LEMMA PushAccount ==
  ASSUME PoolInv, AccountInv, NEW w \in Writers, connect_push(w)
  PROVE  AccountInv'
<1>1. /\ w \notin born /\ born' = born \cup {w} /\ pool' = pool \cup {w}
      /\ UNCHANGED <<draining, reader, cntVars>> /\ TypeOK
  BY DEF connect_push, taskVars, PoolInv
<1>2. IsFiniteSet(born') /\ Cardinality(born') = Cardinality(born) + 1
  BY <1>1, FS_AddElement DEF AccountInv
<1>3. RemovedOnce'
  <2>1. (born \ pool)' = born \ pool
    BY <1>1 DEF TypeOK
  <2> QED BY <1>1, <2>1 DEF AccountInv, RemovalAccounted, RemovedOnce, cntVars
<1>4. CountAccounts'
  <2>1. reader[w] = "none"
    BY <1>1, Zenon DEF PoolInv, SpawnedInv
  <2>2. Uncounted' = Uncounted \cup {w} /\ w \notin Uncounted
    BY <1>1, <2>1 DEF Uncounted
  <2>3. Cardinality(Uncounted') = Cardinality(Uncounted) + 1
    BY <1>1, <2>2, CountedFinite, FS_AddElement, Zenon DEF AccountInv
  <2> DEFINE s == conn_count + removed_total + Cardinality(Uncounted)
  <2>4. s \in Nat /\ Cardinality(born) \in Nat /\ Cardinality(Uncounted) \in Nat
         /\ conn_count \in Nat /\ removed_total \in Nat
    <3>1. conn_count \in 0 .. CountMod - 1 /\ removed_total \in Nat
      BY <1>1, Zenon DEF TypeOK
    <3>2. Cardinality(born) \in Nat /\ Cardinality(Uncounted) \in Nat
      BY <1>1, CountedFinite, Zenon DEF AccountInv
    <3> QED BY <3>1, <3>2, PoolAssumption
  <2>5. s % CountMod = Cardinality(born) % CountMod
    BY DEF AccountInv, RemovalAccounted, CountAccounts
  <2>6. conn_count' + removed_total' + Cardinality(Uncounted') = s + 1
    BY <1>1, <2>3, <2>4 DEF cntVars
  <2> HIDE DEF s
  <2>7. (s + 1) % CountMod = (Cardinality(born) + 1) % CountMod
    BY <2>4, <2>5, PoolAssumption, ModSucc, Zenon
  <2> QED BY <1>2, <2>6, <2>7 DEF CountAccounts
<1>5. DrainGaugeCovers'
  <2>1. DrainingInPool' = DrainingInPool
    BY <1>1 DEF AccountInv, DrainingInPool
  <2> QED BY <1>1, <2>1 DEF AccountInv, RemovalAccounted, DrainGaugeCovers, DrainingInPool, cntVars
<1> QED BY <1>1, <1>2, <1>3, <1>4, <1>5 DEF AccountInv, RemovalAccounted

\* The count follows the push; the writer stops being uncounted.
LEMMA CountAccount ==
  ASSUME PoolInv, AccountInv, NEW w \in Writers, connect_count(w)
  PROVE  AccountInv'
<1>1. /\ w \in born /\ reader[w] = "none" /\ TypeOK
      /\ conn_count' = (conn_count + 1) % CountMod
      /\ reader' = [reader EXCEPT ![w] = "loop"]
      /\ UNCHANGED <<born, pool, draining, removed_total, drain_active>>
  BY DEF connect_count, wrVars, PoolInv
<1>2. CountAccounts'
  <2>1. w \in Uncounted /\ Uncounted' = Uncounted \ {w}
    BY <1>1 DEF Uncounted, TypeOK
  <2>2. Cardinality(Uncounted') = Cardinality(Uncounted) - 1 /\ Cardinality(Uncounted') \in Nat
    BY <1>1, <2>1, CountedFinite, FS_RemoveElement, FS_CardinalityType, Zenon DEF AccountInv
  <2> DEFINE x == removed_total + Cardinality(Uncounted')
  <2>3. x \in Nat /\ conn_count \in 0 .. CountMod - 1 /\ removed_total \in Nat
         /\ Cardinality(Uncounted) \in Nat
    <3>1. conn_count \in 0 .. CountMod - 1 /\ removed_total \in Nat
      BY <1>1, Zenon DEF TypeOK
    <3>2. Cardinality(Uncounted) \in Nat
      BY <1>1, CountedFinite, Zenon DEF AccountInv
    <3> QED BY <2>2, <3>1, <3>2
  <2>4. (conn_count' + x) % CountMod = (conn_count + 1 + x) % CountMod
    BY <1>1, <2>3, PoolAssumption, WrapUp, Zenon
  <2>5. conn_count' \in Nat
    BY <1>1, <2>3, PoolAssumption, ModType
  <2>6. conn_count' + x = conn_count' + removed_total' + Cardinality(Uncounted')
    BY <1>1, <2>2, <2>3, <2>5
  <2>7. conn_count + 1 + x = conn_count + removed_total + Cardinality(Uncounted)
    BY <2>2, <2>3
  <2> HIDE DEF x
  <2> QED BY <1>1, <2>4, <2>6, <2>7 DEF AccountInv, RemovalAccounted, CountAccounts
<1> QED BY <1>1, <1>2 DEF AccountInv, RemovalAccounted, RemovedOnce, DrainGaugeCovers

\* The reader's retain takes a writer out of the pool and counts nothing.
LEMMA RetainAccount ==
  ASSUME PoolInv, AccountInv, NEW w \in Writers, reader_retain(w)
  PROVE  AccountInv'
<1>1. /\ reader[w] = "retain" /\ TypeOK /\ pool' = pool \ {w}
      /\ reader' = [reader EXCEPT ![w] = "done"]
      /\ UNCHANGED <<born, draining, cntVars>>
  BY DEF reader_retain, wrVars, PoolInv
<1>2. RemovedOnce'
  <2>1. born \ pool \subseteq (born \ pool)' /\ IsFiniteSet((born \ pool)')
    BY <1>1, FS_Subset DEF AccountInv
  <2>2. Cardinality(born \ pool) <= Cardinality((born \ pool)')
    BY <2>1, FS_Subset
  <2>3. Cardinality((born \ pool)') \in Nat
    BY <2>1, FS_CardinalityType
  <2>4. Cardinality(born \ pool) \in Nat
    BY <1>1, CountedFinite, Zenon DEF AccountInv
  <2>5. removed_total \in Nat /\ removed_total' = removed_total /\ RemovedOnce
    BY <1>1, Zenon DEF AccountInv, RemovalAccounted, cntVars, TypeOK
  <2> QED BY <2>2, <2>3, <2>4, <2>5 DEF RemovedOnce
<1>3. CountAccounts'
  <2>1. Uncounted' = Uncounted
    BY <1>1, Zenon DEF Uncounted, TypeOK
  <2> QED BY <1>1, <2>1 DEF AccountInv, RemovalAccounted, CountAccounts, cntVars
<1>4. DrainGaugeCovers'
  <2>1. DrainingInPool' \subseteq DrainingInPool
    BY <1>1 DEF DrainingInPool
  <2>2. Cardinality(DrainingInPool') <= Cardinality(DrainingInPool)
        /\ Cardinality(DrainingInPool') \in Nat
    BY <1>1, <2>1, CountedFinite, FS_Subset, FS_CardinalityType DEF AccountInv
  <2>3. Cardinality(DrainingInPool) \in Nat
    BY <1>1, CountedFinite, Zenon DEF AccountInv
  <2>4. drain_active \in Nat /\ drain_active' = drain_active
         /\ drain_active >= Cardinality(DrainingInPool)
    BY <1>1, Zenon DEF AccountInv, RemovalAccounted, DrainGaugeCovers, DrainingInPool, cntVars, TypeOK
  <2>5. drain_active' >= Cardinality(DrainingInPool')
    BY <2>2, <2>3, <2>4
  <2> QED BY <2>5, Zenon DEF DrainGaugeCovers, DrainingInPool
<1> QED BY <1>1, <1>2, <1>3, <1>4 DEF AccountInv, RemovalAccounted

\* A mark adds to the gauge at least what it adds to the draining writers.
LEMMA MarkAccount ==
  ASSUME PoolInv, AccountInv, NEW w \in Writers, NEW i \in Marks,
         NEW mode \in {"stale_ok", "stale_no"}, mark_writer_draining(w, i, mode)
  PROVE  AccountInv'
<1>1. /\ w \in pool /\ w \in born /\ TypeOK
      /\ draining' = [draining EXCEPT ![w] = mode]
      /\ drain_active' = IF draining[w] = "no" THEN drain_active + 1 ELSE drain_active
      /\ UNCHANGED <<born, pool, reader, conn_count, removed_total>>
  BY Zenon DEF mark_writer_draining, PoolInv, TypeOK
<1>2. Uncounted' = Uncounted
  BY <1>1 DEF Uncounted
<1>3. DrainGaugeCovers'
  <2>1. DrainingInPool' = DrainingInPool \cup {w}
    BY <1>1, Zenon DEF DrainingInPool, TypeOK
  <2>2. IsFiniteSet(DrainingInPool) /\ Cardinality(DrainingInPool) \in Nat
    BY <1>1, CountedFinite DEF AccountInv
  <2>3. \/ Cardinality(DrainingInPool') = Cardinality(DrainingInPool)
        \/ /\ draining[w] = "no"
           /\ Cardinality(DrainingInPool') = Cardinality(DrainingInPool) + 1
    <3>1. CASE w \in DrainingInPool
      <4>1. DrainingInPool' = DrainingInPool
        BY <3>1, <2>1
      <4> QED BY <4>1, Zenon
    <3>2. CASE w \notin DrainingInPool
      <4>1. draining[w] = "no"
        BY <3>2, <1>1 DEF DrainingInPool
      <4>2. Cardinality(DrainingInPool') = Cardinality(DrainingInPool) + 1
        BY <3>2, <2>1, <2>2, FS_AddElement, Zenon
      <4> QED BY <4>1, <4>2
    <3> QED BY <3>1, <3>2
  <2>4. drain_active \in Nat /\ drain_active >= Cardinality(DrainingInPool)
    BY <1>1, Zenon DEF AccountInv, RemovalAccounted, DrainGaugeCovers, DrainingInPool, TypeOK
  <2>5. drain_active' >= Cardinality(DrainingInPool')
    BY <1>1, <2>2, <2>3, <2>4
  <2> QED BY <2>5, Zenon DEF DrainGaugeCovers, DrainingInPool
<1> QED BY <1>1, <1>2, <1>3, Zenon DEF AccountInv, RemovalAccounted, RemovedOnce, CountAccounts, TypeOK

LEMMA StaleAccount ==
  ASSUME PoolInv, AccountInv, NEW w \in Writers, stale_window_ends(w)
  PROVE  AccountInv'
<1>1. /\ draining[w] = "stale_ok" /\ TypeOK
      /\ draining' = [draining EXCEPT ![w] = "stale_no"]
      /\ UNCHANGED <<born, pool, reader, cntVars>>
  BY DEF stale_window_ends, taskVars, PoolInv
<1>2. Uncounted' = Uncounted /\ DrainingInPool' = DrainingInPool
  BY <1>1, Zenon DEF Uncounted, DrainingInPool, TypeOK
<1> QED BY <1>1, <1>2, Zenon DEF AccountInv, RemovalAccounted, RemovedOnce, CountAccounts,
                          DrainGaugeCovers, DrainingInPool, TypeOK, cntVars

\* The other steps leave the counters, the pool and the drain marks alone.
LEMMA OthersAccount ==
  ASSUME PoolInv, AccountInv,
         \/ UNCHANGED vars
         \/ \E t \in Tasks : remove_from_registry(t) \/ \E c \in Conns : close_client(t, c)
         \/ \E c \in Conns : SessionStep(c)
         \/ \E w \in Writers :
               \/ writer_io_error(w) \/ writer_cancelled(w) \/ (\E c \in Conns : reader_unregister(w, c))
               \/ ping_fails(w) \/ ping_cancelled(w) \/ (\E i \in Marks : drain_deadline(w, i) \/ drain_found_empty(w, i))
         \/ HealthStep
  PROVE  AccountInv'
<1>1. UNCHANGED <<born, pool, draining, cntVars, reader>>
  BY ZenonT(60) DEF vars, remove_from_registry, close_client, SessionStep, open_session, client_frame, client_eof,
         client_error, send_again, send_bound, pick_candidates, connect_on_demand, writer_turned_up, no_writer_available, try_candidate,
         candidates_exhausted, bind_session, send_close_ext, send_close_unregister, close_session,
         look_up, writer_io_error, writer_cancelled, writer_task_stops, reader_unregister, ping_fails,
         ping_cancelled, drain_deadline, drain_found_empty, HealthStep, prune_snapshot, prune_one,
         wrVars, taskVars
<1>2. Uncounted' = Uncounted
  BY <1>1 DEF Uncounted
<1> QED BY <1>1, <1>2, AccountStutter

LEMMA ReaderEndsAccount ==
  ASSUME PoolInv, AccountInv, NEW w \in Writers, reader_ends(w)
  PROVE  AccountInv'
<1>1. UNCHANGED <<born, pool, draining, cntVars>>
  BY DEF reader_ends, wrVars
<1>2. Uncounted' = Uncounted
  BY Zenon DEF reader_ends, wrVars, Uncounted, PoolInv, TypeOK
<1> QED BY <1>1, <1>2, AccountStutter

LEMMA AccountInit == Init => AccountInv
<1> SUFFICES ASSUME Init PROVE AccountInv
  OBVIOUS
<1>1. born = {} /\ pool = {} /\ conn_count = 0 /\ removed_total = 0 /\ drain_active = 0
  BY DEF Init
<1>2. Uncounted = {} /\ born \ pool = {} /\ {w \in pool : draining[w] # "no"} = {}
  BY <1>1 DEF Uncounted
<1>3. IsFiniteSet({}) /\ Cardinality({}) = 0
  BY FS_EmptySet
<1> QED BY <1>1, <1>2, <1>3, SMTT(30) DEF Init, AccountInv, RemovalAccounted, RemovedOnce, CountAccounts, DrainGaugeCovers

LEMMA AccountStep == PoolInv /\ AccountInv /\ [Next]_vars => AccountInv'
<1> SUFFICES ASSUME PoolInv, AccountInv, [Next]_vars PROVE AccountInv'
  OBVIOUS
<1>1. ASSUME NEW t \in Tasks, RemoveStep(t) PROVE AccountInv'
  BY <1>1, RemoveFromPoolAccount, OthersAccount DEF RemoveStep
<1>2. ASSUME NEW w \in Writers, WriterStep(w) PROVE AccountInv'
  BY <1>2, PushAccount, CountAccount, RetainAccount, MarkAccount, StaleAccount, ReaderEndsAccount,
     OthersAccount, Zenon DEF WriterStep
<1> QED BY <1>1, <1>2, OthersAccount DEF Next

\* However many tasks remove a writer at once its removal is counted once,
\* conn_count agrees with pushes and removals although it may wrap below zero, and
\* the draining gauge never reads less than the writers that drain.
THEOREM RemovalIsAccounted == Spec => []RemovalAccounted
<1>1. AccountInv => RemovalAccounted
  BY DEF AccountInv
<1> QED BY <1>1, AccountInit, AccountStep, PoolInvariant, PTL DEF Spec
====
