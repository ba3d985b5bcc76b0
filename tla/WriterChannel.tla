--------------------------- MODULE WriterChannel ---------------------------
(***************************************************************************)
(* The bounded command channel of one Middle-End writer, and everyone who  *)
(* waits on it: the sessions bound to the writer (send.rs), its reader,    *)
(* which answers RPC pings (reader.rs), its ping task, and whoever removes *)
(* the writer from the pool (pool_writer.rs).  MePool takes the channel to *)
(* be as long as it needs to be; here it has Capacity slots, a write may   *)
(* stall, and a sender that finds no slot is suspended, the removers       *)
(* included.                                                               *)
(***************************************************************************)
EXTENDS Naturals, Sequences, SequencesExt

CONSTANTS
    Sessions,   \* sessions bound to the writer
    Capacity    \* slots of the channel (4096 in the code)

ASSUME CapacityAssumption == Capacity \in Nat \ {0}

VARIABLES
    queue,          \* the commands in the channel: "data" or "close"
    waiting,        \* tokio's queue of the tasks suspended in send().await
    task,           \* the writing task: "recv", "write" or "stopped"
    stalled,        \* the Middle-End does not read
    cancelled,      \* the writer's cancellation token
    pooled,         \* the writer is listed in MePool::writers
    cleanup_done,   \* the flag the reader and the ping task race for
    bound,          \* the registry still binds sessions to the writer
    at              \* where each task is

chanVars == <<queue, waiting, task, stalled, cancelled, pooled, cleanup_done, bound, at>>

\* "drain" is any other task that removes the writer: a drain, the health monitor.
Tasks == Sessions \cup {"reader", "ping", "drain"}
Places == {"idle", "send", "remove", "closing", "close", "lost", "end"}

Closed == task = "stopped"

----------------------------------------------------------------------------
has_room == Len(queue) < Capacity

\* Sender::send: at once, suspended behind the others, or refused by a closed channel.
channel_send(t, cmd, suspended, sent, refused) ==
    \/ /\ Closed
       /\ at' = [at EXCEPT ![t] = refused] /\ UNCHANGED <<queue, waiting>>
    \/ /\ ~Closed /\ has_room /\ waiting = <<>>
       /\ queue' = Append(queue, cmd)
       /\ at' = [at EXCEPT ![t] = sent] /\ UNCHANGED waiting
    \/ /\ ~Closed /\ (~has_room \/ waiting # <<>>)
       /\ waiting' = Append(waiting, t)
       /\ at' = [at EXCEPT ![t] = suspended] /\ UNCHANGED queue

\* A slot is free: the task that has waited longest gets it.
slot_granted ==
    /\ ~Closed /\ waiting # <<>> /\ has_room
    /\ LET t == Head(waiting) IN
        /\ queue' = Append(queue, IF at[t] = "close" THEN "close" ELSE "data")
        /\ at' = [at EXCEPT ![t] = IF @ = "close" THEN "lost" ELSE "idle"]
    /\ waiting' = Tail(waiting)
    /\ UNCHANGED <<task, stalled, cancelled, pooled, cleanup_done, bound>>

----------------------------------------------------------------------------
\* send_proxy_req of a session that has a writer; a failure makes it a remover.
session_sends(s) ==
    /\ at[s] = "idle" /\ bound
    /\ channel_send(s, "data", "send", "idle", "remove")
    /\ UNCHANGED <<task, stalled, cancelled, pooled, cleanup_done, bound>>

\* reader_loop answers an RPC_PING; a failure only leaves the loop over the frames.
reader_pong ==
    /\ at["reader"] = "idle"
    /\ channel_send("reader", "data", "send", "idle", "idle")
    /\ UNCHANGED <<task, stalled, cancelled, pooled, cleanup_done, bound>>

\* reader_loop returns, on an error of the socket or since it is cancelled; it is
\* not while it waits for a slot.  The loser of the race drops the entry at once.
reader_ends ==
    /\ at["reader"] = "idle"
    /\ cleanup_done' = TRUE
    /\ at' = [at EXCEPT !["reader"] = IF cleanup_done THEN "end" ELSE "remove"]
    /\ pooled' = (pooled /\ ~cleanup_done)
    /\ UNCHANGED <<queue, waiting, task, stalled, cancelled, bound>>

\* What the ping task does when its ping is refused.
ping_refused ==
    /\ cancelled' = TRUE /\ cleanup_done' = TRUE
    /\ at' = [at EXCEPT !["ping"] = IF cleanup_done THEN "end" ELSE "remove"]

\* The timer of the ping task.
ping_tick ==
    /\ at["ping"] = "idle"
    /\ \/ Closed /\ ping_refused /\ UNCHANGED <<queue, waiting>>
       \/ /\ ~Closed /\ channel_send("ping", "data", "send", "idle", "idle")
          /\ UNCHANGED <<cancelled, cleanup_done>>
    /\ UNCHANGED <<task, stalled, pooled, bound>>

ping_cancelled ==
    /\ at["ping"] = "idle" /\ cancelled
    /\ at' = [at EXCEPT !["ping"] = "end"]
    /\ UNCHANGED <<queue, waiting, task, stalled, cancelled, pooled, cleanup_done, bound>>

\* The channel has closed: a suspended task gets its error.
send_refused(t) ==
    /\ Closed /\ Contains(waiting, t)
    /\ waiting' = SelectSeq(waiting, LAMBDA u : u # t)
    /\ IF t = "ping" THEN ping_refused
       ELSE /\ at' = [at EXCEPT ![t] = CASE @ = "close" -> "lost"
                                         [] t = "reader" -> "idle"
                                         [] OTHER -> "remove"]
            /\ UNCHANGED <<cancelled, cleanup_done>>
    /\ UNCHANGED <<queue, task, stalled, pooled, bound>>

----------------------------------------------------------------------------
\* Another task starts to remove the writer.
drain_begins ==
    /\ at["drain"] = "idle"
    /\ at' = [at EXCEPT !["drain"] = "remove"]
    /\ UNCHANGED <<queue, waiting, task, stalled, cancelled, pooled, cleanup_done, bound>>

\* remove_writer_only, under the lock: the first remover takes the entry and cancels.
remove_writer_only(t) ==
    /\ at[t] = "remove"
    /\ pooled' = FALSE
    /\ cancelled' = (cancelled \/ pooled)
    /\ at' = [at EXCEPT ![t] = IF pooled THEN "closing" ELSE "lost"]
    /\ UNCHANGED <<queue, waiting, task, stalled, cleanup_done, bound>>

\* ... then it sends Close, and is suspended like any sender.
send_close_command(t) ==
    /\ at[t] = "closing"
    /\ channel_send(t, "close", "close", "lost", "lost")
    /\ UNCHANGED <<task, stalled, cancelled, pooled, cleanup_done, bound>>

\* registry.writer_lost and the closing of the clients; the reader drops the entry.
writer_lost(t) ==
    /\ at[t] = "lost"
    /\ bound' = FALSE
    /\ at' = [at EXCEPT ![t] = "end"]
    /\ pooled' = (pooled /\ t # "reader")
    /\ UNCHANGED <<queue, waiting, task, stalled, cancelled, cleanup_done>>

----------------------------------------------------------------------------
\* The writing task takes a command, or sees the token; select! takes either.
task_recv ==
    /\ task = "recv"
    /\ \/ /\ queue # <<>> /\ Head(queue) = "data"
          /\ task' = "write" /\ queue' = Tail(queue)
       \/ /\ (queue # <<>> /\ Head(queue) = "close") \/ cancelled
          /\ task' = "stopped" /\ queue' = <<>>
    /\ UNCHANGED <<waiting, stalled, cancelled, pooled, cleanup_done, bound, at>>

\* A slip: without TCP_USER_TIMEOUT a write to a peer that does not read never ends.
task_written_in_time ==
    /\ task = "write" /\ ~stalled
    /\ \/ task' = "recv" /\ UNCHANGED queue
       \/ task' = "stopped" /\ queue' = <<>>
    /\ UNCHANGED <<waiting, stalled, cancelled, pooled, cleanup_done, bound, at>>

\* The write ends: it is done if the peer reads, it fails when the connection
\* breaks or TCP_USER_TIMEOUT passes.  The token is not looked at meanwhile.
task_written ==
    /\ task = "write"
    /\ \/ ~stalled /\ task' = "recv" /\ UNCHANGED queue
       \/ task' = "stopped" /\ queue' = <<>>
    /\ UNCHANGED <<waiting, stalled, cancelled, pooled, cleanup_done, bound, at>>

\* The Middle-End stops or resumes reading.
peer_stalls ==
    /\ stalled' = ~stalled
    /\ UNCHANGED <<queue, waiting, task, cancelled, pooled, cleanup_done, bound, at>>

----------------------------------------------------------------------------
\* A writer just connected, with its sessions bound.
ChannelInit ==
    /\ queue = <<>> /\ waiting = <<>> /\ task = "recv" /\ stalled = FALSE
    /\ cancelled = FALSE /\ pooled = TRUE /\ cleanup_done = FALSE /\ bound = TRUE
    /\ at = [t \in Tasks |-> "idle"]

RemovalStep(t) == remove_writer_only(t) \/ send_close_command(t) \/ writer_lost(t)

ChannelNext ==
    \/ slot_granted
    \/ \E s \in Sessions : session_sends(s)
    \/ reader_pong \/ reader_ends
    \/ ping_tick \/ ping_cancelled
    \/ \E t \in Tasks : send_refused(t) \/ RemovalStep(t)
    \/ drain_begins
    \/ task_recv \/ task_written
    \/ peer_stalls

----------------------------------------------------------------------------
\* Every value is of its kind, the channel never holds more than its capacity, and
\* exactly the tasks suspended in send().await wait for a slot, once each.
ChannelTypeOK ==
    /\ queue \in Seq({"data", "close"}) /\ Len(queue) <= Capacity
    /\ task \in {"recv", "write", "stopped"} /\ at \in [Tasks -> Places]
    /\ {stalled, cancelled, pooled, cleanup_done, bound} \subseteq BOOLEAN
    /\ ToSet(waiting) = {t \in Tasks : at[t] \in {"send", "close"}}
    /\ IsInjective(waiting)

\* No task stays suspended on the channel for ever, a remover with its Close
\* included, though the peer may never read again and the writing task does not
\* look at the token while it writes.
SendersServed == \A t \in Tasks : []<>(at[t] \notin {"send", "close"})

\* When the writer has left the pool, or its writing task has stopped, the sessions
\* bound to it are released in the end, whoever removes it and whichever of the
\* reader and the ping task wins the race for the clean-up.
BindingsReleased == []<>((pooled /\ ~Closed) \/ ~bound)

\* Nobody is stuck on the command channel: every suspended sender and remover
\* goes on, and the sessions of a writer that is gone are released.
NobodyStuck == SendersServed /\ BindingsReleased
=============================================================================
