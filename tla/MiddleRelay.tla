---------------------------- MODULE MiddleRelay -----------------------------
(***************************************************************************)
(* One client session over a middle proxy (proxy/middle_relay.rs): the     *)
(* loop that reads the client, the task that sends its frames to the       *)
(* middle proxy, the task that writes the answers to the client, and the   *)
(* tasks of the pool that route answers to the session (reader.rs and the  *)
(* clean-up of a lost writer, through registry.rs).                        *)
(*                                                                         *)
(* Frames of the client and answers of the middle proxy are numbered.  How *)
(* a frame reaches a writer is the subject of MePool; here a send succeeds *)
(* or fails.                                                               *)
(***************************************************************************)
EXTENDS Integers, Sequences, FiniteSets

CONSTANTS MaxFrames,     \* bound: frames a client sends
          MaxAnswers,    \* bound: answers a middle proxy sends
          Workloads,     \* how many of them, whether the writer may be lost, and whether
                         \* the client sees that its stream was dropped
          C2MeCap,       \* C2ME_CHANNEL_CAPACITY
          RouteCap,      \* ROUTE_CHANNEL_CAPACITY
          PendingCap,    \* answers the CryptoWriter can hold unsent
          None

ASSUME MiddleRelayAssumption ==
    /\ {MaxFrames, MaxAnswers} \subseteq Nat
    /\ {C2MeCap, RouteCap, PendingCap} \subseteq Nat \ {0}
    /\ \A w \in Workloads : /\ w.frames \in 0..MaxFrames /\ w.answers \in 0..MaxAnswers
                            /\ {w.lost, w.fin} \subseteq BOOLEAN

Routers == {"reader", "cleaner"}
Answers == [n : 1..MaxAnswers, kind : {"data", "ack"}]
Close == [n |-> 0, kind |-> "close"]
Messages == Answers \cup {Close}
Commands == (1..MaxFrames) \cup {MaxFrames + 1}
CloseCmd == MaxFrames + 1     \* C2MeCommand::Close

VARIABLES
    load,                                   \* the workload
    mpc, read, clientClosed,                \* the main loop, frames read
    spc, scmd, c2me,                        \* c2me_sender and its channel
    forwarded,                              \* what the middle proxy was sent
    wpc, wmsg, meq,                         \* me_writer and its channel
    stopSent, registered,
    rpc, rmsg, waiters, answered,           \* the routing tasks, senders that wait for room
    out, flushed,                           \* answers written, and how many have left
    stalled                                 \* the client does not read

mainVars == <<mpc, read, clientClosed>>
senderVars == <<spc, scmd, c2me, forwarded>>
writerVars == <<wpc, wmsg, out, flushed>>
routeVars == <<meq, registered, rpc, rmsg, waiters, answered>>
envVars == <<stalled, load>>
middleVars == <<mainVars, senderVars, writerVars, routeVars, stopSent, envVars>>

Mpcs == {"read", "enqueue", "close", "join", "joinw", "done"}
Spcs == {"recv", "send", "done"}
Wpcs == {"select", "data", "ack", "batch", "batched_ack", "flush", "close", "done"}
Rpcs == {"idle", "try", "wait", "unregister", "closing"}

(* The variables have their types; the channels stay within their bounds.  *)
MiddleTypeOK ==
    /\ load \in Workloads /\ mpc \in Mpcs /\ read \in 0..MaxFrames
    /\ {clientClosed, stopSent, registered, stalled} \subseteq BOOLEAN
    /\ spc \in Spcs /\ scmd \in 0..CloseCmd /\ c2me \in Seq(Commands) /\ Len(c2me) <= C2MeCap
    /\ forwarded \in Seq(Commands)
    /\ wpc \in Wpcs /\ wmsg \in Messages \cup {None}
    /\ meq \in Seq(Messages) /\ Len(meq) <= RouteCap
    /\ rpc \in [Routers -> Rpcs] /\ rmsg \in [Routers -> Messages \cup {None}]
    /\ waiters \in Seq(Routers) /\ answered \in 0..MaxAnswers
    /\ out \in Seq(1..MaxAnswers) /\ flushed \in 0..Len(out)

MiddleInit ==
    /\ load \in Workloads /\ mpc = "read" /\ read = 0 /\ clientClosed = FALSE
    /\ spc = "recv" /\ scmd = 0 /\ c2me = <<>> /\ forwarded = <<>>
    /\ wpc = "select" /\ wmsg = None /\ out = <<>> /\ flushed = 0
    /\ meq = <<>> /\ registered = TRUE
    /\ rpc = [r \in Routers |-> "idle"] /\ rmsg = [r \in Routers |-> None]
    /\ waiters = <<>> /\ answered = 0 /\ stopSent = FALSE
    /\ stalled = FALSE

-----------------------------------------------------------------------------
(* The main loop                                                           *)

MainTo(pc) == mpc' = pc /\ UNCHANGED <<routeVars, writerVars, envVars>>

(* read_client_payload returns a frame, the end of the stream, or an error *)
(* (a frame of a wrong size, a broken stream).                             *)
client_frame ==
    /\ mpc = "read" /\ read < load.frames
    /\ read' = read + 1 /\ MainTo("enqueue")
    /\ UNCHANGED <<clientClosed, senderVars, stopSent>>

client_eof ==
    /\ mpc = "read" /\ clientClosed' = TRUE /\ MainTo("close")
    /\ UNCHANGED <<read, senderVars, stopSent>>

client_error ==
    /\ mpc = "read" /\ MainTo("join")
    /\ UNCHANGED <<read, clientClosed, senderVars, stopSent>>

(* A send waits for room, and fails once the sender task has dropped the   *)
(* receiver.                                                               *)
enqueue_c2me_command(cmd) == Len(c2me) < C2MeCap /\ c2me' = Append(c2me, cmd)

enqueue_data ==
    /\ mpc = "enqueue"
    /\ \/ spc # "done" /\ enqueue_c2me_command(read) /\ MainTo("read")
       \/ spc = "done" /\ UNCHANGED c2me /\ MainTo("join")
    /\ UNCHANGED <<read, clientClosed, spc, scmd, forwarded, stopSent>>

enqueue_close ==
    /\ mpc = "close" /\ MainTo("join")
    /\ \/ spc # "done" /\ enqueue_c2me_command(CloseCmd)
       \/ spc = "done" /\ UNCHANGED c2me
    /\ UNCHANGED <<read, clientClosed, spc, scmd, forwarded, stopSent>>

stop_not_sent ==
    /\ mpc = "join" /\ spc = "done" /\ MainTo("joinw")
    /\ UNCHANGED <<read, clientClosed, senderVars, stopSent>>

(* The sender is awaited before the writer is told to stop.                *)
join_sender ==
    /\ mpc = "join" /\ spc = "done" /\ MainTo("joinw") /\ stopSent' = TRUE
    /\ UNCHANGED <<read, clientClosed, senderVars>>

join_writer ==
    /\ mpc = "joinw" /\ wpc = "done" /\ mpc' = "done" /\ registered' = FALSE
    /\ UNCHANGED <<read, clientClosed, senderVars, writerVars, stopSent, envVars,
                   meq, rpc, rmsg, waiters, answered>>

-----------------------------------------------------------------------------
(* c2me_sender                                                             *)

SenderTo(pc) == spc' = pc /\ UNCHANGED <<mainVars, writerVars, routeVars, stopSent, envVars>>

sender_recv ==
    /\ spc = "recv" /\ c2me # <<>>
    /\ scmd' = Head(c2me) /\ c2me' = Tail(c2me) /\ SenderTo("send") /\ UNCHANGED forwarded

(* send_proxy_req or send_close; an error of the former ends the task, and *)
(* so does the latter in any case.                                         *)
sender_send ==
    /\ spc = "send" /\ scmd' = 0
    /\ \/ /\ forwarded' = Append(forwarded, scmd)
          /\ SenderTo(IF scmd = CloseCmd THEN "done" ELSE "recv")
       \/ SenderTo("done") /\ UNCHANGED forwarded
    /\ UNCHANGED c2me

(* recv returns None once the main loop has dropped its end.               *)
sender_ends ==
    /\ spc = "recv" /\ c2me = <<>> /\ mpc \notin {"read", "enqueue", "close"}
    /\ SenderTo("done") /\ UNCHANGED <<scmd, c2me, forwarded>>

-----------------------------------------------------------------------------
(* me_writer                                                               *)

WriterTo(pc) ==
    /\ wpc' = pc
    /\ UNCHANGED <<mainVars, senderVars, stopSent, envVars, registered, rpc, rmsg, answered>>

(* Room in the channel goes to the sender that has waited longest.         *)
Receive ==
    /\ meq # <<>> /\ wmsg' = Head(meq) /\ meq' = Tail(meq)
    /\ UNCHANGED <<waiters, out, flushed>>

KeepQueue == UNCHANGED <<meq, waiters>>

(* The answer in hand goes to the CryptoWriter, which takes it unless its  *)
(* buffer is full and the client does not read.                            *)
WriteMsg ==
    /\ ~stalled \/ Len(out) - flushed < PendingCap
    /\ out' = Append(out, wmsg.n) /\ wmsg' = None /\ KeepQueue

writer_recv ==
    /\ wpc = "select" /\ Receive
    /\ WriterTo(Head(meq).kind)

(* Once the channel is closed and empty recv returns None.                 *)
ChannelClosed ==
    /\ meq = <<>> /\ waiters = <<>> /\ ~registered
    /\ \A r \in Routers : rpc[r] # "try"

writer_lost ==
    /\ wpc = "select" /\ ChannelClosed
    /\ WriterTo("done") /\ UNCHANGED <<wmsg, out, flushed>> /\ KeepQueue

writer_stop ==
    /\ wpc = "select" /\ stopSent
    /\ WriterTo("done") /\ UNCHANGED <<wmsg, out, flushed>> /\ KeepQueue

write_client_payload ==
    /\ wpc = "data" /\ WriteMsg /\ WriterTo("batch") /\ UNCHANGED flushed

(* The messages that are already queued follow without a flush.            *)
batch_next ==
    /\ wpc = "batch" /\ Receive
    /\ WriterTo(IF Head(meq).kind = "ack" THEN "batched_ack" ELSE Head(meq).kind)

batch_ends ==
    /\ wpc = "batch" /\ meq = <<>>
    /\ WriterTo("flush") /\ UNCHANGED <<wmsg, out, flushed>> /\ KeepQueue

(* write_client_ack writes and flushes.                                    *)
write_client_ack ==
    /\ wpc \in {"ack", "batched_ack"} /\ ~stalled /\ WriteMsg
    /\ flushed' = Len(out')
    /\ WriterTo(IF wpc = "ack" THEN "select" ELSE "batch")

writer_flush ==
    /\ wpc = "flush" /\ ~stalled /\ flushed' = Len(out)
    /\ WriterTo("select") /\ UNCHANGED <<wmsg, out>> /\ KeepQueue

writer_close ==
    /\ wpc = "close" /\ ~stalled /\ flushed' = Len(out) /\ wmsg' = None
    /\ WriterTo("done") /\ UNCHANGED out /\ KeepQueue

(* The stream to the client breaks in a write or a flush.                  *)
writer_fails ==
    /\ wpc \in {"data", "ack", "batched_ack", "flush", "close"} /\ wmsg' = None
    /\ WriterTo("done") /\ UNCHANGED <<out, flushed>> /\ KeepQueue

-----------------------------------------------------------------------------
(* Routing: the reader of the writer's connection, and the task that       *)
(* cleans up after the writer                                              *)

RouterTo(r, pc) ==
    /\ rpc' = [rpc EXCEPT ![r] = pc]
    /\ UNCHANGED <<mainVars, senderVars, writerVars, stopSent, envVars>>

(* The sender is cloned under the read lock and used after it.             *)
Route(r, msg) ==
    /\ rmsg' = [rmsg EXCEPT ![r] = msg]
    /\ RouterTo(r, IF registered THEN "try" ELSE "unregister")
    /\ UNCHANGED <<meq, registered, waiters>>

(* RPC_PROXY_ANS, RPC_SIMPLE_ACK; RPC_CLOSE_EXT and RPC_CLOSE_CONN.        *)
reader_answer ==
    /\ rpc["reader"] = "idle" /\ answered < load.answers /\ answered' = answered + 1
    /\ \E k \in {"data", "ack"} : Route("reader", [n |-> answered', kind |-> k])

reader_close ==
    /\ rpc["reader"] = "idle" /\ registered /\ Route("reader", Close) /\ UNCHANGED answered

(* remove_writer_and_close_clients.                                        *)
cleaner_close ==
    /\ load.lost /\ rpc["cleaner"] = "idle" /\ registered
    /\ Route("cleaner", Close) /\ UNCHANGED answered

route_try(r) ==
    /\ rpc[r] = "try"
    /\ \/ /\ wpc = "done" /\ RouterTo(r, "unregister") /\ UNCHANGED <<meq, rmsg, waiters>>
       \/ /\ wpc # "done" /\ Len(meq) < RouteCap /\ waiters = <<>>
          /\ meq' = Append(meq, rmsg[r])
          /\ rmsg' = [rmsg EXCEPT ![r] = IF rmsg[r] = Close THEN Close ELSE None]
          /\ RouterTo(r, IF rmsg[r] = Close THEN "unregister" ELSE "idle") /\ UNCHANGED waiters
       \/ /\ wpc # "done" /\ ~(Len(meq) < RouteCap /\ waiters = <<>>)
          /\ waiters' = Append(waiters, r) /\ RouterTo(r, "wait") /\ UNCHANGED <<meq, rmsg>>
    /\ UNCHANGED <<registered, answered>>

Leave(r) == waiters' = SelectSeq(waiters, LAMBDA q : q # r)

route_sent(r) ==
    /\ rpc[r] = "wait" /\ Head(waiters) = r /\ wpc # "done" /\ Len(meq) < RouteCap
    /\ meq' = Append(meq, rmsg[r]) /\ Leave(r)
    /\ rmsg' = [rmsg EXCEPT ![r] = IF rmsg[r] = Close THEN Close ELSE None]
    /\ RouterTo(r, IF rmsg[r] = Close THEN "unregister" ELSE "idle")
    /\ UNCHANGED <<registered, answered>>

route_channel_closed(r) ==
    /\ rpc[r] = "wait" /\ wpc = "done"
    /\ Leave(r) /\ RouterTo(r, "unregister") /\ UNCHANGED <<meq, registered, rmsg, answered>>

route_timeout_skips(r) ==
    /\ rpc[r] = "wait" /\ Leave(r) /\ rmsg' = [rmsg EXCEPT ![r] = None]
    /\ RouterTo(r, "idle") /\ UNCHANGED <<meq, registered, answered>>

(* The base or the high timeout of a full channel: QueueFullBase/High.     *)
route_timeout(r) ==
    /\ rpc[r] = "wait" /\ Leave(r) /\ RouterTo(r, "unregister")
    /\ UNCHANGED <<meq, registered, rmsg, answered>>

(* After an answer that was not routed, and after every close.            *)
route_unregister(r) ==
    /\ rpc[r] = "unregister" /\ registered' = FALSE
    /\ rmsg' = [rmsg EXCEPT ![r] = None]
    /\ RouterTo(r, IF rmsg[r] = Close THEN "idle" ELSE "closing")
    /\ UNCHANGED <<meq, waiters, answered>>

(* Of an answer that was not routed the middle proxy is told: the reader   *)
(* waits for room in the channel of its own writer, which WriterChannel    *)
(* models.                                                                 *)
send_close_conn(r) ==
    /\ rpc[r] = "closing" /\ RouterTo(r, "idle")
    /\ UNCHANGED <<meq, registered, rmsg, waiters, answered>>

-----------------------------------------------------------------------------
(* The client                                                              *)

client_stalls == ~stalled /\ stalled' = TRUE /\ UNCHANGED <<mainVars, senderVars, writerVars, routeVars, stopSent, load>>
client_resumes == stalled /\ stalled' = FALSE /\ UNCHANGED <<mainVars, senderVars, writerVars, routeVars, stopSent, load>>

(* A client that sees the end of the stream closes its side.               *)
client_follows_fin == load.fin /\ wpc = "done" /\ client_eof

RouterStep(r) ==
    \/ route_try(r) \/ route_sent(r) \/ route_channel_closed(r)
    \/ route_timeout(r) \/ route_unregister(r)

MainStep == enqueue_data \/ enqueue_close \/ join_sender \/ join_writer
SenderStep == sender_recv \/ sender_send \/ sender_ends
WriterStep ==
    \/ writer_recv \/ writer_lost \/ writer_stop \/ write_client_payload \/ batch_next \/ batch_ends
    \/ write_client_ack \/ writer_flush \/ writer_close

MiddleNext ==
    \/ client_frame \/ client_eof \/ client_error \/ MainStep
    \/ SenderStep \/ WriterStep \/ writer_fails
    \/ reader_answer \/ reader_close \/ cleaner_close
    \/ \E r \in Routers : RouterStep(r) \/ send_close_conn(r)
    \/ client_stalls \/ client_resumes

(* The tasks run, and a client that reads again and again lets a write     *)
(* through; the client and the middle proxy need not do anything, and the  *)
(* channel to the middle proxy need not get room.                          *)
MiddleFairness ==
    /\ WF_middleVars(MainStep) /\ WF_middleVars(SenderStep) /\ SF_middleVars(WriterStep)
    /\ \A r \in Routers : WF_middleVars(RouterStep(r))
    /\ WF_middleVars(client_follows_fin)

MiddleSpec == MiddleInit /\ [][MiddleNext]_middleVars /\ MiddleFairness

-----------------------------------------------------------------------------
(* NoGap: both directions keep the order and leave nothing out in the      *)
(* middle: what reaches the other side is a prefix of what was sent, also  *)
(* when answers are dropped on a full channel.                             *)
NoGap ==
    /\ \A i \in 1..Len(out) : out[i] = i
    /\ \A i \in 1..Len(forwarded) : forwarded[i] \in {i, CloseCmd}

(* CloseAfterData: the close that follows the client's end of stream       *)
(* reaches the middle proxy after every frame that was read.               *)
CloseAfterData ==
    \A i \in 1..Len(forwarded) : forwarded[i] = CloseCmd => i = Len(forwarded) /\ i = read + 1

(* FlushedWhenIdle: while me_writer waits for answers nothing it has       *)
(* written is still buffered, so the stop signal, which ends it without a  *)
(* flush, loses nothing.                                                   *)
FlushedWhenIdle == wpc = "select" => flushed = Len(out)

(* RelayReturns: once the client is gone or its stream is broken the relay *)
(* joins its tasks and returns, unless the client stalls for ever.         *)
RelayReturns == []<>(mpc \notin {"join", "joinw"}) \/ <>[]stalled

(* ReaderFree: a client that does not read never stops the reader, which   *)
(* serves the other sessions of the writer; only the full channel of its   *)
(* own writer, towards the middle proxy, can.                              *)
ReaderFree == []<>(rpc["reader"] = "idle") \/ <>[](rpc["reader"] = "closing")

(* MeCloseEndsRelay: when the pool has taken the session out of the        *)
(* registry, the client is told and the relay returns, provided the client *)
(* can see that its stream was dropped and reads.                          *)
MeCloseEndsRelay == []<>(~registered /\ load.fin => mpc = "done") \/ <>[]stalled

(* BytesInOrder: both directions of a session are free of gaps, Close      *)
(* comes behind all data, and the stop signal finds nothing unflushed.     *)
BytesInOrder == NoGap /\ CloseAfterData /\ FlushedWhenIdle

(* SessionEnds: a session ends when its client or its writer is gone, and  *)
(* a client that does not read never holds the reader of its writer.       *)
SessionEnds == RelayReturns /\ ReaderFree /\ MeCloseEndsRelay
=============================================================================
