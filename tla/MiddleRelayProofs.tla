-------------------------- MODULE MiddleRelayProofs -------------------------
(***************************************************************************)
(* Both directions of a session over a middle proxy, for any number of     *)
(* frames and answers and any length of the channels.                      *)
(*                                                                         *)
(* NoGap and CloseAfterData speak of what has left the relay.  What makes  *)
(* them inductive is the position of everything that is still inside it:   *)
(* PipeInv numbers the commands in the sender's hand and its channel as    *)
(* long as the sender runs, and AnswerInv the answers in the writer's      *)
(* hand, its channel and the reader's hand as long as neither a close nor  *)
(* a dropped answer has ended the session.                                 *)
(***************************************************************************)
EXTENDS MiddleRelay, TLAPS

-----------------------------------------------------------------------------
(* From the client to the middle proxy.                                    *)

MainOK ==
    /\ load \in Workloads /\ mpc \in Mpcs /\ spc \in Spcs /\ read \in 0..MaxFrames
    /\ clientClosed \in BOOLEAN
    /\ c2me \in Seq(Nat) /\ forwarded \in Seq(Nat) /\ scmd \in Nat
    /\ mpc \in {"read", "enqueue"} => ~clientClosed
    /\ mpc = "close" => clientClosed
    /\ mpc = "enqueue" => read > 0

\* The i-th command of a session: the frames, then the close.
Command(i) == IF i <= read THEN i ELSE CloseCmd

InHand == IF spc = "send" THEN 1 ELSE 0
Enqueued ==
    (IF mpc = "enqueue" THEN read - 1 ELSE read)
    + (IF clientClosed /\ mpc \notin {"read", "enqueue", "close"} THEN 1 ELSE 0)

ForwardInv ==
    /\ Len(forwarded) <= read + 1
    /\ Len(forwarded) = read + 1 => mpc \notin {"read", "enqueue"}
    /\ \A i \in 1..Len(forwarded) : forwarded[i] = Command(i)

PipeInv ==
    spc # "done" =>
        /\ Len(forwarded) + InHand + Len(c2me) = Enqueued
        /\ spc = "send" => scmd = Command(Len(forwarded) + 1)
        /\ \A j \in 1..Len(c2me) : c2me[j] = Command(Len(forwarded) + InHand + j)

ToMeInv == MainOK /\ ForwardInv /\ PipeInv

LEMMA ToMeInit == MiddleInit => ToMeInv
<1> SUFFICES ASSUME MiddleInit PROVE ToMeInv
  OBVIOUS
<1>1. MainOK
  <2>1. read \in 0..MaxFrames /\ c2me \in Seq(Nat) /\ forwarded \in Seq(Nat) /\ scmd \in Nat
    BY MiddleRelayAssumption DEF MiddleInit
  <2> QED BY <2>1, Zenon DEF MiddleInit, MainOK, Mpcs, Spcs
<1>2. /\ Len(forwarded) = 0 /\ Len(c2me) = 0 /\ read = 0 /\ mpc = "read" /\ clientClosed = FALSE
      /\ spc = "recv"
  BY DEF MiddleInit
<1>3. InHand = 0 /\ Enqueued = 0
  BY <1>2 DEF InHand, Enqueued
<1>4. ForwardInv /\ PipeInv
  BY <1>2, <1>3 DEF ForwardInv, PipeInv
<1> QED BY <1>1, <1>4 DEF ToMeInv

LEMMA ToMeKept ==
  ASSUME ToMeInv, UNCHANGED <<load, mainVars, senderVars>>
  PROVE  ToMeInv'
  BY DEF ToMeInv, mainVars, senderVars, MainOK, ForwardInv, PipeInv, Command, InHand, Enqueued

LEMMA ToMeFrame ==
  ASSUME ToMeInv, client_frame
  PROVE  ToMeInv'
<1>1. /\ MainOK /\ ForwardInv /\ PipeInv
      /\ mpc = "read" /\ mpc' = "enqueue" /\ read < load.frames /\ read' = read + 1
      /\ UNCHANGED <<load, clientClosed, spc, scmd, c2me, forwarded>>
  BY DEF ToMeInv, client_frame, MainTo, envVars, senderVars
<1>2. load.frames \in 0..MaxFrames /\ MaxFrames \in Nat
  BY <1>1, MiddleRelayAssumption DEF MainOK
<1>3. MainOK'
  BY <1>1, <1>2 DEF MainOK, Mpcs
<1>4. \A i \in 1..read : Command(i) = i /\ Command(i)' = i
  BY <1>1, <1>2 DEF Command, MainOK
<1>5. ForwardInv'
  <2>1. Len(forwarded) \in 0..read
    BY <1>1 DEF ForwardInv, MainOK
  <2> QED BY <1>1, <1>4, <2>1 DEF ForwardInv, MainOK
<1>6. PipeInv'
  <2> SUFFICES ASSUME spc # "done" PROVE PipeInv'
    BY <1>1 DEF PipeInv
  <2>1. Enqueued = read /\ Enqueued' = read /\ InHand' = InHand /\ InHand \in 0..1
    BY <1>1 DEF Enqueued, InHand, MainOK
  <2>2. Len(forwarded) + InHand + Len(c2me) = read /\ Len(forwarded) \in Nat /\ Len(c2me) \in Nat
    BY <1>1, <2>1 DEF PipeInv, MainOK
  <2>3. spc = "send" => scmd = Command(Len(forwarded) + 1)'
    BY <1>1, <1>4, <2>2 DEF PipeInv, InHand
  <2>4. ASSUME NEW j \in 1..Len(c2me) PROVE c2me[j] = Command(Len(forwarded) + InHand + j)'
    <3>1. Len(forwarded) + InHand + j \in 1..read
      BY <2>1, <2>2
    <3> QED BY <1>1, <1>4, <2>1, <3>1, SMTT(30) DEF PipeInv
  <2> QED BY <1>1, <2>1, <2>2, <2>3, <2>4 DEF PipeInv
<1> QED BY <1>3, <1>5, <1>6 DEF ToMeInv

\* The end of the stream, an error, and the joins leave the commands alone.
LEMMA ToMeMain ==
  ASSUME ToMeInv, client_eof \/ client_error \/ join_sender \/ join_writer
  PROVE  ToMeInv'
<1>1. /\ MainOK /\ ForwardInv /\ PipeInv
      /\ UNCHANGED <<load, read, spc, scmd, c2me, forwarded>>
      /\ \/ mpc = "read" /\ mpc' = "close" /\ clientClosed' = TRUE
         \/ mpc = "read" /\ mpc' = "join" /\ UNCHANGED clientClosed
         \/ mpc = "join" /\ mpc' = "joinw" /\ UNCHANGED clientClosed
         \/ mpc = "joinw" /\ mpc' = "done" /\ UNCHANGED clientClosed
  BY DEF ToMeInv, client_eof, client_error, join_sender, join_writer, MainTo, envVars, senderVars
<1>2. MainOK'
  BY <1>1, Zenon DEF MainOK, Mpcs
<1>3. Enqueued' = Enqueued
  BY <1>1 DEF Enqueued, MainOK
<1>4. ForwardInv' /\ PipeInv'
  BY <1>1, <1>3 DEF ForwardInv, PipeInv, Command, InHand
<1> QED BY <1>2, <1>4 DEF ToMeInv

LEMMA ToMeEnqueue ==
  ASSUME ToMeInv, enqueue_data \/ enqueue_close
  PROVE  ToMeInv'
<1>1. /\ MainOK /\ ForwardInv /\ PipeInv
      /\ UNCHANGED <<load, read, clientClosed, spc, scmd, forwarded>>
      /\ \/ mpc = "enqueue" /\ mpc' = "read"
         \/ mpc = "enqueue" /\ mpc' = "join" /\ spc = "done"
         \/ mpc = "close" /\ mpc' = "join"
      /\ \/ spc # "done" /\ c2me' = Append(c2me, IF mpc = "enqueue" THEN read ELSE CloseCmd)
         \/ spc = "done" /\ UNCHANGED c2me
  BY DEF ToMeInv, enqueue_data, enqueue_close, enqueue_c2me_command, MainTo, envVars
<1>2. MaxFrames \in Nat /\ read \in Nat /\ c2me \in Seq(Nat) /\ CloseCmd \in Nat
  BY <1>1, MiddleRelayAssumption DEF MainOK, CloseCmd
<1>3. MainOK'
  <2>1. c2me' \in Seq(Nat)
    BY <1>1, <1>2
  <2> QED BY <1>1, <2>1 DEF MainOK, Mpcs
<1>4. ForwardInv'
  <2>1. Len(forwarded) = read + 1 => mpc' \notin {"read", "enqueue"}
    BY <1>1 DEF ForwardInv
  <2> QED BY <1>1, <2>1 DEF ForwardInv, Command
<1>5. PipeInv'
  <2> SUFFICES ASSUME spc # "done" PROVE PipeInv'
    BY <1>1 DEF PipeInv
  <2> DEFINE cmd == IF mpc = "enqueue" THEN read ELSE CloseCmd
             n == Len(forwarded) + InHand
  <2>1. n \in Nat /\ InHand' = InHand
    BY <1>1 DEF InHand, MainOK
  <2>2. Enqueued' = Enqueued + 1
    BY <1>1 DEF Enqueued, MainOK
  <2>3. c2me' = Append(c2me, cmd) /\ cmd \in Nat
    BY <1>1, <1>2
  <2>4. /\ Len(c2me') = Len(c2me) + 1 /\ c2me'[Len(c2me) + 1] = cmd
        /\ \A j \in 1..Len(c2me) : c2me'[j] = c2me[j]
    BY <1>2, <2>3
  <2>5. cmd = Command(n + Len(c2me) + 1)
    <3>1. n + Len(c2me) = Enqueued
      BY <1>1 DEF PipeInv
    <3>2. CASE mpc = "enqueue"
      <4>1. Enqueued = read - 1
        BY <1>1, <1>2, <3>2 DEF Enqueued
      <4>2. n + Len(c2me) + 1 = read
        BY <1>2, <3>1, <4>1
      <4> QED BY <1>2, <3>2, <4>2 DEF Command
    <3>3. CASE mpc = "close"
      <4>1. Enqueued = read
        BY <1>1, <1>2, <3>3 DEF Enqueued
      <4>2. n + Len(c2me) + 1 = read + 1
        BY <1>2, <3>1, <4>1
      <4> QED BY <1>2, <3>3, <4>2 DEF Command
    <3> QED BY <1>1, <3>2, <3>3
  <2>6. \A i : Command(i)' = Command(i)
    BY <1>1 DEF Command
  <2>7. n + Len(c2me') = Enqueued'
    BY <1>1, <1>2, <2>1, <2>2, <2>4 DEF PipeInv, MainOK
  <2>8. ASSUME NEW j \in 1..Len(c2me') PROVE c2me'[j] = Command(n + j)
    <3>1. CASE j = Len(c2me) + 1
      <4>1. n + j = n + Len(c2me) + 1
        BY <1>2, <2>1, <3>1
      <4> QED BY <2>4, <2>5, <3>1, <4>1
    <3>2. CASE j \in 1..Len(c2me)
      BY <1>1, <2>4, <3>2 DEF PipeInv
    <3> QED BY <1>2, <2>4, <3>1, <3>2
  <2> HIDE DEF cmd
  <2> QED BY <1>1, <2>1, <2>6, <2>7, <2>8 DEF PipeInv
<1> QED BY <1>3, <1>4, <1>5 DEF ToMeInv

LEMMA ToMeRecv ==
  ASSUME ToMeInv, sender_recv
  PROVE  ToMeInv'
<1>1. /\ MainOK /\ ForwardInv /\ PipeInv
      /\ UNCHANGED <<load, mpc, read, clientClosed, forwarded>>
      /\ spc = "recv" /\ spc' = "send" /\ c2me # <<>> /\ scmd' = Head(c2me) /\ c2me' = Tail(c2me)
  BY DEF ToMeInv, sender_recv, SenderTo, envVars, mainVars
<1>2. /\ c2me \in Seq(Nat) /\ Len(c2me) > 0 /\ c2me' \in Seq(Nat) /\ Len(c2me') = Len(c2me) - 1
      /\ scmd' = c2me[1] /\ scmd' \in Nat
      /\ \A j \in 1..Len(c2me') : c2me'[j] = c2me[j + 1]
  BY <1>1 DEF MainOK
<1>3. MainOK'
  BY <1>1, <1>2 DEF MainOK, Spcs
<1>4. ForwardInv' /\ Enqueued' = Enqueued
  BY <1>1 DEF ForwardInv, Command, Enqueued
<1>5. PipeInv'
  <2>1. InHand = 0 /\ InHand' = 1 /\ Len(forwarded) \in Nat /\ Len(c2me) \in Nat
    BY <1>1 DEF InHand, MainOK
  <2>2. \A i : Command(i)' = Command(i)
    BY <1>1 DEF Command
  <2>3. ASSUME NEW j \in 1..Len(c2me) PROVE c2me[j] = Command(Len(forwarded) + j)
    <3>1. c2me[j] = Command(Len(forwarded) + InHand + j)
      BY <1>1 DEF PipeInv
    <3>2. Len(forwarded) + InHand + j = Len(forwarded) + j
      BY <2>1
    <3> QED BY <3>1, <3>2
  <2>4. scmd' = Command(Len(forwarded) + 1)
    BY <1>2, <2>1, <2>3
  <2>5. ASSUME NEW j \in 1..Len(c2me') PROVE c2me'[j] = Command(Len(forwarded) + 1 + j)
    <3>1. j + 1 \in 1..Len(c2me) /\ Len(forwarded) + (j + 1) = Len(forwarded) + 1 + j
      BY <1>2, <2>1
    <3> QED BY <1>2, <2>3, <3>1
  <2>6. Len(forwarded) + 1 + Len(c2me') = Enqueued
    BY <1>1, <1>2, <2>1 DEF PipeInv
  <2> QED BY <1>1, <1>4, <2>1, <2>2, <2>4, <2>5, <2>6 DEF PipeInv
<1> QED BY <1>3, <1>4, <1>5 DEF ToMeInv

LEMMA ToMeSend ==
  ASSUME ToMeInv, sender_send
  PROVE  ToMeInv'
<1>1. /\ MainOK /\ ForwardInv /\ PipeInv /\ spc = "send" /\ scmd' = 0
      /\ UNCHANGED <<load, mpc, read, clientClosed, c2me>>
      /\ \/ forwarded' = Append(forwarded, scmd) /\ spc' \in {"done", "recv"}
         \/ forwarded' = forwarded /\ spc' = "done"
  BY DEF ToMeInv, sender_send, SenderTo, envVars, mainVars
<1>2. forwarded \in Seq(Nat) /\ Len(forwarded) \in Nat /\ scmd \in Nat /\ Len(c2me) \in Nat /\ read \in Nat
  BY <1>1 DEF MainOK
<1>3. MainOK'
  <2>1. forwarded' \in Seq(Nat)
    BY <1>1, <1>2, SMTT(30)
  <2> QED BY <1>1, <2>1 DEF MainOK, Spcs
<1>4. CASE forwarded' = forwarded /\ spc' = "done"
  BY <1>1, <1>3, <1>4 DEF ToMeInv, ForwardInv, PipeInv, Command
<1>5. CASE forwarded' = Append(forwarded, scmd) /\ spc' \in {"done", "recv"}
  <2>1. /\ Len(forwarded') = Len(forwarded) + 1 /\ forwarded'[Len(forwarded) + 1] = scmd
        /\ \A i \in 1..Len(forwarded) : forwarded'[i] = forwarded[i]
    BY <1>2, <1>5
  <2>2. /\ InHand = 1 /\ InHand' = 0 /\ Enqueued' = Enqueued /\ scmd = Command(Len(forwarded) + 1)
        /\ \A i : Command(i)' = Command(i)
    BY <1>1, <1>5 DEF InHand, Enqueued, PipeInv, Command
  <2>3. Len(forwarded) + 1 + Len(c2me) = Enqueued
    BY <1>1, <2>2 DEF PipeInv
  <2>4. ForwardInv'
    <3>1. Len(forwarded') <= Enqueued
      BY <1>2, <2>1, <2>3
    <3>2. Len(forwarded') <= read + 1 /\ (Len(forwarded') = read + 1 => mpc' \notin {"read", "enqueue"})
      BY <1>1, <1>2, <2>1, <3>1 DEF Enqueued, MainOK
    <3>3. ASSUME NEW i \in 1..Len(forwarded') PROVE forwarded'[i] = Command(i)
      <4>1. CASE i \in 1..Len(forwarded)
        BY <1>1, <2>1, <4>1 DEF ForwardInv
      <4>2. CASE i = Len(forwarded) + 1
        BY <2>1, <2>2, <4>2
      <4> QED BY <1>2, <2>1, <4>1, <4>2
    <3> QED BY <1>1, <2>2, <3>2, <3>3 DEF ForwardInv
  <2>5. PipeInv'
    <3>1. ASSUME NEW j \in 1..Len(c2me) PROVE c2me[j] = Command(Len(forwarded') + 0 + j)
      <4>1. Len(forwarded') + 0 + j = Len(forwarded) + 1 + j
        BY <1>2, <2>1
      <4> QED BY <1>1, <2>2, <4>1 DEF PipeInv
    <3>2. Len(forwarded') + 0 + Len(c2me) = Enqueued
      BY <1>2, <2>1, <2>3
    <3> QED BY <1>1, <1>5, <2>2, <3>1, <3>2 DEF PipeInv
  <2> QED BY <1>3, <2>4, <2>5 DEF ToMeInv
<1> QED BY <1>1, <1>4, <1>5

LEMMA ToMeEnds ==
  ASSUME ToMeInv, sender_ends
  PROVE  ToMeInv'
<1>1. /\ MainOK /\ ForwardInv /\ spc' = "done"
      /\ UNCHANGED <<load, mpc, read, clientClosed, scmd, c2me, forwarded>>
  BY DEF ToMeInv, sender_ends, SenderTo, envVars, mainVars
<1> QED BY <1>1 DEF ToMeInv, MainOK, Spcs, ForwardInv, PipeInv, Command

LEMMA ToMeStep == ToMeInv /\ [MiddleNext]_middleVars => ToMeInv'
<1> SUFFICES ASSUME ToMeInv, [MiddleNext]_middleVars PROVE ToMeInv'
  OBVIOUS
<1>1. CASE \/ WriterStep \/ writer_fails \/ reader_answer \/ reader_close \/ cleaner_close
           \/ (\E r \in Routers : RouterStep(r) \/ send_close_conn(r)) \/ client_stalls \/ client_resumes
           \/ UNCHANGED middleVars
  <2>1. UNCHANGED <<load, mainVars, senderVars>>
    BY <1>1, ZenonT(60) DEF WriterStep, writer_recv, writer_lost, writer_stop, write_client_payload, batch_next,
         batch_ends, write_client_ack, writer_flush, writer_close, writer_fails, WriterTo,
         reader_answer, reader_close, cleaner_close, Route, RouterTo, RouterStep, route_try, route_sent,
         route_channel_closed, route_timeout, route_unregister, send_close_conn, client_stalls, client_resumes,
         envVars, middleVars
  <2> QED BY <2>1, ToMeKept, SMTT(30)
<1> QED BY <1>1, ToMeFrame, ToMeMain, ToMeEnqueue, ToMeRecv, ToMeSend, ToMeEnds
        DEF MiddleNext, MainStep, SenderStep
-----------------------------------------------------------------------------
(* From the middle proxy to the client.                                    *)

Writing == {"data", "ack", "batched_ack"}

WriterOK ==
    /\ wpc \in Wpcs /\ meq \in Seq(Messages) /\ out \in Seq(Nat)
    /\ wpc \in Writing => wmsg \in Answers

RoutersOK ==
    /\ answered \in Nat /\ registered \in BOOLEAN /\ load \in Workloads
    /\ rpc \in [Routers -> Rpcs] /\ DOMAIN rmsg = Routers
    /\ rpc["cleaner"] \in {"try", "wait"} => rmsg["cleaner"] = Close
    /\ rpc["reader"] \in {"try", "wait"} =>
           rmsg["reader"] = Close \/ (rmsg["reader"] \in Answers /\ rmsg["reader"].n = answered)

\* The answer the writer is about to write, and how many answers the
\* channel and the writer were given.
Held == IF wpc \in Writing THEN 1 ELSE 0
Handed == Len(out) + Held + Len(meq)

\* Neither has the writer met a close nor is one on its way to it.
Open ==
    /\ wpc \notin {"close", "done"}
    /\ \A i \in 1..Len(meq) : meq[i] # Close

WrittenInv ==
    /\ \A i \in 1..Len(out) : out[i] = i
    /\ Held = 1 => wmsg.n = Len(out) + 1
    /\ wpc \notin {"close", "done"} =>
           \A j \in 1..Len(meq) :
               (\A i \in 1..j : meq[i] # Close) => meq[j].n = Len(out) + Held + j

RoutedInv ==
    Open => /\ rpc["reader"] \in {"try", "wait"} /\ rmsg["reader"] # Close => answered = Handed + 1
            /\ rpc["reader"] \in {"idle", "closing"} /\ registered => answered = Handed

AnswerInv == WriterOK /\ RoutersOK /\ WrittenInv /\ RoutedInv

LEMMA MessageKinds ==
  /\ \A m \in Messages : m # Close => m \in Answers
  /\ \A m \in Answers : m.kind \in {"data", "ack"} /\ m.n \in Nat /\ m # Close
  /\ Close.kind = "close" /\ Close \in Messages
<1>1. ASSUME NEW m \in Answers PROVE m.kind \in {"data", "ack"} /\ m.n \in 1..MaxAnswers
  BY DEF Answers
<1>2. Close.kind = "close" /\ Close \in Messages
  BY DEF Close, Messages
<1> QED BY <1>1, <1>2, MiddleRelayAssumption DEF Messages

LEMMA AnswerInit == MiddleInit => AnswerInv
<1> SUFFICES ASSUME MiddleInit PROVE AnswerInv
  OBVIOUS
<1>1. /\ Len(out) = 0 /\ Len(meq) = 0 /\ wpc = "select" /\ answered = 0
      /\ out \in Seq(Nat) /\ meq \in Seq(Messages)
      /\ rpc["reader"] = "idle" /\ rpc["cleaner"] = "idle"
  BY DEF MiddleInit, Routers
<1>2. WriterOK
  BY <1>1 DEF WriterOK, Wpcs, Writing
<1>3. RoutersOK
  BY <1>1 DEF MiddleInit, RoutersOK, Rpcs
<1>4. Held = 0
  BY <1>1 DEF Held, Writing
<1>5. WrittenInv /\ RoutedInv
  BY <1>1, <1>4 DEF WrittenInv, RoutedInv, Handed
<1> QED BY <1>2, <1>3, <1>5 DEF AnswerInv

LEMMA AnswerKept ==
  ASSUME AnswerInv, UNCHANGED <<load, wpc, wmsg, out, meq, rpc, rmsg, answered>>,
         registered' \in {registered, FALSE}
  PROVE  AnswerInv'
<1>1. WriterOK' /\ RoutersOK' /\ WrittenInv'
  BY Zenon DEF AnswerInv, WriterOK, RoutersOK, WrittenInv, Held, Writing
<1>2. RoutedInv'
  BY Zenon DEF AnswerInv, RoutersOK, RoutedInv, Open, Handed, Held
<1> QED BY <1>1, <1>2 DEF AnswerInv

\* me_writer takes a message off its channel.
LEMMA AnswerRecv ==
  ASSUME AnswerInv, writer_recv \/ batch_next
  PROVE  AnswerInv'
<1>1. /\ WriterOK /\ RoutersOK /\ WrittenInv /\ RoutedInv
      /\ wpc \in {"select", "batch"} /\ meq # <<>> /\ wmsg' = Head(meq) /\ meq' = Tail(meq)
      /\ wpc' = Head(meq).kind \/ (Head(meq).kind = "ack" /\ wpc' = "batched_ack")
      /\ UNCHANGED <<load, out, registered, rpc, rmsg, answered>>
  BY DEF AnswerInv, writer_recv, batch_next, Receive, WriterTo, envVars
<1>2. /\ meq \in Seq(Messages) /\ Len(meq) \in Nat /\ Len(meq) > 0 /\ meq' \in Seq(Messages)
      /\ Len(meq') = Len(meq) - 1 /\ wmsg' = meq[1] /\ wmsg' \in Messages
      /\ \A j \in 1..Len(meq') : meq'[j] = meq[j + 1]
  BY <1>1 DEF WriterOK
<1>3. \/ wmsg' = Close /\ wpc' = "close"
      \/ wmsg' # Close /\ wmsg' \in Answers /\ wpc' \in Writing
  BY <1>1, <1>2, MessageKinds DEF Writing
<1>4. WriterOK'
  BY <1>1, <1>2, <1>3 DEF WriterOK, Wpcs, Writing
<1>5. RoutersOK'
  BY <1>1 DEF RoutersOK
<1>6. Held = 0 /\ Len(out) \in Nat
  BY <1>1 DEF Held, Writing, WriterOK
<1>7. CASE wmsg' = Close /\ wpc' = "close"
  <2>1. Held' = 0 /\ ~Open'
    BY <1>7 DEF Held, Writing, Open
  <2> QED BY <1>1, <1>4, <1>5, <1>7, <2>1 DEF AnswerInv, WrittenInv, RoutedInv
<1>8. CASE wmsg' # Close /\ wmsg' \in Answers /\ wpc' \in Writing
  <2>1. Held' = 1 /\ wpc' \notin {"close", "done"}
    BY <1>8 DEF Held, Writing
  <2>2. wpc \notin {"close", "done"}
    BY <1>1
  <2>3. wmsg'.n = Len(out) + 1
    <3>1. 1 \in 1..Len(meq) /\ \A i \in 1..1 : meq[i] # Close
      BY <1>2, <1>8
    <3>2. meq[1].n = Len(out) + Held + 1
      BY <1>1, <2>2, <3>1 DEF WrittenInv
    <3> QED BY <1>2, <1>6, <3>2
  <2>4. ASSUME NEW j \in 1..Len(meq'), \A i \in 1..j : meq'[i] # Close
        PROVE  meq'[j].n = Len(out) + 1 + j
    <3>1. j + 1 \in 1..Len(meq)
      BY <1>2
    <3>2. ASSUME NEW i \in 1..(j + 1) PROVE meq[i] # Close
      <4>1. CASE i = 1
        BY <1>2, <1>8, <4>1
      <4>2. CASE i # 1
        <5>1. i - 1 \in 1..j /\ i - 1 \in 1..Len(meq') /\ (i - 1) + 1 = i
          BY <1>2, <4>2
        <5> QED BY <1>2, <2>4, <5>1, Zenon
      <4> QED BY <4>1, <4>2
    <3>3. meq[j + 1].n = Len(out) + Held + (j + 1)
      BY <1>1, <2>2, <3>1, <3>2 DEF WrittenInv
    <3>4. Len(out) + Held + (j + 1) = Len(out) + 1 + j
      BY <1>6
    <3> QED BY <1>2, <3>3, <3>4
  <2>5. WrittenInv'
    BY <1>1, <2>1, <2>3, <2>4 DEF WrittenInv
  <2>6. Open' => Open
    <3> SUFFICES ASSUME Open', NEW i \in 1..Len(meq) PROVE meq[i] # Close
      BY <2>2 DEF Open
    <3>1. CASE i = 1
      BY <1>2, <1>8, <3>1
    <3>2. CASE i # 1
      <4>1. i - 1 \in 1..Len(meq') /\ (i - 1) + 1 = i
        BY <1>2, <3>2
      <4> QED BY <1>2, <4>1, Zenon DEF Open
    <3> QED BY <3>1, <3>2
  <2>7. Handed' = Handed
    BY <1>1, <1>2, <1>6, <2>1 DEF Handed
  <2>8. RoutedInv'
    BY <1>1, <2>6, <2>7 DEF RoutedInv
  <2> QED BY <1>4, <1>5, <2>5, <2>8 DEF AnswerInv
<1> QED BY <1>3, <1>7, <1>8

LEMMA AnswerWrite ==
  ASSUME AnswerInv, write_client_payload \/ write_client_ack
  PROVE  AnswerInv'
<1>1. /\ WriterOK /\ RoutersOK /\ WrittenInv /\ RoutedInv
      /\ wpc \in Writing /\ wpc' \in {"select", "batch"} /\ out' = Append(out, wmsg.n)
      /\ UNCHANGED <<load, meq, registered, rpc, rmsg, answered>>
  BY DEF AnswerInv, write_client_payload, write_client_ack, WriteMsg, KeepQueue, WriterTo, envVars, Writing
<1>2. /\ Held = 1 /\ Held' = 0 /\ wmsg.n \in Nat /\ wmsg.n = Len(out) + 1
      /\ out \in Seq(Nat) /\ Len(out) \in Nat /\ Len(meq) \in Nat
  BY <1>1, MessageKinds DEF Held, Writing, WriterOK, WrittenInv
<1>3. /\ out' \in Seq(Nat) /\ Len(out') = Len(out) + 1 /\ out'[Len(out) + 1] = wmsg.n
      /\ \A i \in 1..Len(out) : out'[i] = out[i]
  BY <1>1, <1>2
<1>4. WriterOK' /\ RoutersOK'
  BY <1>1, <1>3 DEF WriterOK, RoutersOK, Wpcs, Writing
<1>5. WrittenInv'
  <2>1. ASSUME NEW i \in 1..Len(out') PROVE out'[i] = i
    <3>1. CASE i \in 1..Len(out)
      BY <1>1, <1>3, <3>1 DEF WrittenInv
    <3>2. CASE i = Len(out) + 1
      BY <1>2, <1>3, <3>2
    <3> QED BY <1>2, <1>3, <3>1, <3>2
  <2>2. ASSUME NEW j \in 1..Len(meq), \A i \in 1..j : meq[i] # Close
        PROVE  meq[j].n = Len(out') + 0 + j
    <3>1. meq[j].n = Len(out) + Held + j
      BY <1>1, <2>2 DEF WrittenInv, Writing
    <3>2. Len(out) + Held + j = Len(out') + 0 + j
      BY <1>2, <1>3
    <3> QED BY <3>1, <3>2
  <2> QED BY <1>1, <1>2, <2>1, <2>2 DEF WrittenInv
<1>6. RoutedInv'
  <2>1. Handed' = Handed /\ (Open' => Open)
    BY <1>1, <1>2, <1>3 DEF Handed, Open, Writing
  <2> QED BY <1>1, <2>1 DEF RoutedInv
<1> QED BY <1>4, <1>5, <1>6 DEF AnswerInv

\* me_writer ends, or flushes and goes on.
LEMMA AnswerWriter ==
  ASSUME AnswerInv,
         writer_lost \/ writer_stop \/ batch_ends \/ writer_flush \/ writer_close \/ writer_fails
  PROVE  AnswerInv'
<1>1. /\ WriterOK /\ RoutersOK /\ WrittenInv /\ RoutedInv
      /\ UNCHANGED <<load, out, meq, registered, rpc, rmsg, answered>>
      /\ \/ wpc' = "done"
         \/ wpc \in {"batch", "flush"} /\ wpc' \in {"flush", "select"}
  BY SMTT(30) DEF AnswerInv, writer_lost, writer_stop, batch_ends, writer_flush, writer_close, writer_fails,
         WriterTo, KeepQueue, envVars
<1>2. WriterOK' /\ RoutersOK' /\ Held' = 0
  BY <1>1, Zenon DEF WriterOK, RoutersOK, Wpcs, Writing, Held
<1>3. CASE wpc' = "done"
  <2>1. WrittenInv'
    <3>1. \A i \in 1..Len(out') : out'[i] = i
      BY <1>1, Zenon DEF WrittenInv
    <3> QED BY <1>2, <1>3, <3>1 DEF WrittenInv
  <2>2. RoutedInv'
    BY <1>3 DEF RoutedInv, Open
  <2> QED BY <1>2, <2>1, <2>2 DEF AnswerInv
<1>4. CASE wpc \in {"batch", "flush"} /\ wpc' \in {"flush", "select"}
  <2>1. Held = 0 /\ (Open' => Open) /\ wpc \notin {"close", "done"}
    BY <1>1, <1>4 DEF Held, Writing, Open
  <2> QED BY <1>1, <1>2, <2>1 DEF AnswerInv, WrittenInv, RoutedInv, Handed
<1> QED BY <1>1, <1>3, <1>4

\* A task of the pool takes an answer or a close to the session.
LEMMA AnswerRoute ==
  ASSUME AnswerInv, reader_answer \/ reader_close \/ cleaner_close
  PROVE  AnswerInv'
<1>1. /\ WriterOK /\ RoutersOK /\ WrittenInv /\ RoutedInv
      /\ UNCHANGED <<load, wpc, wmsg, out, meq, registered>>
  BY DEF AnswerInv, reader_answer, reader_close, cleaner_close, Route, RouterTo, envVars, writerVars
<1>2. WriterOK' /\ WrittenInv' /\ Open' = Open /\ Handed' = Handed
  BY <1>1, Zenon DEF WriterOK, WrittenInv, Held, Writing, Open, Handed
<1>3. CASE reader_answer
  <2>1. PICK k \in {"data", "ack"} :
          /\ rpc["reader"] = "idle" /\ answered < load.answers /\ answered' = answered + 1
          /\ rmsg' = [rmsg EXCEPT !["reader"] = [n |-> answered', kind |-> k]]
          /\ rpc' = [rpc EXCEPT !["reader"] = IF registered THEN "try" ELSE "unregister"]
    BY <1>3, Zenon DEF reader_answer, Route, RouterTo
  <2>2. answered' \in Nat /\ answered' \in 1..MaxAnswers
    BY <1>1, <2>1, MiddleRelayAssumption DEF RoutersOK
  <2>3. [n |-> answered', kind |-> k] \in Answers
    BY <2>2 DEF Answers
  <2>4. RoutersOK'
    BY <1>1, <2>1, <2>2, <2>3 DEF RoutersOK, Routers, Rpcs
  <2>5. RoutedInv'
    <3>1. registered => rpc'["reader"] = "try"
      BY <1>1, <2>1 DEF RoutersOK, Routers
    <3>2. ~registered => rpc'["reader"] = "unregister"
      BY <1>1, <2>1 DEF RoutersOK, Routers
    <3>3. Open /\ registered => answered' = Handed + 1
      BY <1>1, <2>1 DEF RoutedInv
    <3> QED BY <1>1, <1>2, <3>1, <3>2, <3>3 DEF RoutedInv
  <2> QED BY <1>2, <2>4, <2>5 DEF AnswerInv
<1>4. CASE reader_close
  <2>1. /\ UNCHANGED answered
        /\ rmsg' = [rmsg EXCEPT !["reader"] = Close]
        /\ rpc' = [rpc EXCEPT !["reader"] = "try"]
    BY <1>4 DEF reader_close, Route, RouterTo
  <2>2. RoutersOK' /\ RoutedInv'
    BY <1>1, <2>1 DEF RoutersOK, Routers, Rpcs, RoutedInv
  <2> QED BY <1>2, <2>2 DEF AnswerInv
<1>5. CASE cleaner_close
  <2>1. /\ UNCHANGED answered
        /\ rmsg' = [rmsg EXCEPT !["cleaner"] = Close]
        /\ rpc' = [rpc EXCEPT !["cleaner"] = "try"]
    BY <1>5 DEF cleaner_close, Route, RouterTo
  <2>2. rpc'["reader"] = rpc["reader"] /\ rmsg'["reader"] = rmsg["reader"]
    BY <1>1, <2>1 DEF RoutersOK, Routers
  <2>3. RoutersOK'
    BY <1>1, <2>1, <2>2 DEF RoutersOK, Routers, Rpcs
  <2>4. RoutedInv'
    BY <1>1, <1>2, <2>1, <2>2 DEF RoutedInv
  <2> QED BY <1>2, <2>3, <2>4 DEF AnswerInv
<1> QED BY <1>3, <1>4, <1>5

\* The message is handed to the channel, at once or after a wait for room.
LEMMA AnswerSent ==
  ASSUME AnswerInv, NEW r \in Routers, rpc[r] \in {"try", "wait"},
         meq' = Append(meq, rmsg[r]),
         rmsg' = [rmsg EXCEPT ![r] = IF rmsg[r] = Close THEN Close ELSE None],
         rpc' = [rpc EXCEPT ![r] = IF rmsg[r] = Close THEN "unregister" ELSE "idle"],
         UNCHANGED <<load, wpc, wmsg, out, registered, answered>>
  PROVE  AnswerInv'
<1>1. WriterOK /\ RoutersOK /\ WrittenInv /\ RoutedInv
  BY DEF AnswerInv
<1>2. /\ rmsg[r] \in Messages
      /\ rmsg[r] = Close \/ (r = "reader" /\ rmsg[r] \in Answers /\ rmsg[r].n = answered)
  BY <1>1, MessageKinds DEF RoutersOK, Routers, Messages
<1>3. /\ meq \in Seq(Messages) /\ meq' \in Seq(Messages) /\ Len(meq) \in Nat
      /\ Len(meq') = Len(meq) + 1 /\ meq'[Len(meq) + 1] = rmsg[r]
      /\ \A i \in 1..Len(meq) : meq'[i] = meq[i]
  BY <1>1, <1>2 DEF WriterOK
<1>4. WriterOK'
  BY <1>1, <1>3 DEF WriterOK, Writing
<1>5. RoutersOK'
  <2>1. DOMAIN rmsg' = Routers /\ rpc' \in [Routers -> Rpcs]
    BY <1>1 DEF RoutersOK, Rpcs
  <2>2. rpc'[r] \notin {"try", "wait"}
    BY <1>1 DEF RoutersOK
  <2>3. \A q \in Routers : q # r => rpc'[q] = rpc[q] /\ rmsg'[q] = rmsg[q]
    BY <1>1 DEF RoutersOK
  <2> QED BY <1>1, <2>1, <2>2, <2>3 DEF RoutersOK, Routers
<1>6. /\ Held' = Held /\ Held \in Nat /\ Len(out) \in Nat /\ Handed' = Handed + 1
      /\ Handed = Len(out) + Held + Len(meq) /\ answered \in Nat
  <2>1. Held' = Held /\ Held \in Nat
    BY DEF Held
  <2>2. Len(out) \in Nat /\ answered \in Nat
    BY <1>1 DEF WriterOK, RoutersOK
  <2> QED BY <1>3, <2>1, <2>2 DEF Handed
<1>7. Open' => Open /\ rmsg[r] # Close
  <2>1. Len(meq) + 1 \in 1..Len(meq') /\ \A i \in 1..Len(meq) : i \in 1..Len(meq')
    BY <1>3
  <2> QED BY <1>3, <2>1 DEF Open
<1>8. WrittenInv'
  <2> SUFFICES ASSUME wpc \notin {"close", "done"},
                      NEW j \in 1..Len(meq'), \A i \in 1..j : meq'[i] # Close
               PROVE  meq'[j].n = Len(out) + Held + j
    BY <1>1, <1>6, Zenon DEF WrittenInv
  <2>1. CASE j \in 1..Len(meq)
    <3>1. \A i \in 1..j : i \in 1..Len(meq)
      BY <1>3, <2>1
    <3>2. \A i \in 1..j : meq[i] # Close
      BY <1>3, <3>1
    <3> QED BY <1>1, <1>3, <2>1, <3>2 DEF WrittenInv
  <2>2. CASE j = Len(meq) + 1
    <3>1. \A i \in 1..Len(meq) : i \in 1..j
      BY <1>3, <2>2
    <3>2. Open /\ j \in 1..j /\ rmsg[r] # Close
      <4>1. j \in 1..j
        BY <1>3, <2>2
      <4> QED BY <1>3, <2>2, <3>1, <4>1 DEF Open
    <3>3. r = "reader" /\ rmsg[r].n = answered
      BY <1>2, <3>2
    <3>4. answered = Handed + 1
      BY <1>1, <3>2, <3>3 DEF RoutedInv
    <3> QED BY <1>3, <1>6, <2>2, <3>3, <3>4
  <2> QED BY <1>3, <2>1, <2>2
<1>9. RoutedInv'
  <2> SUFFICES ASSUME Open' PROVE RoutedInv'
    BY DEF RoutedInv
  <2>1. Open /\ rmsg[r] # Close /\ r = "reader"
    BY <1>2, <1>7
  <2>2. answered = Handed + 1
    BY <1>1, <2>1 DEF RoutedInv
  <2>3. rpc'["reader"] = "idle"
    BY <1>1, <2>1 DEF RoutersOK
  <2> QED BY <1>6, <2>2, <2>3 DEF RoutedInv
<1> QED BY <1>4, <1>5, <1>8, <1>9 DEF AnswerInv

\* The message waits for room, or is given up.
LEMMA AnswerGivenUp ==
  ASSUME AnswerInv, NEW r \in Routers, NEW pc \in Rpcs,
         rpc' = [rpc EXCEPT ![r] = pc],
         \/ pc = "wait" /\ rpc[r] = "try" /\ UNCHANGED <<rmsg, registered>>
         \/ pc = "unregister" /\ UNCHANGED <<rmsg, registered>>
         \/ pc \in {"idle", "closing"} /\ rmsg' = [rmsg EXCEPT ![r] = None] /\ registered' = FALSE
         \/ pc = "idle" /\ rpc[r] = "closing" /\ UNCHANGED <<rmsg, registered>>,
         UNCHANGED <<load, wpc, wmsg, out, meq, answered>>
  PROVE  AnswerInv'
<1>1. WriterOK /\ RoutersOK /\ WrittenInv /\ RoutedInv
  BY DEF AnswerInv
<1>2. WriterOK' /\ WrittenInv' /\ Open' = Open /\ Handed' = Handed
  BY <1>1 DEF WriterOK, WrittenInv, Held, Writing, Open, Handed
<1>3. /\ DOMAIN rmsg' = Routers /\ rpc' \in [Routers -> Rpcs] /\ rpc'[r] = pc
      /\ \A q \in Routers : q # r => rpc'[q] = rpc[q] /\ rmsg'[q] = rmsg[q]
  BY <1>1 DEF RoutersOK
<1>4. registered' \in BOOLEAN /\ (registered' => registered)
  <2>1. registered' = registered \/ registered' = FALSE
    OBVIOUS
  <2>2. CASE registered' = registered
    BY <1>1, <2>2 DEF RoutersOK
  <2>3. CASE registered' = FALSE
    BY <2>3, Zenon
  <2> QED BY <2>1, <2>2, <2>3, Zenon
<1>5. ASSUME NEW q \in Routers, rpc'[q] \in {"try", "wait"}
      PROVE  rpc[q] \in {"try", "wait"} /\ rmsg'[q] = rmsg[q]
  BY <1>3, <1>5
<1>6. rpc'["reader"] \in {"idle", "closing"} /\ registered' => rpc["reader"] \in {"idle", "closing"}
  BY <1>3, Zenon DEF Routers
<1>7. RoutersOK'
  BY <1>1, <1>3, <1>4, <1>5 DEF RoutersOK, Routers
<1>8. RoutedInv'
  BY <1>1, <1>2, <1>4, <1>5, <1>6 DEF RoutedInv, Routers
<1> QED BY <1>2, <1>7, <1>8 DEF AnswerInv

LEMMA AnswerRouter ==
  ASSUME AnswerInv, NEW r \in Routers, RouterStep(r) \/ send_close_conn(r)
  PROVE  AnswerInv'
<1>1. UNCHANGED <<load, wpc, wmsg, out, answered>>
  BY Zenon DEF RouterStep, route_try, route_sent, route_channel_closed, route_timeout, route_unregister, send_close_conn,
         RouterTo, writerVars, envVars
<1>2. CASE route_try(r)
  <2>1. CASE meq' = Append(meq, rmsg[r]) /\ wpc # "done" /\ Len(meq) < RouteCap /\ waiters = <<>>
             /\ rmsg' = [rmsg EXCEPT ![r] = IF rmsg[r] = Close THEN Close ELSE None]
             /\ RouterTo(r, IF rmsg[r] = Close THEN "unregister" ELSE "idle")
    BY <1>1, <1>2, <2>1, AnswerSent, Zenon DEF route_try, RouterTo
  <2>2. CASE RouterTo(r, "unregister") /\ UNCHANGED <<meq, rmsg, waiters>>
    BY <1>1, <1>2, <2>2, AnswerGivenUp, Zenon DEF route_try, RouterTo, Rpcs
  <2>3. CASE RouterTo(r, "wait") /\ UNCHANGED <<meq, rmsg>>
    BY <1>1, <1>2, <2>3, AnswerGivenUp, Zenon DEF route_try, RouterTo, Rpcs
  <2> QED BY <1>2, <2>1, <2>2, <2>3 DEF route_try
<1>3. CASE route_sent(r)
  BY <1>1, <1>3, AnswerSent, Zenon DEF route_sent, RouterTo
<1>4. CASE route_channel_closed(r) \/ route_timeout(r)
  BY <1>1, <1>4, AnswerGivenUp, Zenon DEF route_channel_closed, route_timeout, RouterTo, Rpcs
<1>5. CASE route_unregister(r)
  BY <1>1, <1>5, AnswerGivenUp, Zenon DEF route_unregister, RouterTo, Rpcs
<1>6. CASE send_close_conn(r)
  BY <1>1, <1>6, AnswerGivenUp, Zenon DEF send_close_conn, RouterTo, Rpcs
<1> QED BY <1>2, <1>3, <1>4, <1>5, <1>6, SMTT(30) DEF RouterStep

LEMMA AnswerStep == AnswerInv /\ [MiddleNext]_middleVars => AnswerInv'
<1> SUFFICES ASSUME AnswerInv, [MiddleNext]_middleVars PROVE AnswerInv'
  OBVIOUS
<1>1. CASE \/ client_frame \/ client_eof \/ client_error \/ MainStep \/ SenderStep
           \/ client_stalls \/ client_resumes \/ UNCHANGED middleVars
  <2>1. /\ UNCHANGED <<load, wpc, wmsg, out, meq, rpc, rmsg, answered>>
        /\ registered' \in {registered, FALSE}
    BY <1>1, Zenon DEF client_frame, client_eof, client_error, MainStep, enqueue_data, enqueue_close,
         join_sender, join_writer, MainTo, SenderStep, sender_recv, sender_send, sender_ends, SenderTo,
         client_stalls, client_resumes, envVars, writerVars, routeVars, middleVars
  <2> QED BY <2>1, AnswerKept, Zenon
<1>2. CASE WriterStep \/ writer_fails
  BY <1>2, AnswerRecv, AnswerWrite, AnswerWriter DEF WriterStep
<1>3. CASE reader_answer \/ reader_close \/ cleaner_close
  BY <1>3, AnswerRoute
<1>4. CASE \E r \in Routers : RouterStep(r) \/ send_close_conn(r)
  BY <1>4, AnswerRouter
<1> QED BY <1>1, <1>2, <1>3, <1>4 DEF MiddleNext

-----------------------------------------------------------------------------
(* The stop signal.                                                        *)

\* Every way back to select has flushed; receiving leads to a write or a close.
LEMMA FlushedStep == AnswerInv /\ FlushedWhenIdle /\ [MiddleNext]_middleVars => FlushedWhenIdle'
<1> SUFFICES ASSUME AnswerInv, FlushedWhenIdle, [MiddleNext]_middleVars PROVE FlushedWhenIdle'
  OBVIOUS
<1>1. CASE WriterStep \/ writer_fails
  <2>1. CASE writer_recv \/ batch_next
    <3>1. /\ meq \in Seq(Messages) /\ meq # <<>>
          /\ wpc' = Head(meq).kind \/ wpc' = "batched_ack"
      BY <2>1 DEF AnswerInv, WriterOK, writer_recv, batch_next, Receive, WriterTo
    <3>2. Head(meq) \in Messages
      BY <3>1
    <3>3. wpc' # "select"
      BY <3>1, <3>2, MessageKinds
    <3> QED BY <3>3 DEF FlushedWhenIdle
  <2>2. CASE \/ writer_lost \/ writer_stop \/ write_client_payload \/ batch_ends \/ writer_close
             \/ writer_fails
    BY <2>2 DEF FlushedWhenIdle, writer_lost, writer_stop, write_client_payload, batch_ends,
                writer_close, writer_fails, WriterTo
  <2>3. CASE write_client_ack \/ writer_flush
    BY <2>3 DEF FlushedWhenIdle, write_client_ack, writer_flush
  <2> QED BY <1>1, <2>1, <2>2, <2>3 DEF WriterStep
<1>2. CASE \/ client_frame \/ client_eof \/ client_error \/ MainStep \/ SenderStep
           \/ reader_answer \/ reader_close \/ cleaner_close \/ (\E r \in Routers : RouterStep(r) \/ send_close_conn(r))
           \/ client_stalls \/ client_resumes \/ UNCHANGED middleVars
  <2>1. UNCHANGED <<wpc, out, flushed>>
    BY <1>2, Zenon DEF client_frame, client_eof, client_error, MainStep, enqueue_data, enqueue_close,
         join_sender, join_writer, MainTo, SenderStep, sender_recv, sender_send, sender_ends, SenderTo,
         reader_answer, reader_close, cleaner_close, Route, RouterTo, RouterStep, route_try, route_sent,
         route_channel_closed, route_timeout, route_unregister, send_close_conn,
         client_stalls, client_resumes, writerVars, middleVars
  <2> QED BY <2>1 DEF FlushedWhenIdle
<1> QED BY <1>1, <1>2 DEF MiddleNext

-----------------------------------------------------------------------------

\* What was forwarded is the frames in order, with at most one close behind
\* the last of them.
LEMMA ForwardedRight ==
  ASSUME ToMeInv
  PROVE  /\ \A i \in 1..Len(forwarded) : forwarded[i] \in {i, CloseCmd}
         /\ CloseAfterData
<1>1. /\ Len(forwarded) \in Nat /\ Len(forwarded) <= read + 1 /\ read \in Nat /\ read <= MaxFrames
      /\ MaxFrames \in Nat /\ CloseCmd = MaxFrames + 1
      /\ \A i \in 1..Len(forwarded) : forwarded[i] = Command(i)
  BY MiddleRelayAssumption DEF ToMeInv, MainOK, ForwardInv, CloseCmd
<1>2. ASSUME NEW i \in 1..Len(forwarded), forwarded[i] = CloseCmd
      PROVE  i = Len(forwarded) /\ i = read + 1
  BY <1>1, <1>2 DEF Command
<1>3. \A i \in 1..Len(forwarded) : forwarded[i] \in {i, CloseCmd}
  BY <1>1 DEF Command
<1> QED BY <1>2, <1>3 DEF CloseAfterData

(* For any number of frames and answers and any channel capacity, a        *)
(* session over a middle proxy loses and reorders nothing in the middle    *)
(* of either direction: answers reach the client as a prefix of what the   *)
(* middle proxy sent even when one was dropped on a full channel, the      *)
(* close follows the last frame that was read, and me_writer holds nothing *)
(* unflushed when it waits.                                                *)
THEOREM SessionKeepsOrder == MiddleSpec => []BytesInOrder
<1>1. MiddleInit => ToMeInv /\ AnswerInv /\ FlushedWhenIdle
  <2>1. MiddleInit => FlushedWhenIdle
    BY DEF MiddleInit, FlushedWhenIdle
  <2> QED BY <2>1, ToMeInit, AnswerInit
<1>2. ToMeInv /\ AnswerInv /\ FlushedWhenIdle /\ [MiddleNext]_middleVars
      => (ToMeInv /\ AnswerInv /\ FlushedWhenIdle)'
  BY ToMeStep, AnswerStep, FlushedStep
<1>3. ToMeInv /\ AnswerInv /\ FlushedWhenIdle => BytesInOrder
  BY ForwardedRight DEF BytesInOrder, NoGap, AnswerInv, WrittenInv
<1> QED BY <1>1, <1>2, <1>3, PTL DEF MiddleSpec
=============================================================================
