------------------------------ MODULE ByteSink ------------------------------
(***************************************************************************)
(* What a writer of the client stream stack promises its caller: bytes it  *)
(* accepted reach the peer in order and once; a flush that returns ready   *)
(* has delivered all of them; nothing is delivered once it has closed.     *)
(* `failed` covers a transport error: accepted bytes may then be lost, but *)
(* what was delivered stays a prefix of what was accepted.                 *)
(***************************************************************************)
EXTENDS Naturals

VARIABLES accepted, delivered, flushed, failed, closed

sinkVars == <<accepted, delivered, flushed, failed, closed>>

SinkInit ==
    /\ accepted = 0
    /\ delivered = 0
    /\ flushed = TRUE
    /\ failed = FALSE
    /\ closed = FALSE

\* Accepting bytes and delivering some of those accepted may be one step.
Transfer ==
    /\ ~closed
    /\ accepted' >= accepted
    /\ delivered' >= delivered
    /\ delivered' <= accepted'
    /\ flushed' = (flushed /\ accepted' = accepted)
    /\ UNCHANGED <<failed, closed>>

Flush ==
    /\ ~closed /\ ~failed
    /\ flushed' = TRUE
    /\ delivered' = accepted
    /\ UNCHANGED <<accepted, failed, closed>>

Fail ==
    /\ ~closed
    /\ failed' = TRUE
    /\ delivered' \in delivered..accepted
    /\ UNCHANGED <<accepted, flushed, closed>>

\* The close may carry a last part of what is buffered.
Close ==
    /\ ~closed
    /\ closed' = TRUE
    /\ delivered' \in delivered..accepted
    /\ UNCHANGED <<accepted, flushed>>
    /\ failed' \in BOOLEAN

SinkNext == Transfer \/ Flush \/ Fail \/ Close

SinkSpec == SinkInit /\ [][SinkNext]_sinkVars
=============================================================================
