---------------------------- MODULE StreamWriter ----------------------------
(***************************************************************************)
(* The writing half of a client connection: CryptoWriter                   *)
(* (stream/crypto_stream.rs) over FakeTlsWriter (stream/tls_stream.rs) over*)
(* the socket, or CryptoWriter straight over the socket for a client that  *)
(* does not speak FakeTLS.                                                 *)
(*                                                                         *)
(* Every poll of the socket may take any number of the bytes it is given,  *)
(* none (Pending) or fail, so each layer may hold a remainder: CryptoWriter*)
(* its pending ciphertext, FakeTlsWriter the rest of a record.  A poll of  *)
(* FakeTlsWriter is one step, because nothing else touches its state; the  *)
(* loop of CryptoWriter::poll_flush_pending is one step per iteration.     *)
(* `peer` is the client's receiver: it follows the record framing and      *)
(* decrypts at its own keystream position.                                 *)
(***************************************************************************)
EXTENDS TlsRecord, FiniteSets

CONSTANTS
    MaxBytes,       \* bound: plaintext bytes the caller writes
    Offers,         \* sizes of the buffers given to poll_write
    MaxPendingWrite \* max_pending_write of CryptoWriter

ASSUME StreamWriterAssumption ==
    /\ MaxBytes \in Nat
    /\ Offers \subseteq Nat \ {0}
    /\ MaxPendingWrite \in Nat \ {0}

VARIABLES
    overTls,    \* whether the client speaks FakeTLS
    cwstate,    \* CryptoWriterState: "Idle", "Flushing", "Poisoned"
    pending,    \* PendingCiphertext of Flushing
    wkey,       \* the encryptor's keystream position
    accepted,   \* plaintext bytes the caller was told are accepted
    twstate,    \* TlsWriterState: "Idle", "WritingRecord", "Poisoned"
    record,     \* the unwritten rest of the record
    wcall,      \* the poll in progress: "none", "write", "flush", "shutdown", "shutdown_upstream"
    offered,    \* size of the buffer of a poll_write
    wflushed,    \* the last poll_flush returned Ok and nothing was accepted since
    wclosed,    \* the socket was shut down
    peer        \* the receiving client

outVars == <<overTls, cwstate, pending, wkey, accepted, twstate, record,
                wcall, offered, wflushed, wclosed, peer>>

----------------------------------------------------------------------------
\* The client (outside the program): it expects whole records and the n-th
\* byte at keystream position n, and never recovers once they disagree.

PeerReceive(p, sym) ==
    IF sym.s = "head"
    THEN [p EXCEPT !.ok = p.ok /\ overTls /\ p.left = 0,
                   !.head = (p.head + 1) % HeaderSize,
                   !.left = IF p.head + 1 = HeaderSize THEN sym.l ELSE 0]
    ELSE [p EXCEPT !.ok = /\ p.ok
                          /\ p.head = 0
                          /\ overTls => p.left > 0
                          /\ sym.b = p.got + 1
                          /\ sym.k = p.got + 1,
                   !.got = p.got + 1,
                   !.left = IF overTls /\ p.left > 0 THEN p.left - 1 ELSE 0]

\* The client after each of the symbols.
Heard(syms) ==
    LET heard[i \in 0..Len(syms)] == IF i = 0 THEN peer ELSE PeerReceive(heard[i - 1], syms[i])
    IN  heard

Deliver(syms) == peer' = Heard(syms)[Len(syms)]

----------------------------------------------------------------------------
\* FakeTlsWriter.  A poll has several possible outcomes: what the socket took,
\* the state and record left behind, the result, and the bytes accepted.

TlsEnd(out, st, rec, res, n) == [out |-> out, st |-> st, rec |-> rec, res |-> res, n |-> n]

\* poll_flush_record_inner: the loop takes k bytes in all and then finishes,
\* finds the socket Pending, or meets an error (a write of 0 is one).
poll_flush_record_inner(rec) ==
    { f \in [sent : 0..Len(rec), end : {"Complete", "Pending", "Error"}] :
        (f.end = "Complete") <=> (f.sent = Len(rec)) }

build_record(data) == TlsHeader("app", Len(data)) \o data

\* A new record given to the socket: written whole, in part or not at all (the
\* rest is stored and the chunk still counts as accepted), or an error.
write_record(before, chunk) ==
    LET rec == build_record(chunk) IN
    { TlsEnd(before \o Sent(k, rec),
             IF k = Len(rec) THEN "Idle" ELSE "WritingRecord",
             Unsent(k, rec), "Ok", Len(chunk)) : k \in 0..Len(rec) }
    \cup { TlsEnd(before, "Poisoned", <<>>, "Err", 0) }

tls_poll_write(data) ==
    IF twstate = "Poisoned" THEN { TlsEnd(<<>>, "Poisoned", <<>>, "Err", 0) }
    ELSE UNION { CASE f.end = "Pending" ->
                        { TlsEnd(Sent(f.sent, record), "WritingRecord",
                                 Unsent(f.sent, record), "Pending", 0) }
                   [] f.end = "Error" ->
                        { TlsEnd(Sent(f.sent, record), "Poisoned", <<>>, "Err", 0) }
                   [] f.end = "Complete" ->
                        write_record(record, Sent(SmallerOf(Len(data), MaxTlsPayload), data))
                 : f \in poll_flush_record_inner(record) }

\* The socket alone: partial writes, Pending, an error or a write of 0.
socket_poll_write(data) ==
    { TlsEnd(Sent(k, data), "Idle", <<>>, "Ok", k) : k \in 0..Len(data) }
    \cup { TlsEnd(<<>>, "Idle", <<>>, "Pending", 0), TlsEnd(<<>>, "Idle", <<>>, "Err", 0) }

upstream_poll_write(data) == IF overTls THEN tls_poll_write(data) ELSE socket_poll_write(data)

tls_poll_flush ==
    IF twstate = "Poisoned" THEN { TlsEnd(<<>>, "Poisoned", <<>>, "Err", 0) }
    ELSE { TlsEnd(Sent(f.sent, record),
                  CASE f.end = "Complete" -> "Idle" [] f.end = "Pending" -> "WritingRecord"
                    [] OTHER -> "Poisoned",
                  IF f.end = "Error" THEN <<>> ELSE Unsent(f.sent, record),
                  CASE f.end = "Complete" -> "Ok" [] f.end = "Pending" -> "Pending"
                    [] OTHER -> "Err", 0)
           : f \in poll_flush_record_inner(record) }

\* A shutdown writes what it can of the record and leaves the writer idle.
tls_poll_shutdown ==
    { TlsEnd(Sent(f.sent, record), "Idle", <<>>, "Ok", 0) : f \in poll_flush_record_inner(record) }

Took(o) == Deliver(o.out) /\ twstate' = o.st /\ record' = o.rec

----------------------------------------------------------------------------
\* CryptoWriter.

EnterCall(c) ==
    /\ wcall = "none" /\ ~wclosed /\ cwstate # "Poisoned"
    /\ wcall' = c

\* poll_write with n bytes; nothing happens before the pending bytes are tried.
poll_write(n) ==
    /\ EnterCall("write")
    /\ accepted + n <= MaxBytes
    /\ offered' = n
    /\ UNCHANGED <<overTls, cwstate, pending, wkey, accepted, twstate, record,
                   wflushed, wclosed, peer>>

poll_flush ==
    /\ EnterCall("flush")
    /\ UNCHANGED <<overTls, cwstate, pending, wkey, accepted, twstate, record,
                   offered, wflushed, wclosed, peer>>

poll_shutdown ==
    /\ wcall = "none" /\ ~wclosed
    /\ wcall' = IF cwstate = "Poisoned" THEN "shutdown_upstream" ELSE "shutdown"
    /\ UNCHANGED <<overTls, cwstate, pending, wkey, accepted, twstate, record,
                   offered, wflushed, wclosed, peer>>

WReturn == wcall' = "none" /\ offered' = 0

\* Accept n of the offered bytes: encrypt them, which moves the keystream on.
Accept(n) ==
    /\ accepted' = accepted + n
    /\ wkey' = wkey + n
    /\ wflushed' = (wflushed /\ n = 0)

Encrypted(n) == AesCtr(wkey, Plaintext(accepted, n))

\* The socket is blocked while pending bytes are being flushed: a poll_write
\* accepts as many bytes as the pending buffer still has room for.
buffer_more ==
    LET n == SmallerOf(offered, MaxPendingWrite - Len(pending)) IN
    /\ pending' = pending \o Encrypted(n)
    /\ Accept(n)

\* One iteration of poll_flush_pending's loop.
poll_flush_pending ==
    /\ wcall \in {"write", "flush", "shutdown"}
    /\ cwstate = "Flushing"
    /\ \E o \in upstream_poll_write(pending) :
        /\ Took(o)
        /\ \/ /\ o.res = "Ok" /\ o.n > 0
              /\ pending' = Unsent(o.n, pending)
              /\ cwstate' = IF o.n = Len(pending) THEN "Idle" ELSE "Flushing"
              /\ UNCHANGED <<wcall, offered, wkey, accepted, wflushed>>
           \/ /\ o.res = "Pending"
              /\ UNCHANGED cwstate
              /\ IF wcall = "write" THEN buffer_more
                 ELSE UNCHANGED <<pending, wkey, accepted, wflushed>>
              /\ IF wcall = "shutdown"
                 THEN wcall' = "shutdown_upstream" /\ UNCHANGED offered
                 ELSE WReturn
           \/ /\ o.res = "Err" \/ (o.res = "Ok" /\ o.n = 0)
              /\ cwstate' = "Poisoned" /\ pending' = <<>>
              /\ IF wcall = "shutdown"
                 THEN wcall' = "shutdown_upstream" /\ UNCHANGED offered
                 ELSE WReturn
              /\ UNCHANGED <<wkey, accepted, wflushed>>
    /\ UNCHANGED <<overTls, wclosed>>

\* What the fast path keeps of the ciphertext the layer below did not take.
keep_remainder(cipher, n) == Unsent(n, cipher)

\* The fast path of poll_write: nothing is pending, so encrypt and write through.
write_through ==
    /\ wcall = "write" /\ cwstate = "Idle"
    /\ LET n == SmallerOf(offered, MaxPendingWrite)
           cipher == Encrypted(n) IN
       \E o \in upstream_poll_write(cipher) :
        /\ Took(o)
        /\ \/ /\ o.res = "Pending" \/ (o.res = "Ok" /\ o.n > 0)
              /\ pending' = keep_remainder(cipher, o.n)
              /\ cwstate' = IF o.n = n THEN "Idle" ELSE "Flushing"
              /\ Accept(n)
           \/ /\ o.res = "Err" \/ (o.res = "Ok" /\ o.n = 0)
              /\ cwstate' = "Poisoned" /\ pending' = <<>>
              /\ wkey' = wkey + n
              /\ UNCHANGED <<accepted, wflushed>>
    /\ WReturn
    /\ UNCHANGED <<overTls, wclosed>>

\* A missed case: the flush stops at the ciphertext buffer and never asks the
\* record writer below.
flush_upstream_skipped ==
    /\ wcall = "flush" /\ cwstate = "Idle"
    /\ wflushed' = TRUE
    /\ WReturn
    /\ UNCHANGED <<overTls, cwstate, pending, wkey, accepted, twstate, record, wclosed, peer>>

\* poll_flush after the pending bytes are gone: flush the layer below.
flush_upstream ==
    /\ wcall = "flush" /\ cwstate = "Idle"
    /\ \E o \in IF overTls THEN tls_poll_flush ELSE {TlsEnd(<<>>, "Idle", <<>>, "Ok", 0)} :
        /\ Took(o)
        /\ wflushed' = (wflushed \/ o.res = "Ok")
    /\ WReturn
    /\ UNCHANGED <<overTls, cwstate, pending, wkey, accepted, wclosed>>

\* poll_shutdown once the pending bytes were tried: whatever is still held is lost.
shutdown_upstream ==
    /\ wcall = "shutdown_upstream" \/ (wcall = "shutdown" /\ cwstate = "Idle")
    /\ \E o \in IF overTls THEN tls_poll_shutdown ELSE {TlsEnd(<<>>, "Idle", <<>>, "Ok", 0)} :
        Took(o)
    /\ wclosed' = TRUE
    /\ WReturn
    /\ UNCHANGED <<overTls, cwstate, pending, wkey, accepted, wflushed>>

----------------------------------------------------------------------------
WriterInit ==
    /\ overTls \in BOOLEAN
    /\ cwstate = "Idle" /\ pending = <<>> /\ wkey = 0 /\ accepted = 0
    /\ twstate = "Idle" /\ record = <<>>
    /\ wcall = "none" /\ offered = 0
    /\ wflushed = TRUE /\ wclosed = FALSE
    /\ peer = [ok |-> TRUE, head |-> 0, left |-> 0, got |-> 0]

WriterNext ==
    \/ \E n \in Offers : poll_write(n)
    \/ poll_flush
    \/ poll_shutdown
    \/ poll_flush_pending
    \/ write_through
    \/ flush_upstream
    \/ shutdown_upstream

WriterSpec == WriterInit /\ [][WriterNext]_outVars

----------------------------------------------------------------------------
\* Properties.

\* The writer's state is well formed, and the pending ciphertext never outgrows
\* max_pending_write (crypto_stream.rs PendingCiphertext: "strict max size").
WriterTypeOK ==
    /\ overTls \in BOOLEAN /\ wflushed \in BOOLEAN /\ wclosed \in BOOLEAN
    /\ cwstate \in {"Idle", "Flushing", "Poisoned"}
    /\ twstate \in {"Idle", "WritingRecord", "Poisoned"}
    /\ wcall \in {"none", "write", "flush", "shutdown", "shutdown_upstream"}
    /\ accepted \in 0..MaxBytes /\ wkey \in Nat
    /\ offered \in {0} \cup Offers
    /\ Len(pending) <= MaxPendingWrite
    /\ Len(record) <= HeaderSize + MaxTlsPayload

\* However the two writers split the bytes between the socket and their own
\* buffers, the client sees whole records and every byte at the keystream
\* position it was encrypted at (crypto_stream.rs: the CTR state never drifts).
WireInOrder == peer.ok

\* While the connection is open and unbroken no accepted byte is dropped: each
\* has been delivered or waits in the record or in the pending ciphertext.
NothingDropped ==
    (~wclosed /\ cwstate # "Poisoned" /\ twstate # "Poisoned") =>
        peer.got + Cardinality({i \in DOMAIN record : record[i].s = "byte"}) + Len(pending)
            = accepted

Sink == INSTANCE ByteSink WITH
    delivered <- peer.got,
    flushed <- wflushed,
    failed <- cwstate = "Poisoned" \/ twstate = "Poisoned",
    closed <- wclosed

\* The stack of writers implements a byte sink: a flush that returned Ok has
\* delivered every accepted byte, so a shutdown right after it loses nothing.
SinkRefined == Sink!SinkSpec

\* What is written arrives in order and under the keystream position it was
\* encrypted for; no accepted byte is lost on the way, and the stack implements a
\* byte sink.
WritesRight == [](WireInOrder /\ NothingDropped) /\ SinkRefined
=============================================================================
