---------------------------- MODULE StreamReader ----------------------------
(***************************************************************************)
(* The reading half of a client connection: CryptoReader                   *)
(* (stream/crypto_stream.rs) over FakeTlsReader (stream/tls_stream.rs) over*)
(* the socket.                                                             *)
(*                                                                         *)
(* The client sends records of several types; the network delivers their   *)
(* bytes in arbitrary pieces and may cut the connection inside a record.   *)
(* One read of the socket is one step; where the code returns Pending the  *)
(* reader keeps the state it is in and the step is simply not enabled.     *)
(*                                                                         *)
(* The reads go on until one returns no bytes or an error.  The callers    *)
(* stop there (the copy of the direct relay, read_exact everywhere else);  *)
(* FakeTlsReader itself is back in Idle after an end of file or an alert   *)
(* and would read on if it were polled again.                              *)
(***************************************************************************)
EXTENDS TlsRecord, SequencesExt

CONSTANTS
    Records,        \* the records a client may send: <<type, payload length>>
    MaxRecords,     \* bound: records sent
    ReadSizes       \* sizes of the buffers given to poll_read

ASSUME StreamReaderAssumption ==
    /\ Records \subseteq {"app", "ccs", "alert", "handshake", "badversion"} \X Nat
    /\ MaxRecords \in Nat
    /\ ReadSizes \subseteq Nat \ {0}

VARIABLES
    wire,       \* symbols sent and not yet read from the socket
    sentRecords,\* records sent
    appSent,    \* application bytes of the records sent whole
    eof,        \* the client's direction is closed
    torn,       \* it was closed inside a record
    trstate,    \* TlsReaderState
    header,     \* header symbols read (ReadingHeader)
    body,       \* payload read, or left to yield (ReadingBody, Yielding)
    rtype, rlen,\* the record being read
    rkey,       \* the decryptor's keystream position
    taken,      \* plaintext bytes handed to the caller
    inOrder,    \* every one of them was the next byte of the stream
    alerted,    \* an alert record was read
    rresult     \* how the caller's reads ended: "open", "eof" or "err"

readerVars == <<wire, sentRecords, appSent, eof, torn, trstate, header, body,
                rtype, rlen, rkey, taken, inOrder, alerted, rresult>>

clientVars == <<wire, sentRecords, appSent, eof, torn>>

----------------------------------------------------------------------------
\* The client and the network (outside the program).

\* Application bytes are encrypted in sending order; other payloads are filler.
Payload(type, len) ==
    IF type = "app" THEN AesCtr(appSent, Plaintext(appSent, len))
    ELSE [i \in 1..len |-> CipherByte(0, 0)]

client_record(type, len) ==
    /\ ~eof /\ sentRecords < MaxRecords
    /\ wire' = wire \o TlsHeader(type, len) \o Payload(type, len)
    /\ sentRecords' = sentRecords + 1
    /\ appSent' = appSent + (IF type = "app" THEN len ELSE 0)
    /\ UNCHANGED <<eof, torn, trstate, header, body, rtype, rlen, rkey, taken,
                   inOrder, alerted, rresult>>

client_close ==
    /\ ~eof /\ eof' = TRUE
    /\ UNCHANGED <<wire, sentRecords, appSent, torn, trstate, header, body, rtype,
                   rlen, rkey, taken, inOrder, alerted, rresult>>

\* The connection closes after part of one more record.
client_torn(type, len, k) ==
    LET rec == TlsHeader(type, len) \o Payload(type, len) IN
    /\ ~eof /\ sentRecords < MaxRecords
    /\ k \in 1..(Len(rec) - 1)
    /\ wire' = wire \o Sent(k, rec)
    /\ eof' = TRUE /\ torn' = TRUE
    /\ UNCHANGED <<sentRecords, appSent, trstate, header, body, rtype, rlen, rkey,
                   taken, inOrder, alerted, rresult>>

----------------------------------------------------------------------------
\* FakeTlsReader.

ReaderWaits == rresult = "open"

EndReads(st, r) == trstate' = st /\ rresult' = r /\ header' = 0 /\ body' = <<>>

\* A missed case: an end of file inside a header counts as a clean one.
header_eof_lenient == EndReads("Idle", "eof")

\* End of file while a header is read: clean only before its first byte.
header_eof == IF header = 0 THEN EndReads("Idle", "eof") ELSE EndReads("Poisoned", "err")

\* TlsRecordHeader::validate.
validate(type, len) == type # "badversion" /\ len <= MaxTlsPayload

\* poll_read_header: n more symbols; a complete header is validated.
poll_read_header ==
    /\ ReaderWaits /\ trstate \in {"Idle", "ReadingHeader"}
    /\ \/ /\ wire = <<>> /\ eof
          /\ header_eof
          /\ UNCHANGED <<wire, rtype, rlen>>
       \/ \E n \in 1..(HeaderSize - header) :
          /\ n <= Len(wire)
          /\ wire' = Unsent(n, wire)
          /\ rtype' = wire[n].t /\ rlen' = wire[n].l
          /\ IF header + n < HeaderSize
             THEN /\ trstate' = "ReadingHeader" /\ header' = header + n
                  /\ UNCHANGED <<body, rresult>>
             ELSE IF validate(wire[n].t, wire[n].l)
             THEN trstate' = "ReadingBody" /\ header' = 0 /\ body' = <<>> /\ UNCHANGED rresult
             ELSE EndReads("Poisoned", "err")
    /\ UNCHANGED <<sentRecords, appSent, eof, torn, rkey, taken, inOrder, alerted>>

\* poll_read_body: n more payload symbols, or an end of file, which is an error.
poll_read_body ==
    /\ ReaderWaits /\ trstate = "ReadingBody" /\ Len(body) < rlen
    /\ \/ /\ wire = <<>> /\ eof
          /\ EndReads("Poisoned", "err")
          /\ UNCHANGED wire
       \/ \E n \in 1..(rlen - Len(body)) :
          /\ n <= Len(wire)
          /\ body' = body \o Sent(n, wire)
          /\ wire' = Unsent(n, wire)
          /\ UNCHANGED <<trstate, header, rresult>>
    /\ UNCHANGED <<sentRecords, appSent, eof, torn, rtype, rlen, rkey, taken, inOrder,
                   alerted>>

\* What a whole record means: application data is yielded, an empty one and a
\* ChangeCipherSpec are skipped, an alert is read as an end of file, the rest is an
\* error.
record_complete ==
    CASE rtype = "app" /\ rlen > 0 ->
            trstate' = "Yielding" /\ UNCHANGED <<body, header, rresult, alerted>>
      [] rtype = "ccs" \/ (rtype = "app" /\ rlen = 0) ->
            trstate' = "Idle" /\ body' = <<>> /\ UNCHANGED <<header, rresult, alerted>>
      [] rtype = "alert" -> EndReads("Idle", "eof") /\ alerted' = TRUE
      [] OTHER -> EndReads("Poisoned", "err") /\ UNCHANGED alerted

finish_record ==
    /\ ReaderWaits /\ trstate = "ReadingBody" /\ Len(body) = rlen
    /\ record_complete
    /\ UNCHANGED <<wire, sentRecords, appSent, eof, torn, rtype, rlen, rkey, taken, inOrder>>

----------------------------------------------------------------------------
\* CryptoReader::poll_read with a buffer of n bytes: FakeTlsReader copies what
\* fits, and exactly those bytes are decrypted in place.

Decrypts(data) == \A i \in DOMAIN data : data[i].k = rkey + i /\ data[i].b = taken + i

yield(n) ==
    LET out == Sent(SmallerOf(n, Len(body)), body) IN
    /\ inOrder' = (inOrder /\ Decrypts(out))
    /\ rkey' = rkey + Len(out)
    /\ taken' = taken + Len(out)
    /\ body' = Unsent(Len(out), body)
    /\ trstate' = IF body' = <<>> THEN "Idle" ELSE "Yielding"

poll_read(n) ==
    /\ ReaderWaits /\ trstate = "Yielding"
    /\ yield(n)
    /\ UNCHANGED <<wire, sentRecords, appSent, eof, torn, header, rtype, rlen, alerted, rresult>>

----------------------------------------------------------------------------
ReaderInit ==
    /\ wire = <<>> /\ sentRecords = 0 /\ appSent = 0
    /\ eof = FALSE /\ torn = FALSE
    /\ trstate = "Idle" /\ header = 0 /\ body = <<>>
    /\ rtype = "app" /\ rlen = 0
    /\ rkey = 0 /\ taken = 0 /\ inOrder = TRUE /\ alerted = FALSE
    /\ rresult = "open"

ReaderStep ==
    \/ poll_read_header
    \/ poll_read_body
    \/ finish_record
    \/ \E n \in ReadSizes : poll_read(n)

ReaderNext ==
    \/ \E r \in Records : client_record(r[1], r[2])
    \/ client_close
    \/ \E r \in Records, k \in 1..(HeaderSize + MaxTlsPayload) : client_torn(r[1], r[2], k)
    \/ ReaderStep

\* The task that owns the reader polls it whenever the socket is readable.
ReaderSpec == ReaderInit /\ [][ReaderNext]_readerVars /\ WF_readerVars(ReaderStep)

----------------------------------------------------------------------------
\* Properties.

\* The reader's state is well formed; a body never exceeds its record.
ReaderTypeOK ==
    /\ trstate \in {"Idle", "ReadingHeader", "ReadingBody", "Yielding", "Poisoned"}
    /\ rresult \in {"open", "eof", "err"}
    /\ header \in 0..(HeaderSize - 1) /\ Len(body) <= rlen
    /\ trstate \in {"ReadingBody", "Yielding"} => rlen <= MaxTlsPayload
    /\ rkey = taken

\* Whatever pieces the bytes arrive in and whatever records come between them,
\* the caller gets the client's application bytes in order, each decrypted at
\* its own keystream position (FakeTlsReader and CryptoReader poll_read).
PlaintextInOrder == inOrder

\* Reads end in a clean end of file only if nothing is missing: the client sent
\* an alert, or it closed at a record boundary and every byte was handed over.
\* A connection cut inside a record ends in an error instead.
EofComplete ==
    rresult = "eof" => alerted \/ (~torn /\ wire = <<>> /\ taken = appSent)

\* An alert ends the reads of a caller that stops at a read of no bytes, as all of
\* them do: no byte sent after it is handed over.
AlertEndsReads == [][alerted => taken' = taken]_readerVars

\* Once the client's direction is closed the reads end.
ReadsEnd == []<>(eof => rresult # "open")

\* What is read is what was sent, in order, under any split of the records; a
\* clean end is reported only after all of it, nothing follows an alert, and
\* reads end.
ReadsRight == [](PlaintextInOrder /\ EofComplete) /\ AlertEndsReads /\ ReadsEnd
=============================================================================
