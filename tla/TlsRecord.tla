------------------------------ MODULE TlsRecord ------------------------------
(***************************************************************************)
(* The bytes two ends of a client connection exchange, as symbols: a TLS   *)
(* record is HeaderSize header symbols (stream/tls_stream.rs,              *)
(* TlsRecordHeader) followed by its payload.  A payload byte is the        *)
(* plaintext byte's number in its stream and the AES-CTR keystream         *)
(* position it was encrypted at: the far end recovers the byte only if it  *)
(* decrypts it at the same position.  Plain numbers stand for bytes        *)
(* because the streams never look at a byte's value.                       *)
(***************************************************************************)
EXTENDS Naturals, Sequences

CONSTANTS
    HeaderSize,     \* TLS_HEADER_SIZE (5 in the code)
    MaxTlsPayload   \* MAX_TLS_PAYLOAD, and MAX_TLS_CHUNK_SIZE, its equal

ASSUME TlsRecordAssumption ==
    /\ HeaderSize \in Nat \ {0}
    /\ MaxTlsPayload \in Nat \ {0}

CipherByte(b, k) == [s |-> "byte", b |-> b, k |-> k]

\* The next n plaintext bytes after the first `done`, each at its own number.
Plaintext(done, n) == [i \in 1..n |-> done + i]

\* AES-CTR over data starting at keystream position pos.
AesCtr(pos, data) == [i \in DOMAIN data |-> CipherByte(data[i], pos + i)]

TlsHeader(type, len) == [i \in 1..HeaderSize |-> [s |-> "head", t |-> type, l |-> len]]

Sent(k, s) == SubSeq(s, 1, k)
Unsent(k, s) == SubSeq(s, k + 1, Len(s))

SmallerOf(a, b) == IF a < b THEN a ELSE b
=============================================================================
