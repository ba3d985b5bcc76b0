----------------------------- MODULE ProxyHeader ----------------------------
(***************************************************************************)
(* The PROXY protocol header (transport/proxy_protocol.rs): what the       *)
(* builders put before a masked connection's data, and how the header of a *)
(* client connection is read, piece by piece as the bytes arrive, without  *)
(* taking a byte of what follows.                                          *)
(*                                                                         *)
(* A header is its fields and its length; the stream is counted, not       *)
(* spelled: Sig1 bytes decide for version 1, Sig2 more for version 2.      *)
(***************************************************************************)
EXTENDS Naturals, FiniteSetsExt

CONSTANTS
    Addresses,      \* socket addresses [fam, name]
    DefaultPeer,    \* the address of the TCP connection itself
    Foreign,        \* headers other programs send
    Sig1, Sig2,     \* PROXY_V1_MIN_LEN (6) and the rest of PROXY_V2_MIN_LEN (10)
    Len4, Len6,     \* address block of version 2 (12, 36)
    MaxLine,        \* longest version 1 line (256)
    Payload         \* bytes of data after the header

VARIABLES
    header,     \* the header on its way
    arrived,    \* bytes that arrived
    closed,     \* the peer closed
    taken,      \* bytes the parser took
    stage,      \* "sig", "rest", "line", "block", "ok" or "err"
    info        \* what was parsed: [src, dst]

headerVars == <<header, arrived, closed, taken, stage, info>>

NoAddr == [fam |-> "none", name |-> "none"]
NoInfo == [src |-> NoAddr, dst |-> NoAddr]

----------------------------------------------------------------------------
\* The builders.  chars is the length of a version 1 line after the signature,
\* its CRLF included; len the length of a version 2 address block.

\* Which addresses a header can carry: both of one family.
Families(src, dst) ==
    IF src.fam = "v4" /\ dst.fam = "v4" THEN "tcp4"
    ELSE IF src.fam = "v6" /\ dst.fam = "v6" THEN "tcp6" ELSE "unknown"

v1_build(src, dst) ==
    [version |-> 1, command |-> "proxy", fam |-> Families(src, dst), src |-> src, dst |-> dst,
     len |-> MaxLine - Sig1]

v2_build(src, dst) ==
    LET fam == Families(src, dst)
    IN [version |-> 2, command |-> IF fam = "unknown" THEN "local" ELSE "proxy",
        fam |-> fam, src |-> src, dst |-> dst,
        len |-> IF fam = "tcp4" THEN Len4 ELSE IF fam = "tcp6" THEN Len6 ELSE 0]

Built == {v1_build(s, d) : s, d \in Addresses} \cup {v2_build(s, d) : s, d \in Addresses}

HeaderLen(h) == IF h.version = 1 THEN Sig1 + h.len
                ELSE IF h.version = 2 THEN Sig1 + Sig2 + h.len ELSE 0

----------------------------------------------------------------------------
\* The parser.  read_exact waits for n bytes; the end of the stream is an error.

Enough(n) == arrived - taken >= n
CutShort(n) == closed /\ ~Enough(n)

Finish(s, i) == stage' = s /\ info' = i

WithDefault == [src |-> DefaultPeer, dst |-> NoAddr]

fail == Finish("err", NoInfo)

\* parse_proxy_protocol: the signature of version 1, or the rest of version 2's.
parse_proxy_protocol ==
    /\ \/ stage = "sig" /\ IF Enough(Sig1)
          THEN /\ taken' = taken + Sig1
               /\ Finish(IF header.version = 1 THEN "line" ELSE "rest", NoInfo)
          ELSE CutShort(Sig1) /\ fail /\ UNCHANGED taken
       \/ stage = "rest" /\ IF Enough(Sig2)
          THEN /\ taken' = taken + Sig2
               /\ IF header.version = 2 THEN Finish("block", NoInfo) ELSE fail
          ELSE CutShort(Sig2) /\ fail /\ UNCHANGED taken
    /\ UNCHANGED <<header, arrived, closed>>

LineTooLong(n) == Sig1 + n > MaxLine

\* parse_v1 reads byte by byte up to CRLF; a line past the limit is refused.
parse_v1 ==
    /\ stage = "line"
    /\ LET soFar == taken - Sig1
       IN IF Enough(1)
          THEN /\ taken' = taken + 1
               /\ IF soFar + 1 = header.len
                  THEN IF header.fam \in {"tcp4", "tcp6"}
                       THEN Finish("ok", [src |-> header.src, dst |-> header.dst])
                       ELSE IF header.fam = "unknown" THEN Finish("ok", WithDefault) ELSE fail
                  ELSE IF LineTooLong(soFar + 1) THEN fail ELSE UNCHANGED <<stage, info>>
          ELSE CutShort(1) /\ fail /\ UNCHANGED taken
    /\ UNCHANGED <<header, arrived, closed>>

\* A slip: only the addresses are read, not what may follow them in the block.
BlockLen_addresses(h) == IF h.fam = "tcp4" THEN Len4 ELSE IF h.fam = "tcp6" THEN Len6 ELSE 0

\* parse_v2 reads the whole block, extensions included.
BlockLen(h) == h.len

\* The addresses of a block: the connection's own for LOCAL and for no family.
parsed_v2(h) ==
    IF h.command = "local" \/ h.fam = "unknown" THEN WithDefault
    ELSE [src |-> h.src, dst |-> h.dst]

\* Commands and families that are refused, and blocks too short for their family.
refused_v2(h) ==
    h.command # "local" /\ \/ h.command # "proxy"
                           \/ h.fam \notin {"tcp4", "tcp6", "unknown"}
                           \/ h.fam = "tcp4" /\ h.len < Len4
                           \/ h.fam = "tcp6" /\ h.len < Len6

parse_v2 ==
    /\ stage = "block"
    /\ IF Enough(BlockLen(header))
       THEN /\ taken' = taken + BlockLen(header)
            /\ IF refused_v2(header) THEN fail ELSE Finish("ok", parsed_v2(header))
       ELSE CutShort(BlockLen(header)) /\ fail /\ UNCHANGED taken
    /\ UNCHANGED <<header, arrived, closed>>

----------------------------------------------------------------------------
\* The peer sends, and may close at any point.

peer_bytes ==
    /\ ~closed /\ arrived < HeaderLen(header) + Payload
    /\ \E n \in 1 .. HeaderLen(header) + Payload - arrived : arrived' = arrived + n
    /\ UNCHANGED <<header, closed, taken, stage, info>>

peer_close ==
    /\ ~closed /\ closed' = TRUE
    /\ UNCHANGED <<header, arrived, taken, stage, info>>

HeaderInit ==
    /\ header \in Built \cup Foreign
    /\ arrived = 0 /\ closed = FALSE /\ taken = 0
    /\ stage = "sig" /\ info = NoInfo

HeaderNext == parse_proxy_protocol \/ parse_v1 \/ parse_v2 \/ peer_bytes \/ peer_close

ParseStep == parse_proxy_protocol \/ parse_v1 \/ parse_v2

\* The handler runs; the peer need not send.
HeaderSpec == HeaderInit /\ [][HeaderNext]_headerVars /\ WF_headerVars(ParseStep)

----------------------------------------------------------------------------
\* Properties.

\* The state is well formed: the parser took no byte that had not arrived, and no
\* more than the limit of a line.
HeaderTypeOK ==
    /\ taken <= arrived
    /\ stage \in {"sig", "rest", "line", "block", "ok", "err"}
    /\ stage = "line" => taken <= MaxLine

\* However the bytes were cut up, a parsed header leaves the stream at the first
\* byte of the data behind it.
DataUntouched == stage = "ok" => taken = HeaderLen(header)

\* What the builders write is read back: the same addresses when both have one
\* family, the connection's own when they do not.
BuiltReadBack ==
    (header \in Built /\ stage = "ok") =>
        info = IF header.src.fam = header.dst.fam
               THEN [src |-> header.src, dst |-> header.dst] ELSE WithDefault

\* The addresses in a header that carries none are not believed.
LocalNotBelieved ==
    (stage = "ok" /\ header.command = "local") => info.src = DefaultPeer

\* Once all of a header has arrived, or the peer closed, the parse comes to an end;
\* a header the builders wrote is never refused when it is complete.
HeaderDecided ==
    /\ []<>(arrived >= HeaderLen(header) + Payload \/ closed => stage \in {"ok", "err"})
    /\ [](header \in Built /\ stage = "err" => closed /\ arrived < HeaderLen(header))

\* A PROXY header, in whatever pieces it comes, is decided; exactly its bytes are
\* taken, what the builders wrote is read back, and LOCAL does not change the
\* peer.
HeaderRight == [](DataUntouched /\ BuiltReadBack /\ LocalNotBelieved) /\ HeaderDecided
=============================================================================
