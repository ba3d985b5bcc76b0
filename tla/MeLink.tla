------------------------------- MODULE MeLink -------------------------------
(***************************************************************************)
(* One connection to a Middle-End server, from TCP connect to the frames   *)
(* the reader task hands on: MePool::handshake_only                        *)
(* (transport/middle_proxy/handshake.rs), the address translation it needs *)
(* (pool_nat.rs), the RPC framing (codec.rs) and the parsing half of       *)
(* reader_loop (reader.rs).                                                *)
(*                                                                         *)
(* The two ends derive their keys from the addresses each of them sees, so *)
(* a handshake succeeds only if the proxy works out the address the ME     *)
(* sees.  The stream from the ME is a sequence of cipher words of four     *)
(* bytes; BlockWords of them are a CBC block.  A block decrypts if its     *)
(* words are aligned and the reader's IV is the block before it; otherwise *)
(* it is junk.  The words of a frame are its length, sequence number,      *)
(* payload and checksum; a length of one word is a filler.                 *)
(***************************************************************************)
EXTENDS Naturals, Sequences, SequencesExt

CONSTANTS
    Setups,     \* how the proxy reaches the ME, and what it knows of its own address
    BlockWords, \* words of a CBC block (4 in the code)
    MaxReplies, \* bound: frames the ME sends after the handshake
    MaxRead     \* bound: words one read of the socket returns

\* route: "direct" or "socks"; local: the socket's own address, "private" or "ourIp";
\* bound: the SOCKS BND.ADDR, "socksIp", "bogon" or "none"; stun, nat: the address
\* STUN and the configuration (nat_ip_cfg) give; probe: nat_probe; policy: MeSocksKdfPolicy;
\* atomic: secret_atomic_snapshot.
ASSUME MeLinkAssumption ==
    /\ Setups \subseteq [route : {"direct", "socks"}, local : {"private", "ourIp"},
                         bound : {"socksIp", "bogon", "none"}, stun : {"ourIp", "none"},
                         nat : {"ourIp", "none"}, probe : BOOLEAN,
                         policy : {"Strict", "Compat"}, atomic : BOOLEAN]
    /\ BlockWords \in Nat \ {0} /\ MaxReplies \in Nat /\ MaxRead \in Nat \ {0}

VARIABLES
    setup,
    hpc,        \* the proxy: "start", "fetch", "reflect", "secret", "nonce", "hs", "linked",
                \* "failed"
    detected,   \* nat_ip_detected: the public address a web service gave, or "none"
    poolSecret, \* version of the pool's secret
    selector, secret,   \* the versions this handshake uses (0: not read yet)
    kdfIp,      \* the client address of the proxy's key derivation
    mepc,        \* the ME: "wait", "nonce", "linked", "closed"
    meCrc, linkCrc,     \* checksum modes: the ME's and the one the proxy took
    meBlocks,   \* cipher blocks the ME has sent
    answers,    \* frames the ME sent after its handshake reply
    cipher,     \* cipher words sent and not read
    raw, dec,   \* words read and not decrypted; words decrypted and not parsed
    iv,         \* the block whose ciphertext is the reader's IV
    overRead,   \* the handshake read words beyond the reply
    got,        \* answers handed on by the reader
    reader,     \* the reader task: "runs", "eof", "cancelled" or "broken"
    faulty      \* the ME misbehaved in this handshake (bad nonce, error reply)

secretVars == <<poolSecret, selector, secret>>
cryptVars == <<cipher, raw, dec, iv>>
linkVars == <<setup, hpc, detected, poolSecret, selector, secret, kdfIp, mepc, meCrc, linkCrc,
              meBlocks, answers, cipher, raw, dec, iv, overRead, got, reader, faulty>>

----------------------------------------------------------------------------
\* Addresses.

\* The address the ME sees: the SOCKS server's, or ours after any NAT.
Seen(s) == IF s.route = "socks" THEN "socksIp" ELSE "ourIp"

\* select_socks_bound_addr: a bogon or missing BND.ADDR is not used.
select_socks_bound_addr(s) ==
    IF s.route = "socks" /\ s.bound = "socksIp" THEN s.bound ELSE "none"

\* The strict policy gives up on a SOCKS route without a usable bound address.
StrictRejects(s) ==
    s.route = "socks" /\ select_socks_bound_addr(s) = "none" /\ s.policy = "Strict"

\* The reflected address: the SOCKS bound address, else what STUN reports.
reflected(s) ==
    IF select_socks_bound_addr(s) # "none" THEN select_socks_bound_addr(s)
    ELSE IF s.probe THEN s.stun ELSE "none"

\* translate_ip_for_nat: a private address becomes the NAT's, if that is known. The
\* detected address counts only if its lock is free: another handshake may be
\* storing it.
translate_ip_for_nat(s, free) ==
    LET nat == IF s.nat # "none" THEN s.nat ELSE IF free THEN detected ELSE "none"
    IN IF s.local = "private" /\ nat # "none" THEN nat ELSE s.local

\* translate_our_addr_with_reflection: only a private address is replaced.
translate_our_addr(s, free) ==
    IF reflected(s) # "none" /\ s.local = "private" THEN reflected(s)
    ELSE translate_ip_for_nat(s, free)

----------------------------------------------------------------------------
\* Frames and blocks.

Word(kind, v) == [kind |-> kind, v |-> v]
Filler == Word("len", 1)
Junk == Word("junk", 0)

\* build_rpc_frame: the checksum word stands for the mode and what it covers.
rpc_frame(seq, payload, mode) ==
    <<Word("len", 3 + Len(payload)), Word("seq", seq)>> \o payload \o <<Word(mode, seq)>>

\* Fillers up to a whole number of blocks, as RpcWriter::send and cbc_encrypt_padded add.
padded(words) ==
    LET pad == (BlockWords - (Len(words) % BlockWords)) % BlockWords
    IN words \o [i \in 1..pad |-> Filler]

\* CBC encryption of whole blocks: word i lies in block after + ceil(i / BlockWords).
cbc_encrypt(after, words) ==
    [i \in DOMAIN words |->
        [w |-> words[i], blk |-> after + ((i - 1) \div BlockWords) + 1]]

\* A slip: a buffer that ends on a block boundary keeps its last block back.
Blocks_off_by_one(words) == IF words = <<>> THEN 0 ELSE (Len(words) - 1) \div BlockWords

\* The whole blocks of a buffer.
Blocks(words) == Len(words) \div BlockWords

KeysAgree == kdfIp = Seen(setup) /\ selector = secret

\* cbc_decrypt: every block that is aligned and follows the IV is recovered.
cbc_decrypt(words) ==
    [i \in DOMAIN words |->
        LET first == ((i - 1) \div BlockWords) * BlockWords + 1
            block == {words[j].blk : j \in first..(first + BlockWords - 1)}
            before == IF first = 1 THEN iv ELSE words[first - 1].blk
        IN IF KeysAgree /\ block = {before + 1} THEN words[i].w ELSE Junk]

\* Append n words to raw, decrypt the whole blocks, keep the rest raw.
ReadAndDecrypt(n) ==
    LET all == raw \o SubSeq(cipher, 1, n)
        whole == Blocks(all) * BlockWords
    IN /\ cipher' = SubSeq(cipher, n + 1, Len(cipher))
       /\ raw' = SubSeq(all, whole + 1, Len(all))
       /\ dec' = dec \o cbc_decrypt(SubSeq(all, 1, whole))
       /\ iv' = IF whole = 0 THEN iv ELSE all[whole].blk

----------------------------------------------------------------------------
\* The handshake, proxy side.

Fail == hpc' = "failed"

\* maybe_detect_nat_ip: a private address that no configured or detected one
\* translates is asked of a web service first.
maybe_detect_nat_ip ==
    /\ hpc = "start"
    /\ hpc' = IF setup.nat = "none" /\ setup.local = "private" /\ detected = "none"
              THEN "fetch" ELSE "reflect"
    /\ UNCHANGED <<setup, detected, secretVars, kdfIp, mepc, meCrc, linkCrc, meBlocks, answers,
                   cryptVars, overRead, got, reader, faulty>>

\* The services answered, with an address or without one.  The requests have no
\* timeout.
public_ip_answered ==
    /\ hpc = "fetch"
    /\ detected' \in {"ourIp", "none"}
    /\ hpc' = "reflect"
    /\ UNCHANGED <<setup, secretVars, kdfIp, mepc, meCrc, linkCrc, meBlocks, answers,
                   cryptVars, overRead, got, reader, faulty>>

\* The reflection policy, which decides the address of the key derivation.
reflect_address ==
    /\ hpc = "reflect"
    /\ IF StrictRejects(setup) THEN Fail /\ UNCHANGED kdfIp
       ELSE /\ hpc' = "secret"
            /\ \E free \in BOOLEAN : kdfIp' = translate_our_addr(setup, free)
    /\ UNCHANGED <<setup, detected, secretVars, mepc, meCrc, linkCrc, meBlocks, answers, cryptVars,
                   overRead, got, reader, faulty>>

\* The selector and the secret: one snapshot, or two reads that an update of the
\* secret may fall between.
read_selector ==
    /\ hpc = "secret" /\ selector = 0
    /\ selector' = poolSecret
    /\ secret' = IF setup.atomic THEN poolSecret ELSE 0
    /\ UNCHANGED <<setup, detected, hpc, poolSecret, kdfIp, mepc, meCrc, linkCrc, meBlocks, answers,
                   cryptVars, overRead, got, reader, faulty>>

read_secret ==
    /\ hpc = "secret" /\ selector # 0
    /\ secret' = IF secret = 0 THEN poolSecret ELSE secret
    /\ hpc' = "nonce"
    /\ UNCHANGED <<setup, detected, poolSecret, selector, kdfIp, mepc, meCrc, linkCrc, meBlocks,
                   answers, cryptVars, overRead, got, reader, faulty>>

\* The ME's nonce frame arrived: a bad one ends the handshake.  A good one gives
\* the keys, and the encrypted handshake frame is sent.
nonce_reply ==
    /\ hpc = "nonce" /\ mepc \in {"nonce", "closed"}
    /\ IF mepc = "closed" \/ faulty THEN Fail ELSE hpc' = "hs"
    /\ UNCHANGED <<setup, detected, secretVars, kdfIp, mepc, meCrc, linkCrc, meBlocks, answers,
                   cryptVars, overRead, got, reader, faulty>>

\* A slip: the reader starts from the IV of the handshake's first block.
hand_over_first_iv ==
    /\ raw' = <<>> /\ dec' = <<>>
    /\ iv' = 0

\* What the handshake leaves to the reader task: nothing of what it over-read, as
\* the reader starts with empty buffers and the IV reached here.
hand_over ==
    /\ raw' = <<>> /\ dec' = <<>>
    /\ UNCHANGED iv

\* The frame at the head of dec: its words, and whether its checksum holds.
FrameLen == dec[1].v
Checks(mode) ==
    /\ \A i \in 1..FrameLen : dec[i] # Junk
    /\ dec[2].kind = "seq" /\ dec[FrameLen] = Word(mode, dec[2].v)

\* Whether the handshake's loop needs more words.
HandshakeStarved == IF dec = <<>> THEN TRUE ELSE dec[1].kind = "len" /\ FrameLen > Len(dec)

\* A read of the reply: some words, decrypted as far as whole blocks go.
handshake_read ==
    /\ hpc = "hs" /\ HandshakeStarved
    /\ \E n \in 1..MaxRead : n <= Len(cipher) /\ ReadAndDecrypt(n)
    /\ UNCHANGED <<setup, detected, hpc, secretVars, kdfIp, mepc, meCrc, linkCrc, meBlocks, answers,
                   overRead, got, reader, faulty>>

\* The checksum mode in the ME's flags (crc32c was asked for; crc32 is the default).
negotiated(flag) == flag

\* One pass of the handshake's loop: skip a filler, reject what is no frame or
\* does not check, accept the reply.
handshake_parse ==
    /\ hpc = "hs" /\ ~HandshakeStarved
    /\ \/ /\ dec[1] = Filler
          /\ dec' = Tail(dec)
          /\ UNCHANGED <<hpc, linkCrc, raw, iv, overRead>>
       \/ /\ dec[1].kind # "len" \/ (FrameLen > 1 /\ (~Checks("crc32") \/ dec[3].kind # "flags"))
          /\ Fail
          /\ UNCHANGED <<linkCrc, raw, dec, iv, overRead>>
       \/ /\ dec[1].kind = "len" /\ FrameLen > 1 /\ Checks("crc32") /\ dec[3].kind = "flags"
          /\ hpc' = "linked"
          /\ linkCrc' = negotiated(dec[3].v)
          /\ overRead' = (raw # <<>> \/ \E i \in (FrameLen + 1)..Len(dec) : dec[i] # Filler)
          /\ hand_over
    /\ UNCHANGED <<setup, detected, secretVars, kdfIp, mepc, meCrc, meBlocks, answers, cipher, got,
                   reader, faulty>>

handshake_eof ==
    /\ hpc = "hs" /\ HandshakeStarved /\ cipher = <<>> /\ mepc = "closed"
    /\ Fail
    /\ UNCHANGED <<setup, detected, secretVars, kdfIp, mepc, meCrc, linkCrc, meBlocks, answers,
                   cryptVars, overRead, got, reader, faulty>>

\* ME_HANDSHAKE_TIMEOUT_SECS, for the nonce and for the reply.
handshake_deadline ==
    /\ hpc \in {"nonce", "hs"}
    /\ Fail
    /\ UNCHANGED <<setup, detected, secretVars, kdfIp, mepc, meCrc, linkCrc, meBlocks, answers,
                   cryptVars, overRead, got, reader, faulty>>

----------------------------------------------------------------------------
\* The reader task.

ReaderStarved == IF Len(dec) < 3 THEN TRUE ELSE dec[1].kind = "len" /\ FrameLen > Len(dec)

reader_read ==
    /\ hpc = "linked" /\ reader = "runs" /\ ReaderStarved
    /\ \E n \in 1..MaxRead : n <= Len(cipher) /\ ReadAndDecrypt(n)
    /\ UNCHANGED <<setup, detected, hpc, secretVars, kdfIp, mepc, meCrc, linkCrc, meBlocks, answers,
                   overRead, got, reader, faulty>>

\* The ME closed the connection, and all it sent has been read.
reader_eof ==
    /\ hpc = "linked" /\ reader = "runs" /\ ReaderStarved
    /\ cipher = <<>> /\ mepc = "closed"
    /\ reader' = "eof"
    /\ UNCHANGED <<setup, detected, hpc, secretVars, kdfIp, mepc, meCrc, linkCrc, meBlocks, answers,
                   cryptVars, overRead, got, faulty>>

\* The writer of this link is removed, which cancels the reader where it waits.
reader_cancelled ==
    /\ hpc = "linked" /\ reader = "runs" /\ ReaderStarved
    /\ reader' = "cancelled"
    /\ UNCHANGED <<setup, detected, hpc, secretVars, kdfIp, mepc, meCrc, linkCrc, meBlocks, answers,
                   cryptVars, overRead, got, faulty>>

SeqOk == dec[2].v = Len(got)

TakeFrame == dec' = SubSeq(dec, FrameLen + 1, Len(dec))

\* One pass of the reader's loop.  A length out of range clears the buffer and
\* reading goes on; a wrong checksum or sequence number ends the task.
reader_parse ==
    /\ hpc = "linked" /\ reader = "runs" /\ ~ReaderStarved
    /\ \/ /\ dec[1] = Filler
          /\ dec' = Tail(dec) /\ UNCHANGED <<got, reader>>
       \/ /\ dec[1].kind # "len"
          /\ dec' = <<>> /\ UNCHANGED got
          /\ reader' \in {"runs", "broken"}
       \/ /\ dec[1].kind = "len" /\ FrameLen > 1
          /\ TakeFrame
          /\ IF Checks(linkCrc) /\ SeqOk
             THEN got' = Append(got, dec[3].v) /\ UNCHANGED reader
             ELSE reader' = "broken" /\ UNCHANGED got
    /\ UNCHANGED <<setup, detected, hpc, secretVars, kdfIp, mepc, meCrc, linkCrc, meBlocks, answers,
                   cipher, raw, iv, overRead, faulty>>

----------------------------------------------------------------------------
\* The Middle-End (outside the program) and the pool's secret updates.

MeSends(words) ==
    /\ cipher' = cipher \o cbc_encrypt(meBlocks, padded(words))
    /\ meBlocks' = meBlocks + Blocks(padded(words))

me_nonce ==
    /\ hpc = "nonce" /\ mepc = "wait"
    /\ mepc' = "nonce"
    /\ faulty' \in BOOLEAN
    /\ UNCHANGED <<setup, detected, hpc, secretVars, kdfIp, meCrc, linkCrc, meBlocks, answers,
                   cryptVars, overRead, got, reader>>

\* The handshake reply: flags with the mode the ME will use, or an error.
me_reply ==
    /\ hpc = "hs" /\ mepc = "nonce"
    /\ mepc' = "linked"
    /\ meCrc' \in {"crc32", "crc32c"}
    /\ \E kind \in {"flags", "error"} :
        /\ MeSends(rpc_frame(0, <<Word(kind, meCrc'), Word("pid", 0)>>, "crc32"))
        /\ faulty' = (faulty \/ kind = "error")
    /\ UNCHANGED <<setup, detected, hpc, secretVars, kdfIp, linkCrc, answers, raw, dec, iv, overRead,
                   got, reader>>

\* The ME may send as soon as it has replied; a frame has one or two payload words.
me_sends ==
    /\ mepc = "linked" /\ ~faulty /\ answers < MaxReplies
    /\ \E more \in {<<>>, <<Word("data", 0)>>} :
        MeSends(rpc_frame(answers, <<Word("data", answers)>> \o more, meCrc))
    /\ answers' = answers + 1
    /\ UNCHANGED <<setup, detected, hpc, secretVars, kdfIp, mepc, meCrc, linkCrc, raw, dec, iv, overRead,
                   got, reader, faulty>>

me_closes ==
    /\ mepc # "closed"
    /\ mepc' = "closed"
    /\ UNCHANGED <<setup, detected, hpc, secretVars, kdfIp, meCrc, linkCrc, meBlocks, answers,
                   cryptVars, overRead, got, reader, faulty>>

update_secret ==
    /\ poolSecret = 1 /\ hpc = "secret"
    /\ poolSecret' = 2
    /\ UNCHANGED <<setup, detected, hpc, selector, secret, kdfIp, mepc, meCrc, linkCrc, meBlocks,
                   answers, cryptVars, overRead, got, reader, faulty>>

----------------------------------------------------------------------------
LinkInit ==
    /\ setup \in Setups
    /\ hpc = "start" /\ mepc = "wait"
    /\ detected \in {"ourIp", "none"}
    /\ poolSecret = 1 /\ selector = 0 /\ secret = 0
    /\ kdfIp = "none"
    /\ meCrc = "crc32" /\ linkCrc = "crc32"
    /\ meBlocks = 0 /\ answers = 0
    /\ cipher = <<>> /\ raw = <<>> /\ dec = <<>> /\ iv = 0
    /\ overRead = FALSE /\ got = <<>> /\ reader = "runs" /\ faulty = FALSE

LinkStep ==
    \/ maybe_detect_nat_ip \/ reflect_address \/ read_selector \/ read_secret \/ nonce_reply
    \/ handshake_read \/ handshake_parse \/ handshake_eof
    \/ reader_read \/ reader_parse \/ reader_eof

LinkNext ==
    \/ LinkStep \/ public_ip_answered \/ handshake_deadline \/ reader_cancelled
    \/ me_nonce \/ me_reply \/ me_sends \/ me_closes \/ update_secret

\* The tasks run and the deadlines fire; nothing is assumed of the ME, nor of the
\* services that tell the public address.
LinkSpec ==
    /\ LinkInit /\ [][LinkNext]_linkVars
    /\ WF_linkVars(LinkStep) /\ WF_linkVars(handshake_deadline)

----------------------------------------------------------------------------
\* Properties.

\* The link's state is well formed; raw holds less than a block between reads.
LinkTypeOK ==
    /\ setup \in Setups
    /\ hpc \in {"start", "fetch", "reflect", "secret", "nonce", "hs", "linked", "failed"}
    /\ mepc \in {"wait", "nonce", "linked", "closed"}
    /\ Len(raw) < BlockWords
    /\ iv <= meBlocks /\ Len(got) <= answers
    /\ {selector, secret} \subseteq 0..2

\* A handshake that succeeds leaves both ends with the same keys, derived from the
\* same address and from one version of the secret, and the same checksum mode.
LinkedAgree == hpc = "linked" => KeysAgree /\ linkCrc = meCrc

\* Where the proxy can know the address the ME sees, its key derivation uses it:
\* its own public address, the configured one, what STUN reports, or the SOCKS bound
\* address. The last is used only behind a private address (pool_nat.rs replaces no
\* other). A detected address is no such knowledge: it is passed over while another
\* handshake stores one.
KdfAddressRight ==
    LET s == setup
        knowable == IF s.route = "direct"
                    THEN s.local = "ourIp" \/ s.nat = "ourIp" \/ (s.probe /\ s.stun = "ourIp")
                    ELSE s.local = "private" /\ s.bound = "socksIp"
    IN hpc \notin {"start", "fetch", "reflect", "failed"} /\ knowable => kdfIp = Seen(s)

\* The reader hands on the ME's frames in order and without a gap. When the handshake
\* read a part of the first one, which the reader's empty buffers drop, it hands on
\* none at all.
AnswersInOrder == \A i \in DOMAIN got : got[i] = i - 1

\* A link whose handshake read nothing beyond the reply does not break: its reader
\* ends only when the ME closes or the writer is removed, and before the ME's end of
\* stream every frame it sent has been handed on.
LinkHealthy ==
    (hpc = "linked" /\ ~overRead) =>
        /\ reader # "broken"
        /\ (cipher = <<>> /\ ReaderStarved) => Len(got) = answers
        /\ reader = "eof" => Len(got) = answers

\* Every handshake ends, whatever the ME does or fails to do, unless it waits for
\* ever for a service that tells the public address.
HandshakeEnds == []<>(hpc # "fetch") => []<>(hpc \in {"linked", "failed"})

\* A link: a handshake ends unless the request for the public address does not; a
\* linked one has the keys and the checksum the ME has, and its address where that
\* can be known. The reader hands on the answers in order, and all of them if the
\* handshake read nothing beyond the reply.
LinkRight == [](LinkedAgree /\ KdfAddressRight /\ AnswersInOrder /\ LinkHealthy) /\ HandshakeEnds
=============================================================================
