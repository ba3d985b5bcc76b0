------------------------- MODULE StreamWriterProofs -------------------------
(***************************************************************************)
(* CryptoWriter over FakeTlsWriter over the socket, for any sizes of the   *)
(* writes, any max_pending_write, and any way the socket splits, delays or *)
(* refuses what it is given.                                               *)
(*                                                                         *)
(* None of WireInOrder, NothingDropped and the steps of ByteSink is        *)
(* inductive: they speak of the client and count bytes, and say nothing of *)
(* which bytes wait in the two buffers.  WriterInv says it: the record is  *)
(* the rest of the one the client expects (FitsAt), its bytes begin after  *)
(* the last one delivered, the pending ciphertext begins after them, and   *)
(* the encryptor stands right behind the last byte accepted.               *)
(*                                                                         *)
(* What the client makes of many symbols is a recursion (Heard); its value *)
(* is found by looking at the least symbol where a claim would fail.       *)
(***************************************************************************)
EXTENDS StreamWriter, FiniteSetTheorems, WellFoundedInduction, TLAPS

\* Among natural numbers there is a least one.
LEMMA LeastNatural ==
  ASSUME NEW S, S \subseteq Nat, S # {}
  PROVE  \E x \in S : \A y \in S : ~(y < x)
<1> DEFINE R == OpToRel(<, Nat)
<1>1. IsWellFoundedOn(R, Nat)
  BY NatLessThanWellFounded, Zenon
<1>2. \A x, y \in Nat : <<y, x>> \in R <=> y < x
  BY DEF OpToRel
<1> HIDE DEF R
<1>3. \E x \in S : \A y \in S : ~(<<y, x>> \in R)
  BY <1>1, WFMin, Zenon
<1> QED BY <1>2, <1>3, Zenon

\* The recursion of Heard has a solution.
LEMMA HeardExists ==
  ASSUME NEW q, NEW m \in Nat
  PROVE  \E h : h = [i \in 0..m |-> IF i = 0 THEN peer ELSE PeerReceive(h[i - 1], q[i])]
<1> DEFINE Solved(n) ==
      \E h : h = [i \in 0..n |-> IF i = 0 THEN peer ELSE PeerReceive(h[i - 1], q[i])]
<1> DEFINE S == {n \in Nat : ~Solved(n)}
<1>1. SUFFICES ASSUME S # {} PROVE FALSE
  OBVIOUS
<1>2. PICK n \in S : \A y \in S : ~(y < n)
  BY <1>1, LeastNatural, Zenon
<1>3. CASE n = 0
  <2> DEFINE h == [i \in 0..0 |-> peer]
  <2>1. h = [i \in 0..0 |-> IF i = 0 THEN peer ELSE PeerReceive(h[i - 1], q[i])]
    OBVIOUS
  <2> QED BY <2>1, <1>2, <1>3, Zenon
<1>4. CASE n # 0
  <2>1. n - 1 \in Nat /\ n \in Nat /\ n - 1 < n
    BY <1>2, <1>4
  <2>2. Solved(n - 1)
    BY <2>1, <1>2
  <2>3. PICK h : h = [i \in 0..(n - 1) |-> IF i = 0 THEN peer ELSE PeerReceive(h[i - 1], q[i])]
    BY <2>2
  <2> DEFINE g == [i \in 0..n |-> IF i = n THEN PeerReceive(h[n - 1], q[n]) ELSE h[i]]
  <2>4. \A i \in 0..n : g[i] = IF i = 0 THEN peer ELSE PeerReceive(g[i - 1], q[i])
    <3> SUFFICES ASSUME NEW i \in 0..n
                 PROVE  g[i] = IF i = 0 THEN peer ELSE PeerReceive(g[i - 1], q[i])
      OBVIOUS
    <3>1. i # 0 => i - 1 \in 0..(n - 1) /\ g[i - 1] = h[i - 1]
      BY <2>1
    <3>2. CASE i = n
      BY <3>1, <3>2, <2>1
    <3>3. CASE i # n
      <4>1. i \in 0..(n - 1) /\ g[i] = h[i]
        BY <3>3, <2>1
      <4>2. h[i] = IF i = 0 THEN peer ELSE PeerReceive(h[i - 1], q[i])
        BY <4>1, <2>3
      <4> QED BY <3>1, <4>1, <4>2
    <3> QED BY <3>2, <3>3
  <2>5. g = [i \in 0..n |-> IF i = 0 THEN peer ELSE PeerReceive(g[i - 1], q[i])]
    <3> DEFINE e == [i \in 0..n |-> IF i = 0 THEN peer ELSE PeerReceive(g[i - 1], q[i])]
    <3>1. \A i \in 0..n : e[i] = IF i = 0 THEN peer ELSE PeerReceive(g[i - 1], q[i])
      OBVIOUS
    <3>2. e = [i \in 0..n |-> e[i]] /\ g = [i \in 0..n |-> g[i]]
      OBVIOUS
    <3> HIDE DEF e, g
    <3>3. \A i \in 0..n : e[i] = g[i]
      BY <3>1, <2>4
    <3>4. e = g
      BY <3>2, <3>3
    <3> QED BY <3>4 DEF e
  <2> HIDE DEF g
  <2>6. Solved(n)
    BY <2>5
  <2> QED BY <2>6, <1>2
<1> QED BY <1>3, <1>4

\* The client after a symbol is what PeerReceive makes of it.
LEMMA HeardStep ==
  ASSUME NEW q, Len(q) \in Nat
  PROVE  /\ Heard(q)[0] = peer
         /\ \A i \in 1..Len(q) : Heard(q)[i] = PeerReceive(Heard(q)[i - 1], q[i])
<1> DEFINE m == Len(q)
           H == Heard(q)
<1>1. \E h : h = [i \in 0..m |-> IF i = 0 THEN peer ELSE PeerReceive(h[i - 1], q[i])]
  BY HeardExists, Zenon
<1>2. H = [i \in 0..m |-> IF i = 0 THEN peer ELSE PeerReceive(H[i - 1], q[i])]
  BY <1>1, SMTT(30), Zenon DEF Heard
<1> HIDE DEF H
<1>3. \A i \in 0..m : H[i] = IF i = 0 THEN peer ELSE PeerReceive(H[i - 1], q[i])
  BY <1>2
<1> QED BY <1>3 DEF H

-----------------------------------------------------------------------------
\* The rest of a record: hn header symbols and bn bytes from byte g + 1 on.
HeadSym(n) == [s |-> "head", t |-> "app", l |-> n]
Wire(hn, bn, g) ==
    [i \in 1..(hn + bn) |-> IF i <= hn THEN HeadSym(bn) ELSE CipherByte((g + i) - hn, (g + i) - hn)]

\* The client that expects it.
PeerAt(hn, bn, g) ==
    [ok |-> TRUE, head |-> IF hn = 0 THEN 0 ELSE HeaderSize - hn,
     left |-> IF hn = 0 THEN bn ELSE 0, got |-> g]

\* What is left of hn header symbols, and the bytes that follow, among k symbols.
HeadsLeft(hn, k) == IF k <= hn THEN hn - k ELSE 0
BytesIn(hn, k) == IF k <= hn THEN 0 ELSE k - hn

Sym == {HeadSym(n) : n \in Nat} \cup {CipherByte(n, n) : n \in Nat}

\* A record's rest is a sequence, symbol by symbol.
LEMMA WireSeq ==
  ASSUME NEW hn \in Nat, NEW bn \in Nat, NEW g \in Nat
  PROVE  /\ Wire(hn, bn, g) \in Seq(Sym) /\ Len(Wire(hn, bn, g)) = hn + bn
         /\ \A i \in 1..(hn + bn) : Wire(hn, bn, g)[i] =
                IF i <= hn THEN HeadSym(bn) ELSE CipherByte((g + i) - hn, (g + i) - hn)
<1>1. HeadSym(bn) \in Sym
  BY DEF Sym
<1>2. \A i \in 1..(hn + bn) : ~(i <= hn) => CipherByte((g + i) - hn, (g + i) - hn) \in Sym
  <2> SUFFICES ASSUME NEW i \in 1..(hn + bn), ~(i <= hn)
               PROVE  CipherByte((g + i) - hn, (g + i) - hn) \in Sym
    OBVIOUS
  <2>1. (g + i) - hn \in Nat
    OBVIOUS
  <2> QED BY <2>1, Zenon DEF Sym
<1>3. hn + bn \in Nat
  OBVIOUS
<1> QED BY <1>1, <1>2, <1>3 DEF Wire

\* A symbol more.
LEMMA SymbolHeard ==
  ASSUME overTls = TRUE, NEW hn \in 0..HeaderSize, NEW bn \in Nat, NEW g \in Nat, NEW i \in 1..(hn + bn)
  PROVE  PeerReceive(PeerAt(HeadsLeft(hn, i - 1), bn - BytesIn(hn, i - 1), g + BytesIn(hn, i - 1)),
                     Wire(hn, bn, g)[i])
         = PeerAt(HeadsLeft(hn, i), bn - BytesIn(hn, i), g + BytesIn(hn, i))
<1>1. Wire(hn, bn, g)[i] = IF i <= hn THEN HeadSym(bn) ELSE CipherByte((g + i) - hn, (g + i) - hn)
  BY WireSeq
<1>2. HeaderSize \in Nat \ {0} /\ hn \in Nat /\ hn <= HeaderSize /\ i \in Nat /\ i >= 1
  BY TlsRecordAssumption
<1>3. CASE i <= hn
  <2>1. /\ HeadsLeft(hn, i - 1) = (hn - i) + 1 /\ HeadsLeft(hn, i) = hn - i
        /\ BytesIn(hn, i - 1) = 0 /\ BytesIn(hn, i) = 0
    BY <1>2, <1>3 DEF HeadsLeft, BytesIn
  <2>2. Wire(hn, bn, g)[i] = HeadSym(bn)
    BY <1>1, <1>3
  <2> DEFINE r == hn - i
  <2>3. r \in Nat /\ r < HeaderSize
    BY <1>2, <1>3
  <2> HIDE DEF r
  <2>4. PeerReceive(PeerAt(r + 1, bn, g), HeadSym(bn)) = PeerAt(r, bn, g)
    <3>1. r + 1 # 0 /\ (HeaderSize - (r + 1)) + 1 = HeaderSize - r
      BY <2>3, <1>2
    <3>2. CASE r = 0
      <4>1. HeaderSize % HeaderSize = 0 /\ HeaderSize - r = HeaderSize
        BY <1>2, <3>2
      <4> QED BY <3>1, <3>2, <4>1, Zenon DEF PeerReceive, PeerAt, HeadSym
    <3>3. CASE r # 0
      <4>1. (HeaderSize - r) % HeaderSize = HeaderSize - r /\ HeaderSize - r # HeaderSize
        BY <1>2, <3>3, <2>3
      <4> QED BY <3>1, <3>3, <4>1, Zenon DEF PeerReceive, PeerAt, HeadSym
    <3> QED BY <3>2, <3>3
  <2>5. bn - 0 = bn /\ g + 0 = g
    OBVIOUS
  <2> QED BY <2>1, <2>2, <2>4, <2>5 DEF r
<1>4. CASE ~(i <= hn)
  <2> DEFINE j == i - hn
  <2>1. /\ HeadsLeft(hn, i - 1) = 0 /\ HeadsLeft(hn, i) = 0
        /\ BytesIn(hn, i - 1) = j - 1 /\ BytesIn(hn, i) = j /\ (g + i) - hn = g + j
        /\ j \in Nat /\ j >= 1 /\ j <= bn
    BY <1>2, <1>4 DEF HeadsLeft, BytesIn
  <2>2. Wire(hn, bn, g)[i] = CipherByte(g + j, g + j)
    BY <1>1, <1>4, <2>1
  <2> HIDE DEF j
  <2>3. /\ g + (j - 1) + 1 = g + j /\ bn - (j - 1) > 0 /\ (bn - (j - 1)) - 1 = bn - j
    BY <2>1
  <2>4. PeerReceive(PeerAt(0, bn - (j - 1), g + (j - 1)), CipherByte(g + j, g + j)) = PeerAt(0, bn - j, g + j)
    BY <2>3, Zenon DEF PeerReceive, PeerAt, CipherByte
  <2> QED BY <2>1, <2>2, <2>4
<1> QED BY <1>3, <1>4

\* The client's states h follow the symbols of w from the d-th of q on, k of them.
Follows(h, q, d, k, w) ==
    \A i \in 1..k : q[d + i] = w[i] /\ h[d + i] = PeerReceive(h[(d + i) - 1], q[d + i])

\* What the client has become after k symbols of a record.
LEMMA RecordHeard ==
  ASSUME overTls = TRUE, NEW hn \in 0..HeaderSize, NEW bn \in Nat, NEW g \in Nat,
         NEW h, NEW q, NEW d \in Nat, NEW k \in 0..(hn + bn), h[d] = PeerAt(hn, bn, g),
         Follows(h, q, d, k, Wire(hn, bn, g))
  PROVE  h[d + k] = PeerAt(HeadsLeft(hn, k), bn - BytesIn(hn, k), g + BytesIn(hn, k))
<1> DEFINE At(i) == PeerAt(HeadsLeft(hn, i), bn - BytesIn(hn, i), g + BytesIn(hn, i))
           S == {i \in Nat : i <= k /\ h[d + i] # At(i)}
<1>0. k \in Nat /\ hn \in Nat /\ k <= hn + bn
  BY TlsRecordAssumption
<1>1. SUFFICES ASSUME S # {} PROVE FALSE
  BY <1>0
<1>2. PICK i \in S : \A y \in S : ~(y < i)
  BY <1>1, LeastNatural, Zenon
<1>3. i \in Nat /\ i <= k /\ h[d + i] # At(i)
  BY <1>2
<1>4. CASE i = 0
  <2>1. HeadsLeft(hn, 0) = hn /\ BytesIn(hn, 0) = 0 /\ bn - 0 = bn /\ g + 0 = g /\ d + 0 = d
    BY <1>0 DEF HeadsLeft, BytesIn
  <2> QED BY <2>1, <1>3, <1>4, Zenon
<1>5. CASE i # 0
  <2>1. i \in 1..k /\ i - 1 \in Nat /\ i - 1 < i /\ i - 1 <= k /\ (d + i) - 1 = d + (i - 1)
        /\ i \in 1..(hn + bn)
    BY <1>0, <1>3, <1>5
  <2>2. i - 1 \notin S
    BY <2>1, <1>2, Zenon
  <2>3. h[d + (i - 1)] = At(i - 1)
    BY <2>1, <2>2
  <2>4. h[d + i] = PeerReceive(h[(d + i) - 1], q[d + i]) /\ q[d + i] = Wire(hn, bn, g)[i]
    BY <2>1 DEF Follows
  <2>5. PeerReceive(At(i - 1), Wire(hn, bn, g)[i]) = At(i)
    BY <2>1, SymbolHeard
  <2> HIDE DEF At, S
  <2> QED BY <2>1, <2>3, <2>4, <2>5, <1>3
<1> QED BY <1>4, <1>5

\* Without FakeTLS there are only bytes.
BytesFollow(h, q, k, g) ==
    \A i \in 1..k : q[i] = CipherByte(g + i, g + i) /\ h[i] = PeerReceive(h[i - 1], q[i])

\* The client gets k of them.
LEMMA BytesHeard ==
  ASSUME overTls = FALSE, NEW g \in Nat, NEW h, NEW q, NEW k \in Nat, h[0] = PeerAt(0, 0, g),
         BytesFollow(h, q, k, g)
  PROVE  h[k] = PeerAt(0, 0, g + k)
<1> DEFINE S == {i \in Nat : i <= k /\ h[i] # PeerAt(0, 0, g + i)}
<1>1. SUFFICES ASSUME S # {} PROVE FALSE
  OBVIOUS
<1>2. PICK i \in S : \A y \in S : ~(y < i)
  BY <1>1, LeastNatural, Zenon
<1>3. i \in Nat /\ i <= k /\ h[i] # PeerAt(0, 0, g + i)
  BY <1>2
<1>4. i # 0
  <2>1. g + 0 = g
    OBVIOUS
  <2> QED BY <2>1, <1>3, Zenon
<1>5. i \in 1..k /\ i - 1 \in Nat /\ i - 1 < i /\ i - 1 <= k /\ g + (i - 1) + 1 = g + i
  BY <1>3, <1>4
<1>6. i - 1 \notin S
  BY <1>5, <1>2, Zenon
<1>7. h[i - 1] = PeerAt(0, 0, g + (i - 1))
  BY <1>5, <1>6
<1>8. h[i] = PeerReceive(h[i - 1], CipherByte(g + i, g + i))
  BY <1>5 DEF BytesFollow
<1> DEFINE e == g + (i - 1)
<1>9. PeerReceive(PeerAt(0, 0, e), CipherByte(e + 1, e + 1)) = PeerAt(0, 0, e + 1)
  BY Zenon DEF PeerReceive, PeerAt, CipherByte
<1> QED BY <1>3, <1>5, <1>7, <1>8, <1>9

\* From its d-th symbol on, q carries k symbols of w.
Carries(q, d, k, w) == \A i \in 1..k : q[d + i] = w[i]

\* The client gets k symbols of the rest of a record.
LEMMA DeliverPart ==
  ASSUME overTls = TRUE, NEW hn \in 0..HeaderSize, NEW bn \in Nat, NEW g \in Nat,
         peer = PeerAt(hn, bn, g), NEW k \in 0..(hn + bn),
         NEW q, Len(q) = k, Carries(q, 0, k, Wire(hn, bn, g)), Deliver(q)
  PROVE  peer' = PeerAt(HeadsLeft(hn, k), bn - BytesIn(hn, k), g + BytesIn(hn, k))
<1> DEFINE H == Heard(q)
<1>1. k \in Nat
  BY TlsRecordAssumption
<1>2. H[0] = peer /\ \A i \in 1..k : H[i] = PeerReceive(H[i - 1], q[i])
  BY <1>1, HeardStep, Zenon
<1>3. peer' = H[k]
  BY DEF Deliver
<1> HIDE DEF H
<1>4. Follows(H, q, 0, k, Wire(hn, bn, g))
  BY <1>1, <1>2 DEF Follows, Carries
<1>5. H[0 + k] = PeerAt(HeadsLeft(hn, k), bn - BytesIn(hn, k), g + BytesIn(hn, k))
  <2>1. 0 \in Nat
    OBVIOUS
  <2> QED BY <1>2, <1>4, <2>1, RecordHeard, SMTT(20)
<1>6. 0 + k = k
  BY <1>1
<1> QED BY <1>3, <1>5, <1>6, Zenon

\* The client gets the rest of a record and k symbols of the next one.
LEMMA DeliverNext ==
  ASSUME overTls = TRUE, NEW hn \in 0..HeaderSize, NEW bn \in Nat, NEW g \in Nat, NEW n \in Nat,
         peer = PeerAt(hn, bn, g), NEW k \in 0..(HeaderSize + n),
         NEW q, Len(q) = hn + bn + k, Carries(q, 0, hn + bn, Wire(hn, bn, g)),
         Carries(q, hn + bn, k, Wire(HeaderSize, n, g + bn)), Deliver(q)
  PROVE  peer' = PeerAt(HeadsLeft(HeaderSize, k), n - BytesIn(HeaderSize, k),
                        g + bn + BytesIn(HeaderSize, k))
<1> DEFINE H == Heard(q)
           d == hn + bn
<1>1. k \in Nat /\ hn \in Nat /\ HeaderSize \in Nat \ {0} /\ d \in Nat /\ d + k \in Nat /\ hn <= HeaderSize
  BY TlsRecordAssumption
<1>2. H[0] = peer /\ \A i \in 1..(d + k) : H[i] = PeerReceive(H[i - 1], q[i])
  BY <1>1, HeardStep, Zenon
<1>3. peer' = H[d + k]
  BY DEF Deliver
<1> HIDE DEF H
<1>4. Follows(H, q, 0, d, Wire(hn, bn, g))
  BY <1>1, <1>2 DEF Follows, Carries
<1>5. H[0 + d] = PeerAt(HeadsLeft(hn, d), bn - BytesIn(hn, d), g + BytesIn(hn, d))
  <2>1. d \in 0..(hn + bn) /\ 0 \in Nat
    BY <1>1
  <2> HIDE DEF d
  <2> QED BY <1>2, <1>4, <2>1, RecordHeard, SMTT(20)
<1>6. HeadsLeft(hn, d) = 0 /\ BytesIn(hn, d) = bn /\ bn - bn = 0 /\ 0 + d = d
  BY <1>1 DEF HeadsLeft, BytesIn
<1>7. H[d] = PeerAt(HeaderSize, n, g + bn)
  <2>1. PeerAt(0, 0, g + bn) = PeerAt(HeaderSize, n, g + bn)
    <3>1. HeaderSize - HeaderSize = 0 /\ HeaderSize # 0
      BY <1>1
    <3> QED BY <3>1, Zenon DEF PeerAt
  <2> QED BY <1>5, <1>6, <2>1
<1> HIDE DEF d
<1>8. Follows(H, q, d, k, Wire(HeaderSize, n, g + bn))
  <2>1. \A i \in 1..k : d + i \in 1..(d + k)
    BY <1>1
  <2> QED BY <1>2, <2>1 DEF d, Follows, Carries
<1>9. g + bn \in Nat /\ HeaderSize \in 0..HeaderSize
  BY <1>1
<1> QED BY <1>1, <1>3, <1>7, <1>8, <1>9, RecordHeard, SMTT(20)

-----------------------------------------------------------------------------
\* A sequence is the rest of a record if its symbols are.
LEMMA SameWire ==
  ASSUME NEW hn \in Nat, NEW bn \in Nat, NEW g \in Nat, NEW q \in Seq(Sym), Len(q) = hn + bn,
         \A i \in 1..(hn + bn) : q[i] = Wire(hn, bn, g)[i]
  PROVE  q = Wire(hn, bn, g)
<1> DEFINE w == Wire(hn, bn, g)
<1>1. w \in Seq(Sym) /\ Len(w) = hn + bn
  BY WireSeq, Zenon
<1> HIDE DEF w
<1>2. \A i \in 1..(hn + bn) : q[i] = w[i]
  BY DEF w
<1>3. q = w
  BY <1>1, <1>2
<1> QED BY <1>3 DEF w

\* Without its first k symbols it is again the rest of a record.
LEMMA WireUnsent ==
  ASSUME NEW hn \in Nat, NEW bn \in Nat, NEW g \in Nat, NEW k \in 0..(hn + bn)
  PROVE  /\ Unsent(k, Wire(hn, bn, g))
                = Wire(HeadsLeft(hn, k), bn - BytesIn(hn, k), g + BytesIn(hn, k))
         /\ HeadsLeft(hn, k) \in 0..hn /\ BytesIn(hn, k) \in 0..bn
<1> DEFINE w == Wire(hn, bn, g)
           hl == HeadsLeft(hn, k)
           bl == bn - BytesIn(hn, k)
           gl == g + BytesIn(hn, k)
           u == Unsent(k, w)
<1>1. /\ hl \in 0..hn /\ BytesIn(hn, k) \in 0..bn /\ hl \in Nat /\ bl \in Nat /\ gl \in Nat
      /\ hl + bl = (hn + bn) - k /\ k \in Nat
      /\ k <= hn => hl = hn - k /\ bl = bn /\ gl = g
      /\ ~(k <= hn) => hl = 0 /\ gl = (g + k) - hn
  BY DEF HeadsLeft, BytesIn
<1>2. /\ w \in Seq(Sym) /\ Len(w) = hn + bn
      /\ \A i \in 1..(hn + bn) : w[i] = IF i <= hn THEN HeadSym(bn) ELSE CipherByte((g + i) - hn, (g + i) - hn)
  BY WireSeq
<1>3. \A i \in 1..(hl + bl) : Wire(hl, bl, gl)[i] =
          IF i <= hl THEN HeadSym(bl) ELSE CipherByte((gl + i) - hl, (gl + i) - hl)
  <2> HIDE DEF hl, bl, gl
  <2> QED BY <1>1, WireSeq, ZenonT(60)
<1> HIDE DEF w, hl, bl, gl
<1>4. u \in Seq(Sym) /\ Len(u) = hl + bl /\ \A i \in 1..(hl + bl) : u[i] = w[k + i] /\ k + i \in 1..(hn + bn)
  <2>1. u = SubSeq(w, k + 1, hn + bn)
    BY <1>2 DEF Unsent
  <2>2. u \in Seq(Sym)
    BY <2>1, <1>1, <1>2
  <2>3. Len(u) = hl + bl
    BY <2>1, <1>1, <1>2
  <2>4. ASSUME NEW i \in 1..(hl + bl) PROVE u[i] = w[k + i] /\ k + i \in 1..(hn + bn)
    <3>1. (k + 1) + i - 1 = k + i /\ k + i \in 1..(hn + bn) /\ i \in 1..((hn + bn) - (k + 1) + 1)
      BY <1>1
    <3> QED BY <2>1, <3>1, <1>1, <1>2
  <2> QED BY <2>2, <2>3, <2>4
<1> HIDE DEF u
<1>5. ASSUME NEW i \in 1..(hl + bl) PROVE u[i] = Wire(hl, bl, gl)[i]
  <2>1. CASE k <= hn
    <3>1. (k + i <= hn <=> i <= hl) /\ (g + (k + i)) - hn = (gl + i) - hl
      BY <1>1, <2>1
    <3> QED BY <3>1, <1>1, <1>2, <1>3, <1>4, <2>1, Zenon
  <2>2. CASE ~(k <= hn)
    <3>1. ~(k + i <= hn) /\ ~(i <= hl) /\ (g + (k + i)) - hn = (gl + i) - hl
      BY <1>1, <2>2
    <3> QED BY <3>1, <1>1, <1>2, <1>3, <1>4, <2>2, Zenon
  <2> QED BY <2>1, <2>2
<1>6. u = Wire(hl, bl, gl)
  BY <1>1, <1>4, <1>5, SameWire, Zenon
<1> QED BY <1>1, <1>6 DEF u, hl, bl, gl, w

\* Its first k symbols.
LEMMA WireSent ==
  ASSUME NEW hn \in Nat, NEW bn \in Nat, NEW g \in Nat, NEW k \in 0..(hn + bn)
  PROVE  /\ Len(Sent(k, Wire(hn, bn, g))) = k /\ Sent(k, Wire(hn, bn, g)) \in Seq(Sym)
         /\ Carries(Sent(k, Wire(hn, bn, g)), 0, k, Wire(hn, bn, g))
         /\ hn = 0 => Sent(k, Wire(hn, bn, g)) = Wire(0, k, g)
<1> DEFINE w == Wire(hn, bn, g)
           u == Sent(k, w)
<1>1. /\ w \in Seq(Sym) /\ Len(w) = hn + bn /\ k \in Nat
      /\ \A i \in 1..(hn + bn) : w[i] = IF i <= hn THEN HeadSym(bn) ELSE CipherByte((g + i) - hn, (g + i) - hn)
  BY WireSeq
<1> HIDE DEF w
<1>2. u \in Seq(Sym) /\ Len(u) = k /\ \A i \in 1..k : u[i] = w[i]
  BY <1>1 DEF Sent
<1> HIDE DEF u
<1>4. Carries(u, 0, k, w)
  BY <1>1, <1>2 DEF Carries
<1>3. hn = 0 => u = Wire(0, k, g)
  <2> SUFFICES ASSUME hn = 0 PROVE u = Wire(0, k, g)
    OBVIOUS
  <2>1. \A i \in 1..(0 + k) : Wire(0, k, g)[i] =
           IF i <= 0 THEN HeadSym(k) ELSE CipherByte((g + i) - 0, (g + i) - 0)
    BY <1>1, WireSeq, Zenon
  <2>2. \A i \in 1..(0 + k) : u[i] = Wire(0, k, g)[i]
    BY <2>1, <1>1, <1>2
  <2>3. Len(u) = 0 + k
    BY <1>1, <1>2
  <2>4. 0 \in Nat /\ k \in Nat /\ u \in Seq(Sym)
    BY <1>1, <1>2
  <2> QED BY <2>2, <2>3, <2>4, SameWire, Zenon
<1> QED BY <1>2, <1>3, <1>4 DEF u, w

\* The bytes of the stream, one after the other.
LEMMA WireBytes ==
  ASSUME NEW n \in Nat, NEW g \in Nat
  PROVE  /\ Wire(0, n, g) \in Seq(Sym) /\ Len(Wire(0, n, g)) = n
         /\ \A i \in 1..n : Wire(0, n, g)[i] = CipherByte(g + i, g + i)
<1>1. 0 + n = n /\ \A i \in 1..n : ~(i <= 0) /\ (g + i) - 0 = g + i /\ i \in 1..(0 + n)
  OBVIOUS
<1>2. 0 \in Nat
  OBVIOUS
<1>3. /\ Wire(0, n, g) \in Seq(Sym) /\ Len(Wire(0, n, g)) = 0 + n
      /\ \A i \in 1..(0 + n) : Wire(0, n, g)[i] =
                IF i <= 0 THEN HeadSym(n) ELSE CipherByte((g + i) - 0, (g + i) - 0)
  BY <1>2, WireSeq, Zenon
<1> QED BY <1>1, <1>3, Zenon

\* build_record makes a record of bytes of the stream.
LEMMA WireRecord ==
  ASSUME NEW n \in Nat, NEW g \in Nat
  PROVE  build_record(Wire(0, n, g)) = Wire(HeaderSize, n, g)
<1> DEFINE b == Wire(0, n, g)
           t == TlsHeader("app", n)
<1>1. b \in Seq(Sym) /\ Len(b) = n /\ \A i \in 1..n : b[i] = CipherByte(g + i, g + i)
  BY WireBytes
<1>2. HeaderSize \in Nat /\ HeadSym(n) \in Sym
  BY TlsRecordAssumption DEF Sym
<1>3. t \in Seq(Sym) /\ Len(t) = HeaderSize /\ \A i \in 1..HeaderSize : t[i] = HeadSym(n)
  BY <1>2 DEF TlsHeader, HeadSym
<1>4. \A i \in 1..(HeaderSize + n) : Wire(HeaderSize, n, g)[i] =
         IF i <= HeaderSize THEN HeadSym(n) ELSE CipherByte((g + i) - HeaderSize, (g + i) - HeaderSize)
  BY <1>2, WireSeq
<1> HIDE DEF b, t
<1>5. /\ t \o b \in Seq(Sym) /\ Len(t \o b) = HeaderSize + n
      /\ \A i \in 1..(HeaderSize + n) : (t \o b)[i] = IF i <= HeaderSize THEN t[i] ELSE b[i - HeaderSize]
  BY <1>1, <1>2, <1>3
<1>6. \A i \in 1..(HeaderSize + n) : (t \o b)[i] = Wire(HeaderSize, n, g)[i]
  <2> SUFFICES ASSUME NEW i \in 1..(HeaderSize + n) PROVE (t \o b)[i] = Wire(HeaderSize, n, g)[i]
    BY Zenon
  <2>1. CASE i <= HeaderSize
    <3>1. i \in 1..HeaderSize
      BY <1>2, <2>1
    <3> QED BY <1>3, <1>4, <1>5, <2>1, <3>1
  <2>2. CASE ~(i <= HeaderSize)
    <3>1. i - HeaderSize \in 1..n /\ g + (i - HeaderSize) = (g + i) - HeaderSize
      BY <1>2, <2>2
    <3> QED BY <1>1, <1>4, <1>5, <2>2, <3>1
  <2> QED BY <2>1, <2>2, Zenon
<1>7. t \o b = Wire(HeaderSize, n, g)
  BY <1>2, <1>5, <1>6, SameWire, Zenon
<1> QED BY <1>1, <1>7, Zenon DEF build_record, b, t

\* The bytes that follow can be appended.
LEMMA WireMore ==
  ASSUME NEW a \in Nat, NEW c \in Nat, NEW g \in Nat
  PROVE  Wire(0, a, g) \o Wire(0, c, g + a) = Wire(0, a + c, g)
<1> DEFINE b == Wire(0, a, g)
           t == Wire(0, c, g + a)
<1>0. g + a \in Nat /\ a + c \in Nat
  OBVIOUS
<1>1. b \in Seq(Sym) /\ Len(b) = a /\ \A i \in 1..a : b[i] = CipherByte(g + i, g + i)
  BY WireBytes
<1>2. t \in Seq(Sym) /\ Len(t) = c /\ \A i \in 1..c : t[i] = CipherByte((g + a) + i, (g + a) + i)
  BY <1>0, WireBytes
<1>3. \A i \in 1..(a + c) : Wire(0, a + c, g)[i] = CipherByte(g + i, g + i)
  BY <1>0, WireBytes
<1> HIDE DEF b, t
<1>4. /\ b \o t \in Seq(Sym) /\ Len(b \o t) = 0 + (a + c)
      /\ \A i \in 1..(0 + (a + c)) : (b \o t)[i] = IF i <= a THEN b[i] ELSE t[i - a]
  <2>1. b \o t \in Seq(Sym) /\ Len(b \o t) = a + c
    <3>1. b \in Seq(Sym) /\ t \in Seq(Sym) /\ Len(b) = a /\ Len(t) = c
      BY <1>1, <1>2, Zenon
    <3>2. b \o t \in Seq(Sym) /\ Len(b \o t) = Len(b) + Len(t)
      BY <3>1
    <3> QED BY <3>1, <3>2, Zenon
  <2>2. ASSUME NEW i \in 1..(a + c) PROVE (b \o t)[i] = IF i <= a THEN b[i] ELSE t[i - a]
    <3>1. Len(b) = a /\ Len(t) = c /\ b \in Seq(Sym) /\ t \in Seq(Sym) /\ i \in 1..(Len(b) + Len(t))
      BY <1>1, <1>2
    <3> QED BY <3>1
  <2>3. 0 + (a + c) = a + c
    OBVIOUS
  <2> QED BY <2>1, <2>2, <2>3, Zenon
<1>5. \A i \in 1..(0 + (a + c)) : (b \o t)[i] = Wire(0, a + c, g)[i]
  <2> SUFFICES ASSUME NEW i \in 1..(0 + (a + c)) PROVE (b \o t)[i] = Wire(0, a + c, g)[i]
    BY Zenon
  <2>0. i \in 1..(a + c)
    OBVIOUS
  <2>1. CASE i <= a
    <3>1. i \in 1..a
      BY <2>1
    <3> QED BY <1>1, <1>3, <1>4, <2>0, <2>1, <3>1
  <2>2. CASE ~(i <= a)
    <3>1. i - a \in 1..c /\ (g + a) + (i - a) = g + i
      BY <2>2
    <3> QED BY <1>2, <1>3, <1>4, <2>0, <2>2, <3>1
  <2> QED BY <2>1, <2>2, Zenon
<1>6. b \o t = Wire(0, a + c, g)
  BY <1>0, <1>4, <1>5, SameWire, Zenon
<1> QED BY <1>6 DEF b, t

\* The encryptor makes the next bytes of the stream of the next plaintext.
LEMMA Encrypts ==
  ASSUME NEW n \in Nat, accepted \in Nat, wkey = accepted
  PROVE  Encrypted(n) = Wire(0, n, accepted)
<1>1. /\ Wire(0, n, accepted) \in Seq(Sym) /\ Len(Wire(0, n, accepted)) = n
      /\ \A i \in 1..n : Wire(0, n, accepted)[i] = CipherByte(accepted + i, accepted + i)
  BY WireBytes
<1>2. Encrypted(n) = [i \in 1..n |-> CipherByte(accepted + i, accepted + i)]
  BY Zenon DEF Encrypted, AesCtr, Plaintext
<1>3. Wire(0, n, accepted) = [i \in 1..n |-> Wire(0, n, accepted)[i]]
  BY <1>1
<1> QED BY <1>1, <1>2, <1>3

-----------------------------------------------------------------------------
\* The client and the record are at byte g of the stream together.
FitsAt(g) ==
    \E hn \in 0..HeaderSize, bn \in 0..MaxTlsPayload :
        /\ peer.got \in Nat /\ peer = PeerAt(hn, bn, peer.got)
        /\ record = Wire(hn, bn, peer.got) /\ peer.got + bn = g

\* Nothing is on the wire between two records.
LEMMA WireNone == ASSUME NEW g \in Nat PROVE Wire(0, 0, g) = <<>> /\ Len(<<>>) = 0
<1>1. Wire(0, 0, g) \in Seq(Sym) /\ Len(Wire(0, 0, g)) = 0
  BY WireBytes
<1> QED BY <1>1

\* Nothing sent changes nothing at the client.
LEMMA DeliverNone == ASSUME Deliver(<<>>) PROVE peer' = peer
<1>1. Len(<<>>) = 0 /\ 0 \in Nat
  OBVIOUS
<1>2. Len(<<>>) \in Nat
  BY <1>1, Zenon
<1>3. Heard(<<>>)[0] = peer
  BY <1>2, HeardStep, Zenon
<1> QED BY <1>1, <1>3, Zenon DEF Deliver

\* The second part of a concatenation.
LEMMA BehindFirst ==
  ASSUME NEW a \in Seq(Sym), NEW c \in Seq(Sym), NEW i \in 1..Len(c)
  PROVE  (a \o c)[Len(a) + i] = c[i]
OBVIOUS

\* The two parts of a record's rest, its first k symbols and what follows them.
SplitAt(k, hn, bn, g) ==
    /\ Len(Sent(k, Wire(hn, bn, g))) = k
    /\ Carries(Sent(k, Wire(hn, bn, g)), 0, k, Wire(hn, bn, g))
    /\ Unsent(k, Wire(hn, bn, g)) = Wire(HeadsLeft(hn, k), bn - BytesIn(hn, k), g + BytesIn(hn, k))
    /\ HeadsLeft(hn, k) \in 0..hn /\ BytesIn(hn, k) \in 0..bn

LEMMA WireSplit ==
  ASSUME NEW hn \in Nat, NEW bn \in Nat, NEW g \in Nat, NEW k \in 0..(hn + bn)
  PROVE  SplitAt(k, hn, bn, g)
<1>1. /\ Len(Sent(k, Wire(hn, bn, g))) = k
      /\ Carries(Sent(k, Wire(hn, bn, g)), 0, k, Wire(hn, bn, g))
  BY WireSent, Zenon
<1>2. /\ Unsent(k, Wire(hn, bn, g)) = Wire(HeadsLeft(hn, k), bn - BytesIn(hn, k), g + BytesIn(hn, k))
      /\ HeadsLeft(hn, k) \in 0..hn /\ BytesIn(hn, k) \in 0..bn
  BY WireUnsent, Zenon
<1> QED BY <1>1, <1>2, Zenon DEF SplitAt

\* Some of the record is taken: the client and the rest of it stay together.
LEMMA RecordSent ==
  ASSUME overTls = TRUE, NEW g \in Nat, FitsAt(g), NEW k \in 0..Len(record), Deliver(Sent(k, record))
  PROVE  /\ peer'.ok = TRUE /\ peer'.got \in Nat /\ peer.got <= peer'.got /\ peer'.got <= g
         /\ record' = Unsent(k, record) => FitsAt(g)'
         /\ k = Len(record) => peer'.got = g
<1>1. PICK hn \in 0..HeaderSize, bn \in 0..MaxTlsPayload, p \in Nat :
        p = peer.got /\ peer = PeerAt(hn, bn, p) /\ record = Wire(hn, bn, p) /\ p + bn = g
  BY DEF FitsAt
<1> DEFINE hl == HeadsLeft(hn, k)
           bl == bn - BytesIn(hn, k)
           gl == p + BytesIn(hn, k)
<1>2. HeaderSize \in Nat /\ MaxTlsPayload \in Nat /\ hn \in Nat /\ bn \in Nat /\ p \in Nat
  BY <1>1, TlsRecordAssumption
<1>3. Len(record) = hn + bn
  BY <1>1, <1>2, WireSeq, Zenon
<1>4. k \in 0..(hn + bn)
  BY <1>3
<1>5. Len(Sent(k, record)) = k /\ Carries(Sent(k, record), 0, k, Wire(hn, bn, p))
  <2>1. SplitAt(k, hn, bn, p)
    BY <1>2, <1>4, WireSplit
  <2> QED BY <1>1, <2>1, Zenon DEF SplitAt
<1>6. peer' = PeerAt(hl, bl, gl)
  BY <1>1, <1>2, <1>4, <1>5, DeliverPart
<1>7. Unsent(k, record) = Wire(hl, bl, gl) /\ hl \in 0..hn /\ BytesIn(hn, k) \in 0..bn
  <2>1. SplitAt(k, hn, bn, p)
    BY <1>2, <1>4, WireSplit
  <2> QED BY <1>1, <2>1, Zenon DEF SplitAt
<1>8. /\ hl \in 0..HeaderSize /\ bl \in 0..MaxTlsPayload /\ gl \in Nat /\ gl + bl = g
      /\ p <= gl /\ gl <= g /\ (k = hn + bn => gl = g)
  <2>1. PICK b \in 0..bn : b = BytesIn(hn, k)
    BY <1>7
  <2>2. k = hn + bn => b = bn
    BY <1>2, <2>1 DEF BytesIn
  <2>3. gl = p + b /\ bl = bn - b /\ p + bn = g
    BY <1>1, <2>1, Zenon
  <2>4. hn \in 0..HeaderSize /\ bn \in 0..MaxTlsPayload /\ hl \in 0..hn
    BY <1>7
  <2> HIDE DEF hl, bl, gl
  <2> QED BY ONLY g \in Nat, p \in Nat, <1>2, <2>2, <2>3, <2>4
<1> HIDE DEF hl, bl, gl
<1>9. peer'.got = gl /\ peer'.ok = TRUE
  BY <1>6 DEF PeerAt
<1>10. record' = Unsent(k, record) => FitsAt(g)'
  <2> SUFFICES ASSUME record' = Unsent(k, record)
               PROVE  \E i \in 0..HeaderSize, j \in 0..MaxTlsPayload :
                          /\ peer'.got \in Nat /\ peer' = PeerAt(i, j, peer'.got)
                          /\ record' = Wire(i, j, peer'.got) /\ peer'.got + j = g
    BY Zenon DEF FitsAt, PeerAt, Wire
  <2> QED BY <1>6, <1>7, <1>8, <1>9, Zenon
<1> QED BY <1>1, <1>3, <1>8, <1>9, <1>10

\* What a write of n bytes from byte g + 1 on to the layer below has done.
Wrote(g, n, o) ==
    /\ peer'.ok = TRUE /\ peer'.got \in Nat /\ peer.got <= peer'.got /\ peer'.got <= g + o.n
    /\ o.n \in 0..n /\ o.res \in {"Ok", "Pending", "Err"} /\ (o.res # "Ok" => o.n = 0)
    /\ o.res = "Ok" /\ o.n = 0 => overTls = FALSE
    /\ twstate' \in {"Idle", "WritingRecord", "Poisoned"}
    /\ overTls = FALSE => twstate' = "Idle" /\ record' = <<>>
    /\ overTls = TRUE => (o.res = "Err" <=> twstate' = "Poisoned")
    /\ twstate' = "Poisoned" => record' = <<>>
    /\ twstate = "Poisoned" => o.res = "Err"
    /\ o.res # "Err" => FitsAt(g + o.n)'

\* FakeTlsWriter::poll_write.
LEMMA TlsWrites ==
  ASSUME overTls = TRUE, NEW g \in Nat, NEW n \in Nat \ {0},
         peer.ok = TRUE, peer.got \in Nat, peer.got <= g, twstate # "Poisoned" => FitsAt(g),
         NEW o \in tls_poll_write(Wire(0, n, g)), Took(o)
  PROVE  Wrote(g, n, o)
<1> DEFINE w == Wire(0, n, g)
           m == SmallerOf(n, MaxTlsPayload)
           rec == Wire(HeaderSize, m, g)
<1>1. HeaderSize \in Nat \ {0} /\ MaxTlsPayload \in Nat \ {0} /\ m \in Nat /\ m > 0 /\ m <= n /\ m <= MaxTlsPayload
  BY TlsRecordAssumption DEF SmallerOf
<1>2. Deliver(o.out) /\ twstate' = o.st /\ record' = o.rec
  BY DEF Took
<1>3. CASE twstate = "Poisoned"
  <2>1. o = TlsEnd(<<>>, "Poisoned", <<>>, "Err", 0)
    BY <1>3 DEF tls_poll_write
  <2>2. o.out = <<>> /\ o.st = "Poisoned" /\ o.rec = <<>> /\ o.res = "Err" /\ o.n = 0
    BY <2>1 DEF TlsEnd
  <2>3. peer' = peer
    BY <1>2, <2>2, DeliverNone
  <2> QED BY <1>2, <2>2, <2>3 DEF Wrote
<1>4. CASE twstate # "Poisoned"
  <2>1. FitsAt(g)
    BY <1>4
  <2>2. Sent(m, w) = Wire(0, m, g) /\ Len(w) = n
    <3>1. 0 \in Nat /\ n \in Nat /\ m \in 0..(0 + n)
      BY <1>1
    <3>2. Sent(m, w) = Wire(0, m, g)
      BY <3>1, WireSent
    <3> QED BY <3>1, <3>2, WireBytes
  <2>3. build_record(Wire(0, m, g)) = rec /\ Len(Wire(0, m, g)) = m
    BY <1>1, WireRecord, WireBytes
  <2>4. Len(rec) = HeaderSize + m
    BY <1>1, WireSeq, Zenon
  <2> HIDE DEF w, m, rec
  <2>5. PICK f \in poll_flush_record_inner(record) :
           o \in CASE f.end = "Pending" ->
                        { TlsEnd(Sent(f.sent, record), "WritingRecord", Unsent(f.sent, record), "Pending", 0) }
                   [] f.end = "Error" ->
                        { TlsEnd(Sent(f.sent, record), "Poisoned", <<>>, "Err", 0) }
                   [] f.end = "Complete" -> write_record(record, Wire(0, m, g))
    <3>1. o \in tls_poll_write(w)
      BY DEF w
    <3> QED BY <1>4, <2>2, <3>1, Zenon DEF tls_poll_write, m
  <2>6. f.sent \in 0..Len(record) /\ f.end \in {"Complete", "Pending", "Error"}
    BY DEF poll_flush_record_inner
  <2>7. CASE f.end = "Pending"
    <3>1. o = TlsEnd(Sent(f.sent, record), "WritingRecord", Unsent(f.sent, record), "Pending", 0)
      BY <2>5, <2>7
    <3>2. /\ o.out = Sent(f.sent, record) /\ o.st = "WritingRecord" /\ o.rec = Unsent(f.sent, record)
          /\ o.res = "Pending" /\ o.n = 0
      BY <3>1 DEF TlsEnd
    <3>3. /\ peer'.ok = TRUE /\ peer'.got \in Nat /\ peer.got <= peer'.got /\ peer'.got <= g /\ FitsAt(g)'
      BY <1>2, <2>1, <2>6, <3>2, RecordSent, Zenon
    <3>4. g + 0 = g /\ 0 \in 0..n
      OBVIOUS
    <3> QED BY <1>2, <1>4, <3>2, <3>3, <3>4 DEF Wrote
  <2>8. CASE f.end = "Error"
    <3>1. o = TlsEnd(Sent(f.sent, record), "Poisoned", <<>>, "Err", 0)
      BY <2>5, <2>8
    <3>2. /\ o.out = Sent(f.sent, record) /\ o.st = "Poisoned" /\ o.rec = <<>>
          /\ o.res = "Err" /\ o.n = 0
      BY <3>1 DEF TlsEnd
    <3>3. /\ peer'.ok = TRUE /\ peer'.got \in Nat /\ peer.got <= peer'.got /\ peer'.got <= g
      BY <1>2, <2>1, <2>6, <3>2, RecordSent, Zenon
    <3>4. g + 0 = g /\ 0 \in 0..n
      OBVIOUS
    <3> QED BY <1>2, <1>4, <3>2, <3>3, <3>4 DEF Wrote
  <2>9. CASE f.end = "Complete"
    <3>0. o \in write_record(record, Wire(0, m, g))
      BY <2>5, <2>9
    <3>1. PICK hn \in 0..HeaderSize, bn \in 0..MaxTlsPayload :
            /\ peer.got \in Nat /\ peer = PeerAt(hn, bn, peer.got)
            /\ record = Wire(hn, bn, peer.got) /\ peer.got + bn = g
      BY <2>1 DEF FitsAt
    <3> DEFINE p == peer.got
    <3>2. hn \in Nat /\ bn \in Nat /\ p \in Nat /\ p <= g /\ g + 0 = g /\ 0 \in 0..n
      BY <1>1, <3>1
    <3>3. record \in Seq(Sym) /\ Len(record) = hn + bn /\ record = Wire(hn, bn, p)
      <4>1. record = Wire(hn, bn, p)
        BY <3>1
      <4> HIDE DEF p
      <4> QED BY <4>1, <3>2, WireSeq
    <3>4. CASE o = TlsEnd(record, "Poisoned", <<>>, "Err", 0)
      <4>1. o.out = record /\ o.st = "Poisoned" /\ o.rec = <<>> /\ o.res = "Err" /\ o.n = 0
        BY <3>4 DEF TlsEnd
      <4>2. Sent(Len(record), record) = record
        BY <3>3 DEF Sent
      <4>3. Len(record) \in 0..Len(record)
        BY <3>2, <3>3
      <4>4. /\ peer'.ok = TRUE /\ peer'.got \in Nat /\ peer.got <= peer'.got /\ peer'.got <= g
        BY <1>2, <2>1, <4>1, <4>2, <4>3, RecordSent, Zenon
      <4> QED BY <1>2, <3>2, <4>1, <4>4 DEF Wrote
    <3>5. ASSUME NEW k \in 0..Len(rec),
                 o = TlsEnd(record \o Sent(k, rec), IF k = Len(rec) THEN "Idle" ELSE "WritingRecord",
                            Unsent(k, rec), "Ok", m)
          PROVE  Wrote(g, n, o)
      <4>1. /\ o.out = record \o Sent(k, rec) /\ o.st \in {"Idle", "WritingRecord"} /\ o.rec = Unsent(k, rec)
            /\ o.res = "Ok" /\ o.n = m
        BY <3>5 DEF TlsEnd
      <4> DEFINE u == Sent(k, rec)
                 hl == HeadsLeft(HeaderSize, k)
                 bl == m - BytesIn(HeaderSize, k)
                 gl == g + BytesIn(HeaderSize, k)
      <4>2. k \in 0..(HeaderSize + m) /\ k \in Nat
        BY <1>1, <2>4
      <4>3. Len(u) = k /\ u \in Seq(Sym) /\ Carries(u, 0, k, rec)
        BY <1>1, <4>2, WireSent DEF rec
      <4> HIDE DEF u
      <4>4. \A i \in 1..k : u[i] = rec[i]
        BY <4>2, <4>3 DEF Carries
      <4>5. Len(record \o u) = hn + bn + k /\ \A i \in 1..(hn + bn) : (record \o u)[i] = record[i]
        BY <3>2, <3>3, <4>2, <4>3
      <4>6. ASSUME NEW i \in 1..k PROVE (record \o u)[hn + bn + i] = u[i]
        <5>1. i \in 1..Len(u) /\ Len(record) = hn + bn
          BY <3>3, <4>3
        <5>2. record \in Seq(Sym) /\ u \in Seq(Sym)
          BY <3>3, <4>3
        <5>3. (record \o u)[Len(record) + i] = u[i]
          BY <5>1, <5>2, BehindFirst, Zenon
        <5> QED BY <5>1, <5>3, Zenon
      <4>7. Carries(record \o u, hn + bn, k, Wire(HeaderSize, m, p + bn))
        BY <3>1, <4>4, <4>6, Zenon DEF rec, Carries
      <4>8. Carries(record \o u, 0, hn + bn, Wire(hn, bn, p))
        BY <3>2, <3>3, <4>5 DEF Carries
      <4>9. Deliver(record \o u) /\ peer = PeerAt(hn, bn, p)
        BY <1>2, <3>1, <4>1, Zenon DEF u
      <4>10. peer' = PeerAt(hl, bl, p + bn + BytesIn(HeaderSize, k))
        <5> HIDE DEF p
        <5>1. p \in Nat /\ bn \in Nat /\ m \in Nat /\ k \in 0..(HeaderSize + m)
          BY <1>1, <3>2, <4>2
        <5>2. Len(record \o u) = hn + bn + k
          BY <4>5
        <5> DEFINE q == record \o u
        <5>3. Len(q) = hn + bn + k /\ Carries(q, 0, hn + bn, Wire(hn, bn, p))
              /\ Carries(q, hn + bn, k, Wire(HeaderSize, m, p + bn)) /\ Deliver(q)
          BY <5>2, <4>7, <4>8, <4>9, Zenon
        <5> HIDE DEF q, hl, bl
        <5>4. peer' = PeerAt(HeadsLeft(HeaderSize, k), m - BytesIn(HeaderSize, k),
                             p + bn + BytesIn(HeaderSize, k))
          BY <5>1, <5>3, <4>9, DeliverNext
        <5> QED BY <5>4, Zenon DEF hl, bl
      <4>11. peer' = PeerAt(hl, bl, gl)
        BY <3>1, <4>10
      <4>12. Unsent(k, rec) = Wire(hl, bl, gl) /\ hl \in 0..HeaderSize /\ BytesIn(HeaderSize, k) \in 0..m
        BY <1>1, <4>2, WireUnsent DEF rec
      <4>13. bl \in 0..MaxTlsPayload /\ gl \in Nat /\ gl + bl = g + m /\ p <= gl /\ gl <= g + m /\ m \in 0..n
        BY <1>1, <3>2, <4>2, <4>12, SMTT(30), Zenon
      <4> HIDE DEF hl, bl, gl
      <4>14. peer'.got = gl /\ peer'.ok = TRUE
        BY <4>11 DEF PeerAt
      <4>15. FitsAt(g + o.n)'
        <5> SUFFICES \E i \in 0..HeaderSize, j \in 0..MaxTlsPayload :
                          /\ peer'.got \in Nat /\ peer' = PeerAt(i, j, peer'.got)
                          /\ record' = Wire(i, j, peer'.got) /\ peer'.got + j = g + o.n
          BY Zenon DEF FitsAt, PeerAt, Wire
        <5>1. record' = Wire(hl, bl, gl)
          BY <1>2, <4>1, <4>12
        <5> QED BY <5>1, <4>1, <4>11, <4>12, <4>13, <4>14, Zenon
      <4> QED BY <1>1, <1>2, <1>4, <4>1, <4>13, <4>14, <4>15 DEF Wrote
    <3> QED BY <2>3, <3>0, <3>4, <3>5, Zenon DEF write_record
  <2> QED BY <2>6, <2>7, <2>8, <2>9
<1> QED BY <1>3, <1>4

\* The socket alone.
LEMMA SocketWrites ==
  ASSUME overTls = FALSE, NEW g \in Nat, NEW n \in Nat \ {0}, FitsAt(g), record = <<>>, twstate = "Idle",
         NEW o \in socket_poll_write(Wire(0, n, g)), Took(o)
  PROVE  Wrote(g, n, o)
<1> DEFINE w == Wire(0, n, g)
<1>1. Deliver(o.out) /\ twstate' = o.st /\ record' = o.rec
  BY DEF Took
<1>2. peer = PeerAt(0, 0, g) /\ peer.got = g
  <2>1. PICK hn \in 0..HeaderSize, bn \in 0..MaxTlsPayload :
          /\ peer.got \in Nat /\ peer = PeerAt(hn, bn, peer.got)
          /\ record = Wire(hn, bn, peer.got) /\ peer.got + bn = g
    BY Zenon DEF FitsAt
  <2>2. hn \in Nat /\ bn \in Nat /\ Len(<<>>) = 0
    BY TlsRecordAssumption
  <2>3. Len(Wire(hn, bn, peer.got)) = hn + bn
    BY <2>1, <2>2, WireSeq, Zenon
  <2>4. hn + bn = 0
    BY <2>1, <2>2, <2>3
  <2>5. hn = 0 /\ bn = 0 /\ peer.got = g
    BY <2>1, <2>2, <2>4
  <2> QED BY <2>1, <2>5
<1>3. ASSUME NEW e \in Nat, peer' = PeerAt(0, 0, e), record' = <<>> PROVE FitsAt(e)'
  <2>1. record' = Wire(0, 0, e) /\ e + 0 = e /\ 0 \in 0..HeaderSize /\ 0 \in 0..MaxTlsPayload
    BY <1>3, WireNone, TlsRecordAssumption
  <2>2. peer'.got = e
    BY <1>3 DEF PeerAt
  <2> SUFFICES \E i \in 0..HeaderSize, j \in 0..MaxTlsPayload :
                    /\ peer'.got \in Nat /\ peer' = PeerAt(i, j, peer'.got)
                    /\ record' = Wire(i, j, peer'.got) /\ peer'.got + j = e
    BY Zenon DEF FitsAt, PeerAt, Wire
  <2> QED BY <1>3, <2>1, <2>2, Zenon
<1>4. Len(w) = n
  BY WireBytes
<1>5. ASSUME NEW k \in 0..n, o = TlsEnd(Sent(k, w), "Idle", <<>>, "Ok", k) PROVE Wrote(g, n, o)
  <2>1. o.out = Sent(k, w) /\ o.st = "Idle" /\ o.rec = <<>> /\ o.res = "Ok" /\ o.n = k
    BY <1>5 DEF TlsEnd
  <2>2. k \in Nat /\ n \in Nat /\ 0 \in Nat /\ k \in 0..(0 + n)
    OBVIOUS
  <2>3. Sent(k, w) = Wire(0, k, g)
    BY <2>2, WireSent
  <2> DEFINE q == Wire(0, k, g)
             H == Heard(q)
  <2>4. Len(q) = k /\ \A i \in 1..k : q[i] = CipherByte(g + i, g + i)
    BY <2>2, WireBytes, Zenon
  <2>5. Deliver(q)
    BY <1>1, <2>1, <2>3
  <2> HIDE DEF q
  <2>6. H[0] = peer /\ \A i \in 1..k : H[i] = PeerReceive(H[i - 1], q[i])
    BY <2>2, <2>4, HeardStep, Zenon
  <2>7. peer' = H[k]
    BY <2>4, <2>5, Zenon DEF Deliver
  <2> HIDE DEF H
  <2>8. H[k] = PeerAt(0, 0, g + k)
    <3>1. BytesFollow(H, q, k, g)
      BY <2>4, <2>6, Zenon DEF BytesFollow
    <3>2. H[0] = PeerAt(0, 0, g) /\ k \in Nat
      BY <1>2, <2>2, <2>6
    <3> QED BY <3>1, <3>2, BytesHeard, Zenon
  <2>9. peer'.got = g + k /\ peer'.ok = TRUE
    BY <2>7, <2>8 DEF PeerAt
  <2>10. g + k \in Nat /\ g <= g + k
    BY <2>2
  <2>11. FitsAt(g + k)'
    BY <1>1, <1>3, <2>1, <2>7, <2>8, <2>10
  <2> QED BY <1>1, <1>2, <2>1, <2>9, <2>10, <2>11 DEF Wrote
<1>6. ASSUME NEW res \in {"Pending", "Err"}, o = TlsEnd(<<>>, "Idle", <<>>, res, 0) PROVE Wrote(g, n, o)
  <2>1. o.out = <<>> /\ o.st = "Idle" /\ o.rec = <<>> /\ o.res = res /\ o.n = 0
    BY <1>6 DEF TlsEnd
  <2>2. peer' = peer
    BY <1>1, <2>1, DeliverNone
  <2>3. FitsAt(g)'
    BY <1>1, <1>2, <1>3, <2>1, <2>2
  <2>4. g + 0 = g /\ 0 \in 0..n /\ peer.ok = TRUE
    BY <1>2 DEF PeerAt
  <2> QED BY <1>1, <1>2, <2>1, <2>2, <2>3, <2>4 DEF Wrote
<1> QED BY <1>4, <1>5, <1>6 DEF socket_poll_write

-----------------------------------------------------------------------------
WTypes ==
    /\ overTls \in BOOLEAN /\ wflushed \in BOOLEAN /\ wclosed \in BOOLEAN
    /\ cwstate \in {"Idle", "Flushing", "Poisoned"}
    /\ twstate \in {"Idle", "WritingRecord", "Poisoned"}
    /\ wcall \in {"none", "write", "flush", "shutdown", "shutdown_upstream"}
    /\ accepted \in 0..MaxBytes /\ wkey \in Nat /\ offered \in {0} \cup Offers
    /\ wcall = "write" => offered \in Offers /\ accepted + offered <= MaxBytes
    /\ wcall # "none" => ~wclosed

\* What CryptoWriter holds: the bytes before the last accepted one, encrypted at
\* their own positions.
HeldInOrder ==
    /\ Len(pending) \in 0..MaxPendingWrite /\ (cwstate = "Flushing" <=> Len(pending) > 0)
    /\ cwstate # "Poisoned" =>
          /\ wkey = accepted /\ Len(pending) <= accepted
          /\ pending = Wire(0, Len(pending), accepted - Len(pending))

\* Before a failure the client, the record and the pending bytes follow each other.
PeerFollows ==
    /\ peer.ok = TRUE /\ peer.got \in 0..accepted
    /\ overTls = FALSE => twstate = "Idle" /\ record = <<>>
    /\ twstate = "Poisoned" \/ wclosed \/ cwstate = "Poisoned" => record = <<>>
    /\ twstate = "Poisoned" => cwstate # "Flushing"
    /\ cwstate = "Poisoned" /\ overTls /\ ~wclosed => twstate = "Poisoned"
    /\ ~wclosed /\ twstate # "Poisoned" /\ cwstate # "Poisoned" => FitsAt(accepted - Len(pending))

WriterInv == WTypes /\ HeldInOrder /\ PeerFollows

\* Client and record stay together when neither changes.
LEMMA FitsSame == ASSUME NEW g, UNCHANGED <<peer, record>>, FitsAt(g) PROVE FitsAt(g)'
BY DEF FitsAt, Wire, PeerAt, HeadSym, CipherByte

\* What a write to the layer below finds and leaves.
LEMMA UpstreamWrites ==
  ASSUME WriterInv, ~wclosed, cwstate # "Poisoned", NEW n \in Nat \ {0}, NEW g \in Nat,
         g = accepted - Len(pending), NEW o \in upstream_poll_write(Wire(0, n, g)), Took(o)
  PROVE  Wrote(g, n, o)
<1>1. /\ peer.ok = TRUE /\ peer.got \in Nat
      /\ overTls \in BOOLEAN
      /\ overTls = FALSE => twstate = "Idle" /\ record = <<>>
  BY StreamWriterAssumption DEF WriterInv, WTypes, HeldInOrder, PeerFollows
<1>2. twstate # "Poisoned" => FitsAt(g)
  BY DEF WriterInv, PeerFollows
<1>3. peer.got <= g
  <2>1. CASE twstate = "Poisoned"
    <3>1. Len(pending) = 0 /\ accepted \in Nat /\ peer.got <= accepted
      BY <2>1, StreamWriterAssumption DEF WriterInv, WTypes, HeldInOrder, PeerFollows
    <3> QED BY <3>1
  <2>2. CASE twstate # "Poisoned"
    <3>1. PICK bn \in 0..MaxTlsPayload : peer.got + bn = g
      BY <1>2, <2>2 DEF FitsAt
    <3> QED BY <1>1, <3>1, TlsRecordAssumption
  <2> QED BY <2>1, <2>2
<1>4. CASE overTls = TRUE
  <2>1. o \in tls_poll_write(Wire(0, n, g))
    BY <1>4 DEF upstream_poll_write
  <2> QED BY <1>1, <1>2, <1>3, <1>4, <2>1, TlsWrites, Zenon
<1>5. CASE overTls = FALSE
  <2>1. o \in socket_poll_write(Wire(0, n, g))
    BY <1>5 DEF upstream_poll_write
  <2>2. record = <<>> /\ twstate = "Idle" /\ FitsAt(g)
    BY <1>1, <1>2, <1>5, Zenon
  <2> QED BY <1>1, <1>5, <2>1, <2>2, SocketWrites, Zenon
<1> QED BY <1>1, <1>4, <1>5, Zenon

\* The steps of the abstract sink, as steps of the writers.
Failed == cwstate = "Poisoned" \/ twstate = "Poisoned"
SinkStep == [Sink!SinkNext]_(Sink!sinkVars)

LEMMA IsTransfer ==
  ASSUME ~wclosed, wclosed' = wclosed, accepted' >= accepted, peer'.got >= peer.got,
         peer'.got <= accepted', wflushed' = (wflushed /\ accepted' = accepted), Failed' <=> Failed
  PROVE  SinkStep
BY Zenon DEF SinkStep, Sink!SinkNext, Sink!Transfer, Failed

LEMMA IsFail ==
  ASSUME ~wclosed, wclosed' = wclosed, accepted' = accepted, peer'.got \in peer.got..accepted,
         wflushed' = wflushed, Failed'
  PROVE  SinkStep
BY Zenon DEF SinkStep, Sink!SinkNext, Sink!Fail, Failed

LEMMA IsFlush ==
  ASSUME ~wclosed, wclosed' = wclosed, accepted' = accepted, peer'.got = accepted,
         wflushed' = TRUE, ~Failed, ~Failed'
  PROVE  SinkStep
BY Zenon DEF SinkStep, Sink!SinkNext, Sink!Flush, Failed

LEMMA IsClose ==
  ASSUME ~wclosed, wclosed' = TRUE, accepted' = accepted, peer'.got \in peer.got..accepted,
         wflushed' = wflushed
  PROVE  SinkStep
BY Zenon DEF SinkStep, Sink!SinkNext, Sink!Close, Failed

LEMMA IsStutter ==
  ASSUME UNCHANGED <<wclosed, accepted, peer, wflushed>>, Failed' <=> Failed
  PROVE  SinkStep
BY Zenon DEF SinkStep, Sink!sinkVars, Failed

-----------------------------------------------------------------------------
\* The smaller of two sizes is at most each of them.
LEMMA Smaller ==
  ASSUME NEW a \in Nat, NEW b \in Nat
  PROVE  SmallerOf(a, b) \in Nat /\ SmallerOf(a, b) <= a /\ SmallerOf(a, b) <= b
         /\ (a # 0 /\ b # 0 => SmallerOf(a, b) # 0)
BY DEF SmallerOf

\* What is kept of pending ciphertext once its first c bytes are taken.
LEMMA BytesLeft ==
  ASSUME NEW n \in Nat, NEW g \in Nat, NEW c \in 0..n
  PROVE  Unsent(c, Wire(0, n, g)) = Wire(0, n - c, g + c) /\ Len(Wire(0, n - c, g + c)) = n - c
<1>1. 0 \in Nat /\ c \in 0..(0 + n) /\ c \in Nat /\ n - c \in Nat /\ g + c \in Nat
  OBVIOUS
<1>2. HeadsLeft(0, c) = 0 /\ BytesIn(0, c) = c
  BY <1>1 DEF HeadsLeft, BytesIn
<1>3. Unsent(c, Wire(0, n, g)) = Wire(HeadsLeft(0, c), n - BytesIn(0, c), g + BytesIn(0, c))
  BY <1>1, WireUnsent, SMTT(30)
<1>4. Unsent(c, Wire(0, n, g)) = Wire(0, n - c, g + c)
  BY <1>2, <1>3, Zenon
<1> QED BY <1>1, <1>4, WireBytes, Zenon

\* One iteration of the loop of CryptoWriter::poll_flush_pending.
LEMMA FlushPendingStep ==
  ASSUME WriterInv, poll_flush_pending
  PROVE  WriterInv' /\ SinkStep
<1> PICK n \in Nat, g \in Nat : n = Len(pending) /\ g = accepted - Len(pending)
  BY StreamWriterAssumption DEF WriterInv, WTypes, HeldInOrder, poll_flush_pending
<1>1. /\ cwstate = "Flushing" /\ wcall \in {"write", "flush", "shutdown"} /\ ~wclosed
      /\ n \in Nat \ {0} /\ n <= MaxPendingWrite /\ n <= accepted /\ accepted \in Nat /\ accepted <= MaxBytes
      /\ g \in Nat /\ g + n = accepted /\ wkey = accepted /\ pending = Wire(0, n, g)
      /\ peer.got \in Nat /\ twstate # "Poisoned" /\ overTls \in BOOLEAN /\ wflushed \in BOOLEAN
      /\ MaxPendingWrite \in Nat \ {0} /\ MaxBytes \in Nat
  BY StreamWriterAssumption DEF WriterInv, WTypes, HeldInOrder, PeerFollows, poll_flush_pending
<1>2. offered \in {0} \cup Offers /\ (wcall = "write" => offered \in Offers /\ accepted + offered <= MaxBytes)
  BY DEF WriterInv, WTypes
<1>3. PICK o \in upstream_poll_write(pending) :
        /\ Took(o)
        /\ \/ /\ o.res = "Ok" /\ o.n > 0
              /\ pending' = Unsent(o.n, pending)
              /\ cwstate' = IF o.n = Len(pending) THEN "Idle" ELSE "Flushing"
              /\ UNCHANGED <<wcall, offered, wkey, accepted, wflushed>>
           \/ /\ o.res = "Pending"
              /\ UNCHANGED cwstate
              /\ IF wcall = "write" THEN buffer_more
                 ELSE UNCHANGED <<pending, wkey, accepted, wflushed>>
              /\ IF wcall = "shutdown"
                 THEN wcall' = "shutdown_upstream" /\ UNCHANGED offered
                 ELSE WReturn
           \/ /\ o.res = "Err" \/ (o.res = "Ok" /\ o.n = 0)
              /\ cwstate' = "Poisoned" /\ pending' = <<>>
              /\ IF wcall = "shutdown"
                 THEN wcall' = "shutdown_upstream" /\ UNCHANGED offered
                 ELSE WReturn
              /\ UNCHANGED <<wkey, accepted, wflushed>>
  BY Zenon DEF poll_flush_pending
<1>4. overTls' = overTls /\ wclosed' = wclosed
  BY DEF poll_flush_pending
<1>5. Wrote(g, n, o)
  <2>1. o \in upstream_poll_write(Wire(0, n, g)) /\ cwstate # "Poisoned"
    BY <1>1, <1>3
  <2> QED BY <1>1, <1>3, <2>1, UpstreamWrites
<1>6. /\ peer'.ok = TRUE /\ peer'.got \in Nat /\ peer.got <= peer'.got /\ peer'.got <= g + o.n
      /\ o.n \in 0..n /\ o.res \in {"Ok", "Pending", "Err"} /\ (o.res # "Ok" => o.n = 0)
      /\ o.res = "Ok" /\ o.n = 0 => overTls = FALSE
      /\ twstate' \in {"Idle", "WritingRecord", "Poisoned"}
      /\ overTls = FALSE => twstate' = "Idle" /\ record' = <<>>
      /\ overTls = TRUE => (o.res = "Err" <=> twstate' = "Poisoned")
      /\ twstate' = "Poisoned" => record' = <<>>
      /\ o.res # "Err" => FitsAt(g + o.n)'
  BY <1>5 DEF Wrote
<1>7. CASE /\ o.res = "Ok" /\ o.n > 0
           /\ pending' = Unsent(o.n, pending)
           /\ cwstate' = IF o.n = Len(pending) THEN "Idle" ELSE "Flushing"
           /\ UNCHANGED <<wcall, offered, wkey, accepted, wflushed>>
  <2>1. pending' = Wire(0, n - o.n, g + o.n) /\ Len(pending') = n - o.n
    <3>1. pending' = Unsent(o.n, Wire(0, n, g)) /\ o.n \in 0..n
      BY <1>1, <1>6, <1>7, Zenon
    <3>2. Unsent(o.n, Wire(0, n, g)) = Wire(0, n - o.n, g + o.n) /\ Len(Wire(0, n - o.n, g + o.n)) = n - o.n
      BY <3>1, BytesLeft, Zenon
    <3> QED BY <3>1, <3>2, Zenon
  <2>2. /\ twstate' # "Poisoned" /\ accepted' = accepted /\ FitsAt(g + o.n)'
        /\ cwstate' # "Poisoned" /\ (cwstate' = "Flushing" <=> o.n # n)
    BY <1>1, <1>6, <1>7
  <2>3. accepted - (n - o.n) = g + o.n /\ n - o.n \in 0..MaxPendingWrite /\ n - o.n <= accepted
        /\ (n - o.n > 0 <=> o.n # n) /\ g + o.n <= accepted
    <3> DEFINE c == o.n
    <3>1. c \in 0..n
      BY <1>6
    <3> HIDE DEF c
    <3>2. accepted - (n - c) = g + c /\ n - c \in 0..MaxPendingWrite /\ n - c <= accepted
          /\ (n - c > 0 <=> c # n) /\ g + c <= accepted
      BY <1>1, <3>1
    <3> QED BY <3>2 DEF c
  <2>4. WTypes'
    BY <1>4, <1>6, <1>7 DEF WriterInv, WTypes
  <2>5. HeldInOrder'
    <3>1. /\ Len(pending') \in 0..MaxPendingWrite /\ (cwstate' = "Flushing" <=> Len(pending') > 0)
          /\ wkey' = accepted' /\ Len(pending') <= accepted'
          /\ pending' = Wire(0, Len(pending'), accepted' - Len(pending'))
      BY <1>1, <1>7, <2>1, <2>2, <2>3, Zenon
    <3> QED BY <3>1, Zenon DEF HeldInOrder, Wire, HeadSym, CipherByte
  <2>6. PeerFollows'
    <3>1. accepted' - Len(pending') = g + o.n
      BY <2>1, <2>2, <2>3
    <3>3. peer'.got \in 0..accepted'
      <4>1. peer'.got \in Nat /\ peer'.got <= g + o.n /\ g + o.n \in Nat /\ accepted' = accepted
        BY <1>1, <1>6, <2>2
      <4> QED BY <1>1, <2>3, <4>1
    <3>2. FitsAt(accepted - Len(pending))'
      BY <3>1, <2>2 DEF FitsAt
    <3> QED BY <1>1, <1>4, <1>6, <2>2, <3>2, <3>3, Zenon DEF PeerFollows
  <2>7. SinkStep
    <3>1. wflushed' = (wflushed /\ accepted' = accepted) /\ accepted' >= accepted
          /\ peer'.got >= peer.got /\ peer'.got <= accepted'
      BY <1>1, <1>6, <1>7, <2>2, <2>3
    <3>2. ~Failed /\ ~Failed'
      BY <1>1, <2>2 DEF Failed
    <3> QED BY <1>1, <1>4, <3>1, <3>2, IsTransfer, Zenon
  <2> QED BY <2>4, <2>5, <2>6, <2>7 DEF WriterInv
<1>8. CASE /\ o.res = "Pending"
           /\ UNCHANGED cwstate
           /\ IF wcall = "write" THEN buffer_more
              ELSE UNCHANGED <<pending, wkey, accepted, wflushed>>
           /\ IF wcall = "shutdown"
              THEN wcall' = "shutdown_upstream" /\ UNCHANGED offered
              ELSE WReturn
  <2>1. PICK c \in Nat : /\ pending' = Wire(0, n + c, g) /\ n + c <= MaxPendingWrite
                         /\ accepted' = accepted + c /\ wkey' = wkey + c /\ accepted + c <= MaxBytes
                         /\ wflushed' = (wflushed /\ c = 0)
    <3>1. CASE wcall = "write"
      <4> DEFINE c == SmallerOf(offered, MaxPendingWrite - Len(pending))
      <4>1. /\ c \in Nat /\ n + c <= MaxPendingWrite /\ accepted + c <= MaxBytes
        <5>1. offered \in Nat /\ accepted + offered <= MaxBytes
          BY <1>2, <3>1, StreamWriterAssumption
        <5>2. c \in Nat /\ c <= offered /\ n + c <= MaxPendingWrite
          <6>1. MaxPendingWrite - Len(pending) \in Nat /\ MaxPendingWrite - Len(pending) = MaxPendingWrite - n
            BY <1>1
          <6>2. c \in Nat /\ c <= offered /\ c <= MaxPendingWrite - Len(pending)
            BY <5>1, <6>1, Smaller, Zenon
          <6> HIDE DEF c
          <6> QED BY <1>1, <6>1, <6>2
        <5> HIDE DEF c
        <5> QED BY <1>1, <5>1, <5>2
      <4>2. pending' = pending \o Encrypted(c) /\ Accept(c)
        BY <1>8, <3>1 DEF buffer_more
      <4> HIDE DEF c
      <4>3. Encrypted(c) = Wire(0, c, g + n)
        BY <1>1, <4>1, Encrypts
      <4>4. pending' = Wire(0, n + c, g)
        <5>1. Wire(0, n, g) \o Wire(0, c, g + n) = Wire(0, n + c, g)
          <6>1. n \in Nat /\ g \in Nat /\ c \in Nat
            BY <4>1
          <6> QED BY ONLY <6>1, WireMore, Zenon
        <5> QED BY <1>1, <4>2, <4>3, <5>1
      <4> QED BY <4>1, <4>2, <4>4 DEF Accept
    <3>2. CASE wcall # "write"
      <4>1. pending' = Wire(0, n + 0, g) /\ n + 0 <= MaxPendingWrite /\ accepted' = accepted + 0
            /\ wkey' = wkey + 0 /\ accepted + 0 <= MaxBytes
        BY <1>1, <1>8, <3>2
      <4>2. wflushed' = (wflushed /\ 0 = 0)
        BY <1>1, <1>8, <3>2
      <4>3. 0 \in Nat
        OBVIOUS
      <4> QED BY <4>1, <4>2, <4>3, Zenon
    <3> QED BY <3>1, <3>2
  <2>2. n + c \in Nat /\ Len(pending') = n + c
    <3>1. n + c \in Nat
      BY <1>1
    <3> QED BY <1>1, <2>1, <3>1, WireBytes, Zenon
  <2>8. o.n = 0 /\ twstate' # "Poisoned" /\ FitsAt(g)' /\ cwstate' = "Flushing" /\ peer'.got <= g
    <3>1. g + 0 = g
      BY <1>1
    <3>2. o.n = 0 /\ o.res # "Err"
      BY <1>6, <1>8
    <3>3. FitsAt(g)' /\ peer'.got <= g
      BY <1>6, <3>1, <3>2
    <3> QED BY <1>1, <1>6, <1>8, <3>2, <3>3
  <2>3. /\ (accepted + c) - (n + c) = g /\ n + c > 0 /\ n + c <= accepted + c /\ accepted + c \in 0..MaxBytes
        /\ g <= accepted + c /\ accepted + c >= accepted
    BY <1>1, <2>1
  <2>4. WTypes'
    <3>1. wcall' \in {"none", "shutdown_upstream"} /\ offered' \in {0} \cup Offers
      BY <1>2, <1>8 DEF WReturn
    <3>2. wkey' \in Nat /\ wflushed' \in BOOLEAN /\ accepted' \in 0..MaxBytes
      BY <1>1, <2>1, <2>3
    <3>3. overTls' \in BOOLEAN /\ wclosed' = FALSE /\ cwstate' = "Flushing"
          /\ twstate' \in {"Idle", "WritingRecord", "Poisoned"}
      BY <1>1, <1>4, <1>6, <2>8
    <3> QED BY <3>1, <3>2, <3>3, Zenon DEF WTypes
  <2>5. HeldInOrder'
    <3>1. /\ Len(pending') \in 0..MaxPendingWrite /\ (cwstate' = "Flushing" <=> Len(pending') > 0)
          /\ wkey' = accepted' /\ Len(pending') <= accepted'
          /\ pending' = Wire(0, Len(pending'), accepted' - Len(pending'))
      <4>1. n + c \in 0..MaxPendingWrite /\ wkey + c = accepted + c
        BY <1>1, <2>1, <2>2
      <4> QED BY <2>1, <2>2, <2>3, <2>8, <4>1, Zenon
    <3> QED BY <3>1, Zenon DEF HeldInOrder, Wire, HeadSym, CipherByte
  <2>6. PeerFollows'
    <3>1. accepted' - Len(pending') = g
      BY <2>1, <2>2, <2>3
    <3>3. peer'.got \in 0..accepted'
      <4>1. peer'.got \in Nat
        BY <1>6
      <4> QED BY <1>1, <2>1, <2>3, <2>8, <4>1
    <3>2. FitsAt(accepted - Len(pending))'
      BY <3>1, <2>8 DEF FitsAt
    <3> QED BY <1>1, <1>4, <1>6, <2>8, <3>2, <3>3, Zenon DEF PeerFollows
  <2>7. SinkStep
    <3>1. accepted' >= accepted /\ peer'.got >= peer.got /\ peer'.got <= accepted'
          /\ (c = 0 <=> accepted' = accepted)
      <4>1. peer'.got \in Nat /\ peer.got <= peer'.got
        BY <1>6
      <4> QED BY <1>1, <2>1, <2>3, <2>8, <4>1
    <3>2. ~Failed /\ ~Failed'
      BY <1>1, <2>8 DEF Failed
    <3>3. wflushed' = (wflushed /\ accepted' = accepted)
      BY <2>1, <3>1
    <3> QED BY <1>1, <1>4, <3>1, <3>2, <3>3, IsTransfer, Zenon
  <2> QED BY <2>4, <2>5, <2>6, <2>7 DEF WriterInv
<1>9. CASE /\ o.res = "Err" \/ (o.res = "Ok" /\ o.n = 0)
           /\ cwstate' = "Poisoned" /\ pending' = <<>>
           /\ IF wcall = "shutdown"
              THEN wcall' = "shutdown_upstream" /\ UNCHANGED offered
              ELSE WReturn
           /\ UNCHANGED <<wkey, accepted, wflushed>>
  <2>1. /\ o.n = 0 /\ g + 0 = g /\ g <= accepted /\ record' = <<>> /\ (overTls => twstate' = "Poisoned")
        /\ Len(pending') = 0
    BY <1>1, <1>6, <1>9
  <2>2. WTypes'
    <3>1. wcall' \in {"none", "shutdown_upstream"} /\ offered' \in {0} \cup Offers
      BY <1>2, <1>9 DEF WReturn
    <3> QED BY <1>1, <1>4, <1>6, <1>9, <3>1, Zenon DEF WTypes, WriterInv
  <2>3. HeldInOrder'
    BY <1>1, <1>9, <2>1 DEF HeldInOrder
  <2>4. PeerFollows'
    <3>1. peer'.got \in 0..accepted'
      BY <1>1, <1>6, <1>9, <2>1
    <3> QED BY <1>1, <1>4, <1>6, <1>9, <2>1, <3>1, Zenon DEF PeerFollows
  <2>5. SinkStep
    <3>1. peer'.got \in peer.got..accepted
      BY <1>1, <1>6, <1>9, <2>1
    <3>2. Failed'
      BY <1>9 DEF Failed
    <3> QED BY <1>1, <1>4, <1>9, <3>1, <3>2, IsFail, Zenon
  <2> QED BY <2>2, <2>3, <2>4, <2>5 DEF WriterInv
<1> QED BY <1>3, <1>7, <1>8, <1>9, Zenon

-----------------------------------------------------------------------------
\* The fast path of CryptoWriter::poll_write.
LEMMA WriteThroughStep ==
  ASSUME WriterInv, write_through
  PROVE  WriterInv' /\ SinkStep
<1> PICK n \in Nat, g \in Nat : n = SmallerOf(offered, MaxPendingWrite) /\ g = accepted
  <2>1. offered \in Nat /\ MaxPendingWrite \in Nat /\ accepted \in Nat
    BY StreamWriterAssumption DEF WriterInv, WTypes
  <2> QED BY <2>1, Smaller, Zenon
<1>1. /\ wcall = "write" /\ cwstate = "Idle" /\ ~wclosed /\ wclosed = FALSE
      /\ Len(pending) = 0 /\ wkey = accepted /\ g = accepted - Len(pending)
      /\ offered \in Nat \ {0} /\ accepted + offered <= MaxBytes /\ MaxBytes \in Nat
      /\ MaxPendingWrite \in Nat \ {0} /\ overTls \in BOOLEAN /\ wflushed \in BOOLEAN
      /\ peer.got \in Nat
  BY StreamWriterAssumption DEF WriterInv, WTypes, HeldInOrder, PeerFollows, write_through
<1>2. n \in Nat \ {0} /\ n <= MaxPendingWrite /\ g + n <= MaxBytes
  <2>1. n <= MaxPendingWrite /\ n <= offered /\ n # 0
    BY <1>1, Smaller
  <2> QED BY <1>1, <2>1
<1>3. Encrypted(n) = Wire(0, n, g)
  BY <1>1, Encrypts
<1>4. PICK o \in upstream_poll_write(Wire(0, n, g)) :
        /\ Took(o)
        /\ \/ /\ o.res = "Pending" \/ (o.res = "Ok" /\ o.n > 0)
              /\ pending' = Unsent(o.n, Wire(0, n, g))
              /\ cwstate' = IF o.n = n THEN "Idle" ELSE "Flushing"
              /\ Accept(n)
           \/ /\ o.res = "Err" \/ (o.res = "Ok" /\ o.n = 0)
              /\ cwstate' = "Poisoned" /\ pending' = <<>>
              /\ wkey' = wkey + n
              /\ UNCHANGED <<accepted, wflushed>>
  BY <1>3, Zenon DEF write_through, keep_remainder
<1>5. overTls' = overTls /\ wclosed' = FALSE /\ wcall' = "none" /\ offered' = 0
  BY <1>1 DEF write_through, WReturn
<1>6. Wrote(g, n, o)
  <2>1. cwstate # "Poisoned"
    BY <1>1
  <2> QED BY <1>1, <1>2, <1>4, <2>1, UpstreamWrites
<1>7. /\ peer'.ok = TRUE /\ peer'.got \in Nat /\ peer.got <= peer'.got /\ peer'.got <= g + o.n
      /\ o.n \in 0..n /\ (o.res # "Ok" => o.n = 0)
      /\ o.res = "Ok" /\ o.n = 0 => overTls = FALSE
      /\ twstate' \in {"Idle", "WritingRecord", "Poisoned"}
      /\ overTls = FALSE => twstate' = "Idle" /\ record' = <<>>
      /\ overTls = TRUE => (o.res = "Err" <=> twstate' = "Poisoned")
      /\ twstate' = "Poisoned" => record' = <<>>
      /\ twstate = "Poisoned" => o.res = "Err"
      /\ o.res # "Err" => FitsAt(g + o.n)'
  BY <1>6 DEF Wrote
<1>8. CASE /\ o.res = "Pending" \/ (o.res = "Ok" /\ o.n > 0)
           /\ pending' = Unsent(o.n, Wire(0, n, g))
           /\ cwstate' = IF o.n = n THEN "Idle" ELSE "Flushing"
           /\ Accept(n)
  <2> DEFINE c == o.n
  <2>1. /\ c \in 0..n /\ FitsAt(g + c)' /\ peer'.got <= g + c /\ twstate # "Poisoned" /\ twstate' # "Poisoned"
        /\ cwstate' = IF c = n THEN "Idle" ELSE "Flushing"
        /\ pending' = Unsent(c, Wire(0, n, g))
    BY <1>1, <1>7, <1>8
  <2> HIDE DEF c
  <2>2. pending' = Wire(0, n - c, g + c) /\ Len(pending') = n - c
    <3>1. Unsent(c, Wire(0, n, g)) = Wire(0, n - c, g + c) /\ Len(Wire(0, n - c, g + c)) = n - c
      BY <2>1, BytesLeft, Zenon
    <3> QED BY <2>1, <3>1, Zenon
  <2>3. accepted' = g + n /\ wkey' = g + n /\ wflushed' = (wflushed /\ n = 0)
    BY <1>1, <1>8 DEF Accept
  <2>4. /\ n - c \in 0..MaxPendingWrite /\ (cwstate' = "Flushing" <=> n - c > 0) /\ cwstate' # "Poisoned"
        /\ cwstate' \in {"Idle", "Flushing"}
        /\ n - c <= g + n /\ (g + n) - (n - c) = g + c /\ g + n \in 0..MaxBytes /\ g + c <= g + n
    BY <1>1, <1>2, <2>1
  <2>5. WTypes'
    <3>1. wkey' \in Nat /\ wflushed' \in BOOLEAN
      BY <1>1, <2>3, <2>4
    <3> QED BY <1>1, <1>5, <1>7, <2>3, <2>4, <3>1, Zenon DEF WTypes
  <2>6. HeldInOrder'
    <3>1. /\ Len(pending') \in 0..MaxPendingWrite /\ (cwstate' = "Flushing" <=> Len(pending') > 0)
          /\ wkey' = accepted' /\ Len(pending') <= accepted'
          /\ pending' = Wire(0, Len(pending'), accepted' - Len(pending'))
      BY <2>2, <2>3, <2>4, Zenon
    <3> QED BY <3>1, Zenon DEF HeldInOrder, Wire, HeadSym, CipherByte
  <2>7. peer'.got \in 0..accepted'
    <3>1. peer'.got \in Nat
      BY <1>7
    <3> QED BY <1>2, <2>1, <2>3, <2>4, <3>1
  <2>8. PeerFollows'
    <3>1. accepted' - Len(pending') = g + c
      BY <2>2, <2>3, <2>4, Zenon
    <3>2. FitsAt(accepted - Len(pending))'
      BY <3>1, <2>1 DEF FitsAt
    <3> QED BY <1>1, <1>5, <1>7, <2>1, <2>4, <2>7, <3>2, Zenon DEF PeerFollows
  <2>9. SinkStep
    <3>1. /\ accepted' >= accepted /\ peer'.got >= peer.got /\ peer'.got <= accepted'
          /\ wflushed' = (wflushed /\ accepted' = accepted)
      BY <1>1, <1>2, <1>7, <2>3, <2>7
    <3>2. ~Failed /\ ~Failed'
      BY <1>1, <2>1, <2>4 DEF Failed
    <3> QED BY <1>1, <1>5, <3>1, <3>2, IsTransfer, Zenon
  <2> QED BY <2>5, <2>6, <2>8, <2>9 DEF WriterInv
<1>9. CASE /\ o.res = "Err" \/ (o.res = "Ok" /\ o.n = 0)
           /\ cwstate' = "Poisoned" /\ pending' = <<>>
           /\ wkey' = wkey + n
           /\ UNCHANGED <<accepted, wflushed>>
  <2>1. /\ o.n = 0 /\ g + 0 = g /\ record' = <<>> /\ (overTls => twstate' = "Poisoned")
        /\ Len(pending') = 0 /\ wkey' \in Nat
    BY <1>1, <1>7, <1>9
  <2>2. peer'.got \in peer.got..accepted /\ peer'.got \in 0..accepted /\ accepted \in 0..MaxBytes
    BY <1>1, <1>7, <2>1
  <2>3. WTypes'
    BY <1>1, <1>5, <1>7, <1>9, <2>1, <2>2, Zenon DEF WTypes
  <2>4. HeldInOrder'
    BY <1>1, <1>9, <2>1 DEF HeldInOrder
  <2>5. PeerFollows'
    BY <1>1, <1>5, <1>7, <1>9, <2>1, <2>2, Zenon DEF PeerFollows
  <2>6. SinkStep
    <3>1. Failed'
      BY <1>9 DEF Failed
    <3> QED BY <1>1, <1>5, <1>9, <2>2, <3>1, IsFail, Zenon
  <2> QED BY <2>3, <2>4, <2>5, <2>6 DEF WriterInv
<1> QED BY <1>4, <1>8, <1>9, Zenon

\* A client at the end of its record has received everything up to that point.
LEMMA NothingHeld ==
  ASSUME NEW g \in Nat, FitsAt(g), record = <<>>
  PROVE  peer.got = g
<1>1. PICK hn \in 0..HeaderSize, bn \in 0..MaxTlsPayload :
        peer.got \in Nat /\ record = Wire(hn, bn, peer.got) /\ peer.got + bn = g
  BY Zenon DEF FitsAt
<1>2. hn \in Nat /\ bn \in Nat
  BY TlsRecordAssumption
<1>3. Len(record) = hn + bn
  BY <1>1, <1>2, WireSeq, Zenon
<1> QED BY <1>1, <1>2, <1>3

\* The flush of the layer below by CryptoWriter::poll_flush.
LEMMA FlushUpstreamStep ==
  ASSUME WriterInv, flush_upstream
  PROVE  WriterInv' /\ SinkStep
<1> PICK g \in Nat : g = accepted
  BY StreamWriterAssumption DEF WriterInv, WTypes
<1>1. /\ cwstate = "Idle" /\ ~wclosed /\ wclosed = FALSE /\ Len(pending) = 0 /\ wkey = accepted
      /\ g = accepted - Len(pending) /\ overTls \in BOOLEAN /\ wflushed \in BOOLEAN /\ peer.ok = TRUE
      /\ peer.got \in 0..g
      /\ overTls = FALSE => twstate = "Idle" /\ record = <<>>
      /\ twstate = "Poisoned" => record = <<>>
      /\ twstate # "Poisoned" => FitsAt(g)
  BY StreamWriterAssumption DEF WriterInv, WTypes, HeldInOrder, PeerFollows, flush_upstream
<1>2. PICK o \in IF overTls THEN tls_poll_flush ELSE {TlsEnd(<<>>, "Idle", <<>>, "Ok", 0)} :
        Took(o) /\ wflushed' = (wflushed \/ o.res = "Ok")
  BY DEF flush_upstream
<1>3. /\ wcall' = "none" /\ offered' = 0 /\ UNCHANGED <<overTls, cwstate, pending, wkey, accepted, wclosed>>
  BY DEF flush_upstream, WReturn
<1>4. HeldInOrder'
  BY <1>3 DEF WriterInv, HeldInOrder, Wire, HeadSym, CipherByte
<1>5. ASSUME /\ twstate' \in {"Idle", "WritingRecord", "Poisoned"} /\ peer'.ok = TRUE /\ peer'.got \in 0..g
             /\ overTls = FALSE => twstate' = "Idle" /\ record' = <<>>
             /\ twstate' = "Poisoned" => record' = <<>>
             /\ twstate' # "Poisoned" => FitsAt(g)'
      PROVE  WriterInv'
  <2>1. WTypes'
    <3>1. wflushed' \in BOOLEAN
      BY <1>2
    <3> QED BY <1>3, <1>5, <3>1 DEF WriterInv, WTypes
  <2>2. PeerFollows'
    <3>1. accepted' - Len(pending') = g
      BY <1>1, <1>3
    <3>2. twstate' # "Poisoned" => FitsAt(accepted - Len(pending))'
      BY <1>5, <3>1 DEF FitsAt
    <3> QED BY <1>1, <1>3, <1>5, <3>2, Zenon DEF PeerFollows
  <2> QED BY <1>4, <2>1, <2>2 DEF WriterInv
<1>6. Deliver(o.out) /\ twstate' = o.st /\ record' = o.rec
  BY <1>2 DEF Took
<1>7. CASE overTls = FALSE \/ twstate = "Poisoned"
  <2>1. o.out = <<>> /\ o.rec = <<>>
    BY <1>1, <1>2, <1>7 DEF tls_poll_flush, TlsEnd
  <2>2. peer' = peer /\ record' = record
    BY <1>1, <1>6, <1>7, <2>1, DeliverNone
  <2>3. FitsAt(g) => FitsAt(g)'
    BY <2>2, FitsSame
  <2>4. CASE overTls = FALSE
    <3>1. twstate' = "Idle" /\ twstate = "Idle" /\ o.res = "Ok"
      BY <1>1, <1>2, <1>6, <2>4 DEF TlsEnd
    <3>2. WriterInv'
      BY <1>1, <1>5, <2>2, <2>3, <2>4, <3>1, Zenon
    <3>3. peer'.got = accepted
      BY <1>1, <2>2, <2>4, <3>1, NothingHeld
    <3>4. wflushed' = TRUE /\ ~Failed /\ ~Failed'
      BY <1>1, <1>2, <1>3, <3>1, Zenon DEF Failed
    <3> QED BY <1>1, <1>3, <3>2, <3>3, <3>4, IsFlush
  <2>5. CASE overTls = TRUE /\ twstate = "Poisoned"
    <3>1. twstate' = "Poisoned" /\ o.res = "Err"
      BY <1>2, <1>6, <2>5 DEF tls_poll_flush, TlsEnd
    <3>2. WriterInv'
      BY <1>1, <1>5, <2>2, <2>5, <3>1, Zenon
    <3>3. wflushed' = wflushed /\ (Failed' <=> Failed)
      BY <1>1, <1>2, <2>5, <3>1 DEF Failed
    <3> QED BY <1>3, <2>2, <3>2, <3>3, IsStutter
  <2> QED BY <1>1, <1>7, <2>4, <2>5, Zenon
<1>8. CASE overTls = TRUE /\ twstate # "Poisoned"
  <2>1. PICK f \in poll_flush_record_inner(record) :
          o = TlsEnd(Sent(f.sent, record),
                CASE f.end = "Complete" -> "Idle" [] f.end = "Pending" -> "WritingRecord"
                  [] OTHER -> "Poisoned",
                IF f.end = "Error" THEN <<>> ELSE Unsent(f.sent, record),
                CASE f.end = "Complete" -> "Ok" [] f.end = "Pending" -> "Pending"
                  [] OTHER -> "Err", 0)
    BY <1>2, <1>8, Zenon DEF tls_poll_flush
  <2>2. /\ f.sent \in 0..Len(record) /\ f.end \in {"Complete", "Pending", "Error"}
        /\ (f.end = "Complete") <=> (f.sent = Len(record))
    BY DEF poll_flush_record_inner
  <2>3. PICK k \in 0..Len(record) : k = f.sent
    BY <2>2
  <2>4. /\ Deliver(Sent(k, record))
        /\ f.end = "Complete" => k = Len(record) /\ twstate' = "Idle" /\ o.res = "Ok"
        /\ f.end = "Pending" => twstate' = "WritingRecord" /\ o.res = "Pending"
        /\ f.end = "Error" => twstate' = "Poisoned" /\ record' = <<>> /\ o.res = "Err"
        /\ f.end # "Error" => record' = Unsent(k, record)
    BY <1>6, <2>1, <2>2, <2>3 DEF TlsEnd
  <2>5. FitsAt(g)
    BY <1>1, <1>8
  <2>6. /\ peer'.ok = TRUE /\ peer'.got \in Nat /\ peer.got <= peer'.got /\ peer'.got <= g
        /\ record' = Unsent(k, record) => FitsAt(g)'
        /\ k = Len(record) => peer'.got = g
    BY <1>8, <2>4, <2>5, RecordSent, Zenon
  <2>7. peer'.got \in 0..g /\ peer'.got \in peer.got..accepted /\ peer'.got >= peer.got /\ peer'.got <= accepted'
    BY <1>1, <1>3, <2>6
  <2>8. WriterInv'
    BY <1>5, <1>8, <2>2, <2>4, <2>6, <2>7, Zenon
  <2>9. SinkStep
    <3>1. ~Failed
      BY <1>1, <1>8 DEF Failed
    <3>2. CASE f.end = "Complete"
      <4>1. ~Failed' /\ peer'.got = accepted /\ wflushed' = TRUE
        BY <1>1, <1>2, <1>3, <2>4, <2>6, <3>2, Zenon DEF Failed
      <4> QED BY <1>1, <1>3, <3>1, <4>1, IsFlush
    <3>3. CASE f.end = "Pending"
      <4>1. ~Failed' /\ wflushed' = (wflushed /\ accepted' = accepted) /\ accepted' >= accepted
        BY <1>1, <1>2, <1>3, <2>4, <3>3 DEF Failed
      <4> QED BY <1>1, <1>3, <2>7, <3>1, <4>1, IsTransfer
    <3>4. CASE f.end = "Error"
      <4>1. Failed' /\ wflushed' = wflushed
        BY <1>1, <1>2, <2>4, <3>4 DEF Failed
      <4> QED BY <1>1, <1>3, <2>7, <4>1, IsFail
    <3> QED BY <2>2, <3>2, <3>3, <3>4
  <2> QED BY <2>8, <2>9
<1> QED BY <1>1, <1>7, <1>8, Zenon

\* The shutdown of the layer below by CryptoWriter::poll_shutdown.
LEMMA ShutdownUpstreamStep ==
  ASSUME WriterInv, shutdown_upstream
  PROVE  WriterInv' /\ SinkStep
<1>1. /\ ~wclosed /\ overTls \in BOOLEAN /\ peer.ok = TRUE /\ peer.got \in 0..accepted /\ accepted \in Nat
      /\ Len(pending) \in Nat
      /\ overTls = FALSE => twstate = "Idle" /\ record = <<>>
      /\ twstate = "Poisoned" \/ cwstate = "Poisoned" => record = <<>>
      /\ ~(twstate = "Poisoned" \/ cwstate = "Poisoned") => FitsAt(accepted - Len(pending)) /\ Len(pending) <= accepted
  BY StreamWriterAssumption DEF WriterInv, WTypes, HeldInOrder, PeerFollows, shutdown_upstream
<1>2. PICK o \in IF overTls THEN tls_poll_shutdown ELSE {TlsEnd(<<>>, "Idle", <<>>, "Ok", 0)} : Took(o)
  BY DEF shutdown_upstream
<1>3. /\ wcall' = "none" /\ offered' = 0 /\ wclosed' = TRUE
      /\ UNCHANGED <<overTls, cwstate, pending, wkey, accepted, wflushed>>
  BY DEF shutdown_upstream, WReturn
<1>4. Deliver(o.out) /\ twstate' = "Idle" /\ record' = <<>>
  BY <1>1, <1>2 DEF Took, tls_poll_shutdown, TlsEnd
<1>5. peer'.ok = TRUE /\ peer'.got \in Nat /\ peer.got <= peer'.got /\ peer'.got <= accepted
  <2>1. CASE overTls = FALSE \/ record = <<>>
    <3>1. o.out = <<>>
      <4>1. CASE overTls = FALSE
        BY <1>2, <4>1 DEF TlsEnd
      <4>2. CASE overTls = TRUE /\ record = <<>>
        <5>1. PICK f \in poll_flush_record_inner(record) : o.out = Sent(f.sent, record)
          BY <1>2, <4>2 DEF tls_poll_shutdown, TlsEnd
        <5>2. f.sent \in 0..Len(<<>>)
          BY <4>2 DEF poll_flush_record_inner
        <5>3. f.sent = 0
          BY <5>2
        <5> QED BY <4>2, <5>1, <5>3 DEF Sent
      <4> QED BY <1>1, <2>1, <4>1, <4>2, Zenon
    <3>2. peer' = peer
      BY <1>4, <3>1, DeliverNone, Zenon
    <3> QED BY <1>1, <3>2
  <2>2. CASE overTls = TRUE /\ record # <<>>
    <3>1. PICK f \in poll_flush_record_inner(record) : o.out = Sent(f.sent, record)
      BY <1>2, <2>2 DEF tls_poll_shutdown, TlsEnd
    <3>2. PICK k \in 0..Len(record) : k = f.sent
      BY DEF poll_flush_record_inner
    <3>3. PICK g \in Nat : g = accepted - Len(pending)
      BY <1>1, <2>2
    <3>4. FitsAt(g) /\ g <= accepted
      BY <1>1, <2>2, <3>3
    <3>5. overTls = TRUE /\ Deliver(Sent(k, record))
      BY <1>4, <2>2, <3>1, <3>2, Zenon
    <3>6. peer'.ok = TRUE /\ peer'.got \in Nat /\ peer.got <= peer'.got /\ peer'.got <= g
      BY <3>4, <3>5, RecordSent, Zenon
    <3> QED BY <1>1, <3>4, <3>6
  <2> QED BY <1>1, <2>1, <2>2, Zenon
<1>6. WTypes'
  BY <1>3, <1>4 DEF WriterInv, WTypes
<1>7. HeldInOrder'
  BY <1>3 DEF WriterInv, HeldInOrder, Wire, HeadSym, CipherByte
<1>8. peer'.got \in 0..accepted' /\ peer'.got \in peer.got..accepted
  BY <1>1, <1>3, <1>5
<1>9. PeerFollows'
  BY <1>3, <1>4, <1>5, <1>8, Zenon DEF PeerFollows
<1>10. SinkStep
  BY <1>1, <1>3, <1>8, IsClose
<1> QED BY <1>6, <1>7, <1>9, <1>10 DEF WriterInv

\* A poll that only enters the writer.
LEMMA EnterStep ==
  ASSUME WriterInv, poll_flush \/ poll_shutdown \/ \E n \in Offers : poll_write(n)
  PROVE  WriterInv' /\ SinkStep
<1>1. UNCHANGED <<overTls, cwstate, pending, wkey, accepted, twstate, record, wflushed, wclosed, peer>>
  BY DEF poll_flush, poll_shutdown, poll_write
<1>2. /\ ~wclosed /\ wcall' \in {"write", "flush", "shutdown", "shutdown_upstream"}
      /\ offered' \in {0} \cup Offers
      /\ wcall' = "write" => offered' \in Offers /\ accepted + offered' <= MaxBytes
  BY DEF WriterInv, WTypes, poll_flush, poll_shutdown, poll_write, EnterCall
<1>3. WTypes'
  BY <1>1, <1>2 DEF WriterInv, WTypes
<1>4. HeldInOrder'
  BY <1>1 DEF WriterInv, HeldInOrder, Wire, HeadSym, CipherByte
<1>5. PeerFollows'
  BY <1>1 DEF WriterInv, PeerFollows, FitsAt, Wire, PeerAt, HeadSym, CipherByte
<1>6. SinkStep
  BY <1>1, IsStutter DEF Failed
<1> QED BY <1>3, <1>4, <1>5, <1>6 DEF WriterInv

\* A stuttering step of the writers is one of the sink.
LEMMA IdleStep == ASSUME WriterInv, UNCHANGED outVars PROVE WriterInv' /\ SinkStep
<1>1. WTypes'
  BY DEF WriterInv, WTypes, outVars
<1>2. HeldInOrder'
  BY DEF WriterInv, HeldInOrder, Wire, HeadSym, CipherByte, outVars
<1>3. PeerFollows'
  BY DEF WriterInv, PeerFollows, FitsAt, Wire, PeerAt, HeadSym, CipherByte, outVars
<1>4. SinkStep
  BY IsStutter DEF Failed, outVars
<1> QED BY <1>1, <1>2, <1>3, <1>4 DEF WriterInv

\* A new connection: nothing accepted, held or delivered.
LEMMA WriterStarts == WriterInit => WriterInv /\ Sink!SinkInit
<1> SUFFICES ASSUME WriterInit PROVE WriterInv /\ Sink!SinkInit
  OBVIOUS
<1>1. 0 \in Nat /\ HeaderSize \in Nat /\ MaxTlsPayload \in Nat /\ MaxPendingWrite \in Nat /\ MaxBytes \in Nat
  BY TlsRecordAssumption, StreamWriterAssumption
<1>2. Wire(0, 0, 0) = <<>> /\ Len(<<>>) = 0
  BY <1>1, WireNone
<1>3. WTypes
  <2>1. 0 \in 0..MaxBytes /\ 0 \in Nat
    BY <1>1
  <2> QED BY <2>1, Zenon DEF WriterInit, WTypes
<1>4. HeldInOrder
  BY <1>1, <1>2 DEF WriterInit, HeldInOrder
<1>5. FitsAt(0)
  <2>1. 0 \in 0..HeaderSize /\ 0 \in 0..MaxTlsPayload /\ 0 + 0 = 0 /\ peer.got = 0 /\ record = <<>>
    BY <1>1 DEF WriterInit
  <2>2. peer = PeerAt(0, 0, 0)
    BY DEF WriterInit, PeerAt
  <2> QED BY <1>1, <1>2, <2>1, <2>2 DEF FitsAt
<1>6. PeerFollows
  BY <1>1, <1>2, <1>5 DEF WriterInit, PeerFollows
<1> QED BY <1>3, <1>4, <1>6 DEF WriterInv, WriterInit, Sink!SinkInit

\* The bytes of a record, counted.
LEMMA BytesOfRecord ==
  ASSUME NEW hn \in Nat, NEW bn \in Nat, NEW g \in Nat, record = Wire(hn, bn, g)
  PROVE  Cardinality({i \in DOMAIN record : record[i].s = "byte"}) = bn
<1> DEFINE B == {i \in DOMAIN record : record[i].s = "byte"}
<1>1. /\ record \in Seq(Sym) /\ Len(record) = hn + bn
      /\ \A i \in 1..(hn + bn) : record[i] =
             IF i <= hn THEN HeadSym(bn) ELSE CipherByte((g + i) - hn, (g + i) - hn)
  BY WireSeq, ZenonT(60)
<1>2. DOMAIN record = 1..(hn + bn)
  BY <1>1
<1>3. \A i \in 1..(hn + bn) : record[i].s = "byte" <=> i > hn
  BY <1>1 DEF HeadSym, CipherByte
<1>4. B = (hn + 1)..(hn + bn)
  BY <1>2, <1>3
<1>5. hn + 1 \in Int /\ hn + bn \in Int
  OBVIOUS
<1>6. Cardinality((hn + 1)..(hn + bn)) = IF hn + 1 > hn + bn THEN 0 ELSE (hn + bn) - (hn + 1) + 1
  BY <1>5, FS_Interval
<1>7. Cardinality((hn + 1)..(hn + bn)) = bn
  BY <1>6
<1> QED BY <1>4, <1>7, Zenon

\* What is checked follows from WriterInv.
LEMMA WriterInvMeans == WriterInv => WriterTypeOK /\ WireInOrder /\ NothingDropped
<1> SUFFICES ASSUME WriterInv PROVE WriterTypeOK /\ WireInOrder /\ NothingDropped
  OBVIOUS
<1>1. HeaderSize \in Nat /\ MaxTlsPayload \in Nat /\ Len(<<>>) = 0
  BY TlsRecordAssumption
<1>2. ASSUME FitsAt(accepted - Len(pending))
      PROVE  Len(record) <= HeaderSize + MaxTlsPayload
  <2>1. PICK hn \in 0..HeaderSize, bn \in 0..MaxTlsPayload :
          peer.got \in Nat /\ record = Wire(hn, bn, peer.got)
    BY <1>2 DEF FitsAt
  <2>2. hn \in Nat /\ bn \in Nat /\ hn + bn <= HeaderSize + MaxTlsPayload
    BY <1>1
  <2>3. Len(record) = hn + bn
    BY <2>1, <2>2, WireSeq, Zenon
  <2> QED BY <2>2, <2>3
<1>3. Len(record) <= HeaderSize + MaxTlsPayload
  <2>1. record = <<>> \/ FitsAt(accepted - Len(pending))
    BY DEF WriterInv, PeerFollows
  <2> QED BY <1>1, <1>2, <2>1
<1>4. WriterTypeOK
  BY <1>3, StreamWriterAssumption DEF WriterInv, WTypes, HeldInOrder, WriterTypeOK
<1>5. WireInOrder
  BY DEF WriterInv, PeerFollows, WireInOrder
<1>6. NothingDropped
  <2> SUFFICES ASSUME ~wclosed, cwstate # "Poisoned", twstate # "Poisoned"
               PROVE  peer.got + Cardinality({i \in DOMAIN record : record[i].s = "byte"}) + Len(pending)
                        = accepted
    BY DEF NothingDropped
  <2> DEFINE b == Cardinality({i \in DOMAIN record : record[i].s = "byte"})
  <2>1. PICK bn \in Nat : b = bn /\ peer.got + bn = accepted - Len(pending)
    <3>1. PICK hn \in 0..HeaderSize, bn \in 0..MaxTlsPayload :
          peer.got \in Nat /\ record = Wire(hn, bn, peer.got) /\ peer.got + bn = accepted - Len(pending)
      BY DEF WriterInv, PeerFollows, FitsAt
    <3>2. hn \in Nat /\ bn \in Nat
      BY <1>1
    <3> QED BY <3>1, <3>2, BytesOfRecord
  <2>2. peer.got \in Nat /\ accepted \in Nat /\ Len(pending) \in Nat
    BY StreamWriterAssumption DEF WriterInv, WTypes, HeldInOrder, PeerFollows
  <2> HIDE DEF b
  <2>3. peer.got + b + Len(pending) = accepted
    BY <2>1, <2>2
  <2> QED BY <2>3 DEF b
<1> QED BY <1>4, <1>5, <1>6

\* However the socket splits, delays or refuses what CryptoWriter and FakeTlsWriter
\* hand it, the client sees whole records with every byte at its own keystream
\* position, no accepted byte is lost while the connection lives, and the two
\* writers together implement the byte sink: an Ok from poll_flush means that
\* everything accepted was delivered.
THEOREM WritesAreRight == WriterSpec => []WriterTypeOK /\ WritesRight
<1>1. WriterInit => WriterInv /\ Sink!SinkInit
  BY WriterStarts
<1>2. WriterInv /\ [WriterNext]_outVars => WriterInv' /\ SinkStep
  BY EnterStep, FlushPendingStep, WriteThroughStep, FlushUpstreamStep, ShutdownUpstreamStep, IdleStep, Zenon
     DEF WriterNext
<1>3. WriterInv => WriterTypeOK /\ WireInOrder /\ NothingDropped
  BY WriterInvMeans
<1> QED BY <1>1, <1>2, <1>3, PTL DEF WriterSpec, WritesRight, SinkRefined, Sink!SinkSpec, SinkStep
=============================================================================
