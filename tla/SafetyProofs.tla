---------------------------- MODULE SafetyProofs ----------------------------
(***************************************************************************)
(* Proofs about what is kept of clients: the replay checker (ReplayCache)  *)
(* and the records of suspicious clients (Forensics), for any number of    *)
(* handshakes and peers and any capacity, window and lifetimes.            *)
(***************************************************************************)
EXTENDS ReplayCache, Forensics, FiniteSetTheorems, WellFoundedInduction, TLAPS

-----------------------------------------------------------------------------
(* Forensics.                                                              *)

(* What is kept of a client.                                               *)
Entry == [tries : Nat, age : 0..MaxAgeSeen]

\* What the steps keep: the types, SnapshotFresh, TriesKept and the two facts
\* they need.  An entry past its lifetime has no recent try, so that sweeping it
\* loses none; and the age of the window is the time since its full report, so
\* that they reach DedupWindow together.
ForensicsInv ==
    /\ ttl \in Ttls /\ sweepAge \in 0..CleanupInterval
    /\ entry \in [Peers -> Entry] /\ shown \in [Peers -> Entry] /\ recent \in [Peers -> Nat]
    /\ dedup \in [Peers -> 0..DedupWindow] /\ since = dedup
    /\ desync \in [total : Nat, full : Nat, suppressed : Nat]
    /\ desync.total = desync.full + desync.suppressed
    /\ SnapshotFresh /\ TriesKept
    /\ \A k \in Peers : entry[k].age > ttl => recent[k] = 0

\* An age is capped above every lifetime.
LEMMA Lifetimes == MaxAgeSeen \in Nat /\ \A t \in Ttls : t \in Nat /\ t < MaxAgeSeen
<1>1. PICK t \in Ttls : \A u \in Ttls : u <= t
  BY ForensicsAssumption
<1>2. \E m \in Ttls : \A u \in Ttls : m >= u
  BY <1>1, ForensicsAssumption
<1>3. Max(Ttls) \in Ttls /\ \A u \in Ttls : Max(Ttls) >= u
  BY <1>2 DEF Max
<1> DEFINE m == Max(Ttls)
<1>4. m \in Nat /\ MaxAgeSeen = m + 1 /\ \A u \in Ttls : u \in Nat /\ m >= u
  BY <1>3, ForensicsAssumption, Zenon DEF MaxAgeSeen
<1> HIDE DEF m
<1> QED BY <1>4

\* The lesser of two numbers.
LEMMA LesserOf ==
  ASSUME NEW a \in Nat, NEW b \in Nat
  PROVE  Min({a, b}) = IF a <= b THEN a ELSE b
<1>1. \E m \in {a, b} : \A u \in {a, b} : m <= u
  OBVIOUS
<1>2. Min({a, b}) \in {a, b} /\ \A u \in {a, b} : Min({a, b}) <= u
  BY <1>1 DEF Min
<1> QED BY <1>2

\* An address nothing is known of has no tries.
LEMMA NoEntryType == NoEntry \in Entry /\ NoEntry.tries = 0 /\ NoEntry.age = 0
  BY Lifetimes DEF NoEntry, Entry

\* Nothing is kept at the start.
LEMMA ForensicsInitial == ForensicsInit => ForensicsInv
  BY NoEntryType, ForensicsAssumption
     DEF ForensicsInit, ForensicsInv, Nothing, SnapshotFresh, TriesKept

\* A sweep leaves an entry alone or drops it, and drops it only past its lifetime.
LEMMA Swept ==
  ASSUME ForensicsInv
  PROVE  /\ Cleaned \in [Peers -> Entry]
         /\ \A k \in Peers : \/ Cleaned[k] = entry[k] /\ entry[k].age <= ttl
                             \/ Cleaned[k] = NoEntry /\ entry[k].age > ttl /\ recent[k] = 0
<1>1. \A k \in Peers : entry[k] \in Entry /\ entry[k].age \in Nat /\ ttl \in Nat
  BY Lifetimes, ForensicsAssumption DEF ForensicsInv, Entry
<1>2. \A k \in Peers : Cleaned[k] = IF entry[k].age > ttl THEN NoEntry ELSE entry[k]
  BY DEF Cleaned, PastTtl
<1> QED BY <1>1, <1>2, NoEntryType DEF Cleaned, ForensicsInv

\* A failure is counted after the sweep it may trigger.
LEMMA RecordInv ==
  ASSUME ForensicsInv, NEW k \in Peers, record(k)
  PROVE  ForensicsInv'
<1>1. PICK e \in [Peers -> Entry] :
         /\ e = entry \/ e = Cleaned
         /\ entry' = [e EXCEPT ![k] = [tries |-> @.tries + 1, age |-> 0]]
         /\ sweepAge' \in 0..CleanupInterval
  <2> DEFINE e == cleanup_if_needed.entry
  <2>1. e \in [Peers -> Entry] /\ (e = entry \/ e = Cleaned)
    BY Swept DEF cleanup_if_needed, ForensicsInv
  <2>2. cleanup_if_needed.sweepAge \in 0..CleanupInterval
    BY ForensicsAssumption DEF cleanup_if_needed, ForensicsInv
  <2> HIDE DEF e
  <2>3. entry' = [e EXCEPT ![k] = [tries |-> @.tries + 1, age |-> 0]]
    BY Zenon DEF record, e
  <2> QED BY <2>1, <2>2, <2>3, Zenon DEF record
<1>2. /\ ttl \in Nat /\ ttl > 0 /\ ttl' = ttl /\ UNCHANGED <<shown, dedup, desync, since>>
      /\ recent' = [recent EXCEPT ![k] = IF entry[k].age <= ttl THEN @ + 1 ELSE 1]
  BY ForensicsAssumption DEF record, ForensicsInv
<1>3. \A j \in Peers : /\ e[j] = entry[j] \/ (e[j] = NoEntry /\ entry[j].age > ttl /\ recent[j] = 0)
                       /\ entry[j].tries \in Nat /\ entry[j].age \in Nat /\ recent[j] \in Nat
                       /\ recent[j] <= entry[j].tries /\ (entry[j].age > ttl => recent[j] = 0)
  BY <1>1, Swept, Lifetimes DEF ForensicsInv, Entry, TriesKept
<1>4. entry' \in [Peers -> Entry] /\ entry'[k].age = 0 /\ entry'[k].tries = e[k].tries + 1
      /\ \A j \in Peers \ {k} : entry'[j] = e[j]
  BY <1>1, Lifetimes DEF Entry
<1>5. recent' \in [Peers -> Nat] /\ (\A j \in Peers \ {k} : recent'[j] = recent[j])
      /\ recent'[k] = IF entry[k].age <= ttl THEN recent[k] + 1 ELSE 1
  BY <1>2, <1>3 DEF ForensicsInv
<1>6. \A j \in Peers : recent'[j] <= entry'[j].tries /\ (entry'[j].age > ttl => recent'[j] = 0)
  <2> SUFFICES ASSUME NEW j \in Peers
               PROVE  recent'[j] <= entry'[j].tries /\ (entry'[j].age > ttl => recent'[j] = 0)
    OBVIOUS
  <2>1. CASE j = k
    BY <1>2, <1>3, <1>4, <1>5, <2>1, NoEntryType
  <2>2. CASE j # k
    BY <1>3, <1>4, <1>5, <2>2, NoEntryType
  <2> QED BY <2>1, <2>2
<1> QED BY <1>1, <1>2, <1>4, <1>5, <1>6, Zenon DEF ForensicsInv, SnapshotFresh, TriesKept

\* A snapshot sweeps first.
LEMMA SnapshotInv ==
  ASSUME ForensicsInv, snapshot_text
  PROVE  ForensicsInv'
<1>1. /\ entry' = Cleaned /\ shown' = Cleaned /\ sweepAge' = 0
      /\ UNCHANGED <<ttl, recent, dedup, desync, since>> /\ ttl \in Nat
  BY ForensicsAssumption DEF snapshot_text, ForensicsInv
<1>2. \A k \in Peers : /\ recent[k] <= Cleaned[k].tries
                       /\ Cleaned[k].age <= ttl
                       /\ Cleaned[k].age > ttl => recent[k] = 0
  BY <1>1, Swept, NoEntryType, SMTT(30) DEF ForensicsInv, TriesKept
<1>3. SnapshotFresh' /\ TriesKept'
  BY <1>1, <1>2 DEF SnapshotFresh, TriesKept
<1> QED BY <1>1, <1>2, <1>3, Swept, ForensicsAssumption DEF ForensicsInv

\* A report is full only once the window of the last full one is over.
LEMMA ReportInv ==
  ASSUME ForensicsInv, NEW k \in Peers, NEW all_full \in BOOLEAN,
         report_desync_frame_too_large(k, all_full)
  PROVE  ForensicsInv' /\ \A j \in Peers : since[j] < DedupWindow => since'[j] >= since[j]
<1> DEFINE full == should_emit_full_desync(k, all_full)
<1>1. /\ UNCHANGED <<ttl, entry, sweepAge, shown, recent>>
      /\ desync' = ReportCounted(full)
      /\ dedup' = IF all_full THEN dedup ELSE dedup_after(k, full)
      /\ since' = IF full /\ ~all_full THEN [since EXCEPT ![k] = 0] ELSE since
  BY Zenon DEF report_desync_frame_too_large
<1>2. desync' \in [total : Nat, full : Nat, suppressed : Nat]
      /\ desync'.total = desync'.full + desync'.suppressed
  BY <1>1 DEF ReportCounted, ForensicsInv
<1>3. CASE full /\ ~all_full
  <2>1. dedup' = [dedup EXCEPT ![k] = 0] /\ since' = dedup'
    BY <1>1, <1>3 DEF dedup_after, ForensicsInv
  <2>2. since[k] >= DedupWindow
    BY <1>3 DEF should_emit_full_desync, ForensicsInv
  <2>3. dedup' \in [Peers -> 0..DedupWindow]
    BY <2>1, ForensicsAssumption DEF ForensicsInv
  <2>4. \A j \in Peers : since[j] < DedupWindow => since'[j] >= since[j]
    BY <2>1, <2>2, ForensicsAssumption DEF ForensicsInv
  <2> QED BY <1>1, <1>2, <2>1, <2>3, <2>4, Zenon DEF ForensicsInv, SnapshotFresh, TriesKept
<1>4. CASE ~(full /\ ~all_full)
  <2>1. dedup' = dedup /\ since' = since
    BY <1>1, <1>4 DEF dedup_after
  <2>2. \A j \in Peers : since'[j] >= since[j]
    BY <2>1, ForensicsAssumption DEF ForensicsInv
  <2> QED BY <1>1, <1>2, <2>1, <2>2, Zenon DEF ForensicsInv, SnapshotFresh, TriesKept
<1> QED BY <1>3, <1>4

\* Ages and windows grow together.
LEMMA TickInv ==
  ASSUME ForensicsInv, forensic_tick
  PROVE  ForensicsInv' /\ \A j \in Peers : since'[j] >= since[j]
<1>1. sweepAge' \in 0..CleanupInterval
  <2>1. sweepAge \in Nat /\ CleanupInterval \in Nat /\ sweepAge' = Min({sweepAge + 1, CleanupInterval})
    BY ForensicsAssumption DEF ForensicsInv, forensic_tick
  <2> QED BY <2>1, LesserOf
<1>2. dedup' \in [Peers -> 0..DedupWindow] /\ since' = dedup' /\ \A j \in Peers : since'[j] >= since[j]
  <2>1. DedupWindow \in Nat /\ \A j \in Peers : dedup[j] \in 0..DedupWindow /\ since[j] = dedup[j]
    BY ForensicsAssumption DEF ForensicsInv
  <2>2. \A j \in Peers : Min({dedup[j] + 1, DedupWindow}) \in dedup[j]..DedupWindow
    BY <2>1, LesserOf
  <2>3. dedup' = [j \in Peers |-> Min({dedup[j] + 1, DedupWindow})]
        /\ since' = [j \in Peers |-> Min({since[j] + 1, DedupWindow})]
    BY DEF forensic_tick
  <2>4. since' = dedup'
    BY <2>1, <2>3
  <2>5. \A j \in Peers : dedup'[j] \in dedup[j]..DedupWindow
    BY <2>2, <2>3
  <2> QED BY <2>1, <2>3, <2>4, <2>5
<1>3. /\ UNCHANGED <<ttl, desync>> /\ ttl \in Nat /\ ttl < MaxAgeSeen /\ MaxAgeSeen \in Nat
      /\ shown' = Nothing
      /\ recent' = [j \in Peers |-> IF entry[j].age + 1 > ttl THEN 0 ELSE recent[j]]
      /\ entry' = [j \in Peers |-> IF entry[j].tries = 0 THEN NoEntry
                                   ELSE [entry[j] EXCEPT !.age = Min({@ + 1, MaxAgeSeen})]]
  BY Lifetimes DEF ForensicsInv, forensic_tick
<1>4. ASSUME NEW j \in Peers
      PROVE  /\ entry'[j] \in Entry /\ recent'[j] \in Nat
             /\ recent'[j] <= entry'[j].tries /\ (entry'[j].age > ttl => recent'[j] = 0)
  <2>1. /\ entry[j] \in Entry /\ entry[j].tries \in Nat /\ entry[j].age \in 0..MaxAgeSeen
        /\ recent[j] \in Nat /\ recent[j] <= entry[j].tries
    BY DEF ForensicsInv, Entry, TriesKept
  <2>2. Min({entry[j].age + 1, MaxAgeSeen})
          = IF entry[j].age + 1 <= MaxAgeSeen THEN entry[j].age + 1 ELSE MaxAgeSeen
    <3>1. entry[j].age + 1 \in Nat /\ MaxAgeSeen \in Nat
      BY <1>3, <2>1
    <3> QED BY <3>1, LesserOf, Zenon
  <2>3. recent'[j] = IF entry[j].age + 1 > ttl THEN 0 ELSE recent[j]
    BY <1>3
  <2>4. CASE entry[j].tries = 0
    <3>1. entry'[j] = NoEntry
      BY <1>3, <2>4
    <3> QED BY <2>1, <2>3, <2>4, <3>1, NoEntryType
  <2>5. CASE entry[j].tries # 0
    <3>1. entry'[j] = [entry[j] EXCEPT !.age = Min({entry[j].age + 1, MaxAgeSeen})]
      BY <1>3, <2>5
    <3>2. entry'[j] \in Entry /\ entry'[j].tries = entry[j].tries
          /\ entry'[j].age = Min({entry[j].age + 1, MaxAgeSeen})
      BY <1>3, <2>1, <2>2, <3>1 DEF Entry
    <3> QED BY <1>3, <2>1, <2>2, <2>3, <3>2
  <2> QED BY <2>4, <2>5
<1>5. entry' \in [Peers -> Entry] /\ recent' \in [Peers -> Nat] /\ TriesKept'
      /\ \A j \in Peers : entry'[j].age > ttl' => recent'[j] = 0
  BY <1>3, <1>4, Zenon DEF TriesKept
<1>6. shown' \in [Peers -> Entry] /\ SnapshotFresh'
  BY <1>3, NoEntryType DEF Nothing, SnapshotFresh
<1> QED BY <1>1, <1>2, <1>3, <1>5, <1>6, Zenon DEF ForensicsInv

\* What is checked of every step, for the states the invariant holds in.
LEMMA ForensicsStep ==
  ASSUME ForensicsInv, [ForensicsNext]_forensicVars
  PROVE  ForensicsInv' /\ \A j \in Peers : since[j] < DedupWindow => since'[j] >= since[j]
<1>1. \A j \in Peers : since[j] \in Nat
  BY ForensicsAssumption DEF ForensicsInv
<1>2. ASSUME NEW k \in Peers, record(k) PROVE ForensicsInv' /\ since' = since
  BY <1>2, RecordInv, Zenon DEF record
<1>3. CASE snapshot_text
  BY <1>1, <1>3, SnapshotInv DEF snapshot_text
<1>4. CASE toggle_observing \/ UNCHANGED forensicVars
  BY <1>1, <1>4 DEF toggle_observing, forensicVars, ForensicsInv, SnapshotFresh, TriesKept
<1>5. CASE forensic_tick
  BY <1>5, TickInv
<1> QED BY <1>1, <1>2, <1>3, <1>4, <1>5, ReportInv DEF ForensicsNext

\* The invariant implies what is promised of every state.
LEMMA ForensicsInvTypes == ForensicsInv => ForensicsTypeOK /\ SnapshotFresh /\ TriesKept /\ WindowEnds
  BY DEF ForensicsInv, ForensicsTypeOK, Entry, WindowEnds

(* What is kept of failing clients is right: a snapshot shows no entry     *)
(* past its lifetime, no sweep, whoever triggers it, loses a try of an     *)
(* address that keeps coming, a key has one full report per window and     *)
(* the next one once the window is over.  For any peers, lifetimes that a  *)
(* reload may set, interval of sweeps and window.                          *)
THEOREM ReportsAreRight == ForensicsSpec => []ForensicsTypeOK /\ ReportsRight
<1>1. ASSUME ForensicsInv, [ForensicsNext]_forensicVars
      PROVE  [\A k \in Peers : since[k] < DedupWindow => since'[k] >= since[k]]_forensicVars
  BY <1>1, ForensicsStep
<1> QED BY <1>1, ForensicsInitial, ForensicsStep, ForensicsInvTypes, PTL
        DEF ForensicsSpec, ReportsRight, FullOncePerWindow

-----------------------------------------------------------------------------
(* ReplayCache.                                                            *)

\* A set of naturals that is not empty has a least element.
LEMMA LeastNatural ==
  ASSUME NEW S, S \subseteq Nat, S # {}
  PROVE  \E x \in S : \A y \in S : ~(y < x)
<1> DEFINE R == OpToRel(<, Nat)
<1>1. IsWellFoundedOn(R, Nat)
  BY NatLessThanWellFounded, Zenon
<1>2. \A x, y \in Nat : <<y, x>> \in R <=> y < x
  BY DEF OpToRel
<1> HIDE DEF R
<1>3. \E x \in S : \A y \in S : ~(<<y, x>> \in R)
  BY <1>1, WFMin, Zenon
<1> QED BY <1>2, <1>3, Zenon

\* What the queue holds.
QueueEntry == [at : Nat, key : Keys, seq : Nat]

\* The types, those of the histories included.
ReplayTypes ==
    /\ DOMAIN cache \subseteq Keys /\ \A k \in DOMAIN cache : cache[k] \in [seq : Nat, used : Nat]
    /\ cache = [k \in DOMAIN cache |-> cache[k]]
    /\ Cardinality(DOMAIN cache) <= Capacity
    /\ expiry \in Seq(QueueEntry) /\ seq_counter \in Nat
    /\ clock \in 0..MaxTime /\ checks \in 0..MaxChecks
    /\ lastAdd \in [Keys -> Int] /\ lastUse \in [Keys -> Nat]

\* The queue is in the order of its times, none of them later than now, and the
\* sequence numbers in it have been given out.
QueueOrdered(q) ==
    \A i \in 1..Len(q) :
        /\ q[i].at <= clock /\ q[i].seq <= seq_counter
        /\ \A j \in i..Len(q) : q[i].at <= q[j].at

\* The queue has an entry for every cached key, and those with the number of the
\* cached entry have the time of the key's last add.
EntriesQueued(c, q) ==
    \A k \in DOMAIN c :
        /\ \E i \in 1..Len(q) : q[i].key = k /\ q[i].seq = c[k].seq
        /\ \A i \in 1..Len(q) : q[i].key = k /\ q[i].seq = c[k].seq => q[i].at = lastAdd[k]

\* Every operation has a stamp of its own, and the cache has the last of its key.
StampsRight ==
    /\ \A k \in Keys : lastUse[k] <= checks
    /\ \A j, k \in Keys : lastUse[j] = lastUse[k] /\ j # k => lastUse[k] = 0
    /\ \A k \in DOMAIN cache : cache[k].used = lastUse[k] /\ lastUse[k] > 0

\* No key is forgotten early.
Remembered == \A k \in Keys : InWindow(k) /\ Recent(k) => k \in DOMAIN cache

\* The inductive invariant.
ReplayInv ==
    /\ ReplayTypes /\ QueueOrdered(expiry) /\ EntriesQueued(cache, expiry)
    /\ StampsRight /\ Remembered

\* A new shard is empty.
LEMMA ReplayInitial == ReplayInit => ReplayInv
<1> SUFFICES ASSUME ReplayInit PROVE ReplayInv
  OBVIOUS
<1>1. DOMAIN cache = {} /\ Len(expiry) = 0 /\ expiry \in Seq(QueueEntry)
      /\ cache = [k \in DOMAIN cache |-> cache[k]]
  BY DEF ReplayInit
<1>2. Cardinality(DOMAIN cache) = 0
  BY <1>1, FS_EmptySet
<1>3. ReplayTypes
  BY <1>1, <1>2, ReplayAssumption DEF ReplayInit, ReplayTypes
<1>4. QueueOrdered(expiry) /\ EntriesQueued(cache, expiry) /\ StampsRight
  BY <1>1, ReplayAssumption DEF ReplayInit, QueueOrdered, EntriesQueued, StampsRight
<1>5. Remembered
  BY DEF ReplayInit, Remembered, InWindow
<1> QED BY <1>3, <1>4, <1>5 DEF ReplayInv

\* What the loop pops is expired; what it leaves is not, since the queue is in
\* the order of its times.
LEMMA PoppedExpired ==
  ASSUME ReplayTypes, QueueOrdered(expiry), NEW now \in 0..clock
  PROVE  /\ Popped(now) \in 0..Len(expiry)
         /\ \A i \in 1..Popped(now) : Expired(expiry[i], now)
         /\ \A i \in Popped(now) + 1..Len(expiry) : ~Expired(expiry[i], now)
<1> DEFINE S == {n \in 0..Len(expiry) : n = Len(expiry) \/ ~Expired(expiry[n + 1], now)}
<1>1. Len(expiry) \in Nat /\ S \subseteq Nat /\ Len(expiry) \in S
  BY DEF ReplayTypes
<1>2. PICK m \in S : \A y \in S : ~(y < m)
  BY <1>1, LeastNatural, Zenon
<1>3. ASSUME NEW i \in 1..m PROVE Expired(expiry[i], now)
  <2>1. i - 1 \in 0..Len(expiry) /\ i - 1 < m /\ (i - 1) + 1 = i /\ i - 1 # Len(expiry)
    BY <1>1, <1>2
  <2> QED BY <1>2, <2>1
<1>4. \E n \in 0..Len(expiry) : /\ \A i \in 1..n : Expired(expiry[i], now)
                                /\ n = Len(expiry) \/ ~Expired(expiry[n + 1], now)
  BY <1>2, <1>3
<1> DEFINE p == Popped(now)
<1>5. /\ p \in 0..Len(expiry) /\ \A i \in 1..p : Expired(expiry[i], now)
      /\ p = Len(expiry) \/ ~Expired(expiry[p + 1], now)
  BY <1>4, Zenon DEF Popped
<1> HIDE DEF p
<1>6. ASSUME NEW i \in p + 1..Len(expiry) PROVE ~Expired(expiry[i], now)
  <2>1. PICK q \in 1..Len(expiry) : q = p + 1 /\ i \in q..Len(expiry) /\ i \in 1..Len(expiry)
    BY <1>1, <1>5
  <2>2. expiry[q].at <= expiry[i].at
    BY <2>1, Zenon DEF QueueOrdered
  <2>3. expiry[q].at \in Nat /\ expiry[i].at \in Nat /\ now \in Nat
    <3>1. expiry[q] \in QueueEntry /\ expiry[i] \in QueueEntry
      BY <2>1 DEF ReplayTypes
    <3>2. expiry[q].at \in Nat /\ expiry[i].at \in Nat
      BY <3>1 DEF QueueEntry
    <3>3. now \in Nat
      BY ReplayAssumption DEF ReplayTypes
    <3> QED BY <3>2, <3>3
  <2>4. ~Expired(expiry[q], now)
    BY <1>5, <2>1
  <2> QED BY <2>2, <2>3, <2>4, ReplayAssumption DEF Expired
<1> QED BY <1>5, <1>6 DEF p

\* What a cleanup leaves: the keys of the window, each with its entry of the queue.
LEMMA CleanupKeeps ==
  ASSUME ReplayInv, NEW now \in 0..clock
  PROVE  /\ DOMAIN cleanup(now) \subseteq DOMAIN cache
         /\ cleanup(now) = [k \in DOMAIN cleanup(now) |-> cache[k]]
         /\ \A k \in Keys : InWindow(k) /\ Recent(k) => k \in DOMAIN cleanup(now)
         /\ now = clock => \A k \in DOMAIN cleanup(now) : InWindow(k)
         /\ cleanup_queue(now) \in Seq(QueueEntry)
         /\ QueueOrdered(cleanup_queue(now))
         /\ EntriesQueued(cleanup(now), cleanup_queue(now))
<1> DEFINE p == Popped(now)
           c == cleanup(now)
           q == cleanup_queue(now)
           G == {k \in DOMAIN cache : \E i \in 1..p : expiry[i].key = k /\ expiry[i].seq = cache[k].seq}
<1>1. /\ p \in 0..Len(expiry) /\ \A i \in 1..p : Expired(expiry[i], now)
      /\ \A i \in p + 1..Len(expiry) : ~Expired(expiry[i], now)
  BY PoppedExpired, Zenon DEF ReplayInv
<1>2. c = [k \in DOMAIN cache \ G |-> cache[k]] /\ q = SubSeq(expiry, p + 1, Len(expiry))
  BY Zenon DEF cleanup, Without, cleanup_queue
<1> HIDE DEF p, c, q
<1>3. /\ expiry \in Seq(QueueEntry) /\ Len(expiry) \in Nat /\ p \in Nat /\ clock \in Nat /\ now \in Nat
      /\ DOMAIN cache \subseteq Keys /\ lastAdd \in [Keys -> Int] /\ now <= clock
  BY <1>1, ReplayAssumption DEF ReplayInv, ReplayTypes
<1>4. /\ DOMAIN c = DOMAIN cache \ G /\ DOMAIN c \subseteq DOMAIN cache
      /\ c = [k \in DOMAIN c |-> cache[k]] /\ \A k \in DOMAIN c : c[k] = cache[k]
  BY <1>2
<1>5. q \in Seq(QueueEntry) /\ Len(q) = Len(expiry) - p /\ \A i \in 1..Len(q) : q[i] = expiry[p + i]
  BY <1>1, <1>2, <1>3
<1>6. ASSUME NEW k \in Keys, InWindow(k), Recent(k) PROVE k \in DOMAIN c
  <2>1. k \in DOMAIN cache
    BY <1>6 DEF ReplayInv, Remembered
  <2> SUFFICES ASSUME NEW i \in 1..p, expiry[i].key = k, expiry[i].seq = cache[k].seq PROVE FALSE
    BY <1>4, <2>1
  <2>2. i \in 1..Len(expiry)
    BY <1>1, <1>3
  <2>3. expiry[i].at = lastAdd[k] /\ Expired(expiry[i], now)
    BY <1>1, <2>1, <2>2 DEF ReplayInv, EntriesQueued
  <2>4. lastAdd[k] \in Int /\ Window \in Nat
    BY <1>3, ReplayAssumption
  <2> QED BY <1>3, <1>6, <2>3, <2>4 DEF Expired, InWindow
<1>7. QueueOrdered(q)
  <2> SUFFICES ASSUME NEW i \in 1..Len(q)
               PROVE  /\ q[i].at <= clock /\ q[i].seq <= seq_counter
                      /\ \A j \in i..Len(q) : q[i].at <= q[j].at
    BY DEF QueueOrdered
  <2>1. p + i \in 1..Len(expiry) /\ q[i] = expiry[p + i]
    BY <1>1, <1>3, <1>5
  <2>2. ASSUME NEW j \in i..Len(q) PROVE q[i].at <= q[j].at
    <3>1. j \in 1..Len(q) /\ p + j \in (p + i)..Len(expiry) /\ q[j] = expiry[p + j]
      BY <1>1, <1>3, <1>5
    <3> QED BY <2>1, <3>1, Zenon DEF ReplayInv, QueueOrdered
  <2>3. q[i].at <= clock /\ q[i].seq <= seq_counter
    BY <2>1, Zenon DEF ReplayInv, QueueOrdered
  <2> QED BY <2>2, <2>3
<1>8. ASSUME NEW k \in DOMAIN c
      PROVE  /\ \E i \in 1..Len(q) : q[i].key = k /\ q[i].seq = c[k].seq
             /\ \A i \in 1..Len(q) : q[i].key = k /\ q[i].seq = c[k].seq => q[i].at = lastAdd[k]
             /\ now = clock => InWindow(k)
  <2>1. k \in DOMAIN cache /\ k \notin G /\ c[k] = cache[k] /\ k \in Keys
    BY <1>3, <1>4
  <2>2. PICK i \in 1..Len(expiry) : expiry[i].key = k /\ expiry[i].seq = cache[k].seq
    BY <2>1, Zenon DEF ReplayInv, EntriesQueued
  <2>3. i \notin 1..p
    BY <2>1, <2>2
  <2>4. PICK j \in 1..Len(q) : p + j = i
    <3>1. i - p \in 1..Len(q) /\ p + (i - p) = i
      BY <1>1, <1>3, <1>5, <2>3
    <3> QED BY <3>1
  <2>5. q[j].key = k /\ q[j].seq = c[k].seq
    BY <1>5, <2>1, <2>2, <2>4
  <2>6. ASSUME NEW h \in 1..Len(q), q[h].key = k, q[h].seq = c[k].seq PROVE q[h].at = lastAdd[k]
    <3>1. p + h \in 1..Len(expiry) /\ q[h] = expiry[p + h]
      BY <1>1, <1>3, <1>5
    <3>2. PICK g \in 1..Len(expiry) : q[h] = expiry[g]
      BY <3>1, Zenon
    <3>3. expiry[g].key = k /\ expiry[g].seq = cache[k].seq
      BY <2>1, <2>6, <3>2
    <3>4. expiry[g].at = lastAdd[k]
      BY <2>1, <3>3, Zenon DEF ReplayInv, EntriesQueued
    <3> QED BY <3>2, <3>4
  <2>7. ASSUME now = clock PROVE InWindow(k)
    <3>1. i \in p + 1..Len(expiry)
      BY <1>1, <1>3, <2>3
    <3>2. ~Expired(expiry[i], now) /\ expiry[i].at = lastAdd[k]
      BY <1>1, <2>1, <2>2, <3>1, Zenon DEF ReplayInv, EntriesQueued
    <3>3. expiry[i].at \in Nat
      <4>1. expiry[i] \in QueueEntry
        BY <1>3
      <4> QED BY <4>1 DEF QueueEntry
    <3> QED BY <1>3, <2>7, <3>2, <3>3, ReplayAssumption DEF InWindow, Expired
  <2> QED BY <2>5, <2>6, <2>7
<1>9. EntriesQueued(c, q)
  BY <1>8, Zenon DEF EntriesQueued
<1> QED BY <1>4, <1>5, <1>6, <1>7, <1>8, <1>9 DEF c, q

\* An operation gives its key the latest stamp; every other key ages.
LEMMA OperationStamps ==
  ASSUME ReplayInv, NEW k \in Keys, Operation(k)
  PROVE  /\ checks' = checks + 1 /\ checks' \in 0..MaxChecks /\ checks \in Nat /\ clock' = clock
         /\ lastUse' \in [Keys -> Nat] /\ lastUse'[k] = checks + 1
         /\ \A j \in Keys : lastUse'[j] <= checks' /\ lastUse[j] <= checks /\ lastUse[j] \in Nat
         /\ \A j \in Keys \ {k} : lastUse'[j] = lastUse[j]
         /\ \A i, j \in Keys : lastUse'[i] = lastUse'[j] /\ i # j => lastUse'[j] = 0
         /\ \A j \in Keys \ {k} : Recent(j)' => Recent(j)
<1>1. /\ checks \in Nat /\ lastUse \in [Keys -> Nat] /\ \A j \in Keys : lastUse[j] <= checks
      /\ \A i, j \in Keys : lastUse[i] = lastUse[j] /\ i # j => lastUse[j] = 0
  BY ReplayAssumption DEF ReplayInv, ReplayTypes, StampsRight
<1>2. /\ checks' = checks + 1 /\ checks' \in 0..MaxChecks /\ clock' = clock
      /\ lastUse' = [lastUse EXCEPT ![k] = checks + 1]
  BY <1>1, ReplayAssumption DEF Operation
<1>3. lastUse' \in [Keys -> Nat] /\ lastUse'[k] = checks + 1 /\ \A j \in Keys \ {k} : lastUse'[j] = lastUse[j]
  BY <1>1, <1>2
<1>4. \A j \in Keys : lastUse'[j] <= checks' /\ lastUse[j] \in Nat /\ lastUse[j] < checks + 1
  BY <1>1, <1>2, <1>3
<1>5. \A i, j \in Keys : lastUse'[i] = lastUse'[j] /\ i # j => lastUse'[j] = 0
  BY <1>1, <1>3, <1>4
<1>6. ASSUME NEW j \in Keys \ {k}, Recent(j)' PROVE Recent(j)
  <2> DEFINE A == {i \in Keys : lastUse[i] > lastUse[j]}
             B == {i \in Keys : lastUse'[i] > lastUse'[j]}
  <2>1. A \subseteq B
    BY <1>3, <1>4
  <2>2. IsFiniteSet(B)
    BY FS_Subset, ReplayAssumption
  <2>3. Cardinality(A) <= Cardinality(B) /\ IsFiniteSet(A)
    BY <2>1, <2>2, FS_Subset
  <2>4. Cardinality(A) \in Nat /\ Cardinality(B) \in Nat
    BY <2>2, <2>3, FS_CardinalityType
  <2>5. lastUse'[j] > 0 /\ Cardinality(B) < Capacity
    BY <1>6 DEF Recent
  <2> HIDE DEF A, B
  <2>6. lastUse[j] > 0 /\ Cardinality(A) < Capacity
    BY <1>3, <2>3, <2>4, <2>5, ReplayAssumption
  <2> QED BY <2>6 DEF Recent, A
<1> QED BY <1>1, <1>2, <1>3, <1>4, <1>5, <1>6

\* Who leaves a full cache.
LEMMA VictimIsOldest ==
  ASSUME NEW c, IsFiniteSet(DOMAIN c), \A j \in DOMAIN c : c[j].used \in Nat, NEW k,
         Victims(c, k) # {}
  PROVE  /\ k \notin DOMAIN c /\ Cardinality(DOMAIN c) >= Capacity
         /\ \E v \in DOMAIN c : Victims(c, k) = {v} /\ \A j \in DOMAIN c : c[v].used <= c[j].used
<1>1. Cardinality(DOMAIN c) \in Nat /\ Capacity \in Nat \ {0}
  BY FS_CardinalityType, ReplayAssumption
<1>2. /\ k \notin DOMAIN c /\ Cardinality(DOMAIN c) >= Capacity
      /\ Victims(c, k) = {CHOOSE v \in DOMAIN c : \A j \in DOMAIN c : c[v].used <= c[j].used}
  BY <1>1 DEF Victims
<1> DEFINE S == {c[j].used : j \in DOMAIN c}
<1>3. S \subseteq Nat /\ S # {}
  <2>1. DOMAIN c # {}
    BY <1>1, <1>2, FS_EmptySet
  <2> QED BY <2>1
<1>4. PICK x \in S : \A y \in S : ~(y < x)
  BY <1>3, LeastNatural, Zenon
<1>5. \E v \in DOMAIN c : \A j \in DOMAIN c : c[v].used <= c[j].used
  <2>1. PICK v \in DOMAIN c : x = c[v].used
    BY <1>4
  <2>2. ASSUME NEW j \in DOMAIN c PROVE c[v].used <= c[j].used
    <3>1. c[j].used \in S /\ c[j].used \in Nat /\ c[v].used \in Nat
      OBVIOUS
    <3> QED BY <1>4, <2>1, <3>1
  <2> QED BY <2>2
<1> QED BY <1>2, <1>5, Zenon

\* A part of the cache holds no more than the cache.
LEMMA PartOfCache ==
  ASSUME ReplayInv, NEW D, D \subseteq DOMAIN cache
  PROVE  D \subseteq Keys /\ IsFiniteSet(D) /\ Cardinality(D) \in Nat /\ Cardinality(D) <= Capacity
<1>1. DOMAIN cache \subseteq Keys /\ Cardinality(DOMAIN cache) <= Capacity
  BY DEF ReplayInv, ReplayTypes
<1>2. IsFiniteSet(DOMAIN cache)
  BY <1>1, FS_Subset, ReplayAssumption
<1>3. IsFiniteSet(D) /\ Cardinality(D) <= Cardinality(DOMAIN cache)
  BY <1>2, FS_Subset
<1>4. Cardinality(D) \in Nat /\ Cardinality(DOMAIN cache) \in Nat
  BY <1>2, <1>3, FS_CardinalityType
<1> QED BY <1>1, <1>3, <1>4, ReplayAssumption

\* An add evicts, at the most, the key that was used before all others.
LEMMA AddInv ==
  ASSUME ReplayInv, NEW k \in Keys, Operation(k), add(cleanup(clock), k)
  PROVE  ReplayInv'
<1> DEFINE c == cleanup(clock)
           D == DOMAIN c
           V == Victims(c, k)
           q == cleanup_queue(clock)
           e == [seq |-> seq_counter + 1, used |-> checks + 1]
           x == [at |-> clock, key |-> k, seq |-> seq_counter + 1]
<1>0. clock \in 0..clock /\ clock \in Nat /\ seq_counter \in Nat
  BY ReplayAssumption DEF ReplayInv, ReplayTypes
<1>1. /\ D \subseteq DOMAIN cache /\ c = [j \in D |-> cache[j]]
      /\ \A j \in Keys : InWindow(j) /\ Recent(j) => j \in D
      /\ q \in Seq(QueueEntry) /\ QueueOrdered(q) /\ EntriesQueued(c, q)
  BY <1>0, CleanupKeeps, Zenon
<1>2. /\ seq_counter' = seq_counter + 1 /\ expiry' = Append(q, x)
      /\ cache' = [j \in (D \ V) \cup {k} |-> IF j = k THEN e ELSE c[j]]
      /\ lastAdd' = [lastAdd EXCEPT ![k] = clock]
  BY Zenon DEF add, put
<1>3. /\ checks' = checks + 1 /\ checks' \in 0..MaxChecks /\ checks \in Nat /\ clock' = clock
      /\ lastUse' \in [Keys -> Nat] /\ lastUse'[k] = checks + 1
      /\ \A j \in Keys : lastUse'[j] <= checks' /\ lastUse[j] <= checks /\ lastUse[j] \in Nat
      /\ \A j \in Keys \ {k} : lastUse'[j] = lastUse[j]
      /\ \A i, j \in Keys : lastUse'[i] = lastUse'[j] /\ i # j => lastUse'[j] = 0
      /\ \A j \in Keys \ {k} : Recent(j)' => Recent(j)
  BY OperationStamps, Zenon
<1>4. IsFiniteSet(D) /\ Cardinality(D) <= Capacity /\ Cardinality(D) \in Nat /\ D \subseteq Keys
  BY <1>1, PartOfCache, Zenon
<1>5. \A j \in D : /\ c[j] = cache[j] /\ cache[j] \in [seq : Nat, used : Nat]
                   /\ c[j].used = lastUse[j] /\ c[j].used \in Nat /\ lastUse[j] > 0
  BY <1>1 DEF ReplayInv, ReplayTypes, StampsRight
<1> HIDE DEF c, q
<1>6. V # {} => /\ k \notin D /\ Cardinality(D) >= Capacity
                /\ \E v \in D : V = {v} /\ \A j \in D : c[v].used <= c[j].used
  BY <1>4, <1>5, VictimIsOldest, Zenon
<1> HIDE DEF V
<1>7. /\ DOMAIN cache' = (D \ V) \cup {k} /\ cache'[k] = e
      /\ \A j \in DOMAIN cache' \ {k} : cache'[j] = c[j] /\ j \in D \ V
      /\ cache' = [j \in DOMAIN cache' |-> cache'[j]]
  BY <1>2
<1>8. Cardinality(DOMAIN cache') <= Capacity
  <2>1. CASE V = {}
    <3>1. CASE k \in D
      BY <1>4, <1>7, <2>1, <3>1
    <3>2. CASE k \notin D
      <4>1. Cardinality(D) < Capacity
        BY <1>4, <2>1, <3>2, ReplayAssumption DEF V, Victims
      <4>2. DOMAIN cache' = D \cup {k} /\ Cardinality(D \cup {k}) = Cardinality(D) + 1
        BY <1>4, <1>7, <2>1, <3>2, FS_AddElement
      <4> QED BY <1>4, <4>1, <4>2, ReplayAssumption
    <3> QED BY <3>1, <3>2
  <2>2. CASE V # {}
    <3>1. PICK v \in D : V = {v} /\ k \notin D
      BY <1>6, <2>2
    <3>2. IsFiniteSet(D \ {v}) /\ Cardinality(D \ {v}) = Cardinality(D) - 1
      BY <1>4, <3>1, FS_RemoveElement
    <3>3. Cardinality((D \ {v}) \cup {k}) = Cardinality(D \ {v}) + 1
      BY <3>1, <3>2, FS_AddElement
    <3> QED BY <1>4, <1>7, <3>1, <3>2, <3>3
  <2> QED BY <2>1, <2>2
<1>9. ReplayTypes'
  <2>1. e \in [seq : Nat, used : Nat] /\ x \in QueueEntry
    BY <1>0, <1>3 DEF QueueEntry
  <2>2. \A j \in DOMAIN cache' : cache'[j] \in [seq : Nat, used : Nat] /\ j \in Keys
    BY <1>4, <1>5, <1>7, <2>1
  <2>3. expiry' \in Seq(QueueEntry)
    BY <1>1, <1>2, <2>1
  <2>4. lastAdd' \in [Keys -> Int] /\ seq_counter' \in Nat /\ clock' \in 0..MaxTime
    BY <1>0, <1>2, <1>3 DEF ReplayInv, ReplayTypes
  <2> QED BY <1>3, <1>7, <1>8, <2>2, <2>3, <2>4 DEF ReplayTypes
<1>10. Len(q) \in Nat /\ Len(expiry') = Len(q) + 1 /\ expiry'[Len(q) + 1] = x
       /\ \A i \in 1..Len(q) : expiry'[i] = q[i] /\ q[i] \in QueueEntry
  BY <1>1, <1>2
<1>11. QueueOrdered(expiry)'
  <2>1. \A i \in 1..Len(expiry') : i \in 1..Len(q) \/ i = Len(q) + 1
    BY <1>10
  <2>2. \A i \in 1..Len(q) : /\ q[i].at \in Nat /\ q[i].seq \in Nat /\ q[i].at <= clock
                             /\ q[i].seq <= seq_counter /\ \A j \in i..Len(q) : q[i].at <= q[j].at
    BY <1>1, <1>10 DEF QueueEntry, QueueOrdered
  <2> SUFFICES ASSUME NEW i \in 1..Len(expiry')
               PROVE  /\ expiry'[i].at <= clock' /\ expiry'[i].seq <= seq_counter'
                      /\ \A j \in i..Len(expiry') : expiry'[i].at <= expiry'[j].at
    BY DEF QueueOrdered
  <2>3. CASE i = Len(q) + 1
    BY <1>0, <1>2, <1>3, <1>10, <2>3
  <2>4. CASE i \in 1..Len(q)
    <3>1. expiry'[i].at <= clock' /\ expiry'[i].seq <= seq_counter'
      BY <1>0, <1>2, <1>3, <1>10, <2>2, <2>4
    <3>2. ASSUME NEW j \in i..Len(expiry') PROVE expiry'[i].at <= expiry'[j].at
      <4>1. j \in i..Len(q) \/ j = Len(q) + 1
        BY <1>10
      <4>2. CASE j \in i..Len(q)
        <5>1. j \in 1..Len(q)
          BY <1>10, <2>4, <4>2
        <5> QED BY <1>10, <2>2, <2>4, <4>2, <5>1
      <4>3. CASE j = Len(q) + 1
        BY <1>10, <2>2, <2>4, <4>3
      <4> QED BY <4>1, <4>2, <4>3
    <3> QED BY <3>1, <3>2
  <2> QED BY <2>1, <2>3, <2>4
<1>12. EntriesQueued(cache, expiry)'
  <2> SUFFICES ASSUME NEW j \in DOMAIN cache'
               PROVE  /\ \E i \in 1..Len(expiry') : expiry'[i].key = j /\ expiry'[i].seq = cache'[j].seq
                      /\ \A i \in 1..Len(expiry') :
                            expiry'[i].key = j /\ expiry'[i].seq = cache'[j].seq => expiry'[i].at = lastAdd'[j]
    BY DEF EntriesQueued
  <2>1. \A i \in 1..Len(expiry') : i \in 1..Len(q) \/ i = Len(q) + 1
    BY <1>10
  <2>2. Len(q) + 1 \in 1..Len(expiry') /\ \A i \in 1..Len(q) : i \in 1..Len(expiry')
    BY <1>10
  <2>3. lastAdd \in [Keys -> Int]
    BY DEF ReplayInv, ReplayTypes
  <2>4. CASE j = k
    <3>1. cache'[j].seq = seq_counter + 1 /\ lastAdd'[j] = clock
      BY <1>2, <1>7, <2>3, <2>4
    <3>2. \A i \in 1..Len(q) : expiry'[i].seq # seq_counter + 1
      BY <1>0, <1>1, <1>10 DEF QueueOrdered, QueueEntry
    <3> QED BY <1>10, <2>1, <2>2, <2>4, <3>1, <3>2
  <2>5. CASE j # k
    <3>1. j \in D /\ cache'[j] = c[j] /\ lastAdd'[j] = lastAdd[j] /\ x.key # j
      BY <1>2, <1>4, <1>7, <2>3, <2>5
    <3>2. /\ \E i \in 1..Len(q) : q[i].key = j /\ q[i].seq = c[j].seq
          /\ \A i \in 1..Len(q) : q[i].key = j /\ q[i].seq = c[j].seq => q[i].at = lastAdd[j]
      BY <1>1, <3>1, Zenon DEF EntriesQueued
    <3> HIDE DEF x
    <3> QED BY <1>10, <2>1, <2>2, <3>1, <3>2
  <2> QED BY <2>4, <2>5
<1>13. StampsRight'
  <2>1. \A j \in DOMAIN cache' : cache'[j].used = lastUse'[j] /\ lastUse'[j] > 0
    BY <1>3, <1>4, <1>5, <1>7
  <2> QED BY <1>3, <2>1, Zenon DEF StampsRight
<1>14. ASSUME NEW j \in Keys, InWindow(j)', Recent(j)' PROVE j \in DOMAIN cache'
  <2>1. CASE j = k
    BY <1>7, <2>1
  <2>2. CASE j # k
    <3>1. lastAdd'[j] = lastAdd[j]
      BY <1>2, <2>2 DEF ReplayInv, ReplayTypes
    <3>2. j \in D
      BY <1>1, <1>3, <1>14, <2>2, <3>1, Zenon DEF InWindow
    <3>3. j \notin V
      <4> SUFFICES ASSUME j \in V PROVE FALSE
        OBVIOUS
      <4>1. k \notin D /\ Cardinality(D) >= Capacity /\ \A i \in D : c[j].used <= c[i].used
        BY <1>6
      <4> DEFINE A == (D \ {j}) \cup {k}
                 B == {i \in Keys : lastUse'[i] > lastUse'[j]}
      <4>2. A \subseteq B
        <5>1. ASSUME NEW i \in D \ {j} PROVE lastUse'[i] > lastUse'[j]
          BY <1>3, <1>4, <1>5, <2>2, <3>2, <4>1, <5>1
        <5>2. lastUse'[k] > lastUse'[j]
          BY <1>3, <2>2
        <5> QED BY <1>4, <5>1, <5>2
      <4>3. IsFiniteSet(B)
        BY FS_Subset, ReplayAssumption
      <4>4. Cardinality(A) <= Cardinality(B) /\ Cardinality(B) \in Nat /\ Cardinality(A) \in Nat
        BY <4>2, <4>3, FS_Subset, FS_CardinalityType
      <4>5. IsFiniteSet(D \ {j}) /\ Cardinality(D \ {j}) = Cardinality(D) - 1
        BY <1>4, <3>2, FS_RemoveElement
      <4>6. Cardinality(A) = Cardinality(D \ {j}) + 1
        BY <4>1, <4>5, FS_AddElement
      <4>7. Cardinality(B) < Capacity
        BY <1>14, Zenon DEF Recent
      <4> HIDE DEF A, B
      <4> QED BY <1>4, <4>1, <4>4, <4>5, <4>6, <4>7, ReplayAssumption
    <3> QED BY <1>7, <3>2, <3>3
  <2> QED BY <2>1, <2>2
<1>15. Remembered'
  BY <1>14, Zenon DEF Remembered
<1> QED BY <1>9, <1>11, <1>12, <1>13, <1>15 DEF ReplayInv

\* A hit changes the recency of its key alone.
LEMMA HitInv ==
  ASSUME ReplayInv, NEW k \in Keys, Operation(k), k \in DOMAIN cleanup(clock),
         cache' = get(cleanup(clock), k, checks + 1), expiry' = cleanup_queue(clock),
         UNCHANGED <<seq_counter, lastAdd>>
  PROVE  ReplayInv'
<1> DEFINE c == cleanup(clock)
           D == DOMAIN c
<1>0. clock \in 0..clock
  BY ReplayAssumption DEF ReplayInv, ReplayTypes
<1>1. /\ D \subseteq DOMAIN cache /\ c = [j \in D |-> cache[j]]
      /\ \A j \in Keys : InWindow(j) /\ Recent(j) => j \in D
      /\ expiry' \in Seq(QueueEntry) /\ QueueOrdered(expiry') /\ EntriesQueued(c, expiry')
  BY <1>0, CleanupKeeps, Zenon
<1>2. /\ checks' = checks + 1 /\ checks' \in 0..MaxChecks /\ checks \in Nat /\ clock' = clock
      /\ lastUse' \in [Keys -> Nat] /\ lastUse'[k] = checks + 1
      /\ \A j \in Keys : lastUse'[j] <= checks' /\ lastUse[j] <= checks /\ lastUse[j] \in Nat
      /\ \A j \in Keys \ {k} : lastUse'[j] = lastUse[j]
      /\ \A i, j \in Keys : lastUse'[i] = lastUse'[j] /\ i # j => lastUse'[j] = 0
      /\ \A j \in Keys \ {k} : Recent(j)' => Recent(j)
  BY OperationStamps, Zenon
<1>3. \A j \in D : /\ c[j] = cache[j] /\ cache[j] \in [seq : Nat, used : Nat]
                   /\ c[j].used = lastUse[j] /\ lastUse[j] > 0 /\ j \in Keys
  BY <1>1 DEF ReplayInv, ReplayTypes, StampsRight
<1>4. Cardinality(D) <= Capacity
  BY <1>1, PartOfCache, Zenon
<1>5. /\ cache' = [c EXCEPT ![k] = [c[k] EXCEPT !.used = checks + 1]] /\ k \in D
  BY DEF get
<1> HIDE DEF c
<1>6. /\ DOMAIN cache' = D /\ cache' = [j \in DOMAIN cache' |-> cache'[j]]
      /\ cache'[k] = [c[k] EXCEPT !.used = checks + 1]
      /\ \A j \in D \ {k} : cache'[j] = c[j]
  BY <1>1, <1>5
<1>7. cache'[k] \in [seq : Nat, used : Nat] /\ cache'[k].seq = c[k].seq /\ cache'[k].used = checks + 1
  BY <1>2, <1>3, <1>5, <1>6
<1>8. \A j \in D : /\ cache'[j] \in [seq : Nat, used : Nat] /\ cache'[j].seq = c[j].seq
                   /\ cache'[j].used = lastUse'[j] /\ lastUse'[j] > 0
  BY <1>2, <1>3, <1>6, <1>7
<1>9. ReplayTypes'
  <2>1. clock' \in 0..MaxTime /\ seq_counter' \in Nat /\ lastAdd' \in [Keys -> Int] /\ D \subseteq Keys
    BY <1>2, <1>3 DEF ReplayInv, ReplayTypes
  <2> QED BY <1>1, <1>2, <1>4, <1>6, <1>8, <2>1, Zenon DEF ReplayTypes
<1>10. QueueOrdered(expiry)' /\ EntriesQueued(cache, expiry)'
  <2>1. QueueOrdered(expiry)'
    BY <1>1, <1>2, Zenon DEF QueueOrdered
  <2>2. EntriesQueued(cache, expiry)'
    <3> SUFFICES ASSUME NEW j \in D
                 PROVE  /\ \E i \in 1..Len(expiry') : expiry'[i].key = j /\ expiry'[i].seq = cache'[j].seq
                        /\ \A i \in 1..Len(expiry') :
                              expiry'[i].key = j /\ expiry'[i].seq = cache'[j].seq => expiry'[i].at = lastAdd'[j]
      BY <1>6, Zenon DEF EntriesQueued
    <3>1. cache'[j].seq = c[j].seq /\ lastAdd' = lastAdd
      BY <1>8
    <3>2. /\ \E i \in 1..Len(expiry') : expiry'[i].key = j /\ expiry'[i].seq = c[j].seq
          /\ \A i \in 1..Len(expiry') :
                expiry'[i].key = j /\ expiry'[i].seq = c[j].seq => expiry'[i].at = lastAdd[j]
      BY <1>1, Zenon DEF EntriesQueued
    <3> QED BY <3>1, <3>2
  <2> QED BY <2>1, <2>2
<1>11. StampsRight'
  BY <1>2, <1>6, <1>8, Zenon DEF StampsRight
<1>12. Remembered'
  BY <1>1, <1>2, <1>5, <1>6, Zenon DEF Remembered, InWindow
<1> QED BY <1>9, <1>10, <1>11, <1>12 DEF ReplayInv

\* A pass of the periodic clean-up, with a time that may have passed since.
LEMMA PeriodicInv ==
  ASSUME ReplayInv, run_periodic_cleanup
  PROVE  ReplayInv'
<1>1. PICK now \in 0..clock : cache' = cleanup(now) /\ expiry' = cleanup_queue(now)
  BY DEF run_periodic_cleanup
<1>2. UNCHANGED <<seq_counter, clock, checks, lastAdd, lastUse>>
  BY DEF run_periodic_cleanup
<1>3. /\ DOMAIN cache' \subseteq DOMAIN cache /\ cache' = [k \in DOMAIN cache' |-> cache[k]]
      /\ \A k \in Keys : InWindow(k) /\ Recent(k) => k \in DOMAIN cache'
      /\ expiry' \in Seq(QueueEntry) /\ QueueOrdered(expiry') /\ EntriesQueued(cache', expiry')
  BY <1>1, CleanupKeeps, Zenon
<1>4. Cardinality(DOMAIN cache') <= Capacity
  BY <1>3, PartOfCache, Zenon
<1>5. \A k \in DOMAIN cache' : cache'[k] = cache[k] /\ k \in DOMAIN cache
  BY <1>3
<1>6. ReplayTypes'
  BY <1>2, <1>3, <1>4, <1>5, Zenon DEF ReplayInv, ReplayTypes
<1>7. QueueOrdered(expiry)' /\ EntriesQueued(cache, expiry)'
  BY <1>2, <1>3, Zenon DEF QueueOrdered, EntriesQueued
<1>8. StampsRight'
  BY <1>2, <1>5, Zenon DEF ReplayInv, StampsRight
<1>9. Remembered'
  BY <1>2, <1>3, Zenon DEF Remembered, InWindow, Recent
<1> QED BY <1>6, <1>7, <1>8, <1>9 DEF ReplayInv

\* Time takes keys out of the window and puts none into it.
LEMMA TimeInv ==
  ASSUME ReplayInv, time_passes
  PROVE  ReplayInv'
<1>1. /\ clock \in Nat /\ clock' = clock + 1 /\ clock' \in 0..MaxTime
      /\ UNCHANGED <<cache, expiry, seq_counter, checks, lastAdd, lastUse>>
  BY ReplayAssumption DEF ReplayInv, ReplayTypes, time_passes
<1>2. ReplayTypes' /\ EntriesQueued(cache, expiry)' /\ StampsRight'
  BY <1>1, Zenon DEF ReplayInv, ReplayTypes, EntriesQueued, StampsRight
<1>3. QueueOrdered(expiry)'
  <2>1. \A i \in 1..Len(expiry) : expiry[i].at <= clock'
    <3>1. \A i \in 1..Len(expiry) : expiry[i] \in QueueEntry
      BY DEF ReplayInv, ReplayTypes
    <3> QED BY <1>1, <3>1 DEF ReplayInv, QueueOrdered, QueueEntry
  <2> QED BY <1>1, <2>1, Zenon DEF ReplayInv, QueueOrdered
<1>4. ASSUME NEW k \in Keys, InWindow(k)', Recent(k)' PROVE k \in DOMAIN cache'
  <2>1. lastAdd[k] \in Int /\ Window \in Nat
    BY ReplayAssumption DEF ReplayInv, ReplayTypes
  <2>2. InWindow(k)
    BY <1>1, <1>4, <2>1 DEF InWindow
  <2>3. Recent(k)
    BY <1>1, <1>4, Zenon DEF Recent
  <2> QED BY <1>1, <2>2, <2>3 DEF ReplayInv, Remembered
<1>5. Remembered'
  BY <1>4, Zenon DEF Remembered
<1> QED BY <1>2, <1>3, <1>5 DEF ReplayInv

\* check_and_add answers what the cache holds after the clean-up.
LEMMA CheckAddInv ==
  ASSUME ReplayInv, NEW k \in Keys, check_and_add_internal(k)
  PROVE  /\ ReplayInv' /\ found' = <<k, k \in DOMAIN cleanup(clock)>>
<1>1. Operation(k) /\ found' = <<k, k \in DOMAIN cleanup(clock)>>
  BY Zenon DEF check_and_add_internal
<1>2. CASE k \in DOMAIN cleanup(clock)
  BY <1>1, <1>2, HitInv, Zenon DEF check_and_add_internal
<1>3. CASE k \notin DOMAIN cleanup(clock)
  BY <1>1, <1>3, AddInv, Zenon DEF check_and_add_internal
<1> QED BY <1>1, <1>2, <1>3

\* Every step keeps the invariant.
LEMMA ReplayStep ==
  ASSUME ReplayInv, [ReplayNext]_replayVars
  PROVE  ReplayInv'
<1>1. ASSUME NEW k \in Keys, add_only(k) PROVE ReplayInv'
  BY <1>1, AddInv, Zenon DEF add_only
<1>2. CASE UNCHANGED replayVars
  BY <1>2, Zenon DEF replayVars, ReplayInv, ReplayTypes, QueueOrdered, EntriesQueued, StampsRight, Remembered,
         InWindow, Recent
<1> QED BY <1>1, <1>2, CheckAddInv, PeriodicInv, TimeInv, Zenon DEF ReplayNext

\* The invariant implies the type invariant.
LEMMA ReplayInvTypes == ReplayInv => ReplayTypeOK
<1> SUFFICES ASSUME ReplayInv PROVE ReplayTypeOK
  OBVIOUS
<1>1. DOMAIN expiry = 1..Len(expiry)
  BY DEF ReplayInv, ReplayTypes
<1> QED BY <1>1, Zenon DEF ReplayInv, ReplayTypes, EntriesQueued, ReplayTypeOK

(* A shard answers that a handshake was seen if it was added within the    *)
(* window and fewer than Capacity other keys were used since, and only if  *)
(* it was added within the window: for any keys, capacity and window,      *)
(* whatever passes of the periodic clean-up, late ones included, come in   *)
(* between.                                                                *)
THEOREM ReplaysAreDetected == ReplaySpec => []ReplayTypeOK /\ ReplayDetected
<1> DEFINE Detected ==
      checks' # checks /\ found' # << >> =>
          LET k == found'[1] IN /\ (InWindow(k) /\ Recent(k) => found'[2])
                                /\ (found'[2] => InWindow(k))
<1>1. ASSUME ReplayInv, [ReplayNext]_replayVars PROVE [Detected]_replayVars
  <2>1. ASSUME NEW k \in Keys, check_and_add_internal(k) PROVE Detected
    <3>1. found' = <<k, k \in DOMAIN cleanup(clock)>> /\ found'[1] = k
          /\ found'[2] = (k \in DOMAIN cleanup(clock))
      BY <1>1, <2>1, CheckAddInv
    <3>2. clock \in 0..clock
      BY <1>1, ReplayAssumption DEF ReplayInv, ReplayTypes
    <3>3. /\ InWindow(k) /\ Recent(k) => k \in DOMAIN cleanup(clock)
          /\ k \in DOMAIN cleanup(clock) => InWindow(k)
      BY <1>1, <3>2, CleanupKeeps, Zenon
    <3> QED BY <3>1, <3>3, Zenon
  <2>2. ASSUME NEW k \in Keys, add_only(k) PROVE Detected
    BY <2>2 DEF add_only
  <2>3. CASE run_periodic_cleanup \/ time_passes \/ UNCHANGED replayVars
    BY <2>3, Zenon DEF run_periodic_cleanup, time_passes, replayVars
  <2> QED BY <1>1, <2>1, <2>2, <2>3, Zenon DEF ReplayNext
<1> QED BY <1>1, ReplayInitial, ReplayStep, ReplayInvTypes, PTL DEF ReplaySpec, ReplayDetected
=============================================================================
