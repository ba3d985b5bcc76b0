------------------------------ MODULE Forensics -----------------------------
(***************************************************************************)
(* What the proxy keeps about failing clients: the per-address counters of *)
(* BeobachtenStore (stats/beobachten.rs), recorded by the client handler   *)
(* and flushed by a task of main.rs, and the reports of frames that are    *)
(* too large (middle_relay.rs), full once per window and key and counted   *)
(* when they are not.  Both forget by age; ages are counted in ticks.      *)
(***************************************************************************)
EXTENDS Naturals, FiniteSetsExt

CONSTANTS
    Peers,              \* keys: a class and an address
    Ttls,               \* beobachten_minutes, in ticks
    CleanupInterval,    \* CLEANUP_INTERVAL
    DedupWindow,        \* DESYNC_DEDUP_WINDOW
    MaxTries            \* bound: records and reports counted per key

\* Among the lifetimes that may be configured one is the longest.
ASSUME ForensicsAssumption ==
    /\ Ttls \subseteq Nat /\ \E t \in Ttls : \A u \in Ttls : u <= t
    /\ {CleanupInterval, DedupWindow, MaxTries} \subseteq Nat

VARIABLES
    ttl,        \* the lifetime configured
    observing,  \* general.beobachten, as configured now
    entry,      \* per key: [tries, age] (tries 0: no entry)
    sweepAge,    \* time since last_cleanup, capped; CleanupInterval: none yet
    shown,      \* what the last snapshot listed, with the age of each
    recent,     \* history: tries per key without a gap longer than ttl
    dedup,      \* per key: age of the last full report, DedupWindow if forgotten
    desync,     \* counters [total, full, suppressed]
    since       \* history: time since the key's last deduplicated full report

forensicVars == <<ttl, observing, entry, sweepAge, shown, recent, dedup, desync, since>>

MaxAgeSeen == Max(Ttls) + 1
NoEntry == [tries |-> 0, age |-> 0]
Nothing == [k \in Peers |-> NoEntry]

----------------------------------------------------------------------------
\* A slip: an entry as old as its lifetime is dropped.
Expired_at(age) == age >= ttl

\* cleanup keeps what was seen within the lifetime, its end included.
PastTtl(age) == age > ttl

Cleaned == [k \in Peers |-> IF PastTtl(entry[k].age) THEN NoEntry ELSE entry[k]]

\* cleanup_if_needed: at most one sweep per interval on the record path.
cleanup_if_needed == IF sweepAge >= CleanupInterval
                     THEN [entry |-> Cleaned, sweepAge |-> 0]
                     ELSE [entry |-> entry, sweepAge |-> sweepAge]

\* record_beobachten_class, for a client that failed.
record(k) ==
    /\ observing /\ ttl > 0 /\ entry[k].tries < MaxTries
    /\ entry' = [cleanup_if_needed.entry EXCEPT ![k] = [tries |-> @.tries + 1, age |-> 0]]
    /\ sweepAge' = cleanup_if_needed.sweepAge
    /\ recent' = [recent EXCEPT ![k] = IF entry[k].age <= ttl THEN @ + 1 ELSE 1]
    /\ UNCHANGED <<ttl, observing, shown, dedup, desync, since>>

\* The flush task writes snapshot_text to the file.
snapshot_text ==
    /\ observing /\ ttl > 0
    /\ entry' = Cleaned /\ sweepAge' = 0 /\ shown' = Cleaned
    /\ UNCHANGED <<ttl, observing, recent, dedup, desync, since>>

\* The configuration is reloaded.
toggle_observing ==
    /\ observing' = ~observing
    /\ UNCHANGED <<ttl, entry, sweepAge, shown, recent, dedup, desync, since>>

----------------------------------------------------------------------------
\* The time of a report is kept when it is full.
dedup_after(k, full) == IF full THEN [dedup EXCEPT ![k] = 0] ELSE dedup

\* A report is full if all are, or if the key's window is over.
should_emit_full_desync(k, all_full) == all_full \/ dedup[k] >= DedupWindow

ReportCounted(full) ==
    [total |-> desync.total + 1, full |-> desync.full + (IF full THEN 1 ELSE 0),
     suppressed |-> desync.suppressed + (IF full THEN 0 ELSE 1)]

\* report_desync_frame_too_large; with desync_all_full the window is left alone.
report_desync_frame_too_large(k, all_full) ==
    /\ desync.total < MaxTries
    /\ LET full == should_emit_full_desync(k, all_full)
       IN /\ desync' = ReportCounted(full)
          /\ dedup' = IF all_full THEN dedup ELSE dedup_after(k, full)
          /\ since' = IF full /\ ~all_full THEN [since EXCEPT ![k] = 0] ELSE since
    /\ UNCHANGED <<ttl, observing, entry, sweepAge, shown, recent>>

\* Time passes for all of it.
forensic_tick ==
    /\ entry' = [k \in Peers |-> IF entry[k].tries = 0 THEN NoEntry
                                 ELSE [entry[k] EXCEPT !.age = Min({@ + 1, MaxAgeSeen})]]
    /\ sweepAge' = Min({sweepAge + 1, CleanupInterval})
    /\ dedup' = [k \in Peers |-> Min({dedup[k] + 1, DedupWindow})]
    /\ since' = [k \in Peers |-> Min({since[k] + 1, DedupWindow})]
    /\ recent' = [k \in Peers |-> IF entry[k].age + 1 > ttl THEN 0 ELSE recent[k]]
    /\ shown' = Nothing
    /\ UNCHANGED <<ttl, observing, desync>>

ForensicsInit ==
    /\ ttl \in Ttls /\ observing \in BOOLEAN
    /\ entry = Nothing /\ sweepAge = CleanupInterval /\ shown = Nothing
    /\ recent = [k \in Peers |-> 0]
    /\ dedup = [k \in Peers |-> DedupWindow]
    /\ desync = [total |-> 0, full |-> 0, suppressed |-> 0]
    /\ since = [k \in Peers |-> DedupWindow]

ForensicsNext ==
    \/ \E k \in Peers : record(k)
    \/ snapshot_text \/ toggle_observing \/ forensic_tick
    \/ \E k \in Peers, all_full \in BOOLEAN : report_desync_frame_too_large(k, all_full)

ForensicsSpec == ForensicsInit /\ [][ForensicsNext]_forensicVars

----------------------------------------------------------------------------
\* Properties.

\* The state is well formed, and every report is counted as full or suppressed.
ForensicsTypeOK ==
    /\ sweepAge \in 0 .. CleanupInterval
    /\ \A k \in Peers : entry[k].age \in 0 .. MaxAgeSeen /\ dedup[k] \in 0 .. DedupWindow
    /\ desync.total = desync.full + desync.suppressed

\* A flush lists no address that was not seen within the lifetime, even when the
\* record path has not swept for a while.
SnapshotFresh == \A k \in Peers : shown[k].tries > 0 => shown[k].age <= ttl

\* The tries of an address that comes back within the lifetime every time are all
\* counted: no sweep, whoever triggers it, forgets an address that is still active.
TriesKept == \A k \in Peers : recent[k] <= entry[k].tries

\* A key's window closes: a report is full again once its window is over, however
\* many were suppressed within it.
WindowEnds == \A k \in Peers : since[k] = DedupWindow => dedup[k] = DedupWindow

\* Within the window of a full report its key gets no other one.
FullOncePerWindow ==
    [][ \A k \in Peers : since[k] < DedupWindow => since'[k] >= since[k] ]_forensicVars

\* What is kept of failing clients: a snapshot shows no expired entry and no
\* attempt is lost while its entry lives; a key has one full report per window,
\* and windows end.
ReportsRight == [](SnapshotFresh /\ TriesKept /\ WindowEnds) /\ FullOncePerWindow
=============================================================================
