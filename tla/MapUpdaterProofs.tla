-------------------------- MODULE MapUpdaterProofs --------------------------
(***************************************************************************)
(* The updater, its triggers and the scheduler, for any maps, secrets,     *)
(* stability count and queue length.                                       *)
(*                                                                         *)
(* MapChangeNotLost is not inductive: that the updater is somewhere behind *)
(* a write says nothing unless it also remembers to trigger.  TriggerInv   *)
(* adds that it does.  GateInv counts for StableGate: the last hits[w]     *)
(* accepted snapshots were all the candidate, and a ready map was returned *)
(* by every one of the last Required accepted fetches.                     *)
(***************************************************************************)
EXTENDS MapUpdater, TLAPS

\* The servers publish maps of their family, and secrets.
PubOK ==
    /\ pub \in [Watched -> Seen] /\ pub["secret"] \in Secrets
    /\ \A f \in Families : pub[f] \in Published[f]

Responses(w) == IF w = "secret" THEN Secrets ELSE Published[w]

TriggerInv ==
    stale => \/ changed /\ upc \in {"write_v6", "mirror_v4", "mirror_v6", "mark", "trigger"}
             \/ queue > 0 \/ spc = "coalesce"

PairInv == mode \in Modes /\ (mode.atomic => hs.ks = hs.sec)

GateInv ==
    /\ \A w \in Watched :
          /\ recent[w] \in Seq(Seen) /\ hits[w] <= Len(recent[w]) /\ Len(recent[w]) <= Required
          /\ \A i \in 1..hits[w] : recent[w][i] = cand[w]
    /\ DOMAIN recent = Watched
    /\ \A f \in Families : ready[f] # None => AllRecent(f, ready[f])

MapInv == MapTypeOK /\ PubOK /\ TriggerInv /\ PairInv /\ GateInv

-----------------------------------------------------------------------------

LEMMA MinPair ==
  ASSUME NEW a \in Int, NEW b \in Int
  PROVE  Min({a, b}) = IF a <= b THEN a ELSE b
<1> DEFINE m == IF a <= b THEN a ELSE b
<1>1. m \in {a, b} /\ \A y \in {a, b} : m =< y
  OBVIOUS
<1>2. \A x \in {a, b} : (\A y \in {a, b} : x =< y) => x = m
  OBVIOUS
<1> QED BY <1>1, <1>2 DEF Min

LEMMA MapInitInv == MapInit => MapInv
<1> SUFFICES ASSUME MapInit PROVE MapInv
  OBVIOUS
<1> USE MapUpdaterAssumption DEF MapInit
<1>1. MapTypeOK
  <2>1. /\ pub \in [Watched -> Seen] /\ flaps \in 0..MaxFlaps
        /\ cand \in [Watched -> Seen \cup {None}] /\ done \in [Watched -> Seen \cup {None}]
        /\ hits \in [Watched -> 0..Required]
    OBVIOUS
  <2>2. /\ DOMAIN proxy_map = Families /\ secret \in Secrets /\ upc \in Upcs
        /\ ready \in [Families -> Seen \cup {None}] /\ queue \in 0..QueueCap
    BY DEF Upcs
  <2> QED BY <2>1, <2>2, Zenon DEF MapTypeOK
<1>2. PubOK /\ TriggerInv
  BY DEF PubOK, TriggerInv, Watched
<1>3. PairInv
  BY DEF PairInv
<1>4. GateInv
  BY DEF GateInv
<1> QED BY <1>1, <1>2, <1>3, <1>4 DEF MapInv

-----------------------------------------------------------------------------
(* What a fetch may return, and what it does to the snapshots.             *)

LEMMA FetchValue ==
  ASSUME MapTypeOK, PubOK, NEW w \in Watched, NEW r \in retry_fetch(w, Responses(w))
  PROVE  /\ r # None => r.val \in Responses(w) /\ r.val \in Seen
         /\ r # [ok |-> TRUE, val |-> pub[w]] => flaps - 1 \in 0..MaxFlaps
<1>1. pub[w] \in Responses(w)
  BY DEF PubOK, Responses, Watched
<1>2. Responses(w) \subseteq Seen
  BY DEF Responses, Seen, Watched
<1>3. CASE flaps > 0
  <2>1. r \in {[ok |-> TRUE, val |-> pub[w]]} \cup [ok : BOOLEAN, val : Responses(w)] \cup {None}
    BY <1>3 DEF retry_fetch
  <2>2. flaps - 1 \in 0..MaxFlaps
    BY <1>3, MapUpdaterAssumption DEF MapTypeOK
  <2> QED BY <1>1, <1>2, <2>1, <2>2
<1>4. CASE ~(flaps > 0)
  <2>1. r = [ok |-> TRUE, val |-> pub[w]]
    BY <1>4 DEF retry_fetch
  <2>2. r.val = pub[w]
    BY <2>1
  <2> QED BY <1>1, <1>2, <2>1, <2>2
<1> QED BY <1>3, <1>4

\* Observing v: the count of the candidate, and the history it stands for.
LEMMA ObserveTypes ==
  ASSUME MapTypeOK, NEW w \in Watched, NEW v \in Seen, observe(w, v)
  PROVE  /\ cand' \in [Watched -> Seen \cup {None}]
         /\ hits' \in [Watched -> 0..Required]
         /\ cand' = [cand EXCEPT ![w] = v]
         /\ \A u \in Watched \ {w} : cand'[u] = cand[u] /\ hits'[u] = hits[u]
         /\ hits'[w] = IF cand[w] = v THEN (IF hits[w] + 1 <= Required THEN hits[w] + 1 ELSE Required)
                       ELSE 1
<1>1. hits[w] + 1 \in Int /\ Required \in Nat \ {0} /\ hits[w] \in 0..Required
  BY MapUpdaterAssumption DEF MapTypeOK
<1>2. Min({hits[w] + 1, Required}) = IF hits[w] + 1 <= Required THEN hits[w] + 1 ELSE Required
  BY <1>1, MinPair
<1>3. hits' = [hits EXCEPT ![w] = IF cand[w] = v THEN Min({hits[w] + 1, Required}) ELSE 1]
  BY DEF observe
<1>4. (IF cand[w] = v THEN Min({hits[w] + 1, Required}) ELSE 1) \in 0..Required
  BY <1>1, <1>2
<1> QED BY <1>1, <1>2, <1>3, <1>4 DEF observe, MapTypeOK

LEMMA ObserveRecent ==
  ASSUME MapTypeOK, GateInv, NEW w \in Watched, NEW v \in Seen, observe(w, v)
  PROVE  /\ DOMAIN recent' = Watched
         /\ \A u \in Watched \ {w} : recent'[u] = recent[u]
         /\ recent'[w] \in Seq(Seen)
         /\ Len(recent'[w]) = IF Len(recent[w]) + 1 <= Required THEN Len(recent[w]) + 1 ELSE Required
         /\ recent'[w][1] = v
         /\ \A i \in 2..Len(recent'[w]) : recent'[w][i] = recent[w][i - 1]
<1> DEFINE old == recent[w]
           long == <<v>> \o old
           n == Min({Len(old) + 1, Required})
<1>1. Required \in Nat \ {0} /\ old \in Seq(Seen) /\ Len(old) \in Nat
  BY MapUpdaterAssumption DEF GateInv
<1>2. n = IF Len(old) + 1 <= Required THEN Len(old) + 1 ELSE Required
  BY <1>1, MinPair
<1>3. recent' = [recent EXCEPT ![w] = SubSeq(long, 1, n)]
  BY DEF observe
<1>4. /\ long \in Seq(Seen) /\ Len(long) = Len(old) + 1
      /\ long[1] = v /\ \A i \in 2..Len(long) : long[i] = old[i - 1]
  BY <1>1
<1> HIDE DEF n, long
<1>5. n \in 1..Len(long)
  BY <1>1, <1>2, <1>4
<1>6. /\ SubSeq(long, 1, n) \in Seq(Seen) /\ Len(SubSeq(long, 1, n)) = n
      /\ \A i \in 1..n : SubSeq(long, 1, n)[i] = long[i]
  BY <1>4, <1>5
<1>7. DOMAIN recent = Watched
  BY DEF GateInv
<1>8. recent'[w] = SubSeq(long, 1, n) /\ DOMAIN recent' = Watched
      /\ \A u \in Watched \ {w} : recent'[u] = recent[u]
  BY <1>3, <1>7, Zenon
<1>9. \A i \in 2..n : SubSeq(long, 1, n)[i] = old[i - 1]
  <2> SUFFICES ASSUME NEW i \in 2..n PROVE SubSeq(long, 1, n)[i] = old[i - 1]
    BY Zenon
  <2>1. i \in 1..n /\ i \in 2..Len(long)
    BY <1>5
  <2> QED BY <1>4, <1>6, <2>1, Zenon
<1> QED BY <1>2, <1>4, <1>5, <1>6, <1>8, <1>9

\* A candidate that is counted Required times filled the whole history.
LEMMA ObserveGate ==
  ASSUME MapTypeOK, GateInv, NEW w \in Watched, NEW v \in Seen, observe(w, v)
  PROVE  /\ DOMAIN recent' = Watched
         /\ \A u \in Watched :
              /\ recent'[u] \in Seq(Seen) /\ hits'[u] <= Len(recent'[u]) /\ Len(recent'[u]) <= Required
              /\ \A i \in 1..hits'[u] : recent'[u][i] = cand'[u]
         /\ \A u \in Watched \ {w} : recent'[u] = recent[u]
         /\ hits'[w] >= Required => AllRecent(w, v)'
<1>0. Required \in Nat \ {0} /\ cand'[w] = v /\ hits[w] \in 0..Required /\ hits'[w] \in 0..Required
  BY ObserveTypes, MapUpdaterAssumption DEF MapTypeOK
<1>1. \A u \in Watched \ {w} :
              /\ recent'[u] \in Seq(Seen) /\ hits'[u] <= Len(recent'[u]) /\ Len(recent'[u]) <= Required
              /\ \A i \in 1..hits'[u] : recent'[u][i] = cand'[u]
  <2> SUFFICES ASSUME NEW u \in Watched \ {w}
               PROVE  /\ recent'[u] \in Seq(Seen) /\ hits'[u] <= Len(recent'[u])
                      /\ Len(recent'[u]) <= Required
                      /\ \A i \in 1..hits'[u] : recent'[u][i] = cand'[u]
    OBVIOUS
  <2>1. recent'[u] = recent[u] /\ hits'[u] = hits[u] /\ cand'[u] = cand[u]
    BY ObserveTypes, ObserveRecent
  <2> QED BY <2>1 DEF GateInv
<1>2. /\ recent[w] \in Seq(Seen) /\ hits[w] <= Len(recent[w]) /\ Len(recent[w]) <= Required
      /\ Len(recent[w]) \in Nat
      /\ \A i \in 1..hits[w] : recent[w][i] = cand[w]
  BY DEF GateInv
<1>3. /\ recent'[w] \in Seq(Seen) /\ Len(recent'[w]) \in Nat
      /\ Len(recent'[w]) = IF Len(recent[w]) + 1 <= Required THEN Len(recent[w]) + 1 ELSE Required
      /\ recent'[w][1] = v
      /\ \A i \in 2..Len(recent'[w]) : recent'[w][i] = recent[w][i - 1]
  <2>1. recent'[w] \in Seq(Seen)
    BY ObserveRecent
  <2>2. Len(recent'[w]) \in Nat
    BY <2>1
  <2> QED BY <2>1, <2>2, ObserveRecent
<1>4. hits'[w] = IF cand[w] = v THEN (IF hits[w] + 1 <= Required THEN hits[w] + 1 ELSE Required)
                 ELSE 1
  BY ObserveTypes
<1>5. hits'[w] <= Len(recent'[w]) /\ Len(recent'[w]) <= Required
  BY <1>0, <1>2, <1>3, <1>4
<1>6. ASSUME NEW i \in 1..hits'[w] PROVE recent'[w][i] = v
  <2>1. CASE i = 1
    BY <1>3, <2>1
  <2>2. CASE i # 1
    <3>1. i - 1 \in 1..hits[w] /\ cand[w] = v /\ i \in 2..Len(recent'[w])
      BY <1>0, <1>4, <1>5, <1>6, <1>3, <2>2, SMTT(30)
    <3> QED BY <1>2, <1>3, <3>1, SMTT(30)
  <2> QED BY <2>1, <2>2
<1>7. ASSUME hits'[w] >= Required PROVE AllRecent(w, v)'
  <2>1. Len(recent'[w]) = Required /\ hits'[w] = Required /\ DOMAIN recent'[w] = 1..Required
    BY <1>0, <1>3, <1>5, <1>7
  <2> QED BY <2>1, <1>6 DEF AllRecent
<1> QED BY <1>0, <1>1, <1>3, <1>5, <1>6, <1>7, ObserveRecent

-----------------------------------------------------------------------------
(* The steps.                                                              *)

\* What GateInv is about, left alone.
LEMMA GateKept ==
  ASSUME GateInv, UNCHANGED <<cand, hits, recent>>,
         \A f \in Families : ready'[f] \in {ready[f], None}
  PROVE  GateInv'
  BY DEF GateInv, AllRecent

LEMMA FetchMapInv ==
  ASSUME MapInv, NEW f \in Families, fetch_map(f)
  PROVE  MapInv'
<1>1. MapTypeOK /\ PubOK /\ GateInv /\ f \in Watched /\ Responses(f) = Published[f]
  BY DEF MapInv, Watched, Families, Responses
<1>2. PICK r \in retry_fetch(f, Published[f]) :
          /\ flaps' = IF r = [ok |-> TRUE, val |-> pub[f]] THEN flaps ELSE flaps - 1
          /\ IF r # None /\ snapshot_passes_guards(r)
             THEN /\ observe(f, r.val)
                  /\ ready' = [ready EXCEPT ![f] = IF Stable(f, r.val) THEN r.val ELSE None]
             ELSE ready' = [ready EXCEPT ![f] = None] /\ UNCHANGED <<cand, hits, recent>>
  BY DEF fetch_map
<1>3. /\ UNCHANGED <<pub, done, changed, cool, proxy_map, secret, stale, queue, spc, mode, hs>>
      /\ upc' \in {"v6", "trigger", "apply"} /\ upc = f
  BY DEF fetch_map, appliedVars
<1>4. flaps' \in 0..MaxFlaps
  BY <1>1, <1>2, FetchValue DEF MapTypeOK
<1>5. CASE r # None /\ snapshot_passes_guards(r)
  <2>1. r.val \in Seen
    BY <1>1, <1>5, FetchValue
  <2>2. observe(f, r.val) /\ ready' = [ready EXCEPT ![f] = IF Stable(f, r.val) THEN r.val ELSE None]
    BY <1>2, <1>5
  <2>3. cand' \in [Watched -> Seen \cup {None}] /\ hits' \in [Watched -> 0..Required]
        /\ ready' \in [Families -> Seen \cup {None}]
    BY <1>1, <2>1, <2>2, ObserveTypes DEF MapTypeOK
  <2>4. ASSUME NEW g \in Families, ready'[g] # None PROVE AllRecent(g, ready[g])'
    <3>1. CASE g = f
      <4>1. ready'[f] = r.val /\ hits'[f] >= Required
        BY <1>1, <2>2, <2>4, <3>1, SMTT(30) DEF Stable, MapTypeOK
      <4> QED BY <1>1, <2>1, <2>2, <3>1, <4>1, ObserveGate DEF AllRecent
    <3>2. CASE g # f
      <4>1. ready'[g] = ready[g] /\ recent'[g] = recent[g] /\ g \in Watched
        BY <1>1, <2>1, <2>2, <3>2, ObserveGate, ZenonT(60) DEF MapTypeOK, Watched
      <4> QED BY <1>1, <2>4, <4>1, SMTT(30) DEF GateInv, AllRecent
    <3> QED BY <3>1, <3>2
  <2>5. GateInv'
    BY <1>1, <2>1, <2>2, <2>4, ObserveGate, SMTT(30) DEF GateInv
  <2> QED BY <1>1, <1>3, <1>4, <2>3, <2>5 DEF MapInv, MapTypeOK, Upcs, PubOK, TriggerInv, PairInv, Families
<1>6. CASE ~(r # None /\ snapshot_passes_guards(r))
  <2>1. ready' = [ready EXCEPT ![f] = None] /\ UNCHANGED <<cand, hits, recent>>
    BY <1>2, <1>6
  <2>2. GateInv' /\ ready' \in [Families -> Seen \cup {None}]
    BY <1>1, <2>1, GateKept DEF MapTypeOK
  <2> QED BY <1>1, <1>3, <1>4, <2>1, <2>2, SMTT(30) DEF MapInv, MapTypeOK, Upcs, PubOK, TriggerInv, PairInv, Families
<1> QED BY <1>5, <1>6

LEMMA FetchSecretInv ==
  ASSUME MapInv, fetch_secret
  PROVE  MapInv' /\ (secret' # secret => AllRecent("secret", secret)')
<1>1. /\ MapTypeOK /\ PubOK /\ GateInv /\ "secret" \in Watched /\ "secret" \notin Families
      /\ Responses("secret") = Secrets
  BY DEF MapInv, Watched, Families, Responses
<1>2. PICK r \in retry_fetch("secret", Secrets) :
          /\ flaps' = IF r = [ok |-> TRUE, val |-> pub["secret"]] THEN flaps ELSE flaps - 1
          /\ IF r # None
             THEN /\ observe("secret", r.val)
                  /\ IF Stable("secret", r.val)
                     THEN done' = [done EXCEPT !["secret"] = r.val] /\ secret' = r.val
                     ELSE UNCHANGED <<done, secret>>
             ELSE UNCHANGED <<cand, hits, recent, done, secret>>
  BY DEF fetch_secret
<1>3. /\ UNCHANGED <<pub, ready, changed, cool, proxy_map, stale, queue, spc, mode, hs>>
      /\ upc' = "idle" /\ upc = "secret"
  BY DEF fetch_secret
<1>4. flaps' \in 0..MaxFlaps
  BY <1>1, <1>2, FetchValue, SMTT(30) DEF MapTypeOK
<1>5. CASE r # None
  <2>1. r.val \in Seen /\ r.val \in Secrets
    BY <1>1, <1>5, FetchValue
  <2>2. observe("secret", r.val)
    BY <1>2, <1>5
  <2>3. cand' \in [Watched -> Seen \cup {None}] /\ hits' \in [Watched -> 0..Required]
        /\ done' \in [Watched -> Seen \cup {None}] /\ secret' \in Secrets
    BY <1>1, <1>2, <1>5, <2>1, <2>2, ObserveTypes, SMTT(30) DEF MapTypeOK
  <2>4. GateInv'
    <3>1. \A f \in Families : recent'[f] = recent[f]
      BY <1>1, <2>1, <2>2, ObserveGate DEF Watched
    <3>2. \A f \in Families : ready'[f] # None => AllRecent(f, ready[f])'
      BY <1>1, <1>3, <3>1, Zenon DEF GateInv, AllRecent
    <3> QED BY <1>1, <2>1, <2>2, <3>2, ObserveGate, Zenon DEF GateInv
  <2>5. secret' # secret => AllRecent("secret", secret)'
    <3> SUFFICES ASSUME secret' # secret PROVE AllRecent("secret", secret)'
      OBVIOUS
    <3>1. secret' = r.val /\ hits'["secret"] >= Required
      BY <1>2, <1>5 DEF Stable
    <3> QED BY <1>1, <2>1, <2>2, <3>1, ObserveGate DEF AllRecent
  <2> QED BY <1>1, <1>3, <1>4, <2>3, <2>4, <2>5
          DEF MapInv, MapTypeOK, Upcs, PubOK, TriggerInv, PairInv
<1>6. CASE r = None
  <2>1. UNCHANGED <<cand, hits, recent, done, secret>>
    BY <1>2, <1>6, Zenon
  <2>2. GateInv'
    BY <1>1, <1>3, <2>1, GateKept, SMTT(30)
  <2> QED BY <1>1, <1>3, <1>4, <2>1, <2>2, SMTT(30) DEF MapInv, MapTypeOK, Upcs, PubOK, TriggerInv, PairInv
<1> QED BY <1>5, <1>6

LEMMA ApplyInv ==
  ASSUME MapInv, apply_ready
  PROVE  MapInv'
<1>1. /\ MapTypeOK /\ GateInv /\ upc = "apply"
      /\ upc' \in {"trigger", "mark", "write_v4"}
      /\ ready' \in {ready, [f \in Families |-> None]}
      /\ UNCHANGED <<pub, flaps, cand, hits, done, recent, changed, cool, proxy_map, secret, stale,
                     queue, spc, mode, hs>>
  BY DEF MapInv, apply_ready, snapVars, appliedVars
<1>2. GateInv' /\ ready' \in [Families -> Seen \cup {None}]
  BY <1>1, GateKept, SMTT(30) DEF MapTypeOK
<1> QED BY <1>1, <1>2 DEF MapInv, MapTypeOK, Upcs, PubOK, TriggerInv, PairInv

LEMMA WriteMapInv ==
  ASSUME MapInv, NEW f \in Families, write_map(f)
  PROVE  MapInv'
<1>1. /\ MapTypeOK /\ GateInv /\ upc \in {"write_v4", "write_v6"}
      /\ upc' \in {"write_v6", "mirror_v4"}
      /\ UNCHANGED <<pub, flaps, cand, hits, done, recent, ready, cool, secret, queue, spc, mode, hs>>
      /\ \/ /\ proxy_map' = [proxy_map EXCEPT ![f] = ready[f]]
            /\ changed' = TRUE /\ stale' = TRUE
         \/ UNCHANGED <<proxy_map, changed, stale>>
  <2>1. MapTypeOK /\ GateInv
    BY DEF MapInv
  <2>2. upc \in {"write_v4", "write_v6"} /\ upc' \in {"write_v6", "mirror_v4"}
    <3>1. upc = WriteAt[f] /\ upc' = NextWrite(f)
      BY Zenon DEF write_map
    <3> QED BY <3>1 DEF WriteAt, NextWrite, Families
  <2> QED BY <2>1, <2>2, Zenon DEF write_map, snapVars
<1>2. GateInv'
  BY <1>1, GateKept
<1>3. DOMAIN proxy_map' = Families /\ changed' \in BOOLEAN /\ stale' \in BOOLEAN
  BY <1>1, Zenon DEF MapTypeOK
<1>4. TriggerInv'
  <2>1. CASE changed' = TRUE
    BY <1>1, <2>1 DEF TriggerInv
  <2>2. CASE UNCHANGED <<proxy_map, changed, stale>>
    <3> SUFFICES ASSUME stale
                 PROVE  (changed /\ upc' \in {"write_v6", "mirror_v4"}) \/ queue > 0 \/ spc = "coalesce"
      BY <1>1, <2>2 DEF TriggerInv
    <3>1. TriggerInv
      BY DEF MapInv
    <3> QED BY <1>1, <3>1 DEF TriggerInv
  <2> QED BY <1>1, <2>1, <2>2, Zenon
<1>5. MapTypeOK'
  BY <1>1, <1>3, Zenon DEF MapTypeOK, Upcs
<1> QED BY <1>1, <1>2, <1>4, <1>5, Zenon DEF MapInv, PubOK, PairInv

LEMMA MirrorMapInv ==
  ASSUME MapInv, NEW f \in Families, mirror_map(f)
  PROVE  MapInv'
<1>1. /\ MapTypeOK /\ GateInv /\ upc \in {"mirror_v4", "mirror_v6"}
      /\ upc' \in {"mirror_v6", "mark"}
      /\ proxy_map' = [proxy_map EXCEPT ![f] = mirrored(@)]
      /\ UNCHANGED <<pub, flaps, cand, hits, done, recent, ready, changed, cool, secret, stale, queue,
                     spc, mode, hs>>
  <2>1. MapTypeOK /\ GateInv
    BY DEF MapInv
  <2>2. upc \in {"mirror_v4", "mirror_v6"} /\ upc' \in {"mirror_v6", "mark"}
    <3>1. upc = MirrorAt[f] /\ upc' = NextMirror(f)
      BY Zenon DEF mirror_map
    <3> QED BY <3>1 DEF MirrorAt, NextMirror, Families
  <2> QED BY <2>1, <2>2, Zenon DEF mirror_map, snapVars
<1>2. GateInv'
  BY <1>1, GateKept
<1>3. DOMAIN proxy_map' = Families
  BY <1>1, SMTT(30) DEF MapTypeOK
<1> QED BY <1>1, <1>2, <1>3, SMTT(30) DEF MapInv, MapTypeOK, Upcs, PubOK, TriggerInv, PairInv

LEMMA MarkInv ==
  ASSUME MapInv, mark_applied
  PROVE  MapInv'
<1>1. /\ MapTypeOK /\ GateInv /\ upc = "mark" /\ upc' = "trigger" /\ cool' = TRUE
      /\ done' = [w \in Watched |-> IF w \in Families /\ ready[w] # None THEN ready[w] ELSE done[w]]
      /\ ready' = [f \in Families |-> None]
      /\ UNCHANGED <<pub, flaps, cand, hits, recent, changed, proxy_map, secret, stale, queue, spc,
                     mode, hs>>
  BY DEF MapInv, mark_applied, appliedVars
<1>2. GateInv' /\ ready' \in [Families -> Seen \cup {None}]
  BY <1>1, GateKept DEF MapTypeOK
<1>3. done' \in [Watched -> Seen \cup {None}]
  BY <1>1 DEF MapTypeOK
<1> QED BY <1>1, <1>2, <1>3, SMTT(30) DEF MapInv, MapTypeOK, Upcs, PubOK, TriggerInv, PairInv

\* A trigger that finds the queue full leaves it as full as it was.
LEMMA EnqueueType ==
  ASSUME MapTypeOK, enqueue_reinit_trigger
  PROVE  queue' \in 1..QueueCap
<1>1. queue \in 0..QueueCap /\ QueueCap \in Nat \ {0}
  BY MapUpdaterAssumption DEF MapTypeOK
<1>2. queue' = IF queue + 1 <= QueueCap THEN queue + 1 ELSE QueueCap
  BY <1>1, MinPair DEF enqueue_reinit_trigger
<1> QED BY <1>1, <1>2

LEMMA TriggerReinitInv ==
  ASSUME MapInv, trigger_reinit
  PROVE  MapInv'
<1>1. /\ MapTypeOK /\ GateInv /\ upc = "trigger" /\ upc' = "secret" /\ changed' = FALSE
      /\ (changed /\ enqueue_reinit_trigger) \/ (~changed /\ UNCHANGED queue)
      /\ UNCHANGED <<pub, flaps, cand, hits, done, recent, ready, cool, proxy_map, secret, stale, spc,
                     mode, hs>>
  BY DEF MapInv, trigger_reinit, snapVars, appliedVars
<1>2. GateInv'
  BY <1>1, GateKept
<1>3. queue' \in 0..QueueCap /\ TriggerInv'
  <2>1. CASE changed /\ enqueue_reinit_trigger
    <3>1. queue' \in 1..QueueCap
      BY <1>1, <2>1, EnqueueType
    <3> QED BY <3>1 DEF TriggerInv
  <2>2. CASE ~changed /\ UNCHANGED queue
    BY <1>1, <2>2 DEF TriggerInv, MapInv, MapTypeOK
  <2> QED BY <1>1, <2>1, <2>2
<1> QED BY <1>1, <1>2, <1>3, Zenon DEF MapInv, MapTypeOK, Upcs, PubOK, PairInv

\* The rotation task and the scheduler.
LEMMA SchedulerInv ==
  ASSUME MapInv,
         \/ rotation_tick \/ scheduler_recv \/ scheduler_coalesce \/ scheduler_start \/ cycle_ends
  PROVE  MapInv'
<1>1. /\ MapTypeOK /\ GateInv /\ TriggerInv
      /\ UNCHANGED <<pub, flaps, cand, hits, done, recent, upc, ready, changed, cool, proxy_map, secret,
                     mode, hs>>
  BY DEF MapInv, rotation_tick, scheduler_recv, scheduler_coalesce, scheduler_start, cycle_ends,
         snapVars, updVars, appliedVars
<1>2. GateInv'
  BY <1>1, GateKept
<1>3. /\ queue' \in 0..QueueCap /\ spc' \in {"recv", "coalesce", "run"} /\ stale' \in BOOLEAN
      /\ TriggerInv'
  <2>1. CASE rotation_tick
    <3>1. queue' \in 1..QueueCap /\ UNCHANGED <<spc, stale>>
      BY <1>1, <2>1, EnqueueType DEF rotation_tick, appliedVars
    <3> QED BY <1>1, <3>1 DEF MapTypeOK, TriggerInv
  <2>2. CASE scheduler_recv
    <3>1. queue > 0 /\ queue' = queue - 1 /\ queue' \in 0..QueueCap
      BY <1>1, <2>2, MapUpdaterAssumption, SMTT(30) DEF scheduler_recv, MapTypeOK
    <3>2. CASE spc' = "coalesce" /\ UNCHANGED stale
      BY <1>1, <3>1, <3>2 DEF MapTypeOK, TriggerInv
    <3>3. CASE StartCycle
      BY <1>1, <3>1, <3>3, Zenon DEF StartCycle, TriggerInv
    <3> QED BY <2>2, <3>2, <3>3 DEF scheduler_recv
  <2>3. CASE scheduler_coalesce
    <3>1. queue' \in 0..QueueCap /\ spc' = "coalesce" /\ UNCHANGED stale
      BY <1>1, <2>3, MapUpdaterAssumption DEF scheduler_coalesce, appliedVars, MapTypeOK
    <3> QED BY <1>1, <3>1 DEF MapTypeOK, TriggerInv
  <2>4. CASE scheduler_start
    BY <1>1, <2>4, Zenon DEF scheduler_start, StartCycle, MapTypeOK, TriggerInv
  <2>5. CASE cycle_ends
    BY <1>1, <2>5 DEF cycle_ends, appliedVars, MapTypeOK, TriggerInv
  <2> QED BY <2>1, <2>2, <2>3, <2>4, <2>5
<1> QED BY <1>1, <1>2, <1>3 DEF MapInv, MapTypeOK, PubOK, PairInv

\* The timers, and a handshake.
LEMMA OthersInv ==
  ASSUME MapInv,
         \/ update_tick \/ cooldown_ends \/ handshake_secret \/ handshake_ends
         \/ UNCHANGED mapVars
  PROVE  MapInv'
<1>1. /\ MapTypeOK /\ GateInv /\ TriggerInv /\ PairInv
      /\ UNCHANGED <<pub, flaps, cand, hits, done, recent, ready, changed, proxy_map, secret, stale,
                     queue, spc, mode>>
  BY DEF MapInv, update_tick, cooldown_ends, handshake_secret, handshake_ends, mapVars, snapVars,
         updVars, appliedVars
<1>2. GateInv'
  BY <1>1, GateKept
<1>3. upc' = upc \/ (upc = "idle" /\ upc' = "v4")
  BY DEF update_tick, cooldown_ends, handshake_secret, handshake_ends, mapVars, updVars
<1>4. cool' \in BOOLEAN
  BY <1>1, Zenon DEF update_tick, cooldown_ends, handshake_secret, handshake_ends, mapVars, updVars, MapTypeOK
<1>5. PairInv'
  <2>1. mode.atomic \in BOOLEAN
    BY <1>1, MapUpdaterAssumption DEF PairInv
  <2>2. CASE handshake_secret
    BY <1>1, <2>1, <2>2 DEF handshake_secret, PairInv
  <2>3. CASE handshake_ends
    BY <1>1, <2>3 DEF handshake_ends, PairInv
  <2>4. CASE update_tick \/ cooldown_ends \/ UNCHANGED mapVars
    BY <1>1, <2>4 DEF update_tick, cooldown_ends, mapVars, PairInv
  <2> QED BY <2>2, <2>3, <2>4
<1> QED BY <1>1, <1>2, <1>3, <1>4, <1>5 DEF MapInv, MapTypeOK, Upcs, PubOK, TriggerInv

LEMMA MapInductive == MapInv /\ [MapNext]_mapVars => MapInv'
  BY FetchMapInv, FetchSecretInv, ApplyInv, WriteMapInv, MirrorMapInv, MarkInv, TriggerReinitInv,
     SchedulerInv, OthersInv DEF MapNext, fetch_step, updater_step

LEMMA MapInvariant == MapSpec => []MapInv
  BY MapInitInv, MapInductive, PTL DEF MapSpec

-----------------------------------------------------------------------------

\* The variables keep their types; the queue of triggers never exceeds its
\* capacity.
THEOREM MapTypes == MapSpec => []MapTypeOK
<1>1. MapInv => MapTypeOK
  BY DEF MapInv
<1> QED BY <1>1, MapInvariant, PTL

\* A changed map always has a trigger under way until a cycle starts, however
\* many triggers the full queue drops; and in the atomic mode a handshake never
\* mixes two secrets.
THEOREM ChangeIsSeen == MapSpec => []ChangeSeen
<1>1. ASSUME MapInv PROVE ChangeSeen
  <2>1. MapChangeNotLost
    BY <1>1 DEF MapInv, TriggerInv, MapChangeNotLost
  <2>2. HandshakePair
    BY <1>1 DEF MapInv, PairInv, HandshakePair
  <2> QED BY <2>1, <2>2 DEF ChangeSeen
<1> QED BY <1>1, MapInvariant, PTL

\* Neither a map nor the secret is ever replaced by a value that was not the
\* answer of all the last Required accepted fetches.
THEOREM OnlyStableIsApplied == MapSpec => StableGate
<1> DEFINE Gate ==
      /\ \A f \in Families :
            upc = WriteAt[f] /\ proxy_map'[f] # proxy_map[f] => AllRecent(f, proxy_map'[f])
      /\ secret' # secret => AllRecent("secret", secret)'
<1>1. ASSUME MapInv, [MapNext]_mapVars PROVE [Gate]_mapVars
  <2>1. secret' # secret => AllRecent("secret", secret)'
    <3>1. CASE fetch_secret
      BY <1>1, <3>1, FetchSecretInv
    <3>2. CASE ~fetch_secret
      <4>1. secret' = secret
        BY <1>1, <3>2, Zenon DEF MapNext, fetch_step, updater_step, update_tick, apply_ready, mark_applied, trigger_reinit,
             fetch_map, write_map, mirror_map, cooldown_ends, rotation_tick, scheduler_recv,
             scheduler_coalesce, scheduler_start, cycle_ends, handshake_secret, handshake_ends,
             mapVars, appliedVars
      <4> QED BY <4>1, SMTT(30)
    <3> QED BY <3>1, <3>2
  <2>2. ASSUME NEW f \in Families, upc = WriteAt[f], proxy_map'[f] # proxy_map[f]
        PROVE  AllRecent(f, proxy_map'[f])
    <3>1. upc \in {"write_v4", "write_v6"}
      BY <2>2, SMTT(30) DEF WriteAt, Families
    <3>2. \E g \in Families : write_map(g)
      <4>1. fetch_step \/ updater_step
        BY <1>1, <2>2, Zenon DEF MapNext, update_tick, cooldown_ends, rotation_tick, scheduler_recv,
             scheduler_coalesce, scheduler_start, cycle_ends, handshake_secret, handshake_ends,
             mapVars, appliedVars
      <4>2. ASSUME NEW g \in Families PROVE ~fetch_map(g) /\ ~mirror_map(g)
        BY <3>1 DEF fetch_map, mirror_map, MirrorAt, Families
      <4>3. ~(apply_ready \/ mark_applied \/ trigger_reinit \/ fetch_secret)
        BY <3>1 DEF apply_ready, mark_applied, trigger_reinit, fetch_secret
      <4> QED BY <4>1, <4>2, <4>3, Zenon DEF fetch_step, updater_step
    <3>3. write_map(f)
      BY <2>2, <3>2, SMTT(30) DEF write_map, WriteAt, Families
    <3>4. proxy_map'[f] = ready[f] /\ ready[f] # None
      BY <1>1, <2>2, <3>3, Zenon DEF write_map, Entries, MapInv, MapTypeOK
    <3> QED BY <1>1, <3>4, Zenon DEF MapInv, GateInv
  <2> QED BY <2>1, <2>2
<1> QED BY <1>1, MapInvariant, PTL DEF MapSpec, StableGate
=============================================================================
