------------------------ MODULE MemoryDnsCacheProofs ------------------------
(***************************************************************************)
(* Proofs about the cache for every set of keys, every configuration and    *)
(* every sequence of responses.                                             *)
(***************************************************************************)
EXTENDS CacheEvictionLoop, FiniteSetTheorems, WellFoundedInduction, TLAPS

(* The time limits of the provers, in seconds. *)
USE ZenonT(5), SMTT(60)

IInv == TypeOK /\ OrderTotal /\ CapacityBound

-----------------------------------------------------------------------------
(* A non-empty set of natural numbers has a least element. *)
LEMMA LeastNat ==
    ASSUME NEW S \in SUBSET Nat, S # {}
    PROVE  \E x \in S : \A y \in S : x <= y
  <1> DEFINE R == {p \in Nat \X Nat : p[1] < p[2]}
  <1>1. IsWellFoundedOn(R, Nat)
    BY NatLessThanWellFounded, Zenon DEF OpToRel
  <1>2. PICK x \in S : \A y \in S : ~ (<<y, x>> \in R)
    <2> HIDE DEF R
    <2> QED
      BY <1>1, WFMin, ZenonT(60)
  <1>3. ASSUME NEW y \in S PROVE x <= y
    <2>1. x \in Nat /\ y \in Nat
      OBVIOUS
    <2>2. y < x => <<y, x>> \in R
      BY <2>1
    <2> QED
      BY <1>2, <2>1, <2>2
  <1> QED
    BY <1>3

(* The minimum of a non-empty set of TTLs is one of them. *)
LEMMA MinType ==
    ASSUME NEW S \in SUBSET Nat, S # {}
    PROVE  Min(S) \in S
  BY LeastNat, ZenonT(60) DEF Min

(* _compute_ttl_seconds returns a TTL that is not negative. *)
LEMMA TtlType ==
    ASSUME NEW r \in Responses
    PROVE  compute_ttl_seconds(r) \in Nat
  <1>1. r.rr \in SUBSET Nat /\ r.soa \in Seq(Nat)
    BY ResponsesAssumption DEF Response
  <1>2. r.rr # {} => Min(r.rr) \in Nat
    BY <1>1, MinType
  <1>3. r.soa # <<>> => Head(r.soa) \in Nat
    BY <1>1
  <1> QED
    BY <1>2, <1>3, ConfigAssumption DEF compute_ttl_seconds

(* A new entry is well formed. *)
LEMMA NewEntryType ==
    ASSUME TypeOK, NEW r \in Responses
    PROVE  NewEntry(r) \in CacheEntry
  BY TtlType, ConfigAssumption DEF TypeOK, NewEntry, CacheEntry

(* The clock does not go back between the two readings of a put. *)
LEMMA LaterType ==
    ASSUME NEW t \in Nat, NEW u \in Later(t)
    PROVE  u \in Nat /\ t <= u
  BY ConfigAssumption DEF Later

(* The order of _store after a touch is total again. *)
Total(ord, ks) ==
    /\ ord \subseteq ks \X ks
    /\ \A a \in ks : <<a, a>> \notin ord
    /\ \A a, b \in ks : a # b => <<a, b>> \in ord \/ <<b, a>> \in ord
    /\ \A a, b \in ks : ~(<<a, b>> \in ord /\ <<b, a>> \in ord)
    /\ \A a, b, c \in ks : <<a, b>> \in ord /\ <<b, c>> \in ord => <<a, c>> \in ord

(* _touch puts the key last and keeps the order of the others. *)
LEMMA TouchTotal ==
    ASSUME NEW ks, NEW ord, Total(ord, ks), NEW k,
           NEW new, new = Touch(ord, ks \cup {k}, k)
    PROVE  Total(new, ks \cup {k})
  <1>1. \A a, b \in ks \cup {k} :
          <<a, b>> \in new <=> \/ a # k /\ b # k /\ <<a, b>> \in ord
                               \/ a # k /\ b = k
    BY ZenonT(60) DEF Touch, Total
  <1>2. new \subseteq (ks \cup {k}) \X (ks \cup {k})
    BY DEF Touch, Total
  <1> QED
    BY <1>1, <1>2 DEF Total

(* Dropping the entries of victims leaves the rest in a total order. *)
LEMMA DropTotal ==
    ASSUME NEW ks, NEW ord, Total(ord, ks), NEW victims,
           NEW new, new = {p \in ord : p[1] \notin victims /\ p[2] \notin victims}
    PROVE  Total(new, ks \ victims)
  <1>1. \A a, b \in ks \ victims : <<a, b>> \in new <=> <<a, b>> \in ord
    OBVIOUS
  <1>2. new \subseteq (ks \ victims) \X (ks \ victims)
    BY DEF Total
  <1> QED
    BY <1>1, <1>2 DEF Total

-----------------------------------------------------------------------------
(* A hit keeps the hit counter within _HIT_CAP. *)
LEMMA HitEntryType ==
    ASSUME TypeOK, NEW e \in CacheEntry
    PROVE  HitEntry(e) \in CacheEntry
  <1> DEFINE h == IF e.hits < HIT_CAP THEN e.hits + 1 ELSE HIT_CAP
  <1>1. h \in 0 .. HIT_CAP /\ now \in Nat
    BY ConfigAssumption DEF TypeOK, CacheEntry
  <1>2. HitEntry(e) = [e EXCEPT !.hits = h, !.last_hit_mono = now]
    BY DEF HitEntry
  <1> HIDE DEF h
  <1> QED
    BY <1>1, <1>2, ZenonT(60) DEF CacheEntry

(* A hit moves an entry to the end of the order and keeps everything else. *)
LEMMA HitInv ==
    ASSUME IInv, NEW k \in Keys, store[k] # NoEntry, Hit(k)
    PROVE  IInv'
  <1>1. store[k] \in CacheEntry
    BY DEF IInv, TypeOK
  <1>2. store' \in [Keys -> CacheEntry \cup {NoEntry}]
    BY <1>1, HitEntryType DEF IInv, TypeOK, Hit
  <1>3. store'[k] \in CacheEntry
    BY <1>1, HitEntryType DEF IInv, TypeOK, Hit
  <1>4. Cached' = Cached /\ k \in Cached
    BY <1>3, NoEntryAssumption DEF IInv, TypeOK, Hit, Cached
  <1>5. Total(older', Cached)
    <2>1. Cached \cup {k} = Cached
      BY <1>4
    <2>2. Total(older, Cached)
      BY DEF IInv, OrderTotal, Total
    <2> QED
      BY <2>1, <2>2, TouchTotal DEF Hit
  <1>6. OrderTotal'
    BY <1>4, <1>5 DEF OrderTotal, Total
  <1>7. TypeOK'
    BY <1>2, <1>4, <1>6 DEF IInv, TypeOK, Hit, OrderTotal, Cached
  <1>8. CapacityBound'
    BY <1>4 DEF IInv, CapacityBound
  <1> QED
    BY <1>6, <1>7, <1>8 DEF IInv

(* What a put leaves: the entries that are not victims, at most             *)
(* max_entries of them.                                                     *)
PutResult(k, r, victims) ==
    LET st == [store EXCEPT ![k] = NewEntry(r)]
        ks == Cached \cup {k}
        ord == Touch(older, ks, k)
    IN /\ \A a \in victims, b \in ks \ victims : EvictedBefore(st, ord, now', a, b)
       /\ older' = {p \in ord : p[1] \notin victims /\ p[2] \notin victims}
       /\ now' \in Nat /\ now <= now'
       /\ \A j \in Keys \ {k} : j \notin victims => store'[j] = store[j]
       /\ k \notin victims => store'[k] = NewEntry(r)
       /\ store' \in [Keys -> CacheEntry \cup {NoEntry}]
       /\ Cached' = ks \ victims
       /\ max_entries > 0 => Cardinality(Cached') <= max_entries

(* put adds an entry and evicts down to max_entries. *)
LEMMA PutEffect ==
    ASSUME IInv, NEW k \in Keys, NEW r \in Responses, put(k, r)
    PROVE  \E victims \in SUBSET (Cached \cup {k}) : PutResult(k, r, victims)
  <1> DEFINE st == [store EXCEPT ![k] = NewEntry(r)]
             ks == Cached \cup {k}
             ord == Touch(older, ks, k)
  <1>0. PICK t \in Later(now), victims \in SUBSET ks :
          /\ evict_if_needed(st, ord, ks, t, victims)
          /\ store' = [j \in Keys |-> IF j \in victims THEN NoEntry ELSE st[j]]
          /\ older' = {p \in ord : p[1] \notin victims /\ p[2] \notin victims}
          /\ now' = t
    BY DEF put
  <1>1. st \in [Keys -> CacheEntry \cup {NoEntry}] /\ st[k] = NewEntry(r)
    BY NewEntryType DEF IInv, TypeOK
  <1>2. \A j \in Keys \ {k} : st[j] = store[j]
    BY DEF IInv, TypeOK
  <1> HIDE DEF st
  <1>3. store' \in [Keys -> CacheEntry \cup {NoEntry}]
    BY <1>0, <1>1
  <1>4. Cached' = ks \ victims
    BY <1>0, <1>1, <1>2, NewEntryType, NoEntryAssumption DEF IInv, Cached
  <1>5. IsFiniteSet(ks) /\ Cardinality(ks) \in Nat
    BY KeysAssumption, FS_Subset, FS_CardinalityType DEF Cached
  <1>6. Cardinality(ks \ victims) = Cardinality(ks) - Excess(ks)
    <2>1. IsFiniteSet(victims) /\ ks \cap victims = victims
      BY <1>5, FS_Subset
    <2>2. Cardinality(ks \ victims) = Cardinality(ks) - Cardinality(ks \cap victims)
      BY <1>5, FS_Difference, ZenonT(60)
    <2> QED
      BY <1>0, <2>1, <2>2 DEF evict_if_needed
  <1>7. max_entries > 0 => Cardinality(ks \ victims) <= max_entries
    BY <1>5, <1>6, ConfigAssumption DEF Excess
  <1>8. now' \in Nat /\ now <= now'
    BY <1>0, LaterType DEF IInv, TypeOK
  <1>9. /\ \A j \in Keys \ {k} : j \notin victims => store'[j] = store[j]
        /\ k \notin victims => store'[k] = NewEntry(r)
    BY <1>0, <1>1, <1>2
  <1>10. \A a \in victims, b \in ks \ victims : EvictedBefore(st, ord, now', a, b)
    BY <1>0, ZenonT(60) DEF evict_if_needed
  <1> QED
    BY <1>0, <1>3, <1>4, <1>7, <1>8, <1>9, <1>10, ZenonT(60) DEF PutResult, st

(* put keeps the invariant. *)
LEMMA PutInv ==
    ASSUME IInv, NEW k \in Keys, NEW r \in Responses, put(k, r)
    PROVE  IInv'
  <1> DEFINE ks == Cached \cup {k}
             ord == Touch(older, ks, k)
  <1>1. PICK victims \in SUBSET ks : PutResult(k, r, victims)
    BY PutEffect
  <1>2. /\ store' \in [Keys -> CacheEntry \cup {NoEntry}]
        /\ Cached' = ks \ victims
        /\ max_entries > 0 => Cardinality(Cached') <= max_entries
        /\ older' = {p \in ord : p[1] \notin victims /\ p[2] \notin victims}
        /\ now' \in Nat
    BY <1>1 DEF PutResult
  <1>3. Total(older, Cached)
    BY DEF IInv, OrderTotal, Total
  <1>4. Total(ord, ks)
    BY <1>3, TouchTotal
  <1>5. Total(older', Cached')
    <2> HIDE DEF ord, ks
    <2> QED
      BY <1>2, <1>4, DropTotal, ZenonT(60)
  <1>6. OrderTotal'
    BY <1>5 DEF OrderTotal, Total
  <1>7. TypeOK'
    BY <1>2, <1>6 DEF IInv, TypeOK, OrderTotal, Cached
  <1>8. CapacityBound'
    BY <1>2 DEF CapacityBound
  <1> QED
    BY <1>6, <1>7, <1>8 DEF IInv

(* clear keeps the invariant. *)
LEMMA ClearInv ==
    ASSUME IInv, clear
    PROVE  IInv'
  <1>1. Cached' = {}
    BY DEF clear, Cached
  <1>2. TypeOK' /\ OrderTotal'
    BY <1>1 DEF IInv, TypeOK, OrderTotal, clear
  <1>3. CapacityBound'
    BY <1>1, FS_EmptySet, ConfigAssumption DEF CapacityBound
  <1> QED
    BY <1>2, <1>3 DEF IInv

(* A step that leaves the entries and their order alone keeps the           *)
(* invariant.                                                               *)
LEMMA NoPutInv ==
    ASSUME IInv, UNCHANGED <<store, older>>, now' \in Nat
    PROVE  IInv'
  BY DEF IInv, TypeOK, OrderTotal, CapacityBound, Cached

(* The empty cache satisfies the invariant. *)
LEMMA InitInv == Init => IInv
  <1> SUFFICES ASSUME Init PROVE IInv
    OBVIOUS
  <1>1. Cached = {}
    BY DEF Init, Cached
  <1>2. TypeOK /\ OrderTotal
    BY <1>1 DEF Init, TypeOK, OrderTotal
  <1>3. CapacityBound
    BY <1>1, FS_EmptySet, ConfigAssumption DEF CapacityBound
  <1> QED
    BY <1>2, <1>3 DEF IInv

(* Every operation keeps the invariant. *)
LEMMA StepInv ==
    ASSUME IInv, [Next]_cacheVars
    PROVE  IInv'
  <1>1. ASSUME NEW k \in Keys, get_fresh(k) \/ get_stale(k) PROVE IInv'
    BY <1>1, HitInv DEF get_fresh, get_stale, HasFresh, HasStale
  <1>2. ASSUME NEW k \in Keys, NEW r \in Responses, put(k, r) PROVE IInv'
    BY <1>2, PutInv
  <1>3. CASE clear
    BY <1>3, ClearInv
  <1>4. CASE Tick
    BY <1>4, NoPutInv DEF Tick, IInv, TypeOK
  <1>5. CASE UNCHANGED cacheVars
    BY <1>5, NoPutInv DEF cacheVars, IInv, TypeOK
  <1> QED
    BY <1>1, <1>2, <1>3, <1>4, <1>5 DEF Next

(* The inductive invariant holds in every state. *)
LEMMA Inductive == Spec => []IInv
  <1>1. IInv /\ [Next]_cacheVars => IInv'
    BY StepInv
  <1> QED
    BY <1>1, InitInv, PTL DEF Spec

(* Every entry keeps its shape; hits stay within the cap. *)
THEOREM TypeCorrect == Spec => []TypeOK
  <1>1. IInv => TypeOK
    BY DEF IInv
  <1> QED
    BY <1>1, Inductive, PTL

(* No sequence of puts, hits, clears and ticks leaves more than             *)
(* max_entries entries in _store.                                           *)
THEOREM Bounded == Spec => []CapacityBound
  <1>1. IInv => CapacityBound
    BY DEF IInv
  <1> QED
    BY <1>1, Inductive, PTL

(* _touch and _evict_if_needed keep the entries in one line, so that "least *)
(* recently used" names an entry whenever eviction needs one.               *)
THEOREM Ordered == Spec => []OrderTotal
  <1>1. IInv => OrderTotal
    BY DEF IInv
  <1> QED
    BY <1>1, Inductive, PTL

(* Eviction takes an answer that could still be served only when no entry   *)
(* past stale_until is left.                                                *)
THEOREM EvictsDeadFirst == Spec => ServableOutlivesDead
  <1> DEFINE P(k, j) == /\ store'[k] = NoEntry
                        /\ store'[j] = store[j]
                        /\ ~DeadBy(store[k], now')
                        => ~DeadBy(store[j], now')
  <1>1. ASSUME IInv, [Next]_cacheVars, NEW k \in Cached, NEW j \in Cached,
               store'[k] = NoEntry, store'[j] = store[j], ~DeadBy(store[k], now')
        PROVE  ~DeadBy(store[j], now')
    <2>1. k \in Keys /\ j \in Keys /\ store[k] # NoEntry /\ store[j] # NoEntry
      BY DEF Cached
    <2>2. ASSUME NEW i \in Keys, get_fresh(i) \/ get_stale(i) PROVE FALSE
      <3>1. store[i] \in CacheEntry
        BY <1>1, <2>2 DEF IInv, TypeOK, get_fresh, get_stale, HasFresh, HasStale
      <3>2. HitEntry(store[i]) \in CacheEntry
        BY <1>1, <3>1, HitEntryType DEF IInv
      <3> QED
        BY <1>1, <2>1, <2>2, <3>2, NoEntryAssumption
        DEF get_fresh, get_stale, Hit, IInv, TypeOK
    <2>3. ASSUME NEW i \in Keys, NEW r \in Responses, put(i, r)
          PROVE  ~DeadBy(store[j], now')
      <3> DEFINE st == [store EXCEPT ![i] = NewEntry(r)]
                 ord == Touch(older, Cached \cup {i}, i)
      <3>1. PICK victims \in SUBSET (Cached \cup {i}) : PutResult(i, r, victims)
        BY <1>1, <2>3, PutEffect
      <3>2. k \in victims /\ j \notin victims
        BY <1>1, <2>1, <3>1 DEF PutResult, Cached
      <3>3. EvictedBefore(st, ord, now', k, j)
        BY <3>1, <3>2, ZenonT(60) DEF PutResult
      <3>4. st[j] = store[j]
        BY <1>1, <2>1, <3>1, <3>2 DEF IInv, TypeOK, PutResult
      <3>5. CASE k # i
        <4>1. st[k] = store[k]
          BY <1>1, <2>1, <3>5 DEF IInv, TypeOK
        <4> QED
          BY <1>1, <3>3, <3>4, <4>1 DEF EvictedBefore
      <3>6. CASE k = i
        <4>1. <<k, j>> \notin ord
          BY <2>1, <3>2, <3>6, ZenonT(60) DEF Touch
        <4>2. ~DeadBy(st[j], now')
          BY <3>3, <4>1 DEF EvictedBefore
        <4> QED
          BY <3>4, <4>2
      <3> QED
        BY <3>5, <3>6
    <2>4. CASE clear
      BY <1>1, <2>1, <2>4 DEF clear
    <2>5. CASE Tick \/ UNCHANGED cacheVars
      BY <1>1, <2>1, <2>5 DEF Tick, cacheVars
    <2> QED
      BY <1>1, <2>2, <2>3, <2>4, <2>5 DEF Next
  <1>2. IInv /\ [Next]_cacheVars => [\A k, j \in Cached : P(k, j)]_cacheVars
    BY <1>1
  <1> QED
    BY <1>2, Inductive, PTL DEF Spec, ServableOutlivesDead

-----------------------------------------------------------------------------
(* When an entry was put, and when it was put or served last. *)
PutAt(e) == e.expires_at - compute_ttl_seconds(e.response)
UsedAt(e) == Max({PutAt(e), e.last_hit_mono})

(* No entry was used in the future, so the one used now is the latest. *)
UsedBefore(e) == PutAt(e) <= now /\ e.last_hit_mono <= now
Recency ==
    /\ \A k \in Cached : UsedBefore(store[k])
    /\ OrderIsRecency

(* The maximum of two numbers. *)
LEMMA MaxOfTwo ==
    ASSUME NEW a \in Int, NEW b \in Int
    PROVE  Max({a, b}) = IF a <= b THEN b ELSE a
  <1> DEFINE m == IF a <= b THEN b ELSE a
  <1>1. m \in {a, b} /\ \A y \in {a, b} : m >= y
    OBVIOUS
  <1>2. \A x \in {a, b} : (\A y \in {a, b} : x >= y) => x = m
    OBVIOUS
  <1> QED
    BY <1>1, <1>2 DEF Max

(* An entry was last used when it was put or last hit, whichever is later. *)
LEMMA UseOfEntry ==
    ASSUME NEW e \in CacheEntry
    PROVE  /\ PutAt(e) \in Int /\ e.last_hit_mono \in Int
           /\ UsedAt(e) = IF PutAt(e) <= e.last_hit_mono THEN e.last_hit_mono ELSE PutAt(e)
  <1>1. e.expires_at \in Nat /\ e.response \in Responses /\ e.last_hit_mono \in Nat
    BY DEF CacheEntry
  <1>2. compute_ttl_seconds(e.response) \in Nat
    BY <1>1, TtlType
  <1>3. PutAt(e) \in Int
    BY <1>1, <1>2 DEF PutAt
  <1> QED
    BY <1>1, <1>3, MaxOfTwo DEF UsedAt

(* A hit and a put use the entry now. *)
LEMMA HitIsNow ==
    ASSUME TypeOK, NEW e \in CacheEntry, UsedBefore(e)
    PROVE  UsedBefore(HitEntry(e)) /\ UsedAt(HitEntry(e)) = now
  <1>1. HitEntry(e) \in CacheEntry /\ now \in Nat
    BY HitEntryType DEF TypeOK
  <1>2. /\ HitEntry(e).expires_at = e.expires_at /\ HitEntry(e).response = e.response
        /\ HitEntry(e).last_hit_mono = now
    BY DEF HitEntry, CacheEntry
  <1>3. PutAt(HitEntry(e)) = PutAt(e)
    BY <1>2 DEF PutAt
  <1> QED
    BY <1>1, <1>2, <1>3, UseOfEntry DEF UsedBefore

(* A new entry is used at the present time. *)
LEMMA PutIsNow ==
    ASSUME TypeOK, NEW r \in Responses
    PROVE  UsedBefore(NewEntry(r)) /\ UsedAt(NewEntry(r)) = now
  <1>1. NewEntry(r) \in CacheEntry /\ now \in Nat /\ compute_ttl_seconds(r) \in Nat
    BY NewEntryType, TtlType DEF TypeOK
  <1>2. /\ NewEntry(r).expires_at = now + compute_ttl_seconds(r)
        /\ NewEntry(r).response = r /\ NewEntry(r).last_hit_mono = 0
    BY DEF NewEntry
  <1>3. PutAt(NewEntry(r)) = now
    BY <1>1, <1>2 DEF PutAt
  <1> QED
    BY <1>1, <1>2, <1>3, UseOfEntry DEF UsedBefore

(* A step that uses k now, drops some entries and keeps the others as they   *)
(* are in the order of the touch keeps recency.                              *)
LEMMA UseKeepsRecency ==
    ASSUME IInv, Recency, IInv', now <= now', NEW k,
           k \in Cached' => UsedBefore(store'[k]) /\ UsedAt(store'[k]) = now,
           \A j \in Cached' \ {k} : j \in Cached /\ store'[j] = store[j],
           NEW ks, older' \subseteq Touch(older, ks, k)
    PROVE  Recency'
  <1>1. older' \subseteq Cached' \X Cached' /\ now \in Nat /\ now' \in Nat
    BY DEF IInv, OrderTotal, TypeOK
  <1>2. /\ \A j \in Cached : store[j] \in CacheEntry
        /\ \A j \in Cached' : store'[j] \in CacheEntry
    BY DEF IInv, TypeOK, Cached, CacheEntry
  <1>3. \A j \in Cached' : UsedBefore(store'[j])
    BY DEF Recency
  <1>4. ASSUME NEW p \in older' PROVE UsedAt(store'[p[1]]) <= UsedAt(store'[p[2]])
    <2>1. p[1] \in Cached' /\ p[2] \in Cached'
      BY <1>1
    <2>2. p[1] # k
      BY <1>1, <2>1 DEF Touch, IInv, OrderTotal
    <2>3. p[1] \in Cached /\ store'[p[1]] = store[p[1]]
      BY <2>1, <2>2
    <2>4. CASE p[2] = k
      BY <1>1, <1>2, <2>3, <2>4, UseOfEntry DEF Recency, UsedBefore
    <2>5. CASE p[2] # k
      <3>1. p \in older /\ p[2] \in Cached /\ store'[p[2]] = store[p[2]]
        BY <2>1, <2>2, <2>5 DEF Touch
      <3> QED
        BY <2>3, <3>1 DEF Recency, OrderIsRecency, LastUse, UsedAt, PutAt
    <2> QED
      BY <2>4, <2>5
  <1>5. OrderIsRecency'
    BY <1>4 DEF OrderIsRecency, LastUse, UsedAt, PutAt
  <1>6. \A j \in Cached' : PutAt(store'[j]) <= now' /\ store'[j].last_hit_mono <= now'
    BY <1>1, <1>2, <1>3, UseOfEntry DEF UsedBefore
  <1>7. \A j \in Cached' : UsedBefore(store[j])'
    BY <1>6 DEF UsedBefore, PutAt
  <1> QED
    BY <1>5, <1>7 DEF Recency

(* The front of _store really is the least recently used entry, whatever     *)
(* mixture of hits, puts, evictions and clears came before.                  *)
THEOREM FrontIsLeastRecent == Spec => []OrderIsRecency
  <1>1. Init => Recency
    BY DEF Init, Recency, Cached, OrderIsRecency
  <1>2. ASSUME IInv, Recency, [Next]_cacheVars, IInv' PROVE Recency'
    <2>1. ASSUME NEW k \in Keys, get_fresh(k) \/ get_stale(k) PROVE Recency'
      <3>1. /\ store[k] \in CacheEntry /\ k \in Cached
            /\ store' = [store EXCEPT ![k] = HitEntry(store[k])]
            /\ older' = Touch(older, Cached, k) /\ now' = now
        BY <1>2, <2>1 DEF get_fresh, get_stale, HasFresh, HasStale, Hit, IInv, TypeOK, Cached
      <3>2. store'[k] = HitEntry(store[k]) /\ \A j \in Keys \ {k} : store'[j] = store[j]
        BY <1>2, <3>1 DEF IInv, TypeOK
      <3>3. HitEntry(store[k]) # NoEntry
        BY <1>2, <3>1, HitEntryType, NoEntryAssumption DEF IInv
      <3>4. k \in Cached' /\ \A j \in Cached' \ {k} : j \in Cached /\ store'[j] = store[j]
        BY <2>1, <3>2, <3>3 DEF Cached
      <3>5. UsedBefore(store'[k]) /\ UsedAt(store'[k]) = now
        BY <1>2, <3>1, <3>2, HitIsNow DEF IInv, Recency
      <3>6. now <= now'
        BY <1>2, <3>1 DEF IInv, TypeOK
      <3> QED
        BY <1>2, <3>1, <3>4, <3>5, <3>6, UseKeepsRecency
    <2>2. ASSUME NEW k \in Keys, NEW r \in Responses, put(k, r) PROVE Recency'
      <3> DEFINE ks == Cached \cup {k}
      <3>1. PICK victims \in SUBSET ks : PutResult(k, r, victims)
        BY <1>2, <2>2, PutEffect
      <3>2. /\ older' \subseteq Touch(older, ks, k) /\ now <= now'
            /\ k \notin victims => store'[k] = NewEntry(r)
            /\ Cached' = ks \ victims
            /\ \A j \in Keys \ {k} : j \notin victims => store'[j] = store[j]
        BY <3>1 DEF PutResult
      <3>3. \A j \in Cached' \ {k} : j \in Cached /\ store'[j] = store[j]
        BY <3>2 DEF Cached
      <3>4. k \in Cached' => UsedBefore(store'[k]) /\ UsedAt(store'[k]) = now
        BY <1>2, <3>2, PutIsNow DEF IInv
      <3> QED
        BY <1>2, <3>2, <3>3, <3>4, UseKeepsRecency
    <2>3. CASE clear
      BY <2>3 DEF clear, Recency, Cached, OrderIsRecency
    <2>4. CASE Tick \/ UNCHANGED cacheVars
      <3>1. store' = store /\ older' = older /\ now \in Nat /\ now' \in Nat /\ now <= now'
        BY <1>2, <2>4 DEF Tick, cacheVars, IInv, TypeOK
      <3>2. Cached' = Cached /\ \A j \in Cached : store[j] \in CacheEntry
        BY <1>2, <3>1 DEF Cached, IInv, TypeOK
      <3>3. \A j \in Cached : PutAt(store[j]) <= now' /\ store[j].last_hit_mono <= now'
        BY <1>2, <3>1, <3>2, UseOfEntry DEF Recency, UsedBefore
      <3>4. \A j \in Cached' : UsedBefore(store[j])'
        BY <3>1, <3>2, <3>3 DEF UsedBefore, PutAt
      <3>5. OrderIsRecency'
        BY <1>2, <3>1 DEF Recency, OrderIsRecency, LastUse
      <3> QED
        BY <3>4, <3>5 DEF Recency
    <2> QED
      BY <1>2, <2>1, <2>2, <2>3, <2>4 DEF Next
  <1>3. Recency => OrderIsRecency
    BY DEF Recency
  <1> QED
    BY <1>1, <1>2, <1>3, Inductive, PTL DEF Spec
-----------------------------------------------------------------------------
(* The loops of _evict_if_needed in the middle of a put that found the       *)
(* entries st in the order ord, ks being their keys: what they popped so far *)
(* comes before what they left, and they never popped below max_entries.     *)
(* The scan has popped every dead entry it visited.                          *)
InLoop(st, ord, ks) ==
    /\ Held \subseteq ks
    /\ todo \subseteq Held
    /\ entries = [j \in Keys |-> IF j \in ks \ Held THEN NoEntry ELSE st[j]]
    /\ order = {p \in ord : p[1] \notin ks \ Held /\ p[2] \notin ks \ Held}
    /\ \A a \in ks \ Held, b \in Held : EvictedBefore(st, ord, at, a, b)
    /\ Held = ks \/ (max_entries > 0 /\ Cardinality(Held) >= max_entries)
    /\ \A j \in Held \ todo : ~DeadBy(st[j], at)

InPut(k, r) ==
    LET ks == Cached \cup {k}
    IN InLoop([store EXCEPT ![k] = NewEntry(r)], Touch(older, ks, k), ks)

LoopInv ==
    /\ IInv
    /\ LoopTypeOK
    /\ pc = "idle" => entries = store /\ order = older /\ todo = {}
    /\ pc = "evict" => Held = Cached \cup {key} /\ todo = Held
    /\ pc = "oldest" => todo = {}
    /\ pc # "idle" => \E r \in Responses : InPut(key, r)

(* A finite part of _store that is not empty has a front. *)
LEMMA FrontExists ==
    ASSUME NEW ks, NEW ord, Total(ord, ks),
           NEW S \in SUBSET ks, IsFiniteSet(S), S # {}
    PROVE  \E k \in S : \A j \in S \ {k} : <<k, j>> \in ord
  <1> DEFINE HasFront(Q) == \E k \in Q : \A j \in Q \ {k} : <<k, j>> \in ord
             Bad == {Q \in SUBSET ks : IsFiniteSet(Q) /\ Q # {} /\ ~HasFront(Q)}
             Sizes == {n \in Nat : \E Q \in Bad : n = Cardinality(Q)}
  <1> SUFFICES ASSUME S \in Bad PROVE FALSE
    OBVIOUS
  <1>1. Cardinality(S) \in Sizes
    BY FS_CardinalityType
  <1>2. PICK n \in Sizes : \A m \in Sizes : n <= m
    BY <1>1, LeastNat, ZenonT(60)
  <1>3. PICK Q \in Bad : n = Cardinality(Q)
    OBVIOUS
  <1>4. PICK x \in Q : TRUE
    OBVIOUS
  <1> DEFINE P == Q \ {x}
  <1>5. IsFiniteSet(P) /\ Cardinality(P) = n - 1 /\ Cardinality(P) \in Nat /\ n \in Nat
    BY <1>3, <1>4, FS_RemoveElement, FS_CardinalityType
  <1>6. P # {} => HasFront(P)
    <2> SUFFICES ASSUME P \in Bad PROVE FALSE
      BY <1>5
    <2>1. Cardinality(P) \in Sizes
      BY <1>5, ZenonT(60)
    <2> HIDE DEF Sizes, P
    <2> QED
      BY <1>2, <1>5, <2>1
  <1>7. CASE P = {}
    BY <1>4, <1>7
  <1>8. CASE P # {}
    <2>1. PICK m \in P : \A j \in P \ {m} : <<m, j>> \in ord
      BY <1>6, <1>8
    <2>2. x \in ks /\ m \in ks /\ m # x /\ P \subseteq ks
      BY <1>4, <2>1
    <2>3. <<x, m>> \in ord \/ <<m, x>> \in ord
      BY <2>2 DEF Total
    <2>4. CASE <<m, x>> \in ord
      BY <2>1, <2>4
    <2>5. CASE <<x, m>> \in ord
      <3>1. \A j \in P : <<x, j>> \in ord
        BY <2>1, <2>2, <2>5, ZenonT(60) DEF Total
      <3> QED
        BY <1>4, <3>1
    <2> QED
      BY <2>3, <2>4, <2>5
  <1> QED
    BY <1>7, <1>8

(* A pop removes one entry of _store. *)
LEMMA PopEffect ==
    ASSUME LoopTypeOK, NEW k \in Held, Pop(k)
    PROVE  /\ entries' \in [Keys -> CacheEntry \cup {NoEntry}]
           /\ order' \in SUBSET (Keys \X Keys)
           /\ Held' = Held \ {k}
           /\ IsFiniteSet(Held)
           /\ Cardinality(Held) \in Nat
           /\ Cardinality(Held') = Cardinality(Held) - 1
  <1>1. k \in Keys
    BY DEF Held
  <1>2. entries' \in [Keys -> CacheEntry \cup {NoEntry}] /\ order' \in SUBSET (Keys \X Keys)
    BY ZenonT(60) DEF LoopTypeOK, Pop
  <1>3. Held' = Held \ {k}
    BY <1>1 DEF LoopTypeOK, Pop, Held
  <1>4. IsFiniteSet(Held)
    BY KeysAssumption, FS_Subset DEF Held
  <1> QED
    BY <1>2, <1>3, <1>4, FS_RemoveElement, FS_CardinalityType

(* Popping the entry that is next in the order of eviction keeps the loop's  *)
(* invariant.                                                                *)
LEMMA PopInLoop ==
    ASSUME LoopTypeOK, NEW st, NEW ord, NEW ks, InLoop(st, ord, ks),
           NEW k \in Held, TooMany, Pop(k), at' = at,
           \A b \in Held \ {k} : EvictedBefore(st, ord, at, k, b),
           todo' \subseteq Held \ {k},
           \A j \in (Held \ {k}) \ todo' : ~DeadBy(st[j], at)
    PROVE  InLoop(st, ord, ks)'
  <1>1. /\ Held' = Held \ {k}
        /\ Cardinality(Held) \in Nat
        /\ Cardinality(Held') = Cardinality(Held) - 1
    BY PopEffect
  <1>2. ks \ Held' = (ks \ Held) \cup {k} /\ Held' \subseteq ks
    BY <1>1 DEF InLoop
  <1>3. entries' = [j \in Keys |-> IF j \in ks \ Held' THEN NoEntry ELSE st[j]]
    BY <1>2 DEF InLoop, Pop
  <1>4. order' = {p \in ord : p[1] \notin ks \ Held' /\ p[2] \notin ks \ Held'}
    BY <1>2 DEF InLoop, Pop
  <1>5. \A a \in ks \ Held', b \in Held' : EvictedBefore(st, ord, at, a, b)
    BY <1>1, <1>2 DEF InLoop
  <1>6. max_entries > 0 /\ Cardinality(Held') >= max_entries
    BY <1>1, ConfigAssumption DEF TooMany
  <1>7. \A a, b : EvictedBefore(st, ord, at, a, b)' <=> EvictedBefore(st, ord, at, a, b)
    BY DEF EvictedBefore, DeadBy
  <1> QED
    BY <1>1, <1>2, <1>3, <1>4, <1>5, <1>6, <1>7 DEF InLoop, DeadBy

(* The loop of put(k, r), its parameters given names. *)
IsLoopOf(k, r, st, ord, ks) ==
    /\ st = [store EXCEPT ![k] = NewEntry(r)]
    /\ ks = Cached \cup {k}
    /\ ord = Touch(older, ks, k)
    /\ InLoop(st, ord, ks)

(* While put is running, _store is that of a loop on what put stored.        *)
LEMMA RunningPut ==
    ASSUME LoopInv, pc # "idle"
    PROVE  \E r \in Responses : \E st, ord, ks : IsLoopOf(key, r, st, ord, ks)
  BY ZenonT(60) DEF LoopInv, InPut, IsLoopOf

(* A step inside the loops keeps the invariant if it keeps the loop's part.  *)
LEMMA LoopStepInv ==
    ASSUME LoopInv, UNCHANGED <<cacheVars, key>>, pc # "idle", LoopTypeOK', pc' # "idle",
           pc' = "evict" => Held' = Cached \cup {key} /\ todo' = Held',
           pc' = "oldest" => todo' = {},
           \A st, ord, ks :
              ks = Cached \cup {key} /\ InLoop(st, ord, ks) => InLoop(st, ord, ks)'
    PROVE  LoopInv'
  <1>1. IInv'
    BY NoPutInv DEF LoopInv, LoopTypeOK, TypeOK, cacheVars
  <1>2. PICK r \in Responses : \E st, ord, ks : IsLoopOf(key, r, st, ord, ks)
    BY RunningPut
  <1>3. PICK st, ord, ks : IsLoopOf(key, r, st, ord, ks)
    BY <1>2
  <1>4. InLoop(st, ord, ks)'
    BY <1>3 DEF IsLoopOf
  <1>5. /\ st = [store' EXCEPT ![key'] = NewEntry(r)']
        /\ ks = Cached' \cup {key'}
        /\ ord = Touch(older', ks, key')
    BY <1>3 DEF IsLoopOf, cacheVars, NewEntry, Cached
  <1>6. InPut(key, r)'
    BY <1>4, <1>5 DEF InPut
  <1>7. Cached' = Cached
    BY DEF cacheVars, Cached
  <1> QED
    BY <1>1, <1>6, <1>7 DEF LoopInv

(* A visit of the scan: a live entry stays; a dead one is the first dead     *)
(* entry of the order that is left, since the entries before it are visited. *)
LEMMA ScanInv ==
    ASSUME LoopInv, NEW k \in Keys, scan(k)
    PROVE  LoopInv'
  <1>1. /\ LoopTypeOK /\ pc = "scan" /\ pc' = "scan" /\ TooMany
        /\ UNCHANGED <<cacheVars, key>> /\ at' = at
    BY DEF LoopInv, scan, putVars
  <1>2. k \in todo /\ todo' = todo \ {k} /\ \A j \in todo \ {k} : <<k, j>> \in order
    BY DEF scan, Oldest
  <1>3. CASE DeadBy(entries[k], at)
    <2>1. Pop(k)
      BY <1>3 DEF scan
    <2>2. k \in Held
      BY <1>1, <1>2, RunningPut DEF InLoop, IsLoopOf
    <2>3. LoopTypeOK'
      BY <1>1, <1>2, <2>1, <2>2, PopEffect DEF LoopTypeOK, TypeOK, CacheEntry, cacheVars, Later
    <2>4. ASSUME NEW st, NEW ord, NEW ks, InLoop(st, ord, ks) PROVE InLoop(st, ord, ks)'
      <3>1. todo \subseteq Held /\ order \subseteq ord /\ \A j \in Held \ todo : ~DeadBy(st[j], at)
        BY <2>4 DEF InLoop
      <3>2. DeadBy(st[k], at)
        BY <1>3, <2>2, <2>4 DEF InLoop
      <3>3. \A b \in Held \ {k} : EvictedBefore(st, ord, at, k, b)
        BY <1>2, <3>1, <3>2 DEF EvictedBefore
      <3>4. todo' \subseteq Held \ {k} /\ \A j \in (Held \ {k}) \ todo' : ~DeadBy(st[j], at)
        BY <1>2, <3>1
      <3> QED
        BY <1>1, <2>1, <2>2, <2>4, <3>3, <3>4, PopInLoop
    <2> QED
      BY <1>1, <2>3, <2>4, LoopStepInv
  <1>4. CASE ~DeadBy(entries[k], at)
    <2>1. entries' = entries /\ order' = order
      BY <1>4 DEF scan
    <2>2. LoopTypeOK' /\ Held' = Held
      BY <1>1, <1>2, <2>1 DEF LoopTypeOK, TypeOK, CacheEntry, cacheVars, Held, Later
    <2>3. ASSUME NEW st, NEW ord, NEW ks, InLoop(st, ord, ks) PROVE InLoop(st, ord, ks)'
      <3>1. k \in Held => entries[k] = st[k]
        BY <2>3 DEF InLoop
      <3>2. \A j \in Held \ todo' : ~DeadBy(st[j], at)
        BY <1>2, <1>4, <2>3, <3>1 DEF InLoop
      <3> QED
        BY <1>1, <1>2, <2>1, <2>2, <2>3, <3>2 DEF InLoop, EvictedBefore, DeadBy
    <2> QED
      BY <1>1, <2>2, <2>3, LoopStepInv
  <1> QED
    BY <1>3, <1>4

(* A round of the second loop: no entry is dead any more, so the front of    *)
(* _store is the next victim.                                                *)
LEMMA PopOldestInv ==
    ASSUME LoopInv, NEW k \in Keys, pop_oldest(k)
    PROVE  LoopInv'
  <1>1. /\ LoopTypeOK /\ pc = "oldest" /\ pc' = "oldest" /\ TooMany
        /\ UNCHANGED <<cacheVars, key>> /\ at' = at
        /\ todo = {} /\ todo' = {} /\ Pop(k)
    BY DEF LoopInv, pop_oldest, putVars
  <1>2. k \in Held /\ \A j \in Held \ {k} : <<k, j>> \in order
    BY DEF pop_oldest, Oldest
  <1>3. LoopTypeOK'
    BY <1>1, <1>2, PopEffect DEF LoopTypeOK, TypeOK, CacheEntry, cacheVars, Later
  <1>4. ASSUME NEW st, NEW ord, NEW ks, InLoop(st, ord, ks) PROVE InLoop(st, ord, ks)'
    <2>1. order \subseteq ord /\ \A j \in Held : ~DeadBy(st[j], at)
      BY <1>1, <1>4 DEF InLoop
    <2>2. \A b \in Held \ {k} : EvictedBefore(st, ord, at, k, b)
      BY <1>2, <2>1 DEF EvictedBefore
    <2> QED
      BY <1>1, <1>2, <1>4, <2>1, <2>2, PopInLoop
  <1> QED
    BY <1>1, <1>3, <1>4, LoopStepInv

(* The scan is over. *)
LEMMA ScanEndInv ==
    ASSUME LoopInv, scan_end
    PROVE  LoopInv'
  <1>1. /\ UNCHANGED <<cacheVars, key, at, entries, order, todo>>
        /\ pc = "scan" /\ pc' = "oldest" /\ todo = {}
    BY DEF scan_end
  <1>2. LoopTypeOK'
    BY <1>1 DEF LoopInv, LoopTypeOK, TypeOK, CacheEntry, cacheVars, Later
  <1>3. ASSUME NEW st, NEW ord, NEW ks, InLoop(st, ord, ks) PROVE InLoop(st, ord, ks)'
    BY <1>1, <1>3 DEF InLoop, EvictedBefore, DeadBy, Held, cacheVars
  <1> QED
    BY <1>1, <1>2, <1>3, LoopStepInv

(* The second reading of the clock: nothing has been judged by the first.    *)
LEMMA ReadClockInv ==
    ASSUME LoopInv, read_clock
    PROVE  LoopInv'
  <1>1. /\ UNCHANGED <<cacheVars, key, entries, order, todo>>
        /\ pc = "evict" /\ pc' = "scan" /\ at' \in Later(at)
    BY DEF read_clock
  <1>2. /\ LoopTypeOK /\ now \in Nat /\ now' = now
        /\ Held = Cached \cup {key} /\ todo = Held /\ Held' = Held
    BY <1>1 DEF LoopInv, LoopTypeOK, TypeOK, cacheVars, Held
  <1>3. at \in Nat /\ at' \in Later(now)
    BY <1>1, <1>2, LaterType DEF LoopTypeOK, Later
  <1>4. LoopTypeOK'
    BY <1>1, <1>2, <1>3 DEF LoopTypeOK, TypeOK, CacheEntry, cacheVars, Later
  <1>5. ASSUME NEW st, NEW ord, NEW ks, ks = Cached \cup {key}, InLoop(st, ord, ks)
        PROVE  InLoop(st, ord, ks)'
    BY <1>1, <1>2, <1>5 DEF InLoop
  <1> QED
    BY <1>1, <1>4, <1>5, LoopStepInv

(* put has stored its entry and evicted nothing yet. *)
LEMMA PutStoreInv ==
    ASSUME LoopInv, NEW k \in Keys, NEW r \in Responses, put_store(k, r)
    PROVE  LoopInv'
  <1> DEFINE st == [store EXCEPT ![k] = NewEntry(r)]
             ks == Cached \cup {k}
             ord == Touch(older, ks, k)
  <1>1. /\ UNCHANGED cacheVars
        /\ pc' = "evict" /\ entries' = st /\ order' = ord /\ todo' = ks
        /\ key' = k /\ at' = now
    BY DEF put_store
  <1>2. IInv /\ TypeOK /\ IInv' /\ TypeOK'
    BY <1>1, NoPutInv DEF LoopInv, LoopTypeOK, TypeOK, cacheVars, IInv
  <1>3. NewEntry(r) \in CacheEntry /\ NewEntry(r) # NoEntry
    BY <1>2, NewEntryType, NoEntryAssumption
  <1>4. /\ st \in [Keys -> CacheEntry \cup {NoEntry}]
        /\ ord \in SUBSET (Keys \X Keys) /\ ks \in SUBSET Keys
    BY <1>2, <1>3 DEF TypeOK, Touch, Cached
  <1>5. Held' = ks
    BY <1>1, <1>2, <1>3 DEF Held, Cached, TypeOK
  <1>6. LoopTypeOK'
    <2>1. pc' \in {"idle", "evict", "scan", "oldest"} /\ at' \in Later(now')
      BY <1>1 DEF cacheVars, Later
    <2>2. key' \in IF pc' = "idle" THEN {NoEntry} ELSE Keys
      BY <1>1
    <2> QED
      BY <1>1, <1>2, <1>4, <2>1, <2>2, ZenonT(60) DEF LoopTypeOK
  <1>7. /\ [store' EXCEPT ![key'] = NewEntry(r)'] = st
        /\ Cached' \cup {key'} = ks
        /\ Touch(older', ks, key') = ord
    BY <1>1 DEF cacheVars, NewEntry, Cached
  <1>8. InPut(key, r)'
    <2>1. entries' = [j \in Keys |-> IF j \in ks \ Held' THEN NoEntry ELSE st[j]]
      BY <1>1, <1>4, <1>5, ZenonT(60)
    <2>2. order' = {p \in ord : p[1] \notin ks \ Held' /\ p[2] \notin ks \ Held'}
      BY <1>1, <1>5
    <2> HIDE DEF st, ks, ord
    <2>3. PICK s, o, h : s = st /\ o = ord /\ h = ks
      OBVIOUS
    <2>4. InLoop(s, o, h)'
      BY <1>1, <1>5, <2>1, <2>2, <2>3 DEF InLoop
    <2>5. /\ [store' EXCEPT ![key'] = NewEntry(r)'] = s
          /\ Cached' \cup {key'} = h
          /\ Touch(older', h, key') = o
      BY <1>7, <2>3
    <2> QED
      BY <2>4, <2>5, ZenonT(60) DEF InPut
  <1> QED
    BY <1>1, <1>2, <1>5, <1>6, <1>7, <1>8 DEF LoopInv

(* What is missing from _store when the loops end is the excess. *)
LEMMA LoopsPopExcess ==
    ASSUME NEW st, NEW ord, NEW ks, InLoop(st, ord, ks), IsFiniteSet(ks), ~TooMany
    PROVE  evict_if_needed(st, ord, ks, at, ks \ Held)
  <1>1. /\ Held \subseteq ks
        /\ Held = ks \/ (max_entries > 0 /\ Cardinality(Held) >= max_entries)
        /\ \A a \in ks \ Held, b \in Held : EvictedBefore(st, ord, at, a, b)
    BY DEF InLoop
  <1>2. ks \ (ks \ Held) = Held /\ ks \cap Held = Held
    BY <1>1
  <1>3. /\ Cardinality(ks \ Held) = Cardinality(ks) - Cardinality(Held)
        /\ Cardinality(ks) \in Nat /\ Cardinality(Held) \in Nat
        /\ Cardinality(Held) <= Cardinality(ks)
    <2>1. Cardinality(ks \ Held) = Cardinality(ks) - Cardinality(ks \cap Held)
      BY FS_Difference
    <2>2. IsFiniteSet(Held) /\ Cardinality(Held) <= Cardinality(ks)
      BY <1>1, FS_Subset
    <2> QED
      BY <1>2, <2>1, <2>2, FS_CardinalityType, ZenonT(60)
  <1>4. Cardinality(ks \ Held) = Excess(ks)
    BY <1>1, <1>3, ConfigAssumption DEF TooMany, Excess
  <1> QED
    BY <1>1, <1>2, <1>4 DEF evict_if_needed

(* The return of put is the put of MemoryDnsCache. *)
LEMMA ReturnIsPut ==
    ASSUME LoopInv, put_return
    PROVE  \E k \in Keys, r \in Responses : put(k, r)
  <1>1. /\ pc # "idle" /\ ~TooMany /\ store' = entries /\ older' = order
        /\ now' = at /\ at \in Later(now) /\ key \in Keys
    BY DEF put_return, LoopInv, LoopTypeOK
  <1>2. PICK r \in Responses : InPut(key, r)
    BY <1>1 DEF LoopInv
  <1> DEFINE st == [store EXCEPT ![key] = NewEntry(r)]
             ks == Cached \cup {key}
             ord == Touch(older, ks, key)
             victims == ks \ Held
  <1>3. InLoop(st, ord, ks)
    BY <1>2 DEF InPut
  <1>4. IsFiniteSet(ks)
    BY <1>1, KeysAssumption, FS_Subset DEF Cached
  <1>5. evict_if_needed(st, ord, ks, at, victims)
    <2> HIDE DEF st, ks, ord
    <2> QED
      BY <1>1, <1>3, <1>4, LoopsPopExcess
  <1>6. /\ store' = [j \in Keys |-> IF j \in victims THEN NoEntry ELSE st[j]]
        /\ older' = {p \in ord : p[1] \notin victims /\ p[2] \notin victims}
    BY <1>1, <1>3 DEF InLoop
  <1>7. victims \in SUBSET ks
    OBVIOUS
  <1>8. put(key, r)
    BY <1>1, <1>5, <1>6, <1>7, ZenonT(60) DEF put
  <1> QED
    BY <1>1, <1>8

(* The invariant of the loops holds in every state, and every step outside   *)
(* or inside them is one of MemoryDnsCache or invisible to it.               *)
LEMMA LoopInductive ==
    /\ LoopInit => LoopInv
    /\ LoopInv /\ [LoopNext]_loopVars => LoopInv' /\ [Next]_cacheVars
  <1>1. LoopInit => LoopInv
    <2> SUFFICES ASSUME LoopInit PROVE LoopInv
      OBVIOUS
    <2>1. IInv
      BY InitInv DEF LoopInit
    <2> QED
      BY <2>1 DEF LoopInit, LoopInv, LoopTypeOK, IInv, TypeOK, Later
  <1>2. ASSUME LoopInv, [LoopNext]_loopVars PROVE LoopInv' /\ [Next]_cacheVars
    <2>1. CASE OneStep
      <3>1. /\ Next /\ pc = "idle" /\ pc' = pc /\ todo' = todo /\ key' = key /\ at' = now'
            /\ entries' = store' /\ order' = older'
        BY <2>1 DEF OneStep, Next
      <3>2. IInv'
        BY <1>2, <3>1, StepInv DEF LoopInv
      <3> QED
        BY <1>2, <3>1, <3>2 DEF LoopInv, LoopTypeOK, IInv, TypeOK, CacheEntry, Later
    <2>2. ASSUME NEW k \in Keys, NEW r \in Responses, put_store(k, r)
          PROVE  LoopInv' /\ [Next]_cacheVars
      BY <1>2, <2>2, PutStoreInv, ZenonT(60) DEF put_store
    <2>3. ASSUME NEW k \in Keys, scan(k) PROVE LoopInv' /\ [Next]_cacheVars
      BY <1>2, <2>3, ScanInv DEF scan
    <2>4. ASSUME NEW k \in Keys, pop_oldest(k) PROVE LoopInv' /\ [Next]_cacheVars
      BY <1>2, <2>4, PopOldestInv DEF pop_oldest
    <2>5. CASE scan_end
      BY <1>2, <2>5, ScanEndInv DEF scan_end
    <2>8. CASE read_clock
      BY <1>2, <2>8, ReadClockInv DEF read_clock
    <2>6. CASE put_return
      <3>1. Next
        BY <1>2, <2>6, ReturnIsPut DEF Next
      <3>2. IInv'
        BY <1>2, <3>1, StepInv DEF LoopInv
      <3> QED
        BY <1>2, <2>6, <3>1, <3>2
        DEF LoopInv, LoopTypeOK, IInv, TypeOK, CacheEntry, put_return, Later
    <2>7. CASE UNCHANGED loopVars
      <3>1. UNCHANGED <<cacheVars, key>> /\ at' = at
        BY <2>7 DEF loopVars, putVars
      <3>2. IInv'
        BY <1>2, <3>1, StepInv DEF LoopInv
      <3>3. LoopTypeOK'
        BY <1>2, <2>7
        DEF loopVars, putVars, cacheVars, LoopInv, LoopTypeOK, TypeOK, CacheEntry, Later
      <3>4. CASE pc = "idle"
        <4>1. entries = store /\ order = older /\ todo = {}
          BY <1>2, <3>4 DEF LoopInv
        <4>2. pc' = "idle" /\ entries' = store' /\ order' = older' /\ todo' = {}
          BY <2>7, <3>4, <4>1 DEF loopVars, putVars, cacheVars
        <4> QED
          BY <3>1, <3>2, <3>3, <4>2 DEF LoopInv
      <3>5. CASE pc # "idle"
        <4>1. ASSUME NEW st, NEW ord, NEW ks, InLoop(st, ord, ks)
              PROVE  InLoop(st, ord, ks)'
          BY <2>7, <3>1, <4>1 DEF loopVars, InLoop, EvictedBefore, DeadBy, Held
        <4>2. pc' = pc /\ todo' = todo /\ Held' = Held
          BY <2>7 DEF loopVars, putVars, Held
        <4> QED
          BY <1>2, <3>1, <3>3, <3>5, <4>1, <4>2, LoopStepInv DEF LoopInv
      <3> QED
        BY <3>1, <3>4, <3>5
    <2> QED
      BY <1>2, <2>1, <2>2, <2>3, <2>4, <2>5, <2>6, <2>7, <2>8 DEF LoopNext
  <1> QED
    BY <1>1, <1>2

(* The loops of _evict_if_needed, popping one entry at a time in place, are  *)
(* the eviction that MemoryDnsCache states by the order of its victims.      *)
THEOREM LoopsAreEviction == LoopSpec => LoopsImplementPut
  <1>1. LoopInit => Init
    BY DEF LoopInit
  <1> QED
    BY <1>1, LoopInductive, PTL DEF LoopSpec, LoopsImplementPut, Spec

-----------------------------------------------------------------------------
(* While put is running, what is left of _store is in a total order. *)
LEMMA LoopOrderTotal ==
    ASSUME LoopInv, pc # "idle"
    PROVE  Total(order, Held) /\ todo \subseteq Held
  <1>1. PICK r \in Responses : \E st, ord, ks : IsLoopOf(key, r, st, ord, ks)
    BY RunningPut
  <1>2. PICK st, ord, ks : IsLoopOf(key, r, st, ord, ks)
    BY <1>1
  <1>3. Total(older, Cached)
    BY DEF LoopInv, IInv, OrderTotal, Total
  <1>4. Total(ord, ks)
    BY <1>2, <1>3, TouchTotal DEF IsLoopOf
  <1>5. /\ todo \subseteq Held /\ ks \ (ks \ Held) = Held
        /\ order = {p \in ord : p[1] \notin ks \ Held /\ p[2] \notin ks \ Held}
    BY <1>2 DEF IsLoopOf, InLoop
  <1>6. Total(order, ks \ (ks \ Held))
    BY <1>4, <1>5, DropTotal, ZenonT(60)
  <1> QED
    BY <1>5, <1>6

(* put never evicts the answer it stored while that could be served: the     *)
(* scan pops dead entries only, and the second loop finds an older entry as  *)
(* long as there are too many.                                               *)
THEOREM KeepsWhatIsPut == LoopSpec => PutIsKept
  <1>1. ASSUME LoopInv, LoopNext, pc # "idle", entries[key] # NoEntry, entries'[key] = NoEntry
        PROVE  DeadBy(entries[key], at)
    <2>1. key \in Keys /\ entries \in [Keys -> CacheEntry \cup {NoEntry}]
      BY <1>1 DEF LoopInv, LoopTypeOK
    <2>2. ASSUME NEW k \in Keys, scan(k) PROVE DeadBy(entries[key], at)
      BY <1>1, <2>1, <2>2 DEF scan, Pop
    <2>3. ASSUME NEW k \in Keys, pop_oldest(k) PROVE FALSE
      <3>1. /\ k = key /\ TooMany /\ k \in Held
            /\ \A j \in Held \ {k} : <<k, j>> \in order
        BY <1>1, <2>1, <2>3 DEF pop_oldest, Pop, Oldest
      <3>2. \A j : <<key, j>> \notin order
        <4>1. PICK r \in Responses : \E st, ord, ks : IsLoopOf(key, r, st, ord, ks)
          BY <1>1, RunningPut
        <4>2. PICK st, ord, ks : IsLoopOf(key, r, st, ord, ks)
          BY <4>1
        <4>3. order \subseteq Touch(older, ks, key)
          BY <4>2 DEF IsLoopOf, InLoop
        <4> QED
          BY <4>3 DEF Touch
      <3>3. Held = {key}
        BY <3>1, <3>2
      <3>4. Cardinality(Held) = 1
        BY <3>3, FS_Singleton, ZenonT(60)
      <3> QED
        BY <3>1, <3>4, ConfigAssumption DEF TooMany
    <2> QED
      BY <1>1, <2>2, <2>3
      DEF LoopNext, OneStep, put_store, read_clock, scan_end, put_return
  <1>2. LoopInv /\ [LoopNext]_loopVars =>
          [pc # "idle" /\ entries[key] # NoEntry /\ entries'[key] = NoEntry
             => DeadBy(entries[key], at)]_loopVars
    BY <1>1
  <1> QED
    BY <1>2, LoopInductive, PTL DEF LoopSpec, PutIsKept

(* put is never stuck between its steps: it can return, or leave the scan,   *)
(* or there is an entry to visit or to pop.                                  *)
LoopsCanGoOn ==
    pc # "idle" =>
      \/ ~TooMany
      \/ pc = "evict"
      \/ pc = "scan" /\ (todo = {} \/ \E k \in Keys : Oldest(todo, k))
      \/ pc = "oldest" /\ \E k \in Keys : Oldest(Held, k)

(* _store always has a front to pop while it holds too many entries, so      *)
(* popitem never meets an empty dictionary and the scan never stops early.   *)
THEOREM PutIsNeverStuck == LoopSpec => []LoopsCanGoOn
  <1>1. LoopInv => LoopsCanGoOn
    <2> SUFFICES ASSUME LoopInv, pc # "idle", TooMany PROVE LoopsCanGoOn
      BY DEF LoopsCanGoOn
    <2>1. Total(order, Held) /\ todo \subseteq Held /\ Held \subseteq Keys
      BY LoopOrderTotal DEF Held
    <2>2. IsFiniteSet(Held) /\ IsFiniteSet(todo)
      BY <2>1, KeysAssumption, FS_Subset
    <2>3. Held # {}
      BY FS_EmptySet, ConfigAssumption DEF TooMany
    <2>4. \E k \in Keys : Oldest(Held, k)
      BY <2>1, <2>2, <2>3, FrontExists DEF Oldest
    <2>5. todo = {} \/ \E k \in Keys : Oldest(todo, k)
      BY <2>1, <2>2, FrontExists DEF Oldest
    <2>6. pc \in {"evict", "scan", "oldest"}
      BY DEF LoopInv, LoopTypeOK
    <2> QED
      BY <2>4, <2>5, <2>6 DEF LoopsCanGoOn
  <1> QED
    BY <1>1, LoopInductive, PTL DEF LoopSpec

(* What put has still to do: entries to visit, entries to pop, and a loop.   *)
Work ==
    Cardinality(Held) + Cardinality(todo) +
    (IF pc = "evict" THEN 2 ELSE IF pc = "scan" THEN 1 ELSE 0)
LoopsAdvance == [][pc # "idle" /\ pc' # "idle" => Work' < Work]_loopVars

(* Every round of the loops of put shortens what is left to do, so that put, *)
(* which is never stuck, returns after finitely many rounds.                 *)
THEOREM PutAdvances == LoopSpec => LoopsAdvance
  <1>1. ASSUME LoopInv, LoopNext, pc # "idle", pc' # "idle" PROVE Work' < Work
    <2>1. LoopTypeOK /\ todo \subseteq Held /\ Held \subseteq Keys
      BY <1>1, LoopOrderTotal DEF LoopInv, Held
    <2>2. /\ IsFiniteSet(Held) /\ IsFiniteSet(todo)
          /\ Cardinality(Held) \in Nat /\ Cardinality(todo) \in Nat
      BY <2>1, KeysAssumption, FS_Subset, FS_CardinalityType
    <2>3. ASSUME NEW k \in Keys, scan(k) PROVE Work' < Work
      <3>1. k \in todo /\ todo' = todo \ {k} /\ pc = "scan" /\ pc' = "scan"
        BY <2>3 DEF scan, Oldest, putVars
      <3>2. Cardinality(todo') = Cardinality(todo) - 1
        BY <2>2, <3>1, FS_RemoveElement, ZenonT(60)
      <3>3. Cardinality(Held') \in Nat /\ Cardinality(Held') <= Cardinality(Held)
        <4>1. CASE Pop(k)
          <5>1. Cardinality(Held') = Cardinality(Held) - 1 /\ Held' = Held \ {k}
            BY <2>1, <3>1, <4>1, PopEffect
          <5>2. IsFiniteSet(Held')
            BY <2>2, <5>1, FS_RemoveElement
          <5> QED
            BY <2>2, <5>1, <5>2, FS_CardinalityType
        <4>2. CASE UNCHANGED <<entries, order>>
          BY <2>2, <4>2 DEF Held
        <4> QED
          BY <2>3, <4>1, <4>2 DEF scan
      <3> QED
        BY <2>2, <3>1, <3>2, <3>3 DEF Work
    <2>4. ASSUME NEW k \in Keys, pop_oldest(k) PROVE Work' < Work
      <3>1. k \in Held /\ Pop(k) /\ todo' = todo /\ pc' = pc /\ pc = "oldest"
        BY <2>4 DEF pop_oldest, Oldest, putVars
      <3>2. Cardinality(Held') = Cardinality(Held) - 1
        BY <2>1, <3>1, PopEffect
      <3> QED
        BY <2>2, <3>1, <3>2 DEF Work
    <2>5. CASE scan_end
      <3>1. Held' = Held /\ todo' = todo /\ pc = "scan" /\ pc' = "oldest"
        BY <2>5 DEF scan_end, Held
      <3> QED
        BY <2>2, <3>1 DEF Work
    <2>6. CASE read_clock
      <3>1. Held' = Held /\ todo' = todo /\ pc = "evict" /\ pc' = "scan"
        BY <2>6 DEF read_clock, Held
      <3> QED
        BY <2>2, <3>1 DEF Work
    <2> QED
      BY <1>1, <2>3, <2>4, <2>5, <2>6, ZenonT(60) DEF LoopNext, OneStep, put_store, put_return
  <1>2. LoopInv /\ [LoopNext]_loopVars =>
          [pc # "idle" /\ pc' # "idle" => Work' < Work]_loopVars
    BY <1>1
  <1> QED
    BY <1>2, LoopInductive, PTL DEF LoopSpec, LoopsAdvance

-----------------------------------------------------------------------------
(* The order and the number of the victims leave no choice: what put evicts  *)
(* is determined by the cache, the key, the response and the time.           *)
THEOREM VictimsAreDetermined ==
    ASSUME IInv, NEW k \in Keys, NEW st, NEW ks, ks = Cached \cup {k},
           NEW ord, ord = Touch(older, ks, k), NEW t,
           NEW v \in SUBSET ks, evict_if_needed(st, ord, ks, t, v),
           NEW w \in SUBSET ks, evict_if_needed(st, ord, ks, t, w)
    PROVE  v = w
  <1>1. Total(ord, ks)
    <2>1. Total(older, Cached)
      BY DEF IInv, OrderTotal, Total
    <2> QED
      BY <2>1, TouchTotal
  <1>2. IsFiniteSet(v) /\ IsFiniteSet(w) /\ Cardinality(v) = Cardinality(w)
    <2>1. IsFiniteSet(ks)
      BY KeysAssumption, FS_Subset DEF Cached
    <2> QED
      BY <2>1, FS_Subset DEF evict_if_needed
  <1>3. ASSUME NEW a \in v \ w, NEW b \in w \ v PROVE FALSE
    <2>1. EvictedBefore(st, ord, t, a, b) /\ EvictedBefore(st, ord, t, b, a)
      BY <1>3 DEF evict_if_needed
    <2>2. a \in ks /\ b \in ks
      BY <1>3
    <2> QED
      BY <1>1, <2>1, <2>2 DEF EvictedBefore, Total
  <1>4. v \subseteq w \/ w \subseteq v
    BY <1>3
  <1> QED
    BY <1>2, <1>4, FS_Subset
=============================================================================
