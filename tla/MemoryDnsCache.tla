--------------------------- MODULE MemoryDnsCache ---------------------------
(***************************************************************************)
(* The in-memory DNS cache (src/resilientdns/cache/memory.py).              *)
(*                                                                         *)
(* _store is an OrderedDict.  Its content is the function store, and its    *)
(* order is the relation older: <<a, b>> \in older when a comes before b,   *)
(* that is when a was used less recently than b.                            *)
(*                                                                         *)
(* Time is a monotonic clock in whole seconds.  A lookup reads it once, put *)
(* twice: for the new entry, and again when it has to evict.  Time may have *)
(* passed in between, and now is the last reading.                          *)
(***************************************************************************)
EXTENDS Naturals, Sequences, FiniteSets, FiniteSetsExt

CONSTANTS
    Keys,               \* cache keys (qname, qtype, qclass)
    Responses,          \* the DNS responses that may be put, see Response
    NoEntry,            \* "_store.get(key) is None"
    serve_stale_max_s,  \* CacheConfig
    negative_ttl_s,
    max_entries,
    HIT_CAP,            \* _HIT_CAP
    MaxTime             \* bound on the clock, for TLC

(* What the cache looks at in a DNSRecord: the response code, the TTLs of  *)
(* the answer section and the minimums of the SOA records of the authority *)
(* section.                                                                *)
NOERROR == 0
Response == [rcode : Nat, rr : SUBSET Nat, soa : Seq(Nat)]

CacheEntry ==
    [response : Responses, expires_at : Nat, stale_until : Nat,
     hits : 0 .. HIT_CAP, last_hit_mono : Nat]

ASSUME KeysAssumption == IsFiniteSet(Keys)
ASSUME ResponsesAssumption == Responses \subseteq Response
ASSUME ConfigAssumption ==
    /\ serve_stale_max_s \in Nat
    /\ negative_ttl_s \in Nat
    /\ max_entries \in Nat
    /\ HIT_CAP \in Nat
    /\ MaxTime \in Nat
ASSUME NoEntryAssumption == NoEntry \notin CacheEntry

VARIABLES
    now,        \* time.monotonic()
    store,      \* the entries of MemoryDnsCache._store
    older       \* the order of MemoryDnsCache._store, least recently used first

cacheVars == <<now, store, older>>

TypeOK ==
    /\ now \in Nat
    /\ store \in [Keys -> CacheEntry \cup {NoEntry}]
    /\ older \in SUBSET (Keys \X Keys)

(* The clock is past 0, the value of last_hit_mono that means "never". *)
Init ==
    /\ now = 1
    /\ store = [k \in Keys |-> NoEntry]
    /\ older = {}

Cached == {k \in Keys : store[k] # NoEntry}

-----------------------------------------------------------------------------
(* The freshness tests of get_fresh, get_stale and _evict_if_needed. *)
Fresh(e) == now <= e.expires_at
Stale(e) == e.expires_at < now /\ now <= e.stale_until
DeadBy(e, t) == t > e.stale_until

HasFresh(k) == store[k] # NoEntry /\ Fresh(store[k])
HasStale(k) == store[k] # NoEntry /\ Stale(store[k])

(* _touch: k becomes the most recently used of the keys in ks. *)
TouchFirst(ord, ks, k) ==
    {p \in ord : p[1] # k /\ p[2] # k} \cup {<<k, j>> : j \in ks \ {k}}
Touch(ord, ks, k) ==
    {p \in ord : p[1] # k /\ p[2] # k} \cup {<<j, k>> : j \in ks \ {k}}

(* A hit of get_fresh or get_stale. *)
HitEntry(e) ==
    [e EXCEPT !.hits = IF @ < HIT_CAP THEN @ + 1 ELSE HIT_CAP, !.last_hit_mono = now]

HitWithoutTouch(k) ==
    /\ store' = [store EXCEPT ![k] = HitEntry(store[k])]
    /\ UNCHANGED <<now, older>>
Hit(k) ==
    /\ store' = [store EXCEPT ![k] = HitEntry(store[k])]
    /\ older' = Touch(older, Cached, k)
    /\ now' = now

get_fresh(k) == HasFresh(k) /\ Hit(k)
get_stale(k) == HasStale(k) /\ Hit(k)

(* _compute_ttl_seconds *)
compute_ttl_seconds(r) ==
    IF r.rcode = NOERROR /\ r.rr # {} THEN Min(r.rr)
    ELSE IF r.soa # <<>> THEN Head(r.soa)
    ELSE negative_ttl_s

NewEntry(r) ==
    LET expires_at == now + compute_ttl_seconds(r) IN
    [response |-> r, expires_at |-> expires_at,
     stale_until |-> expires_at + serve_stale_max_s,
     hits |-> 0, last_hit_mono |-> 0]

(* _evict_if_needed at time t on the entries st in the order ord: the first *)
(* loop pops dead entries, the second one pops from the front, both only as *)
(* long as there are too many.  So a precedes b among the victims when only *)
(* a is dead, or when neither or both are and a was used less recently.     *)
EvictedBefore(st, ord, t, a, b) ==
    \/ DeadBy(st[a], t) /\ ~DeadBy(st[b], t)
    \/ (DeadBy(st[a], t) <=> DeadBy(st[b], t)) /\ <<a, b>> \in ord

Excess(ks) ==
    IF max_entries = 0 \/ Cardinality(ks) <= max_entries
    THEN 0 ELSE Cardinality(ks) - max_entries

evict_if_needed(st, ord, ks, t, victims) ==
    /\ Cardinality(victims) = Excess(ks)
    /\ \A a \in victims, b \in ks \ victims : EvictedBefore(st, ord, t, a, b)

(* What a later reading of a clock that read t may be. *)
Later(t) == {t} \cup t .. MaxTime

put(k, r) ==
    LET st == [store EXCEPT ![k] = NewEntry(r)]
        ks == Cached \cup {k}
        ord == Touch(older, ks, k)
    IN \E t \in Later(now), victims \in SUBSET ks :
         /\ evict_if_needed(st, ord, ks, t, victims)
         /\ store' = [j \in Keys |-> IF j \in victims THEN NoEntry ELSE st[j]]
         /\ older' = {p \in ord : p[1] \notin victims /\ p[2] \notin victims}
         /\ now' = t

(* clear, on SIGHUP *)
clear ==
    /\ store' = [k \in Keys |-> NoEntry]
    /\ older' = {}
    /\ now' = now

Tick ==
    /\ now < MaxTime
    /\ now' = now + 1
    /\ UNCHANGED <<store, older>>

-----------------------------------------------------------------------------
Next ==
    \/ \E k \in Keys : get_fresh(k) \/ get_stale(k)
    \/ \E k \in Keys, r \in Responses : put(k, r)
    \/ clear
    \/ Tick

Spec == Init /\ [][Next]_cacheVars

-----------------------------------------------------------------------------
(* "The cache can be bounded by max_entries (0 = unlimited)": every put     *)
(* leaves at most max_entries entries (docs/architecture.md:28).            *)
CapacityBound == max_entries > 0 => Cardinality(Cached) <= max_entries

(* The order of _store is a strict total order of the entries. *)
OrderTotal ==
    /\ older \subseteq Cached \X Cached
    /\ \A a \in Cached : <<a, a>> \notin older
    /\ \A a, b \in Cached : a # b => <<a, b>> \in older \/ <<b, a>> \in older
    /\ \A a, b \in Cached : ~(<<a, b>> \in older /\ <<b, a>> \in older)
    /\ \A a, b, c \in Cached :
         <<a, b>> \in older /\ <<b, c>> \in older => <<a, c>> \in older

(* The order of _store really is the order of use: a key that comes before *)
(* another one was put or served no later.  A read path that forgets to    *)
(* touch, or a touch of the wrong end, shows after a few steps only.       *)
LastUse(k) ==
    LET put_at == store[k].expires_at - compute_ttl_seconds(store[k].response)
    IN Max({put_at, store[k].last_hit_mono})
OrderIsRecency == \A p \in older : LastUse(p[1]) <= LastUse(p[2])

(* Eviction never gives up an answer that could still be served while it   *)
(* keeps one that could not: "fully expired entries (past stale_until) are *)
(* removed first" (docs/architecture.md:29).  It is the time of the        *)
(* eviction that counts, not the one of the put it is part of.             *)
ServableOutlivesDead ==
    [][\A k, j \in Cached :
         /\ store'[k] = NoEntry
         /\ store'[j] = store[j]
         /\ ~DeadBy(store[k], now')
         => ~DeadBy(store[j], now')]_cacheVars
=============================================================================
