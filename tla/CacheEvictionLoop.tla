-------------------------- MODULE CacheEvictionLoop --------------------------
(***************************************************************************)
(* put and _evict_if_needed of the cache, one round of a loop at a time.    *)
(* MemoryDnsCache says which entries an eviction removes by their order;    *)
(* here the two loops of the code remove them one by one, in place.         *)
(*                                                                         *)
(* put does not await, so nobody looks at _store before put returns: store  *)
(* and older are what the other operations find, entries and order are      *)
(* _store itself, also in the middle of a put.                              *)
(***************************************************************************)
EXTENDS MemoryDnsCache

VARIABLES
    pc,         \* where put is: "idle", about to "evict", in the "scan" or in
                \* the "oldest" loop
    key,        \* the key put has stored, NoEntry when put is not running
    at,         \* the last value that put has read from the clock
    entries,    \* _store, as put works on it
    order,      \* its order
    todo        \* what the scan has not visited of list(_store.items())

putVars == <<pc, key, at>>
loopVars == <<cacheVars, putVars, entries, order, todo>>

LoopTypeOK ==
    /\ TypeOK
    /\ pc \in {"idle", "evict", "scan", "oldest"}
    /\ key \in IF pc = "idle" THEN {NoEntry} ELSE Keys
    /\ at \in Later(now)
    /\ entries \in [Keys -> CacheEntry \cup {NoEntry}]
    /\ order \in SUBSET (Keys \X Keys)
    /\ todo \in SUBSET Keys

LoopInit ==
    /\ Init
    /\ pc = "idle"
    /\ key = NoEntry
    /\ at = now
    /\ entries = store
    /\ order = older
    /\ todo = {}

-----------------------------------------------------------------------------
Held == {k \in Keys : entries[k] # NoEntry}

(* len(_store) > max_entries, where there is a maximum *)
TooManyButOne == max_entries > 0 /\ Cardinality(Held) > max_entries + 1
TooMany == max_entries > 0 /\ Cardinality(Held) > max_entries

(* The first and the last key of ks in the order of _store. *)
Newest(ks, k) == k \in ks /\ \A j \in ks \ {k} : <<j, k>> \in order
Oldest(ks, k) == k \in ks /\ \A j \in ks \ {k} : <<k, j>> \in order

Pop(k) ==
    /\ entries' = [entries EXCEPT ![k] = NoEntry]
    /\ order' = {p \in order : p[1] # k /\ p[2] # k}

(* put stores the new entry and calls _evict_if_needed. *)
put_store(k, r) ==
    /\ pc = "idle"
    /\ pc' = "evict"
    /\ key' = k
    /\ at' = now
    /\ entries' = [store EXCEPT ![k] = NewEntry(r)]
    /\ order' = Touch(older, Cached \cup {k}, k)
    /\ todo' = Cached \cup {k}
    /\ UNCHANGED cacheVars

(* _evict_if_needed has to evict and reads the clock again. *)
read_clock ==
    /\ pc = "evict" /\ TooMany
    /\ pc' = "scan"
    /\ at' \in Later(at)
    /\ UNCHANGED <<cacheVars, key, entries, order, todo>>

(* for key, entry in list(_store.items()): pop the entry when it is dead *)
ScanWithoutPop(k) ==
    /\ pc = "scan" /\ TooMany
    /\ Oldest(todo, k)
    /\ todo' = todo \ {k}
    /\ UNCHANGED <<cacheVars, putVars, entries, order>>
scan(k) ==
    /\ pc = "scan" /\ TooMany
    /\ Oldest(todo, k)
    /\ todo' = todo \ {k}
    /\ IF DeadBy(entries[k], at) THEN Pop(k) ELSE UNCHANGED <<entries, order>>
    /\ UNCHANGED <<cacheVars, putVars>>

scan_end ==
    /\ pc = "scan" /\ todo = {}
    /\ pc' = "oldest"
    /\ UNCHANGED <<cacheVars, key, at, entries, order, todo>>

(* while len(_store) > max_entries: popitem(last=False) *)
pop_oldest(k) ==
    /\ pc = "oldest" /\ TooMany
    /\ Oldest(Held, k)
    /\ Pop(k)
    /\ UNCHANGED <<cacheVars, putVars, todo>>

(* The early returns of _evict_if_needed, and the end of its second loop. *)
put_return ==
    /\ pc # "idle" /\ ~TooMany
    /\ pc' = "idle"
    /\ key' = NoEntry
    /\ now' = at
    /\ store' = entries
    /\ older' = order
    /\ todo' = {}
    /\ UNCHANGED <<at, entries, order>>

(* The operations without a loop. *)
OneStep ==
    /\ pc = "idle"
    /\ (\E k \in Keys : get_fresh(k) \/ get_stale(k)) \/ clear \/ Tick
    /\ entries' = store'
    /\ order' = older'
    /\ at' = now'
    /\ UNCHANGED <<pc, key, todo>>

LoopNext ==
    \/ OneStep
    \/ \E k \in Keys, r \in Responses : put_store(k, r)
    \/ \E k \in Keys : scan(k) \/ pop_oldest(k)
    \/ read_clock
    \/ scan_end
    \/ put_return

LoopSpec == LoopInit /\ [][LoopNext]_loopVars

-----------------------------------------------------------------------------
(* The loops of _evict_if_needed do what MemoryDnsCache says of put: they    *)
(* stop at max_entries, and what they popped is every dead entry before any  *)
(* other, and the least recently used before the more recently used.         *)
LoopsImplementPut == Spec

(* An answer that was just stored is not the victim of its own put, however *)
(* many entries go: only if it is past its window already when the eviction  *)
(* reads the clock.                                                          *)
PutIsKept ==
    [][pc # "idle" /\ entries[key] # NoEntry /\ entries'[key] = NoEntry
         => DeadBy(entries[key], at)]_loopVars
=============================================================================
