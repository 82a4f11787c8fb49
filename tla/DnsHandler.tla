----------------------------- MODULE DnsHandler -----------------------------
(***************************************************************************)
(* The request handler (src/resilientdns/dns/handler.py) with the cache and *)
(* the two uses of SingleFlight: one flight per key that resolves a miss or *)
(* a worker's refresh ("resolve"), one that revalidates a stale answer that *)
(* was served ("refresh").                                                  *)
(*                                                                         *)
(* A step is what the event loop runs between two suspensions.  handle runs *)
(* without suspension up to "await task": get_or_create does not suspend    *)
(* (see SingleFlight), and enqueue_refresh is a plain call.  The loop       *)
(* resumes suspended coroutines in any order here; asyncio's order is one   *)
(* of them.                                                                 *)
(***************************************************************************)
EXTENDS Naturals, Sequences, FiniteSets

CONSTANTS
    Clients,    \* concurrent calls of handle
    Workers,    \* the refresh_concurrency refresh workers
    Keys, Responses, NoEntry,
    serve_stale_max_s, negative_ttl_s, max_entries, HIT_CAP, MaxTime,
    Tasks, NoTask, NoKey,
    None,       \* result of a flight: no usable response
    Cancelled,  \* result of a flight: CancelledError
    refresh_enabled, refresh_queue_max, refresh_ahead_seconds,
    refresh_popularity_threshold, refresh_popularity_decay_seconds,
    refresh_batch_size,
    Warmup      \* the jobs of the warmup file, in order

VARIABLES
    now, store, older,          \* the cache
    tasks, owner, done,         \* SingleFlight
    started,    \* flights whose coroutine has run up to the upstream query
    cancelling, \* flights that a cancelled waiter has asked to cancel
    client,     \* per call of handle: where it is and what it waits for
    refresh_queue, queued_keys, inflight_keys,
    worker,     \* per refresh worker: where it is and what it waits for
    scan,       \* the scan loop: "off", "on" or "ended"
    stopping    \* a stop signal has arrived

ResolveKey(k) == [use |-> "resolve", key |-> k]
RefreshKey(k) == [use |-> "refresh", key |-> k]
FlightKeys == [use : {"resolve", "refresh"}, key : Keys]

Cache == INSTANCE MemoryDnsCache
SF == INSTANCE SingleFlight WITH SFKeys <- FlightKeys

cacheVars == <<now, store, older>>
sfVars == <<tasks, owner, done>>
flightVars == <<tasks, owner, done, started, cancelling>>
queueVars == <<refresh_queue, queued_keys, inflight_keys>>
loopVars == <<worker, scan, stopping>>
vars == <<cacheVars, flightVars, queueVars, client, loopVars>>

ASSUME HandlerAssumption ==
    /\ refresh_enabled \in BOOLEAN
    /\ refresh_queue_max \in Nat
    /\ refresh_ahead_seconds \in Nat
    /\ refresh_popularity_threshold \in Nat
    /\ refresh_popularity_decay_seconds \in Nat
    /\ refresh_batch_size \in Nat \ {0}
    /\ Warmup \in Seq(Keys)
    /\ None \notin Responses
    /\ Cancelled \notin Responses \cup {None}
    /\ NoTask \notin Tasks
    /\ NoKey \notin FlightKeys

(* What the cache assumes of its constants. *)
ASSUME CacheAssumption ==
    /\ IsFiniteSet(Keys)
    /\ Responses \subseteq Cache!Response
    /\ serve_stale_max_s \in Nat
    /\ negative_ttl_s \in Nat
    /\ max_entries \in Nat
    /\ HIT_CAP \in Nat
    /\ MaxTime \in Nat
    /\ NoEntry \notin Cache!CacheEntry

Results == Responses \cup {None, Cancelled}

(* A coroutine that may wait for a flight: "wait" in "await task", "resume" *)
(* once the task is done and has been scheduled to wake it up.              *)
Waiter(pcs) ==
    [pc : pcs, key : Keys \cup {NoKey}, task : Tasks \cup {NoTask}, result : Results]
At(pc) == [pc |-> pc, key |-> NoKey, task |-> NoTask, result |-> None]
WaitFor(k, t) == [pc |-> "wait", key |-> k, task |-> t, result |-> None]
Resumed(k, r) == [pc |-> "resume", key |-> k, task |-> NoTask, result |-> r]

HandlerTypeOK ==
    /\ started \in SUBSET Tasks
    /\ cancelling \in SUBSET Tasks
    /\ client \in [Clients -> Waiter({"idle", "wait", "resume"})]
    /\ refresh_queue \in Seq(Keys)
    /\ queued_keys \in SUBSET Keys
    /\ inflight_keys \in SUBSET Keys
    /\ worker \in [Workers -> Waiter({"off", "idle", "wait", "resume"})]
    /\ scan \in {"off", "on", "ended"}
    /\ stopping \in BOOLEAN

TypeOK == Cache!TypeOK /\ SF!TypeOK /\ HandlerTypeOK

-----------------------------------------------------------------------------
(* refresh_queue.full(): an asyncio.Queue of maxsize 0 is never full. *)
QueueFull == refresh_queue_max > 0 /\ Len(refresh_queue) >= refresh_queue_max

(* enqueue_refresh *)
enqueue_refresh(k) ==
    /\ inflight_keys' = inflight_keys
    /\ IF k \in queued_keys \cup inflight_keys \/ QueueFull
       THEN UNCHANGED <<refresh_queue, queued_keys>>
       ELSE /\ refresh_queue' = Append(refresh_queue, k)
            /\ queued_keys' = queued_keys \cup {k}

(* A stale answer is served: the key is enqueued for the workers, and       *)
(* _schedule_refresh joins or creates the refresh flight.                   *)
ServeStale(c, k) ==
    /\ Cache!get_stale(k)
    /\ enqueue_refresh(k)
    /\ \E t \in Tasks : SF!get_or_create(RefreshKey(k), t)
    /\ client' = [client EXCEPT ![c] = At("idle")]
    /\ UNCHANGED <<started, cancelling, loopVars>>

(* handle, step 1: fresh cache *)
handle_fresh(c, k) ==
    /\ client[c].pc = "idle"
    /\ Cache!get_fresh(k)
    /\ UNCHANGED <<client, flightVars, queueVars, loopVars>>

(* handle, step 2: stale cache *)
handle_stale(c, k) ==
    /\ client[c].pc = "idle"
    /\ ServeStale(c, k)

(* handle, step 3: cache miss *)
handle_miss(c, k) ==
    /\ client[c].pc = "idle"
    /\ ~Cache!HasFresh(k)
    /\ ~Cache!HasStale(k)
    /\ \E t \in Tasks :
         /\ SF!get_or_create(ResolveKey(k), t)
         /\ client' = [client EXCEPT ![c] = WaitFor(k, t)]
    /\ UNCHANGED <<started, cancelling, cacheVars, queueVars, loopVars>>

(* handle after "await task": it returns the response of the flight, or ends *)
(* with CancelledError because the flight was cancelled.                     *)
handle_resumed(c) ==
    /\ client[c].pc = "resume"
    /\ client[c].result # None
    /\ client' = [client EXCEPT ![c] = At("idle")]
    /\ UNCHANGED <<cacheVars, flightVars, queueVars, loopVars>>

(* handle, step 4: upstream failed, but a stale answer is there now *)
handle_late_stale(c) ==
    /\ client[c].pc = "resume"
    /\ client[c].result = None
    /\ ServeStale(c, client[c].key)

(* handle: upstream failed and get_stale finds nothing *)
handle_servfail(c) ==
    /\ client[c].pc = "resume"
    /\ client[c].result = None
    /\ ~Cache!HasStale(client[c].key)
    /\ client' = [client EXCEPT ![c] = At("idle")]
    /\ UNCHANGED <<cacheVars, flightVars, queueVars, loopVars>>

-----------------------------------------------------------------------------
(* A flight starts: _resolve_upstream goes straight to the upstream query,  *)
(* _refresh_once_tracked first moves its key from queued to in flight.      *)
flight_start(t) ==
    /\ SF!Running(t)
    /\ t \notin started \cup cancelling
    /\ started' = started \cup {t}
    /\ IF owner[t].use = "refresh"
       THEN /\ queued_keys' = queued_keys \ {owner[t].key}
            /\ inflight_keys' = inflight_keys \cup {owner[t].key}
       ELSE UNCHANGED <<queued_keys, inflight_keys>>
    /\ UNCHANGED <<cacheVars, sfVars, cancelling, refresh_queue, client, loopVars>>

(* Everyone who waits for flight t is scheduled with its result r. *)
WokenUnlessCancelled(waiters, t, r) ==
    [x \in DOMAIN waiters |->
       IF waiters[x].pc = "wait" /\ waiters[x].task = t /\ r # Cancelled
       THEN Resumed(waiters[x].key, r)
       ELSE waiters[x]]
Woken(waiters, t, r) ==
    [x \in DOMAIN waiters |->
       IF waiters[x].pc = "wait" /\ waiters[x].task = t
       THEN Resumed(waiters[x].key, r)
       ELSE waiters[x]]

(* Flight t ends with r; the finally of _refresh_once_tracked. *)
EndFlightKeepingMark(t, r) ==
    /\ SF!Finish(t)
    /\ started' = started \ {t}
    /\ cancelling' = cancelling \ {t}
    /\ client' = Woken(client, t, r)
    /\ worker' = Woken(worker, t, r)
    /\ UNCHANGED <<inflight_keys, refresh_queue, queued_keys, scan, stopping>>
EndFlight(t, r) ==
    /\ SF!Finish(t)
    /\ started' = started \ {t}
    /\ cancelling' = cancelling \ {t}
    /\ client' = Woken(client, t, r)
    /\ worker' = Woken(worker, t, r)
    /\ inflight_keys' = IF owner[t].use = "refresh"
                        THEN inflight_keys \ {owner[t].key} ELSE inflight_keys
    /\ UNCHANGED <<refresh_queue, queued_keys, scan, stopping>>

(* The upstream query of t ends.  A timeout, an error, a drop by the        *)
(* forwarder and an unparsable answer are all None; a response is put.      *)
ReturnWithoutEviction(t, r) ==
    /\ t \in started \ cancelling
    /\ EndFlight(t, r)
    /\ now' = now
    /\ IF r = None THEN UNCHANGED <<store, older>>
       ELSE LET k == owner[t].key IN
            /\ store' = [store EXCEPT ![k] = Cache!NewEntry(r)]
            /\ older' = Cache!Touch(older, Cache!Cached \cup {k}, k)
flight_return(t, r) ==
    /\ t \in started \ cancelling
    /\ EndFlight(t, r)
    /\ IF r = None THEN UNCHANGED cacheVars ELSE Cache!put(owner[t].key, r)

(* CancelledError is raised in t, started or not. *)
flight_cancelled(t) ==
    /\ t \in cancelling
    /\ EndFlight(t, Cancelled)
    /\ UNCHANGED cacheVars

flight_cleanup(t) ==
    /\ SF!cleanup(t)
    /\ UNCHANGED <<cacheVars, started, cancelling, queueVars, client, loopVars>>

-----------------------------------------------------------------------------
(* The hybrid gate of _refresh_scan_tick and _refresh_via_worker. *)
Eligible(e) ==
    /\ now <= e.expires_at
    /\ e.expires_at <= now + refresh_ahead_seconds
    /\ e.hits >= refresh_popularity_threshold
    /\ refresh_popularity_decay_seconds > 0 =>
         /\ e.last_hit_mono > 0
         /\ now <= e.last_hit_mono + refresh_popularity_decay_seconds

EligibleKey(k) == store[k] # NoEntry /\ Eligible(store[k])

(* _refresh_worker takes a job and drops it within the step: the key is     *)
(* marked in flight and unmarked.                                           *)
DropJob(w) ==
    /\ worker[w].pc = "idle"
    /\ refresh_queue # <<>>
    /\ refresh_queue' = Tail(refresh_queue)
    /\ queued_keys' = queued_keys \ {Head(refresh_queue)}
    /\ inflight_keys' = inflight_keys \ {Head(refresh_queue)}
    /\ UNCHANGED <<cacheVars, flightVars, client, loopVars>>

(* The key is not eligible, or not any more: "skipped". *)
worker_skip(w) == DropJob(w) /\ ~EligibleKey(Head(refresh_queue))

(* DNSRecord.question cannot express the key: "fail". *)
worker_fail(w) == DropJob(w) /\ EligibleKey(Head(refresh_queue))

(* _refresh_worker takes a job and waits for the resolve flight of its key. *)
AttemptOutsideSingleFlight(w) ==
    /\ worker[w].pc = "idle"
    /\ refresh_queue # <<>>
    /\ EligibleKey(Head(refresh_queue))
    /\ refresh_queue' = Tail(refresh_queue)
    /\ queued_keys' = queued_keys \ {Head(refresh_queue)}
    /\ inflight_keys' = inflight_keys \cup {Head(refresh_queue)}
    /\ \E t \in Tasks :
         /\ owner[t] = NoKey
         /\ owner' = [owner EXCEPT ![t] = ResolveKey(Head(refresh_queue))]
         /\ UNCHANGED <<tasks, done>>
         /\ worker' = [worker EXCEPT ![w] = WaitFor(Head(refresh_queue), t)]
    /\ UNCHANGED <<cacheVars, started, cancelling, client, scan, stopping>>
worker_attempt(w) ==
    /\ worker[w].pc = "idle"
    /\ refresh_queue # <<>>
    /\ EligibleKey(Head(refresh_queue))
    /\ refresh_queue' = Tail(refresh_queue)
    /\ queued_keys' = queued_keys \ {Head(refresh_queue)}
    /\ inflight_keys' = inflight_keys \cup {Head(refresh_queue)}
    /\ \E t \in Tasks :
         /\ SF!get_or_create(ResolveKey(Head(refresh_queue)), t)
         /\ worker' = [worker EXCEPT ![w] = WaitFor(Head(refresh_queue), t)]
    /\ UNCHANGED <<cacheVars, started, cancelling, client, scan, stopping>>

(* _refresh_worker after "await task": CancelledError ends the worker. *)
WorkerKeepsMarkOnCancel(w) ==
    /\ worker[w].pc = "resume"
    /\ inflight_keys' = IF worker[w].result = Cancelled
                        THEN inflight_keys ELSE inflight_keys \ {worker[w].key}
    /\ worker' = [worker EXCEPT ![w] =
                    At(IF worker[w].result = Cancelled \/ scan = "ended"
                       THEN "off" ELSE "idle")]
    /\ UNCHANGED <<cacheVars, flightVars, refresh_queue, queued_keys, client,
                   scan, stopping>>
worker_resumed(w) ==
    /\ worker[w].pc = "resume"
    /\ inflight_keys' = inflight_keys \ {worker[w].key}
    /\ worker' = [worker EXCEPT ![w] =
                    At(IF worker[w].result = Cancelled \/ scan = "ended"
                       THEN "off" ELSE "idle")]
    /\ UNCHANGED <<cacheVars, flightVars, refresh_queue, queued_keys, client,
                   scan, stopping>>

(* _refresh_scan_tick: walks the cache from the least recently used entry   *)
(* on and enqueues eligible keys up to the batch size, while there is room. *)
ScanCandidates == {k \in Keys : EligibleKey(k) /\ k \notin queued_keys \cup inflight_keys}
ScanRoom == IF refresh_queue_max = 0 THEN refresh_batch_size
            ELSE IF QueueFull THEN 0 ELSE refresh_queue_max - Len(refresh_queue)
ScanSizes ==
    {n \in 0 .. Cardinality(ScanCandidates) : n <= refresh_batch_size /\ n <= ScanRoom}
ScanBatch(batch) ==
    /\ \A i, j \in DOMAIN batch : i < j => <<batch[i], batch[j]>> \in older
    /\ \A k \in ScanCandidates :
         \/ \E i \in DOMAIN batch : batch[i] = k
         \/ \A i \in DOMAIN batch : <<batch[i], k>> \in older
refresh_scan_tick ==
    /\ scan = "on"
    /\ \E n \in ScanSizes :
         /\ \A m \in ScanSizes : m <= n
         /\ \E batch \in [1 .. n -> ScanCandidates] :
              /\ ScanBatch(batch)
              /\ refresh_queue' = refresh_queue \o batch
              /\ queued_keys' = queued_keys \cup {batch[i] : i \in 1 .. n}
    /\ UNCHANGED <<cacheVars, flightVars, inflight_keys, client, loopVars>>

-----------------------------------------------------------------------------
start_refresh_tasks ==
    /\ refresh_enabled
    /\ scan = "off"
    /\ scan' = "on"
    /\ worker' = [w \in Workers |-> At("idle")]
    /\ UNCHANGED <<cacheVars, flightVars, queueVars, client, stopping>>

(* A stop signal: what follows cancels the refresh tasks and the calls of   *)
(* handle.  Requests may still come in over open TCP connections.           *)
stop_signal ==
    /\ ~stopping
    /\ stopping' = TRUE
    /\ UNCHANGED <<cacheVars, flightVars, queueVars, client, worker, scan>>

(* stop_refresh_tasks: a worker in refresh_queue.get() ends at once, one in *)
(* "await task" passes the cancellation on to the flight it waits for.      *)
stop_refresh_tasks ==
    /\ stopping
    /\ scan = "on"
    /\ scan' = "ended"
    /\ worker' = [w \in Workers |->
                    IF worker[w].pc = "idle" THEN At("off") ELSE worker[w]]
    /\ cancelling' = cancelling \cup
                     {worker[w].task : w \in {x \in Workers : worker[x].pc = "wait"}}
    /\ UNCHANGED <<cacheVars, sfVars, started, queueVars, client, stopping>>

(* The server cancels a call of handle that waits for a flight (the flight  *)
(* is cancelled with it) or that is about to be resumed.                    *)
cancel_handle(c) ==
    /\ stopping
    /\ \/ /\ client[c].pc = "wait"
          /\ cancelling' = cancelling \cup {client[c].task}
          /\ UNCHANGED client
       \/ /\ client[c].pc = "resume"
          /\ client' = [client EXCEPT ![c] = Resumed(client[c].key, Cancelled)]
          /\ UNCHANGED cancelling
    /\ UNCHANGED <<cacheVars, sfVars, started, queueVars, loopVars>>

cache_clear ==
    /\ Cache!clear
    /\ UNCHANGED <<flightVars, queueVars, client, loopVars>>

tick ==
    /\ Cache!Tick
    /\ UNCHANGED <<flightVars, queueVars, client, loopVars>>

-----------------------------------------------------------------------------
(* What enqueue_warmup_file leaves in the queue: distinct keys, as many as  *)
(* fit.  DnsHandlerProofs proves it of every warmup file.                   *)
ASSUME WarmupAssumption ==
    /\ refresh_queue_max > 0 => Len(Warmup) <= refresh_queue_max
    /\ \A i, j \in 1 .. Len(Warmup) : Warmup[i] = Warmup[j] => i = j

Init ==
    /\ Cache!Init
    /\ SF!Init
    /\ started = {}
    /\ cancelling = {}
    /\ client = [c \in Clients |-> At("idle")]
    /\ refresh_queue = Warmup
    /\ queued_keys = {Warmup[i] : i \in 1 .. Len(Warmup)}
    /\ inflight_keys = {}
    /\ worker = [w \in Workers |-> At("off")]
    /\ scan = "off"
    /\ stopping = FALSE

Handle(c, k) ==
    handle_fresh(c, k) \/ handle_stale(c, k) \/ handle_miss(c, k)
Resume(c) ==
    handle_resumed(c) \/ handle_late_stale(c) \/ handle_servfail(c)
Flight(t) ==
    \/ flight_start(t)
    \/ \E r \in Responses \cup {None} : flight_return(t, r)
    \/ flight_cancelled(t)
    \/ flight_cleanup(t)
Work(w) ==
    worker_skip(w) \/ worker_fail(w) \/ worker_attempt(w) \/ worker_resumed(w)
Lifecycle ==
    start_refresh_tasks \/ stop_signal \/ stop_refresh_tasks

Next ==
    \/ \E c \in Clients, k \in Keys : Handle(c, k)
    \/ \E c \in Clients : Resume(c)
    \/ \E c \in Clients : cancel_handle(c)
    \/ \E t \in Tasks : Flight(t)
    \/ \E w \in Workers : Work(w)
    \/ refresh_scan_tick
    \/ Lifecycle
    \/ cache_clear
    \/ tick

Spec == Init /\ [][Next]_vars

(* The event loop runs every coroutine that is ready, and every upstream    *)
(* query ends: the forwarders bound it by a timeout.  A coroutine that needs *)
(* a new task gets one in the code; here it may find the pool Tasks empty    *)
(* for a while, so the two that may need one are strongly fair.              *)
Fairness ==
    /\ \A t \in Tasks :
         /\ WF_vars(flight_start(t))
         /\ WF_vars(\E r \in Responses \cup {None} : flight_return(t, r))
         /\ WF_vars(flight_cancelled(t))
         /\ WF_vars(flight_cleanup(t))
    /\ \A c \in Clients : SF_vars(Resume(c))
    /\ \A w \in Workers : SF_vars(Work(w))
    /\ WF_vars(start_refresh_tasks)

FairSpec == Spec /\ Fairness

-----------------------------------------------------------------------------
(* SingleFlight keeps its promise in the handler: at most one flight that   *)
(* resolves a key and at most one that revalidates it run at a time, so an  *)
(* upstream never has more than two queries of one key, however many        *)
(* clients, workers and ticks ask for it.                                   *)
OneFlightPerKey == SF!OneFlightPerKey

(* The entry of a flight that has ended goes away, so that the next query of *)
(* its key starts a new one (singleflight.py:14).                            *)
FinishedIsRemoved == SF!FinishedIsRemoved

(* enqueue_refresh turns a key away when it is marked as queued or in       *)
(* flight.  A mark without a job or a refresh behind it would turn the key  *)
(* away for ever.                                                           *)
QueuedIsInQueue ==
    \A k \in queued_keys : \E i \in 1 .. Len(refresh_queue) : refresh_queue[i] = k
InflightIsRefreshing ==
    \A k \in inflight_keys :
       \/ \E t \in started : owner[t] = RefreshKey(k)
       \/ \E w \in Workers : worker[w].pc \in {"wait", "resume"} /\ worker[w].key = k
MarksAreBacked == QueuedIsInQueue /\ InflightIsRefreshing

(* Whoever waits, waits for a running flight that resolves its key: nobody   *)
(* is left behind by a flight that has ended, be it with an answer, without  *)
(* one or because another of its waiters was cancelled.                      *)
Attached(x) ==
    /\ x.pc \in {"wait", "resume"} => x.key \in Keys
    /\ x.pc = "wait" => /\ x.task \in Tasks
                        /\ SF!Running(x.task)
                        /\ owner[x.task] = ResolveKey(x.key)
WaitersAttached ==
    /\ \A c \in Clients : Attached(client[c])
    /\ \A w \in Workers : Attached(worker[w])

(* Serve-stale always revalidates: when a stale answer goes out, a refresh  *)
(* flight of its key is running after the step, created or joined.          *)
StaleIsRevalidated ==
    [][\A c \in Clients, k \in Keys :
         ServeStale(c, k) =>
            \E t \in Tasks : SF!Running(t)' /\ owner'[t] = RefreshKey(k)]_vars

(* Every call of handle ends, whatever happens to its flight. *)
EveryQueryEnds == \A c \in Clients : client[c].pc # "idle" ~> client[c].pc = "idle"

(* No key stays marked: a queued key is taken by a worker or by a refresh   *)
(* flight unless the process stops, an in-flight mark always goes away.     *)
MarksAreReleased ==
    \A k \in Keys :
       /\ k \in queued_keys ~> k \notin queued_keys \/ stopping
       /\ k \in inflight_keys ~> k \notin inflight_keys

(* The handler uses its two components only through their operations. *)
ImplementsCache == Cache!Spec
ImplementsSingleFlight == SF!Spec

-----------------------------------------------------------------------------
(* The inductive invariant.  A flight that has started or is being cancelled *)
(* is running; only flights that resolve are ever cancelled.                 *)
FlightsRun ==
    /\ \A t \in started : SF!Running(t)
    /\ \A t \in cancelling : SF!Running(t) /\ owner[t].use = "resolve"

(* The workers do not run before start_refresh_tasks. *)
OffUntilStarted == scan = "off" => \A w \in Workers : worker[w].pc = "off"

IInv ==
    /\ HandlerTypeOK
    /\ SF!IInv
    /\ FlightsRun
    /\ WaitersAttached
    /\ OffUntilStarted
    /\ MarksAreBacked

-----------------------------------------------------------------------------
(* What the documentation says and the code does not do. *)

(* "Upstream timeouts and errors are handled with serve-stale when possible, *)
(* or SERVFAIL otherwise" (docs/architecture.md:75): a client is told        *)
(* SERVFAIL only when the cache cannot answer it.  Step 4 of handle asks     *)
(* get_stale only, and a refresh flight may have stored a fresh answer while *)
(* the call waited for its own flight.                                       *)
ServfailOnlyWithoutAnswer ==
    [][\A c \in Clients : handle_servfail(c) => ~Cache!HasFresh(client[c].key)]_vars

(* "warmup jobs are executed by refresh workers" (README.md:115): a worker   *)
(* takes a warmup job upstream.  It skips a key that is not in the cache,    *)
(* and at startup none is.                                                   *)
WarmupIsExecuted ==
    \A i \in 1 .. Len(Warmup) :
        (scan = "on") ~> (stopping \/ \E w \in Workers : worker[w].key = Warmup[i])
=============================================================================
