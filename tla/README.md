# ResilientDNS: TLA+ specifications and proofs

ResilientDNS is an asyncio DNS forwarder with a cache that serves stale answers
when the upstream fails. This directory holds TLA+ models of its parts, the TLC
configurations that check them, and TLAPS proofs. Source paths below are
relative to `src/src/resilientdns/`.

## The system

| Part | Code | State | Model |
|---|---|---|---|
| SingleFlight | `dns/singleflight.py` | `_tasks` | `SingleFlight` |
| Cache | `cache/memory.py` | `_store`, an ordered dictionary | `MemoryDnsCache`, `CacheEvictionLoop` |
| Handler, batch refresh | `dns/handler.py` | refresh queue, queued and in-flight marks, workers, waiting calls | `DnsHandler`, composing the two above |
| Warmup | `refresh_warmup.py` | none | `WarmupFile`, the initial queue of `DnsHandler` |
| UDP forwarder | `upstream/udp_forwarder.py` | executor, `_inflight`, `_closed` | `UdpUpstreamForwarder` |
| TCP forwarder | `upstream/tcp_forwarder.py` | pool, its lock, `_inflight`, `_closed` | `TcpUpstreamForwarder` |
| Relay forwarder, startup check | `relay_forwarder.py`, `relay_types.py`, `relay_startup_check.py` | HTTP session, counters | `RelayUpstreamForwarder` |
| Servers | `dns/server.py` | tasks in flight, stop events, connections | `DnsServers` |
| Process, configuration | `main.py`, `config.py` | server tasks, readiness | `Main`, composing the servers |
| Metrics | `metrics.py` | counters | the relay's counters in `RelayUpstreamForwarder` |

A request reaches a server, which limits the tasks it runs and calls `handle`.
`handle` answers from the cache, or serves a stale answer and starts a *refresh
flight* through SingleFlight, or waits for a *resolve flight* that it shares with
other callers of its key. A scan loop puts popular entries that are about to
expire into a bounded queue, and workers take them to the upstream through the
resolve flights. One of three forwarders is the upstream. A stop signal ends the
servers; they cancel their tasks, and cancelling a call cancels the flight it
waits for, for everyone, at the other server too.

What makes this hard to test: flights and their records are shared, two kinds of
flights write the same cache entry, marks are set and cleared by three parties,
callbacks run later than the end of their tasks, threads outlive the calls they
work for, and cancellation may hit any suspension point.

## How the models correspond to the code

A step is what the event loop runs between two suspensions. Each module says at
its head what it leaves out. `PROJECT.json` maps definitions to lines.

* **SingleFlight.** `get_or_create` is `Create` or `Join`; `Finish` is the end of
  a task, `cleanup` its deferred `_cleanup`. A task identifier is reused once its
  `_cleanup` has run.
* **MemoryDnsCache.** `store` is the content of `_store`, the relation `older` its
  order. A response is what `_compute_ttl_seconds` reads of it: the response code,
  the answer TTLs, the SOA minimums. TTLs are natural numbers, time is in whole
  seconds. `put` reads the clock twice, for the new entry (`cache/memory.py:80`) and for
  the eviction (`:119`); the second reading may be later (`Later`). Eviction is stated by
  the order of its victims.
* **CacheEvictionLoop.** `put` and the two loops of `_evict_if_needed`, one round per
  step, on the dictionary itself (`entries`, `order`): `put_store`, `read_clock`, the rounds `scan` of
  the first loop over the snapshot `todo`, `pop_oldest` of the second, `put_return`.
  `put` does not suspend, so `store` and `older`, what everybody else sees, change when it
  returns. The module implements `MemoryDnsCache`.
* **DnsHandler.** `handle` is split at `await task` into the actions `handle_*`; a
  flight is `flight_start`, then `flight_return` or `flight_cancelled`, then
  `flight_cleanup`; workers are `worker_*`. A timeout, an error, a drop and an
  unparsable answer are one result, `None`: the code treats them alike. Requests
  without a question (FORMERR) change no state. `_watch_refresh` only logs, and
  shields the flight it watches.
* **WarmupFile.** The two loops over a warmup file, as recursive functions of the round:
  `Parsed` over its lines, `Queues` over its jobs, each handed to `enqueue_refresh`.
  `DnsHandler` assumes that its initial queue holds distinct keys and fits
  (`WarmupAssumption`). `WarmupIsAsAssumed` proves that of every file; the assumption
  `WarmupFileChecked` of `MCDnsHandler` evaluates it, and that no key is lost while
  there is room, for all files of up to four lines.
* **UdpUpstreamForwarder.** `queue` and `thread` are the executor's work queue and
  threads. A call waits for its request wherever that is; a request whose call was
  cancelled is an `Orphan`: dropped in the queue, finished by a thread. `Due` is the
  socket timeout, which starts when a thread takes the request.
* **TcpUpstreamForwarder.** `lock` lists the holder of `_pool_lock` and then who
  awaits it, in order. `wire` holds the queries a connection has not answered yet.
  The actions `query_*` are `query` split at its suspensions, `close_*` is `close`.
  Drain and the two reads are one suspension, since all of them fail and are
  cancelled alike. The timeout and the end of `wait_closed` are one event for the
  same reason. `at_eof()` is false while bytes are buffered (`AtEof`); an answer that the
  end of the stream cuts off counts as not sent.
* **RelayUpstreamForwarder.** A reply is a record of what the code tests: whether it
  arrives, its status, length and text, the fields, the items. `Counted` gives the
  counters that `query` increments, test by test; `Fate` says independently, after
  `docs/observability.md:69-75`, what the reply was; `Exchanged`, that a valid response
  was received at all. A body is as long as the base64 text
  and the JSON around it; `Envelope` stands for the latter.
* **DnsServers.** `run` is where the `run` of each server is, `request` where each
  task of `_handle_datagram` or `_handle_request`, `conn` where each
  `_handle_client`. Of the handler the servers see that `handle` answers at once
  with a record of its own or waits for a flight whose record is shared. A record
  keeps its size class and whether it was truncated. An answer that cannot be packed, is
  too long for TCP, or is too long for UDP even when truncated, is dropped (`Dropped`).
* **Main.** `main` is where `main()` and `_run` are. `Args` are command lines,
  `build_config` makes a configuration of each, `validate_config` is as in the code;
  `upstream_timeout_s`, a float, is counted in a unit in which it is whole (`inf` and
  `nan`, which the option also accepts, are left out); the other numbers are integers. `HttpStatus` is the answer of the metrics endpoint.

Two over-approximations: coroutines that are ready run in any order, where asyncio
runs them first in, first out; and after a stop signal the refresh tasks and the
calls are cancelled in any order. Properties that hold here hold for asyncio's
order. `MCServfail` uses the specification `PromptSpec`, in which a woken call runs
first, so that its counterexample is a schedule asyncio has.

The forwarders are checked with callers that may be cancelled once a stop signal has
arrived (`stopping`). Nothing else in the code cancels a call: clients that hang up do
not, and `_watch_refresh` uses `shield`.

## Runs

| Run | Instance | Checks |
|---|---|---|
| `MCMemoryDnsCache` | 3 keys, capacity 2, time to 5 | `CapacityBound`, `OrderIsRecency`, `ServableOutlivesDead`, `PutIsKept`, `LoopsImplementPut` |
| `MCHandlerScan` | 1 client, 2 workers, 2 keys, 2 tasks, capacity 1, queue 1, a warmup job, answers of TTL 0, time to 2 | `WaitersAttached`, `MarksAreBacked`, `StaleIsRevalidated`, `ImplementsCache`, `ImplementsSingleFlight` |
| `MCHandlerLiveness` | 2 clients, 1 worker, 1 key, 2 tasks, time to 2 | `OneFlightPerKey`, `FinishedIsRemoved`, `EveryQueryEnds`, `MarksAreReleased` |
| `MCUdp` | 3 calls, 2 threads, limit 2, timeout 2, time to 4 | `SlotsAreExact`, `OnePlace`, `LimitedIsTimely`, `EveryQueryEnds`, `ClosedSendsNothing` |
| `MCTcp` | 3 calls, 2 connections, pool 1, limit 2 | `InflightExact`, `OneUser`, `NoLeakedConnection`, `OneInFlightUntilStop`, `ClosedPoolIsEmpty`, `OnlyCancelForgets`, `EveryQueryEnds` |
| `MCRelay` | 2 calls, 5 lengths of queries, replies that fail each test | `EveryPostIsAccountedFor`, `PostsFitTheRelay` |
| `MCMain` | 3 servers, 2 datagrams, 1 connection, 2 flights, limit 1 | `InflightBound`, `WaitsAreBacked`, `ReadyOnlyAfterListeners`, `UpstreamClosedLast`, `ExitClosesUpstream`, `NothingAsksTheClosed`, `StartupEnds`, `EveryRequestEnds`, `StopLeadsToExit` |

Why the bounds are enough. Two clients suffice to share a flight and to cancel each
other; two tasks allow a finished flight whose `_cleanup` is late next to a running
one; the clocks run far enough for an entry to be fresh, stale and dead, and for a
socket to time out twice. `MCMemoryDnsCache` and `MCHandlerScan` have one key more
than the cache holds, so that evictions happen, and the queues are short enough to
be full. Three calls of the TCP forwarder can hold the lock, await it and hold a
connection at once; three calls of the UDP forwarder exceed both its limit and its
threads. In `MCMain` a datagram and a TCP request share a flight while the second
datagram meets the limit, or a server that is stopping cancels what the other one
waits for. The command lines are a valid one, all that differ from it in one number
(-1, 0, 65536), and the combinations of the other options. The lengths in `MCRelay`
lie on both sides of each limit and of the base64 padding. `MaxTime`, `MaxOwed`,
`MaxQueue` and `MaxRequests` bound clocks, answers owed, the queue and the counters.
Deadlock is not checked where the system really stops: after `close`, and after exit.

Five runs end in a violation, each of a sentence of the documentation or a test:

* `MCServfail`: a call answers SERVFAIL although a refresh flight has stored a fresh
  answer while the call waited, because step 4 of `handle` asks `get_stale` only
  (`docs/architecture.md:75`).
* `MCWarmup`: warmup jobs are skipped because nothing is cached yet
  (`README.md:115` of the repository; `docs/architecture.md:47` describes what the code
  does: "Expired or missing entries are never refreshed.").
* `MCUdpTimeout`: `main` gives the UDP forwarder no `max_inflight`, so a call may wait
  for a thread longer than its timeout (`docs/failure-modes.md:5`). `LimitedIsTimely`
  shows that a limit of at most `max_workers` would prevent it.
* `MCTcpTruncated`: a UDP and a TCP query share a flight; the UDP server truncates the
  shared record in place, and the TCP client gets an empty answer
  (`tests/test_udp_server_truncation.py:64`).
* `MCRelayDecode`: a relay response that is not UTF-8 raises `UnicodeDecodeError` and is
  counted by no error counter (`docs/observability.md:69` lists decode failures).

Other disagreements met on the way, visible in the models or in how a property is stated:

* A worker's refresh and a revalidation of one key may run together, under different
  SingleFlight keys (`dns/handler.py:40`): `OneFlightPerKey` is about one of them.
* A revalidation drops the mark of a job that stays queued, and the key may be
  enqueued again (`README.md:69`): `MarksAreBacked` does not say the reverse.
* A TCP call cancelled in a read returns its connection to the pool with an answer
  still to come (`README.md:136`): `OneInFlightUntilStop`. One cancelled while it waits
  to release its connection drops it open: `NoLeakedConnection` ends with the stop, and
  `OnlyCancelForgets` says that nothing else does so.
* A reply to the startup check that is not UTF-8 ends the process even in mode `warn`
  (`docs/operations.md:81`: "log a warning and continue"): `Raises`.
* At the instant `expires_at`, `get_fresh` serves an entry that `stats_snapshot` counts
  as expired (`cache/memory.py:143`). No document says which is meant.
* A client that never reads keeps a TCP connection, and with it the shutdown, waiting:
  `drain` has no timeout. So does one that goes on sending on an open connection.
  Both are exceptions in `StopLeadsToExit`.
* A warmup file that cannot be loaded ends the process before the `try` that closes
  the upstream: `ExitClosesUpstream` starts with the servers.
* `cache_max_entries`, the two options of the TCP pool and `udp_max_workers` have no
  command line option (`docs/profiles.md:38` recommends values): `Defaults` in `Main`.

## Fairness

In `DnsHandler`, every flight goes on (the forwarders bound a query by timeouts),
scheduled cleanups run, and ready coroutines run. A
resumed call or a worker may need a task, which the code always gets but the finite
set `Tasks` may lack for a while; these two are therefore strongly fair. Nothing
forces stop signals, ticks of the clock or requests. In the TCP forwarder each
call goes on, since connecting, reading and closing have timeouts, and a `close` that
was called goes on. In the UDP forwarder threads take requests, `recvfrom` has a
timeout, and calls whose future is done resume. In `Main`, the main task and the
servers go on, tasks run when they are ready, flights end, and a silent client meets
the idle timeout. Nothing is assumed of clients that are sent data.

## Proofs

All for arbitrary constants that satisfy the named assumptions.

* `SingleFlightProofs`: `TypeCorrect`, `Deduplicates`, `EntriesDoNotLeak`. Deduplication
  is not inductive: the invariant adds that a running task is the registered one
  (`RunningRegistered`), which the identity test of `_cleanup` preserves.
* `MemoryDnsCacheProofs`: `TypeCorrect`, `Bounded`, `Ordered`, `KeepsWhatIsPut`,
  `EvictsDeadFirst`, `FrontIsLeastRecent`. The order must be total for an
  eviction to have the victims the code would choose; `KeepsWhatIsPut` and
  `EvictsDeadFirst` follow from a lemma about what `put` leaves. Recency is preserved
  because a hit and a put both use their entry at the present time and move it to the
  end.
* The same module shows that the loops implement `put` (`LoopsAreEviction`). The invariant
  of a put under way (`LoopInv`) relates the dictionary to what it was when the put
  began: what is gone are dead entries that the scan has visited and then, once no dead
  one is left, a prefix of the order; and never more than the excess. With the order
  total, no other set of victims meets the definition (`VictimsAreDetermined`).
  `PutIsNeverStuck` and `PutAdvances` say that there is always a next round and that
  each one brings the entries held and to be visited down, so that both loops end.
* `DnsHandlerProofs`: `Inductive`, from it `Deduplicates`, `NoOrphanedMark`,
  `NobodyIsLeftBehind`, `Revalidates`, `TypeCorrect`, and the refinements `RefinesCache` and
  `RefinesSingleFlight`: every step of the handler is a step of the component or
  leaves it alone. `IInv` adds to the marks and the queue that flights that have
  started are running, that only resolve flights are cancelled (`FlightsRun`: a
  refresh flight cannot die before its `finally` exists), and that waiters wait for
  a running flight of their key (`WaitersAttached`).
  Through `RefinesCache` the theorems about the cache hold of the handler's cache
  (`CacheIsBounded`, `CacheFrontIsLeastRecent`, `CacheEvictsDeadFirst`),
  whatever interleaving of flights fills it.
* The same module proves `WarmupIsAsAssumed`, by induction over the rounds of both loops
  (`LoopInduction`, from the well-foundedness of the naturals, states it for a set of
  rounds): after each round the queue holds distinct jobs of those handed over, and
  unless it is full, all of them (`Warmed`).
* `UdpUpstreamForwarderProofs`: `TypeCorrect`, `NobodyWaitsForNothing`, `SlotsCountBoth`
  (from `CountsExactly` and `LimitsUpstream`), `LimitMakesTimely`, `CloseStopsSending`. The threads are
  bounded because each works for another call under way (`OnePlace`, an injection);
  a call is in time because, with no more calls than threads, a queued request was
  made in this very second (`OnTime`); no thread starts anything after `close` because the
  queue of a closed forwarder is empty (`StopsFirst`).
* `TcpUpstreamForwarderProofs`, on `TcpForwarderLemmas`: `TypeCorrect`, `CountsExactly`,
  `ConnectionsHaveOneUser`, `NothingLeaks`, `NothingElseForgets`, `NoPipeliningUntilStop`,
  `CloseIsFinal`, `LockIsNeverLost`. These two need `LockInOrder`: the lock is first
  in, first out, whoever is in its queue is still under way, and a release that saw the
  forwarder open is in the queue before `close`. `ConnOfCall` and
  `Owed` tie connections and what they owe to the calls that read them. The lemmas are about
  sequences without duplicates, the count of calls under way, the queue for the lock
  and who has which connection.
* `RelayUpstreamForwarderProofs`: `TypeCorrect`, `PostsAreAccountedFor`,
  `RequiredRelayFits`. `Balanced` states the balance of posts,
  outcomes and counters, `Compatible` that a required relay allows what the client
  does.
* `MainProofs`: `TypeCorrect`, `ServersAreBounded`, `NobodyIsForgotten`,
  `ReadyIsTrue`, `UpstreamOutlivesServers`, `ExitIsClean`, `NoQueryMeetsTheClosed`.
  `ServersInv` covers the servers, whatever `main` does, and with `EndedHasCancelled` that
  a server that has ended has cancelled its tasks; `ReadyBefore`, `NothingBuilt`
  and `TakenDown` say what `main` has done by the place where it is.

Only model-checked: all liveness.

## Not modelled, and why

* `HttpMetricsServer._handle_client` beyond the status it answers, `_send_response`,
  logging, `periodic_stats_reporter` and the text of `/metrics`: pure input and output
  that changes no state.
* `metrics.py` but for the relay's counters: no decision reads a counter.
* The parsing of DNS messages and of warmup lines, URLs and headers: a message, a line
  or an address is well formed or not.
* The age of an answer at the upstream. A resolve and a refresh flight of one key may
  answer in the other order; nothing in the code compares the two, and no document
  says which should win.
* SIGHUP while a flight is under way: the flight stores its answer after the clear.
  `cache_clear` is an action of `DnsHandler`, so all its properties hold across it, but
  no document says whether such an answer may be stored.
* `stats_snapshot`: it only reads.
* `Main` does not contain the handler and the forwarders themselves: the product is out
  of TLC's reach. The interfaces are the flights of `DnsServers`; the limits
  the modules assume are tested by `validate_config` or are defaults no option changes.
