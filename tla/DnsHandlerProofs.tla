-------------------------- MODULE DnsHandlerProofs --------------------------
(***************************************************************************)
(* Proofs about the handler for every number of clients, workers, keys and  *)
(* tasks, every configuration and every warmup list.                        *)
(***************************************************************************)
EXTENDS DnsHandler, WarmupFile, TLAPS

(* The time limits of the provers, in seconds. *)
USE ZenonT(5), SMTT(60)

-----------------------------------------------------------------------------
(* The steps of SingleFlight keep its invariant and every running flight.   *)
Kept(S) ==
    \A u \in S : SF!Running(u) => SF!Running(u)' /\ owner'[u] = owner[u]

(* get_or_create leaves a running flight of the key behind, whether it      *)
(* joins one or creates one.                                                *)
LEMMA JoinOrCreate ==
    ASSUME SF!IInv, NEW k \in FlightKeys, NEW t \in Tasks, SF!get_or_create(k, t)
    PROVE  /\ SF!IInv'
           /\ SF!Running(t)' /\ owner'[t] = k
           /\ Kept(Tasks)
  <1>1. CASE SF!Create(k, t)
    <2>1. SF!TypeOK'
      BY <1>1 DEF SF!IInv, SF!TypeOK, SF!Create
    <2>2. SF!Running(t)' /\ owner'[t] = k
      BY <1>1, HandlerAssumption
      DEF SF!IInv, SF!TypeOK, SF!Create, SF!Running, SF!DoneOwned
    <2>3. Kept(Tasks)
      BY <1>1 DEF Kept, SF!IInv, SF!TypeOK, SF!Create, SF!Running
    <2>4. SF!RunningRegistered'
      BY <1>1, HandlerAssumption
      DEF SF!IInv, SF!TypeOK, SF!Create, SF!Existing, SF!RunningRegistered,
          SF!NoLeakedEntry, SF!DoneOwned, SF!Running
    <2>5. SF!NoLeakedEntry' /\ SF!DoneOwned'
      BY <1>1, HandlerAssumption
      DEF SF!IInv, SF!TypeOK, SF!Create, SF!NoLeakedEntry, SF!DoneOwned
    <2> QED
      BY <2>1, <2>2, <2>3, <2>4, <2>5 DEF SF!IInv
  <1>2. CASE SF!Join(k, t)
    <2>1. SF!IInv' /\ Kept(Tasks)
      BY <1>2
      DEF Kept, SF!Join, SF!sfVars, SF!IInv, SF!TypeOK, SF!RunningRegistered,
          SF!NoLeakedEntry, SF!DoneOwned, SF!Running
    <2>2. owner[t] = k /\ t \notin done
      BY <1>2 DEF SF!Join, SF!Existing, SF!IInv, SF!NoLeakedEntry
    <2>3. SF!Running(t)' /\ owner'[t] = k
      BY <1>2, <2>2, HandlerAssumption DEF SF!Join, SF!sfVars, SF!Running
    <2> QED
      BY <2>1, <2>3
  <1> QED
    BY <1>1, <1>2 DEF SF!get_or_create

(* A flight that ends disturbs no other flight. *)
LEMMA Finish ==
    ASSUME SF!IInv, NEW t \in Tasks, SF!Finish(t)
    PROVE  SF!IInv' /\ owner' = owner /\ Kept(Tasks \ {t})
  BY DEF Kept, SF!IInv, SF!TypeOK, SF!Finish, SF!RunningRegistered,
         SF!NoLeakedEntry, SF!DoneOwned, SF!Running

(* _cleanup of a finished flight disturbs no running flight. *)
LEMMA Cleanup ==
    ASSUME SF!IInv, NEW t \in Tasks, SF!cleanup(t)
    PROVE  SF!IInv' /\ Kept(Tasks)
  <1>1. owner[t] \in FlightKeys
    BY DEF SF!IInv, SF!TypeOK, SF!DoneOwned, SF!cleanup
  <1>2. SF!TypeOK'
    BY <1>1 DEF SF!IInv, SF!TypeOK, SF!cleanup
  <1>3. SF!RunningRegistered' /\ Kept(Tasks)
    BY <1>1, HandlerAssumption
    DEF Kept, SF!IInv, SF!TypeOK, SF!cleanup, SF!RunningRegistered, SF!DoneOwned, SF!Running
  <1>4. SF!NoLeakedEntry'
    BY <1>1, HandlerAssumption DEF SF!IInv, SF!TypeOK, SF!cleanup, SF!NoLeakedEntry
  <1>5. SF!DoneOwned'
    BY HandlerAssumption DEF SF!IInv, SF!TypeOK, SF!cleanup, SF!DoneOwned
  <1> QED
    BY <1>2, <1>3, <1>4, <1>5 DEF SF!IInv

(* A step that leaves SingleFlight alone. *)
LEMMA SFUnchanged ==
    ASSUME SF!IInv, UNCHANGED sfVars
    PROVE  SF!IInv' /\ Kept(Tasks)
  BY DEF Kept, sfVars, SF!IInv, SF!TypeOK, SF!RunningRegistered, SF!NoLeakedEntry,
         SF!DoneOwned, SF!Running

-----------------------------------------------------------------------------
(* What a step that keeps the running flights leaves intact. *)
LEMMA KeptFlights ==
    ASSUME HandlerTypeOK, FlightsRun, Kept(Tasks), UNCHANGED <<started, cancelling>>
    PROVE  FlightsRun'
  BY DEF HandlerTypeOK, FlightsRun, Kept

(* Calls of handle that the step leaves alone still wait for running        *)
(* flights.                                                                 *)
LEMMA KeptClients ==
    ASSUME WaitersAttached, Kept(Tasks), UNCHANGED client
    PROVE  \A c \in Clients : Attached(client[c])'
  BY DEF WaitersAttached, Attached, Kept

(* So do the workers that the step leaves alone. *)
LEMMA KeptWorkers ==
    ASSUME WaitersAttached, Kept(Tasks), UNCHANGED worker
    PROVE  \A w \in Workers : Attached(worker[w])'
  BY DEF WaitersAttached, Attached, Kept

(* The in-flight marks stay backed. *)
LEMMA KeptInflight ==
    ASSUME HandlerTypeOK, FlightsRun, InflightIsRefreshing, Kept(Tasks),
           UNCHANGED <<started, inflight_keys, worker>>
    PROVE  InflightIsRefreshing'
  BY DEF HandlerTypeOK, FlightsRun, InflightIsRefreshing, Kept

(* A woken waiter is well typed, and whoever waits on waits for another     *)
(* flight.                                                                  *)
LEMMA WaiterTypes ==
    ASSUME NEW pcs, NEW k \in Keys, NEW t \in Tasks, NEW r \in Results
    PROVE  /\ "wait" \in pcs => WaitFor(k, t) \in Waiter(pcs)
           /\ "resume" \in pcs => Resumed(k, r) \in Waiter(pcs)
           /\ \A pc \in pcs : At(pc) \in Waiter(pcs)
  BY DEF Waiter, WaitFor, Resumed, At, Results

(* Waking the waiters of a flight keeps their type. *)
LEMMA WokenType ==
    ASSUME NEW pcs, "resume" \in pcs, NEW X, NEW f \in [X -> Waiter(pcs)],
           NEW t \in Tasks, NEW r \in Results
    PROVE  Woken(f, t, r) \in [X -> Waiter(pcs)]
  BY DEF Woken, Waiter, Resumed, Results

(* enqueue_refresh marks only keys it puts in the queue. *)
LEMMA Enqueue ==
    ASSUME HandlerTypeOK, QueuedIsInQueue, NEW k \in Keys, enqueue_refresh(k)
    PROVE  /\ refresh_queue' \in Seq(Keys)
           /\ queued_keys' \in SUBSET Keys
           /\ inflight_keys' = inflight_keys
           /\ QueuedIsInQueue'
  <1>1. CASE UNCHANGED <<refresh_queue, queued_keys>>
    BY <1>1 DEF HandlerTypeOK, QueuedIsInQueue, enqueue_refresh
  <1>2. CASE /\ ~QueueFull
             /\ refresh_queue' = Append(refresh_queue, k)
             /\ queued_keys' = queued_keys \cup {k}
    <2>1. /\ refresh_queue' \in Seq(Keys)
          /\ Len(refresh_queue') = Len(refresh_queue) + 1
          /\ \A i \in 1 .. Len(refresh_queue) : refresh_queue'[i] = refresh_queue[i]
          /\ refresh_queue'[Len(refresh_queue) + 1] = k
          /\ Len(refresh_queue) \in Nat
      BY <1>2 DEF HandlerTypeOK
    <2>2. QueuedIsInQueue'
      BY <1>2, <2>1 DEF QueuedIsInQueue
    <2> QED
      BY <1>2, <2>1, <2>2 DEF HandlerTypeOK, enqueue_refresh
  <1> QED
    BY <1>1, <1>2 DEF enqueue_refresh

(* A worker takes the first job and its mark. *)
LEMMA Dequeue ==
    ASSUME HandlerTypeOK, QueuedIsInQueue, refresh_queue # <<>>,
           refresh_queue' = Tail(refresh_queue),
           queued_keys' = queued_keys \ {Head(refresh_queue)}
    PROVE  /\ Head(refresh_queue) \in Keys
           /\ refresh_queue' \in Seq(Keys)
           /\ queued_keys' \in SUBSET Keys
           /\ QueuedIsInQueue'
  <1>1. /\ Head(refresh_queue) \in Keys
        /\ Head(refresh_queue) = refresh_queue[1]
        /\ refresh_queue' \in Seq(Keys)
        /\ Len(refresh_queue) \in Nat
        /\ Len(refresh_queue') = Len(refresh_queue) - 1
        /\ \A i \in 1 .. Len(refresh_queue') : refresh_queue'[i] = refresh_queue[i + 1]
    BY DEF HandlerTypeOK
  <1>2. ASSUME NEW k \in queued_keys'
        PROVE  \E i \in 1 .. Len(refresh_queue') : refresh_queue'[i] = k
    <2>1. PICK i \in 1 .. Len(refresh_queue) : refresh_queue[i] = k
      BY <1>2 DEF QueuedIsInQueue
    <2>2. i # 1
      BY <1>1, <1>2, <2>1
    <2>3. i - 1 \in 1 .. Len(refresh_queue') /\ refresh_queue'[i - 1] = k
      BY <1>1, <2>1, <2>2
    <2> QED
      BY <2>3, Zenon
  <1> QED
    BY <1>1, <1>2, HandlerAssumption DEF HandlerTypeOK, QueuedIsInQueue

-----------------------------------------------------------------------------
(* The flight keys are keys of SingleFlight. *)
LEMMA FlightKeyTypes ==
    ASSUME NEW k \in Keys
    PROVE  ResolveKey(k) \in FlightKeys /\ RefreshKey(k) \in FlightKeys
  BY DEF ResolveKey, RefreshKey, FlightKeys

(* A call of handle that ends waits for nothing. *)
LEMMA ClientIdle ==
    ASSUME HandlerTypeOK, WaitersAttached, Kept(Tasks), NEW c \in Clients,
           client' = [client EXCEPT ![c] = At("idle")]
    PROVE  /\ client' \in [Clients -> Waiter({"idle", "wait", "resume"})]
           /\ \A d \in Clients : Attached(client[d])'
  <1>1. At("idle") \in Waiter({"idle", "wait", "resume"}) /\ At("idle").pc = "idle"
    BY DEF At, Waiter, Results
  <1>2. client' \in [Clients -> Waiter({"idle", "wait", "resume"})]
    BY <1>1 DEF HandlerTypeOK
  <1>3. \A d \in Clients : client'[d] = IF d = c THEN At("idle") ELSE client[d]
    BY DEF HandlerTypeOK
  <1>4. \A d \in Clients : Attached(client[d])'
    BY <1>1, <1>3 DEF WaitersAttached, Attached, Kept
  <1> QED
    BY <1>2, <1>4

(* Serving a stale answer keeps the invariant. *)
LEMMA ServeStaleInv ==
    ASSUME IInv, NEW c \in Clients, NEW k \in Keys, ServeStale(c, k)
    PROVE  IInv'
  <1>1. PICK t \in Tasks : SF!get_or_create(RefreshKey(k), t)
    BY DEF ServeStale
  <1>2. SF!IInv' /\ Kept(Tasks)
    BY <1>1, FlightKeyTypes, JoinOrCreate DEF IInv
  <1>3. /\ refresh_queue' \in Seq(Keys)
        /\ queued_keys' \in SUBSET Keys
        /\ inflight_keys' = inflight_keys
        /\ QueuedIsInQueue'
    BY Enqueue DEF IInv, MarksAreBacked, ServeStale
  <1>4. UNCHANGED <<started, cancelling, worker, scan, stopping>>
    BY DEF ServeStale, loopVars
  <1>5. /\ client' \in [Clients -> Waiter({"idle", "wait", "resume"})]
        /\ \A d \in Clients : Attached(client[d])'
    BY <1>2, ClientIdle, ZenonT(60) DEF IInv, ServeStale
  <1>6. FlightsRun'
    BY <1>2, <1>4, KeptFlights DEF IInv
  <1>7. WaitersAttached'
    BY <1>2, <1>4, <1>5, KeptWorkers DEF IInv, WaitersAttached
  <1>8. InflightIsRefreshing'
    BY <1>2, <1>3, <1>4, KeptInflight DEF IInv, MarksAreBacked
  <1>9. HandlerTypeOK' /\ OffUntilStarted'
    BY <1>3, <1>4, <1>5 DEF IInv, HandlerTypeOK, OffUntilStarted
  <1> QED
    BY <1>2, <1>3, <1>6, <1>7, <1>8, <1>9 DEF IInv, MarksAreBacked

(* A step that touches only the cache keeps the invariant. *)
LEMMA CacheOnlyInv ==
    ASSUME IInv, UNCHANGED <<client, flightVars, queueVars, loopVars>>
    PROVE  IInv'
  <1> USE DEF flightVars, queueVars, loopVars
  <1>1. SF!IInv' /\ Kept(Tasks)
    BY SFUnchanged DEF IInv, sfVars
  <1>2. FlightsRun'
    BY <1>1, KeptFlights DEF IInv
  <1>3. WaitersAttached'
    BY <1>1, KeptClients, KeptWorkers DEF IInv, WaitersAttached
  <1>4. InflightIsRefreshing'
    BY <1>1, KeptInflight DEF IInv, MarksAreBacked
  <1>5. HandlerTypeOK' /\ OffUntilStarted' /\ QueuedIsInQueue'
    BY DEF IInv, MarksAreBacked, HandlerTypeOK, OffUntilStarted, QueuedIsInQueue
  <1> QED
    BY <1>1, <1>2, <1>3, <1>4, <1>5 DEF IInv, MarksAreBacked

(* A call of handle that ends without a flight keeps the invariant. *)
LEMMA HandleEndsInv ==
    ASSUME IInv, NEW c \in Clients, client' = [client EXCEPT ![c] = At("idle")],
           UNCHANGED <<flightVars, queueVars, loopVars>>
    PROVE  IInv'
  <1> USE DEF flightVars, queueVars, loopVars
  <1>1. SF!IInv' /\ Kept(Tasks)
    BY SFUnchanged DEF IInv, sfVars
  <1>2. /\ client' \in [Clients -> Waiter({"idle", "wait", "resume"})]
        /\ \A d \in Clients : Attached(client[d])'
    BY <1>1, ClientIdle, Zenon DEF IInv
  <1>3. FlightsRun'
    BY <1>1, KeptFlights DEF IInv
  <1>4. WaitersAttached'
    BY <1>1, <1>2, KeptWorkers DEF IInv, WaitersAttached
  <1>5. InflightIsRefreshing'
    BY <1>1, KeptInflight DEF IInv, MarksAreBacked
  <1>6. HandlerTypeOK' /\ OffUntilStarted' /\ QueuedIsInQueue'
    BY <1>2 DEF IInv, MarksAreBacked, HandlerTypeOK, OffUntilStarted, QueuedIsInQueue
  <1> QED
    BY <1>1, <1>3, <1>4, <1>5, <1>6 DEF IInv, MarksAreBacked

(* A miss leaves the call waiting for a running flight that resolves its key. *)
LEMMA MissInv ==
    ASSUME IInv, NEW c \in Clients, NEW k \in Keys, handle_miss(c, k)
    PROVE  IInv'
  <1>1. PICK t \in Tasks : /\ SF!get_or_create(ResolveKey(k), t)
                           /\ client' = [client EXCEPT ![c] = WaitFor(k, t)]
    BY ZenonT(60) DEF handle_miss
  <1>2. SF!IInv' /\ SF!Running(t)' /\ owner'[t] = ResolveKey(k) /\ Kept(Tasks)
    BY <1>1, FlightKeyTypes, JoinOrCreate DEF IInv
  <1>3. UNCHANGED <<started, cancelling, worker, scan, stopping,
                    refresh_queue, queued_keys, inflight_keys>>
    BY DEF handle_miss, loopVars, queueVars
  <1>4. client' \in [Clients -> Waiter({"idle", "wait", "resume"})]
    <2>1. WaitFor(k, t) \in Waiter({"idle", "wait", "resume"})
      BY DEF WaitFor, Waiter, Results
    <2> QED
      BY <1>1, <2>1 DEF IInv, HandlerTypeOK
  <1>5. \A d \in Clients : Attached(client[d])'
    <2>1. \A d \in Clients : client'[d] = IF d = c THEN WaitFor(k, t) ELSE client[d]
      BY <1>1 DEF IInv, HandlerTypeOK
    <2>2. WaitFor(k, t).key = k /\ WaitFor(k, t).task = t
      BY DEF WaitFor
    <2> QED
      BY <1>2, <2>1, <2>2 DEF IInv, WaitersAttached, Attached, Kept
  <1>6. FlightsRun'
    BY <1>2, <1>3, KeptFlights DEF IInv
  <1>7. WaitersAttached'
    BY <1>2, <1>3, <1>5, KeptWorkers DEF IInv, WaitersAttached
  <1>8. InflightIsRefreshing'
    BY <1>2, <1>3, KeptInflight DEF IInv, MarksAreBacked
  <1>9. HandlerTypeOK' /\ OffUntilStarted' /\ QueuedIsInQueue'
    BY <1>3, <1>4 DEF IInv, MarksAreBacked, HandlerTypeOK, OffUntilStarted,
                      QueuedIsInQueue
  <1> QED
    BY <1>2, <1>6, <1>7, <1>8, <1>9 DEF IInv, MarksAreBacked

-----------------------------------------------------------------------------
(* A flight that starts moves the mark of its key; the flight itself backs  *)
(* the new mark.                                                            *)
LEMMA StartInv ==
    ASSUME IInv, NEW t \in Tasks, flight_start(t)
    PROVE  IInv'
  <1>1. UNCHANGED <<tasks, owner, done, cancelling, refresh_queue, client, worker, scan,
                    stopping>>
    BY DEF flight_start, sfVars, loopVars
  <1>2. SF!IInv' /\ Kept(Tasks)
    BY <1>1, SFUnchanged DEF IInv, sfVars
  <1>3. SF!Running(t) /\ started' = started \cup {t}
    BY DEF flight_start
  <1>4. owner[t] \in FlightKeys
    BY <1>3, HandlerAssumption DEF IInv, SF!IInv, SF!TypeOK, SF!Running
  <1>5. HandlerTypeOK'
    BY <1>1, <1>4 DEF IInv, HandlerTypeOK, flight_start, FlightKeys
  <1>6. FlightsRun'
    BY <1>1, <1>2, <1>3 DEF IInv, HandlerTypeOK, FlightsRun, Kept
  <1>7. WaitersAttached'
    BY <1>1, <1>2, KeptClients, KeptWorkers DEF IInv, WaitersAttached
  <1>8. QueuedIsInQueue'
    BY <1>1 DEF IInv, MarksAreBacked, QueuedIsInQueue, flight_start
  <1>9. InflightIsRefreshing'
    <2>1. owner[t].use = "refresh" => owner[t] = RefreshKey(owner[t].key)
      BY <1>4 DEF FlightKeys, RefreshKey
    <2> QED
      BY <1>1, <1>3, <2>1 DEF IInv, MarksAreBacked, InflightIsRefreshing, flight_start
  <1>10. OffUntilStarted'
    BY <1>1 DEF IInv, OffUntilStarted
  <1> QED
    BY <1>2, <1>5, <1>6, <1>7, <1>8, <1>9, <1>10 DEF IInv, MarksAreBacked

(* A waiter of a flight that has ended is scheduled with its key; everybody *)
(* else waits for another flight.                                           *)
LEMMA WokenAttached ==
    ASSUME NEW X, NEW f, NEW g, NEW t \in Tasks, NEW r, g = Woken(f, t, r), DOMAIN f = X,
           Kept(Tasks \ {t}),
           \A x \in X : Attached(f[x])
    PROVE  \A x \in X : /\ g[x].pc \in {"wait", "resume"} => g[x].key \in Keys
                        /\ g[x].pc = "wait" =>
                             /\ g[x].task \in Tasks
                             /\ SF!Running(g[x].task)'
                             /\ owner'[g[x].task] = ResolveKey(g[x].key)
  <1> TAKE x \in X
  <1>1. CASE f[x].pc = "wait" /\ f[x].task = t
    BY <1>1 DEF Woken, Resumed, Attached
  <1>2. CASE ~(f[x].pc = "wait" /\ f[x].task = t)
    <2>1. g[x] = f[x]
      BY <1>2 DEF Woken
    <2> QED
      BY <1>2, <2>1 DEF Attached, Kept
  <1> QED
    BY <1>1, <1>2

(* A flight that ends takes its own mark with it and leaves nobody waiting. *)
LEMMA EndFlightInv ==
    ASSUME IInv, NEW t \in Tasks, NEW r \in Results, EndFlight(t, r)
    PROVE  IInv'
  <1>1. /\ SF!Finish(t)
        /\ started' = started \ {t}
        /\ cancelling' = cancelling \ {t}
        /\ client' = Woken(client, t, r)
        /\ worker' = Woken(worker, t, r)
        /\ inflight_keys' = IF owner[t].use = "refresh"
                            THEN inflight_keys \ {owner[t].key} ELSE inflight_keys
        /\ UNCHANGED <<refresh_queue, queued_keys, scan, stopping>>
    BY DEF EndFlight
  <1>2. SF!IInv' /\ owner' = owner /\ Kept(Tasks \ {t})
    BY <1>1, Finish DEF IInv
  <1>3. /\ client' \in [Clients -> Waiter({"idle", "wait", "resume"})]
        /\ worker' \in [Workers -> Waiter({"off", "idle", "wait", "resume"})]
    BY <1>1, WokenType DEF IInv, HandlerTypeOK
  <1>4. HandlerTypeOK'
    BY <1>1, <1>3 DEF IInv, HandlerTypeOK
  <1>5. FlightsRun'
    BY <1>1, <1>2 DEF IInv, HandlerTypeOK, FlightsRun, Kept
  <1>6. \A c \in Clients : Attached(client[c])'
    <2>1. DOMAIN client = Clients /\ \A c \in Clients : Attached(client[c])
      BY DEF IInv, HandlerTypeOK, WaitersAttached
    <2>2. \A c \in Clients :
             /\ client'[c].pc \in {"wait", "resume"} => client'[c].key \in Keys
             /\ client'[c].pc = "wait" =>
                  /\ client'[c].task \in Tasks
                  /\ SF!Running(client[c].task)'
                  /\ owner'[client'[c].task] = ResolveKey(client'[c].key)
      BY <1>1, <1>2, <2>1, WokenAttached
    <2> QED
      BY <2>2 DEF Attached
  <1>7. \A w \in Workers : Attached(worker[w])'
    <2>1. DOMAIN worker = Workers /\ \A w \in Workers : Attached(worker[w])
      BY DEF IInv, HandlerTypeOK, WaitersAttached
    <2>2. \A w \in Workers :
             /\ worker'[w].pc \in {"wait", "resume"} => worker'[w].key \in Keys
             /\ worker'[w].pc = "wait" =>
                  /\ worker'[w].task \in Tasks
                  /\ SF!Running(worker[w].task)'
                  /\ owner'[worker'[w].task] = ResolveKey(worker'[w].key)
      BY <1>1, <1>2, <2>1, WokenAttached
    <2> QED
      BY <2>2 DEF Attached
  <1>8. InflightIsRefreshing'
    <2>1. \A w \in Workers :
             /\ worker[w].pc \in {"wait", "resume"} => worker'[w].pc \in {"wait", "resume"}
             /\ worker[w].pc \in {"wait", "resume"} => worker'[w].key = worker[w].key
             /\ worker[w].pc = "off" => worker'[w].pc = "off"
      BY <1>1 DEF IInv, HandlerTypeOK, Woken, Resumed
    <2>2. ASSUME NEW k \in inflight_keys', NEW u \in started, owner[u] = RefreshKey(k)
          PROVE  u \in started' /\ owner'[u] = RefreshKey(k)
      <3>1. u # t
        BY <1>1, <2>2 DEF RefreshKey
      <3> QED
        BY <1>1, <1>2, <2>2, <3>1
    <2> QED
      BY <1>1, <2>1, <2>2 DEF IInv, MarksAreBacked, InflightIsRefreshing
  <1>9. OffUntilStarted'
    BY <1>1 DEF IInv, HandlerTypeOK, OffUntilStarted, Woken
  <1>10. QueuedIsInQueue'
    BY <1>1 DEF IInv, MarksAreBacked, QueuedIsInQueue
  <1> QED
    BY <1>2, <1>4, <1>5, <1>6, <1>7, <1>8, <1>9, <1>10
    DEF IInv, MarksAreBacked, WaitersAttached

(* The done callback concerns flights nobody waits for any more. *)
LEMMA CleanupInv ==
    ASSUME IInv, NEW t \in Tasks, flight_cleanup(t)
    PROVE  IInv'
  <1>1. UNCHANGED <<started, cancelling, refresh_queue, queued_keys, inflight_keys,
                    client, worker, scan, stopping>>
    BY DEF flight_cleanup, queueVars, loopVars
  <1>2. SF!IInv' /\ Kept(Tasks)
    BY Cleanup DEF IInv, flight_cleanup
  <1>3. FlightsRun'
    BY <1>1, <1>2, KeptFlights DEF IInv
  <1>4. WaitersAttached'
    BY <1>1, <1>2, KeptClients, KeptWorkers DEF IInv, WaitersAttached
  <1>5. InflightIsRefreshing'
    BY <1>1, <1>2, KeptInflight DEF IInv, MarksAreBacked
  <1>6. HandlerTypeOK' /\ OffUntilStarted' /\ QueuedIsInQueue'
    BY <1>1 DEF IInv, MarksAreBacked, HandlerTypeOK, OffUntilStarted, QueuedIsInQueue
  <1> QED
    BY <1>2, <1>3, <1>4, <1>5, <1>6 DEF IInv, MarksAreBacked

-----------------------------------------------------------------------------
(* A dropped job takes its marks with it. *)
LEMMA DropJobInv ==
    ASSUME IInv, NEW w \in Workers, DropJob(w)
    PROVE  IInv'
  <1>1. UNCHANGED <<tasks, owner, done, started, cancelling, client, worker, scan, stopping>>
    BY DEF DropJob, flightVars, loopVars
  <1>2. /\ refresh_queue' \in Seq(Keys)
        /\ queued_keys' \in SUBSET Keys
        /\ QueuedIsInQueue'
    BY Dequeue DEF IInv, MarksAreBacked, DropJob
  <1>3. SF!IInv' /\ Kept(Tasks)
    BY <1>1, SFUnchanged DEF IInv, sfVars
  <1>4. FlightsRun'
    BY <1>1, <1>3, KeptFlights DEF IInv
  <1>5. WaitersAttached'
    BY <1>1, <1>3, KeptClients, KeptWorkers DEF IInv, WaitersAttached
  <1>6. InflightIsRefreshing'
    BY <1>1 DEF IInv, MarksAreBacked, InflightIsRefreshing, DropJob
  <1>7. HandlerTypeOK' /\ OffUntilStarted'
    BY <1>1, <1>2 DEF IInv, HandlerTypeOK, OffUntilStarted, DropJob
  <1> QED
    BY <1>2, <1>3, <1>4, <1>5, <1>6, <1>7 DEF IInv, MarksAreBacked

(* A worker that waits for a flight backs the mark of its key. *)
LEMMA AttemptInv ==
    ASSUME IInv, NEW w \in Workers, worker_attempt(w)
    PROVE  IInv'
  <1> DEFINE k == Head(refresh_queue)
  <1>1. UNCHANGED <<started, cancelling, client, scan, stopping>>
    BY DEF worker_attempt
  <1>2. /\ k \in Keys
        /\ refresh_queue' \in Seq(Keys)
        /\ queued_keys' \in SUBSET Keys
        /\ QueuedIsInQueue'
    BY Dequeue DEF IInv, MarksAreBacked, worker_attempt
  <1>3. PICK t \in Tasks : /\ SF!get_or_create(ResolveKey(k), t)
                           /\ worker' = [worker EXCEPT ![w] = WaitFor(k, t)]
    BY Zenon DEF worker_attempt
  <1>4. worker[w].pc = "idle" /\ inflight_keys' = inflight_keys \cup {k}
    BY DEF worker_attempt
  <1> HIDE DEF k
  <1>5. SF!IInv' /\ SF!Running(t)' /\ owner'[t] = ResolveKey(k) /\ Kept(Tasks)
    BY <1>2, <1>3, FlightKeyTypes, JoinOrCreate DEF IInv
  <1>6. \A x \in Workers : worker'[x] = IF x = w THEN WaitFor(k, t) ELSE worker[x]
    BY <1>3 DEF IInv, HandlerTypeOK
  <1>7. /\ WaitFor(k, t) \in Waiter({"off", "idle", "wait", "resume"})
        /\ WaitFor(k, t).pc = "wait"
        /\ WaitFor(k, t).key = k
        /\ WaitFor(k, t).task = t
    BY <1>2 DEF WaitFor, Waiter, Results
  <1>8. HandlerTypeOK'
    BY <1>1, <1>2, <1>3, <1>4, <1>7 DEF IInv, HandlerTypeOK
  <1>9. FlightsRun'
    BY <1>1, <1>5, KeptFlights DEF IInv
  <1>10. \A x \in Workers : Attached(worker[x])'
    BY <1>2, <1>5, <1>6, <1>7 DEF IInv, WaitersAttached, Attached, Kept
  <1>11. WaitersAttached'
    BY <1>1, <1>5, <1>10, KeptClients DEF IInv, WaitersAttached
  <1>12. InflightIsRefreshing'
    <2>1. ASSUME NEW j \in inflight_keys', j # k
          PROVE  \/ \E u \in started' : owner'[u] = RefreshKey(j)
                 \/ \E x \in Workers : worker'[x].pc \in {"wait", "resume"} /\ worker'[x].key = j
      <3>1. \/ \E u \in started : owner[u] = RefreshKey(j)
            \/ \E x \in Workers : worker[x].pc \in {"wait", "resume"} /\ worker[x].key = j
        BY <1>4, <2>1 DEF IInv, MarksAreBacked, InflightIsRefreshing
      <3>2. \A u \in started : u \in started' /\ owner'[u] = owner[u]
        BY <1>1, <1>5 DEF IInv, HandlerTypeOK, FlightsRun, Kept
      <3> QED
        BY <1>4, <1>6, <3>1, <3>2
    <2>2. worker'[w].pc \in {"wait", "resume"} /\ worker'[w].key = k
      BY <1>6, <1>7
    <2> QED
      BY <2>1, <2>2 DEF InflightIsRefreshing
  <1>13. OffUntilStarted'
    BY <1>1, <1>4 DEF IInv, OffUntilStarted
  <1> QED
    BY <1>2, <1>5, <1>8, <1>9, <1>11, <1>12, <1>13 DEF IInv, MarksAreBacked

(* A worker that goes on takes the mark of its key away. *)
LEMMA WorkerResumedInv ==
    ASSUME IInv, NEW w \in Workers, worker_resumed(w)
    PROVE  IInv'
  <1>1. UNCHANGED <<tasks, owner, done, started, cancelling, refresh_queue, queued_keys,
                    client, scan, stopping>>
    BY DEF worker_resumed, flightVars
  <1>2. PICK pc \in {"off", "idle"} : worker' = [worker EXCEPT ![w] = At(pc)]
    <2>1. CASE worker[w].result = Cancelled \/ scan = "ended"
      BY <2>1, ZenonT(60) DEF worker_resumed
    <2>2. CASE ~(worker[w].result = Cancelled \/ scan = "ended")
      BY <2>2 DEF worker_resumed
    <2> QED
      BY <2>1, <2>2
  <1>3. At(pc) \in Waiter({"off", "idle", "wait", "resume"}) /\ At(pc).pc = pc
    BY DEF At, Waiter, Results
  <1>4. \A x \in Workers : worker'[x] = IF x = w THEN At(pc) ELSE worker[x]
    BY <1>2 DEF IInv, HandlerTypeOK
  <1>5. worker[w].pc = "resume" /\ inflight_keys' = inflight_keys \ {worker[w].key}
    BY DEF worker_resumed
  <1>6. SF!IInv' /\ Kept(Tasks)
    BY <1>1, SFUnchanged DEF IInv, sfVars
  <1>7. HandlerTypeOK'
    BY <1>1, <1>2, <1>3, <1>5 DEF IInv, HandlerTypeOK
  <1>8. FlightsRun'
    BY <1>1, <1>6, KeptFlights DEF IInv
  <1>9. \A x \in Workers : Attached(worker[x])'
    BY <1>3, <1>4, <1>6 DEF IInv, WaitersAttached, Attached, Kept
  <1>10. WaitersAttached'
    BY <1>1, <1>6, <1>9, KeptClients DEF IInv, WaitersAttached
  <1>11. InflightIsRefreshing'
    BY <1>1, <1>4, <1>5, ZenonT(60) DEF IInv, MarksAreBacked, InflightIsRefreshing
  <1>12. OffUntilStarted' /\ QueuedIsInQueue'
    BY <1>1, <1>5, Zenon DEF IInv, MarksAreBacked, OffUntilStarted, QueuedIsInQueue
  <1> QED
    BY <1>6, <1>7, <1>8, <1>10, <1>11, <1>12 DEF IInv, MarksAreBacked

-----------------------------------------------------------------------------
(* A batch of jobs is put behind the queue. *)
LEMMA Concatenation ==
    ASSUME NEW S, NEW s \in Seq(S), NEW t \in Seq(S)
    PROVE  /\ s \o t \in Seq(S)
           /\ Len(s \o t) = Len(s) + Len(t)
           /\ \A i \in 1 .. Len(s) + Len(t) :
                (s \o t)[i] = IF i <= Len(s) THEN s[i] ELSE t[i - Len(s)]
  <1>1. s \o t \in Seq(S) /\ Len(s \o t) = Len(s) + Len(t)
    OBVIOUS
  <1>2. \A i \in 1 .. Len(s) + Len(t) :
          (s \o t)[i] = IF i <= Len(s) THEN s[i] ELSE t[i - Len(s)]
    OBVIOUS
  <1> QED
    BY <1>1, <1>2

(* The scan adds a job for every key it marks. *)
LEMMA ScanInv ==
    ASSUME IInv, refresh_scan_tick
    PROVE  IInv'
  <1>1. UNCHANGED <<tasks, owner, done, started, cancelling, inflight_keys, client, worker,
                    scan, stopping>>
    BY DEF refresh_scan_tick, flightVars, loopVars
  <1>2. PICK n \in ScanSizes : \E batch \in [1 .. n -> ScanCandidates] :
                 /\ refresh_queue' = refresh_queue \o batch
                 /\ queued_keys' = queued_keys \cup {batch[i] : i \in 1 .. n}
    BY Zenon DEF refresh_scan_tick
  <1>3. PICK batch \in [1 .. n -> ScanCandidates] :
                 /\ refresh_queue' = refresh_queue \o batch
                 /\ queued_keys' = queued_keys \cup {batch[i] : i \in 1 .. n}
    BY <1>2, ZenonT(60)
  <1>4. n \in Nat /\ n <= ScanRoom
    BY DEF ScanSizes
  <1>5. batch \in Seq(Keys) /\ Len(batch) = n /\ \A i \in 1 .. n : batch[i] \in Keys
    BY <1>4 DEF ScanCandidates
  <1>6. /\ refresh_queue \in Seq(Keys)
        /\ Len(refresh_queue) \in Nat
        /\ refresh_queue' \in Seq(Keys)
        /\ Len(refresh_queue') = Len(refresh_queue) + n
        /\ \A i \in 1 .. Len(refresh_queue) : refresh_queue'[i] = refresh_queue[i]
        /\ \A i \in 1 .. n : refresh_queue'[Len(refresh_queue) + i] = batch[i]
    <2>1. refresh_queue \in Seq(Keys) /\ Len(refresh_queue) \in Nat
      BY DEF IInv, HandlerTypeOK
    <2>2. /\ refresh_queue' \in Seq(Keys)
          /\ Len(refresh_queue') = Len(refresh_queue) + n
          /\ \A i \in 1 .. Len(refresh_queue) + n :
               refresh_queue'[i] = IF i <= Len(refresh_queue) THEN refresh_queue[i]
                                   ELSE batch[i - Len(refresh_queue)]
      BY <1>3, <1>5, <2>1, Concatenation
    <2> HIDE <1>3
    <2>3. ASSUME NEW i \in 1 .. n
          PROVE  refresh_queue'[Len(refresh_queue) + i] = batch[i]
      <3>1. /\ Len(refresh_queue) + i \in 1 .. Len(refresh_queue) + n
            /\ ~(Len(refresh_queue) + i <= Len(refresh_queue))
            /\ (Len(refresh_queue) + i) - Len(refresh_queue) = i
        BY <1>4, <2>1
      <3> QED
        BY <2>2, <3>1
    <2>4. \A i \in 1 .. Len(refresh_queue) : refresh_queue'[i] = refresh_queue[i]
      BY <1>4, <2>1, <2>2
    <2> QED
      BY <2>1, <2>2, <2>3, <2>4
  <1>7. QueuedIsInQueue'
    <2> SUFFICES ASSUME NEW k \in queued_keys'
                 PROVE  \E i \in 1 .. Len(refresh_queue') : refresh_queue'[i] = k
      BY DEF QueuedIsInQueue
    <2>1. CASE k \in queued_keys
      BY <1>4, <1>6, <2>1 DEF IInv, MarksAreBacked, QueuedIsInQueue
    <2>2. CASE \E i \in 1 .. n : k = batch[i]
      <3>1. PICK i \in 1 .. n : k = batch[i]
        BY <2>2
      <3>2. Len(refresh_queue) + i \in 1 .. Len(refresh_queue')
        BY <1>4, <1>6
      <3> QED
        BY <1>6, <3>1, <3>2
    <2> QED
      BY <1>3, <2>1, <2>2
  <1>9. queued_keys' \in SUBSET Keys
    BY <1>3, <1>5 DEF IInv, HandlerTypeOK
  <1>10. SF!IInv' /\ Kept(Tasks)
    BY <1>1, SFUnchanged DEF IInv, sfVars
  <1>11. FlightsRun'
    BY <1>1, <1>10, KeptFlights DEF IInv
  <1>12. WaitersAttached'
    BY <1>1, <1>10, KeptClients, KeptWorkers DEF IInv, WaitersAttached
  <1>13. InflightIsRefreshing'
    BY <1>1, <1>10, KeptInflight DEF IInv, MarksAreBacked
  <1>14. HandlerTypeOK' /\ OffUntilStarted'
    BY <1>1, <1>6, <1>9 DEF IInv, HandlerTypeOK, OffUntilStarted
  <1> QED
    BY <1>7, <1>10, <1>11, <1>12, <1>13, <1>14 DEF IInv, MarksAreBacked

(* The workers start with nothing to do: none of them backs a mark. *)
LEMMA StartTasksInv ==
    ASSUME IInv, start_refresh_tasks
    PROVE  IInv'
  <1>1. UNCHANGED <<tasks, owner, done, started, cancelling, refresh_queue, queued_keys,
                    inflight_keys, client, stopping>>
    BY DEF start_refresh_tasks, flightVars, queueVars
  <1>2. /\ scan' = "on"
        /\ worker' = [w \in Workers |-> At("idle")]
        /\ \A w \in Workers : worker[w].pc = "off"
    BY DEF start_refresh_tasks, IInv, OffUntilStarted
  <1>3. At("idle") \in Waiter({"off", "idle", "wait", "resume"}) /\ At("idle").pc = "idle"
    BY DEF At, Waiter, Results
  <1>4. SF!IInv' /\ Kept(Tasks)
    BY <1>1, SFUnchanged DEF IInv, sfVars
  <1>5. FlightsRun'
    BY <1>1, <1>4, KeptFlights DEF IInv
  <1>6. \A w \in Workers : Attached(worker[w])'
    BY <1>2, <1>3 DEF Attached
  <1>7. WaitersAttached'
    BY <1>1, <1>4, <1>6, KeptClients DEF IInv, WaitersAttached
  <1>8. InflightIsRefreshing'
    BY <1>1, <1>2 DEF IInv, MarksAreBacked, InflightIsRefreshing
  <1>9. HandlerTypeOK' /\ OffUntilStarted' /\ QueuedIsInQueue'
    BY <1>1, <1>2, <1>3
    DEF IInv, MarksAreBacked, HandlerTypeOK, OffUntilStarted, QueuedIsInQueue
  <1> QED
    BY <1>4, <1>5, <1>7, <1>8, <1>9 DEF IInv, MarksAreBacked

(* Stopping cancels only flights that workers wait for: they run, and they  *)
(* resolve.                                                                 *)
LEMMA StopTasksInv ==
    ASSUME IInv, stop_refresh_tasks
    PROVE  IInv'
  <1>1. UNCHANGED <<tasks, owner, done, started, refresh_queue, queued_keys, inflight_keys,
                    client, stopping>>
    BY DEF stop_refresh_tasks, sfVars, queueVars
  <1>2. scan' = "ended"
    BY DEF stop_refresh_tasks
  <1>3. \A w \in Workers : worker'[w] = IF worker[w].pc = "idle" THEN At("off") ELSE worker[w]
    BY DEF stop_refresh_tasks
  <1>4. cancelling' = cancelling \cup
                      {worker[w].task : w \in {x \in Workers : worker[x].pc = "wait"}}
    BY DEF stop_refresh_tasks
  <1>5. At("off") \in Waiter({"off", "idle", "wait", "resume"}) /\ At("off").pc = "off"
    BY DEF At, Waiter, Results
  <1>6. worker' \in [Workers -> Waiter({"off", "idle", "wait", "resume"})]
    BY <1>5 DEF IInv, HandlerTypeOK, stop_refresh_tasks
  <1>7. ASSUME NEW t \in cancelling' \ cancelling
        PROVE  t \in Tasks /\ SF!Running(t) /\ owner[t].use = "resolve"
    <2>1. PICK w \in Workers : worker[w].pc = "wait" /\ t = worker[w].task
      BY <1>4, <1>7
    <2>2. t \in Tasks /\ SF!Running(t) /\ owner[t] = ResolveKey(worker[w].key)
      BY <2>1 DEF IInv, WaitersAttached, Attached
    <2> QED
      BY <2>2 DEF ResolveKey
  <1>8. SF!IInv' /\ Kept(Tasks)
    BY <1>1, SFUnchanged DEF IInv, sfVars
  <1>9. HandlerTypeOK'
    BY <1>1, <1>2, <1>4, <1>6, <1>7, ZenonT(60) DEF IInv, HandlerTypeOK
  <1>10. FlightsRun'
    BY <1>1, <1>7, <1>8 DEF IInv, HandlerTypeOK, FlightsRun, Kept
  <1>11. \A w \in Workers : Attached(worker[w])'
    BY <1>3, <1>5, <1>8 DEF IInv, WaitersAttached, Attached, Kept
  <1>12. WaitersAttached'
    BY <1>1, <1>8, <1>11, KeptClients DEF IInv, WaitersAttached
  <1>13. InflightIsRefreshing'
    BY <1>1, <1>3, <1>5 DEF IInv, MarksAreBacked, InflightIsRefreshing
  <1>14. OffUntilStarted' /\ QueuedIsInQueue'
    BY <1>1, <1>2 DEF IInv, MarksAreBacked, OffUntilStarted, QueuedIsInQueue
  <1> QED
    BY <1>8, <1>9, <1>10, <1>12, <1>13, <1>14 DEF IInv, MarksAreBacked

(* Cancelling a call of handle cancels the flight it waits for, which runs  *)
(* and resolves.                                                            *)
LEMMA CancelHandleInv ==
    ASSUME IInv, NEW c \in Clients, cancel_handle(c)
    PROVE  IInv'
  <1>1. UNCHANGED <<tasks, owner, done, started, refresh_queue, queued_keys, inflight_keys,
                    worker, scan, stopping>>
    BY DEF cancel_handle, sfVars, queueVars, loopVars
  <1>2. SF!IInv' /\ Kept(Tasks)
    BY <1>1, SFUnchanged DEF IInv, sfVars
  <1>3. /\ FlightsRun'
        /\ cancelling' \in SUBSET Tasks
        /\ client' \in [Clients -> Waiter({"idle", "wait", "resume"})]
        /\ \A d \in Clients : Attached(client[d])'
    <2>1. CASE /\ client[c].pc = "wait"
               /\ cancelling' = cancelling \cup {client[c].task}
               /\ UNCHANGED client
      <3>1. /\ client[c].task \in Tasks
            /\ SF!Running(client[c].task)
            /\ owner[client[c].task].use = "resolve"
        <4>1. /\ client[c].task \in Tasks
              /\ SF!Running(client[c].task)
              /\ owner[client[c].task] = ResolveKey(client[c].key)
          BY <2>1 DEF IInv, WaitersAttached, Attached
        <4> QED
          BY <4>1 DEF ResolveKey
      <3>2. FlightsRun' /\ cancelling' \in SUBSET Tasks
        BY <1>1, <1>2, <2>1, <3>1, ZenonT(60) DEF IInv, HandlerTypeOK, FlightsRun, Kept
      <3> QED
        BY <1>2, <2>1, <3>2, KeptClients DEF IInv, HandlerTypeOK
    <2>2. CASE /\ client[c].pc = "resume"
               /\ client' = [client EXCEPT ![c] = Resumed(client[c].key, Cancelled)]
               /\ UNCHANGED cancelling
      <3> DEFINE x == Resumed(client[c].key, Cancelled)
      <3>1. client[c].key \in Keys
        BY <2>2, ZenonT(60) DEF IInv, WaitersAttached, Attached
      <3>2. x \in Waiter({"idle", "wait", "resume"}) /\ x.pc = "resume" /\ x.key \in Keys
        BY <3>1 DEF Resumed, Waiter, Results
      <3> HIDE DEF x
      <3>3. \A d \in Clients : client'[d] = IF d = c THEN x ELSE client[d]
        BY <2>2 DEF IInv, HandlerTypeOK, x
      <3>4. client' \in [Clients -> Waiter({"idle", "wait", "resume"})]
        BY <2>2, <3>2 DEF IInv, HandlerTypeOK, x
      <3>5. \A d \in Clients : Attached(client[d])'
        BY <1>2, <3>2, <3>3 DEF IInv, WaitersAttached, Attached, Kept
      <3>6. FlightsRun'
        BY <1>1, <1>2, <2>2, KeptFlights DEF IInv
      <3> QED
        BY <2>2, <3>4, <3>5, <3>6 DEF IInv, HandlerTypeOK
    <2> QED
      BY <2>1, <2>2 DEF cancel_handle
  <1>4. WaitersAttached'
    BY <1>1, <1>2, <1>3, KeptWorkers DEF IInv, WaitersAttached
  <1>5. InflightIsRefreshing'
    BY <1>1, <1>2, KeptInflight DEF IInv, MarksAreBacked
  <1>6. HandlerTypeOK' /\ OffUntilStarted' /\ QueuedIsInQueue'
    BY <1>1, <1>3 DEF IInv, MarksAreBacked, HandlerTypeOK, OffUntilStarted,
                      QueuedIsInQueue
  <1> QED
    BY <1>2, <1>3, <1>4, <1>5, <1>6 DEF IInv, MarksAreBacked

-----------------------------------------------------------------------------
(* At startup the queue holds the warmup jobs and nothing else happens. *)
LEMMA InitInv == Init => IInv
  <1> SUFFICES ASSUME Init PROVE IInv
    OBVIOUS
  <1>1. SF!IInv
    BY HandlerAssumption
    DEF Init, SF!Init, SF!IInv, SF!TypeOK, SF!RunningRegistered, SF!NoLeakedEntry,
        SF!DoneOwned, SF!Running
  <1>2. /\ At("idle") \in Waiter({"idle", "wait", "resume"}) /\ At("idle").pc = "idle"
        /\ At("off") \in Waiter({"off", "idle", "wait", "resume"}) /\ At("off").pc = "off"
    BY DEF At, Waiter, Results
  <1>3. \A i \in 1 .. Len(Warmup) : Warmup[i] \in Keys
    BY HandlerAssumption
  <1>4. HandlerTypeOK
    BY <1>2, <1>3, HandlerAssumption, Zenon DEF Init, HandlerTypeOK
  <1>5. WaitersAttached /\ OffUntilStarted /\ FlightsRun
    BY <1>2 DEF Init, WaitersAttached, Attached, OffUntilStarted, FlightsRun
  <1>6. MarksAreBacked
    BY WarmupAssumption
    DEF Init, MarksAreBacked, QueuedIsInQueue, InflightIsRefreshing
  <1> QED
    BY <1>1, <1>4, <1>5, <1>6 DEF IInv

(* Every step keeps the invariant. *)
LEMMA NextInv == IInv /\ [Next]_vars => IInv'
  <1> SUFFICES ASSUME IInv, [Next]_vars PROVE IInv'
    OBVIOUS
  <1>1. ASSUME NEW c \in Clients, NEW k \in Keys, Handle(c, k) PROVE IInv'
    <2>1. CASE handle_fresh(c, k)
      BY <2>1, CacheOnlyInv DEF handle_fresh
    <2>2. CASE handle_stale(c, k)
      BY <2>2, ServeStaleInv DEF handle_stale
    <2>3. CASE handle_miss(c, k)
      BY <2>3, MissInv
    <2> QED
      BY <1>1, <2>1, <2>2, <2>3 DEF Handle
  <1>2. ASSUME NEW c \in Clients, Resume(c) PROVE IInv'
    <2>1. CASE handle_resumed(c)
      BY <2>1, HandleEndsInv, Zenon DEF handle_resumed
    <2>2. CASE handle_late_stale(c)
      <3>1. client[c].key \in Keys
        BY <2>2 DEF handle_late_stale, IInv, WaitersAttached, Attached
      <3> QED
        BY <2>2, <3>1, ServeStaleInv DEF handle_late_stale
    <2>3. CASE handle_servfail(c)
      BY <2>3, HandleEndsInv, ZenonT(60) DEF handle_servfail
    <2> QED
      BY <1>2, <2>1, <2>2, <2>3 DEF Resume
  <1>3. ASSUME NEW t \in Tasks, Flight(t) PROVE IInv'
    <2>1. ASSUME NEW r \in Responses \cup {None}, flight_return(t, r) PROVE IInv'
      BY <2>1, EndFlightInv DEF flight_return, Results
    <2>2. CASE flight_cancelled(t)
      BY <2>2, EndFlightInv DEF flight_cancelled, Results
    <2> QED
      BY <1>3, <2>1, <2>2, StartInv, CleanupInv DEF Flight
  <1>4. ASSUME NEW w \in Workers, Work(w) PROVE IInv'
    BY <1>4, DropJobInv, AttemptInv, WorkerResumedInv DEF Work, worker_skip, worker_fail
  <1>5. CASE Lifecycle
    <2>1. CASE stop_signal
      <3>1. UNCHANGED <<tasks, owner, done, started, cancelling, refresh_queue, queued_keys,
                        inflight_keys, client, worker, scan>>
            /\ stopping' \in BOOLEAN
        BY <2>1 DEF stop_signal, flightVars, queueVars
      <3>2. SF!IInv' /\ Kept(Tasks)
        BY <3>1, SFUnchanged DEF IInv, sfVars
      <3>3. FlightsRun' /\ InflightIsRefreshing'
        BY <3>1, <3>2, KeptFlights, KeptInflight DEF IInv, MarksAreBacked
      <3>4. WaitersAttached'
        BY <3>1, <3>2, KeptClients, KeptWorkers DEF IInv, WaitersAttached
      <3>5. HandlerTypeOK' /\ OffUntilStarted' /\ QueuedIsInQueue'
        BY <3>1 DEF IInv, MarksAreBacked, HandlerTypeOK, OffUntilStarted,
                    QueuedIsInQueue
      <3> QED
        BY <3>2, <3>3, <3>4, <3>5 DEF IInv, MarksAreBacked
    <2> QED
      BY <1>5, <2>1, StartTasksInv, StopTasksInv DEF Lifecycle
  <1>6. CASE cache_clear \/ tick
    BY <1>6, CacheOnlyInv DEF cache_clear, tick
  <1>7. CASE UNCHANGED vars
    BY <1>7, CacheOnlyInv DEF vars
  <1> QED
    BY <1>1, <1>2, <1>3, <1>4, <1>5, <1>6, <1>7, CancelHandleInv, ScanInv DEF Next

-----------------------------------------------------------------------------
(* The inductive invariant holds of the handler: the state of handler.py is  *)
(* well typed, started and cancelled flights run, nobody waits for a flight  *)
(* that has ended, and no worker runs before start_refresh_tasks.            *)
THEOREM Inductive == Spec => []IInv
  BY InitInv, NextInv, PTL DEF Spec

(* At most one flight resolves a key and at most one revalidates it, for any *)
(* number of clients, workers and keys and any interleaving of handle, the   *)
(* workers, completions, cancellations and done callbacks (handler.py with   *)
(* SingleFlight.get_or_create).                                              *)
THEOREM Deduplicates == Spec => []OneFlightPerKey
  <1>1. IInv => OneFlightPerKey
    BY DEF IInv, SF!IInv, OneFlightPerKey, SF!OneFlightPerKey, SF!RunningRegistered
  <1> QED
    BY <1>1, Inductive, PTL

(* No key is turned away for ever: what enqueue_refresh finds in queued_keys *)
(* is a job in the queue, what it finds in inflight_keys is a refresh flight *)
(* or a worker at work.                                                      *)
THEOREM NoOrphanedMark == Spec => []MarksAreBacked
  <1>1. IInv => MarksAreBacked
    BY DEF IInv
  <1> QED
    BY <1>1, Inductive, PTL

(* Whoever awaits a flight, client or refresh worker, awaits one that runs   *)
(* and resolves its key: no end, failure or cancellation of a flight leaves  *)
(* one of its waiters behind.                                                *)
THEOREM NobodyIsLeftBehind == Spec => []WaitersAttached
  <1>1. IInv => WaitersAttached
    BY DEF IInv
  <1> QED
    BY <1>1, Inductive, PTL

-----------------------------------------------------------------------------
(* The handler uses the cache only through get_fresh, get_stale, put and     *)
(* clear: every behaviour of the handler is, on _store, a behaviour of       *)
(* MemoryDnsCache, so all that is proved of the cache holds in the handler.  *)
THEOREM RefinesCache == Spec => ImplementsCache
  <1>1. Init => Cache!Init
    BY DEF Init
  <1>2. IInv /\ [Next]_vars => [Cache!Next]_(Cache!cacheVars)
    <2> SUFFICES ASSUME IInv, [Next]_vars PROVE [Cache!Next]_(Cache!cacheVars)
      OBVIOUS
    <2>1. ASSUME NEW c \in Clients, NEW k \in Keys, Handle(c, k)
          PROVE  [Cache!Next]_(Cache!cacheVars)
      BY <2>1 DEF Handle, handle_fresh, handle_stale, handle_miss, ServeStale, Cache!Next,
                  cacheVars, Cache!cacheVars
    <2>2. ASSUME NEW c \in Clients, Resume(c) PROVE [Cache!Next]_(Cache!cacheVars)
      <3>1. client[c].pc = "resume" => client[c].key \in Keys
        BY Zenon DEF IInv, WaitersAttached, Attached
      <3> QED
        BY <2>2, <3>1 DEF Resume, handle_resumed, handle_late_stale, handle_servfail,
                          ServeStale, Cache!Next, cacheVars, Cache!cacheVars
    <2>3. ASSUME NEW t \in Tasks, Flight(t) PROVE [Cache!Next]_(Cache!cacheVars)
      <3>1. ASSUME NEW r \in Responses \cup {None}, flight_return(t, r)
            PROVE  [Cache!Next]_(Cache!cacheVars)
        <4>1. SF!Running(t)
          BY <3>1 DEF IInv, FlightsRun, flight_return
        <4>2. owner[t].key \in Keys
          BY <4>1 DEF IInv, SF!IInv, SF!TypeOK, SF!Running, FlightKeys
        <4>3. CASE r = None
          BY <3>1, <4>3 DEF flight_return, cacheVars, Cache!cacheVars
        <4>4. CASE r # None
          BY <3>1, <4>2, <4>4 DEF flight_return, Cache!Next
        <4> QED
          BY <4>3, <4>4
      <3>2. CASE flight_start(t) \/ flight_cancelled(t) \/ flight_cleanup(t)
        BY <3>2 DEF flight_start, flight_cancelled, flight_cleanup, cacheVars,
                    Cache!cacheVars
      <3> QED
        BY <2>3, <3>1, <3>2 DEF Flight
    <2>4. ASSUME NEW w \in Workers, Work(w) PROVE [Cache!Next]_(Cache!cacheVars)
      BY <2>4 DEF Work, worker_skip, worker_fail, DropJob, worker_attempt, worker_resumed,
                  cacheVars, Cache!cacheVars
    <2>5. ASSUME NEW c \in Clients, cancel_handle(c) PROVE [Cache!Next]_(Cache!cacheVars)
      BY <2>5 DEF cancel_handle, cacheVars, Cache!cacheVars
    <2>6. CASE refresh_scan_tick \/ Lifecycle \/ UNCHANGED vars
      BY <2>6 DEF refresh_scan_tick, Lifecycle, start_refresh_tasks, stop_signal,
                  stop_refresh_tasks, vars, cacheVars, Cache!cacheVars
    <2>7. CASE cache_clear \/ tick
      BY <2>7 DEF cache_clear, tick, Cache!Next
    <2> QED
      BY <2>1, <2>2, <2>3, <2>4, <2>5, <2>6, <2>7 DEF Next
  <1> QED
    BY <1>1, <1>2, Inductive, PTL DEF Spec, ImplementsCache, Cache!Spec

(* The handler uses SingleFlight only through get_or_create: its tasks end   *)
(* and are cleaned up as SingleFlight lets them, whoever waits for them or   *)
(* cancels them.                                                             *)
THEOREM RefinesSingleFlight == Spec => ImplementsSingleFlight
  <1>1. Init => SF!Init
    BY DEF Init
  <1>2. IInv /\ [Next]_vars => [SF!Next]_(SF!sfVars)
    <2> SUFFICES ASSUME IInv, [Next]_vars PROVE [SF!Next]_(SF!sfVars)
      OBVIOUS
    <2>1. ASSUME NEW c \in Clients, NEW k \in Keys, ServeStale(c, k)
          PROVE  [SF!Next]_(SF!sfVars)
      BY <2>1, FlightKeyTypes DEF ServeStale, SF!Next
    <2>2. ASSUME NEW c \in Clients, NEW k \in Keys, Handle(c, k)
          PROVE  [SF!Next]_(SF!sfVars)
      BY <2>1, <2>2, FlightKeyTypes
      DEF Handle, handle_fresh, handle_stale, handle_miss, SF!Next, flightVars, SF!sfVars
    <2>3. ASSUME NEW c \in Clients, Resume(c) PROVE [SF!Next]_(SF!sfVars)
      <3>1. client[c].pc = "resume" => client[c].key \in Keys
        BY DEF IInv, WaitersAttached, Attached
      <3> QED
        BY <2>1, <2>3, <3>1 DEF Resume, handle_resumed, handle_late_stale,
                                handle_servfail, flightVars, SF!sfVars
    <2>4. ASSUME NEW t \in Tasks, Flight(t) PROVE [SF!Next]_(SF!sfVars)
      BY <2>4, ZenonT(60) DEF Flight, flight_start, flight_return, flight_cancelled, flight_cleanup,
                  EndFlight, SF!Next, sfVars, SF!sfVars
    <2>5. ASSUME NEW w \in Workers, Work(w) PROVE [SF!Next]_(SF!sfVars)
      <3>1. CASE worker_attempt(w)
        <4>1. refresh_queue \in Seq(Keys)
          BY DEF IInv, HandlerTypeOK
        <4>2. refresh_queue # <<>>
          BY <3>1 DEF worker_attempt
        <4>3. Head(refresh_queue) \in Keys
          BY <4>1, <4>2
        <4> QED
          BY <3>1, <4>3, FlightKeyTypes DEF worker_attempt, SF!Next
      <3> QED
        BY <2>5, <3>1 DEF Work, worker_skip, worker_fail, DropJob, worker_resumed,
                          flightVars, SF!sfVars
    <2>6. ASSUME NEW c \in Clients, cancel_handle(c) PROVE [SF!Next]_(SF!sfVars)
      BY <2>6 DEF cancel_handle, sfVars, SF!sfVars
    <2>7. CASE refresh_scan_tick \/ Lifecycle \/ cache_clear \/ tick \/ UNCHANGED vars
      BY <2>7 DEF refresh_scan_tick, Lifecycle, start_refresh_tasks, stop_signal,
                  stop_refresh_tasks, cache_clear, tick, vars, flightVars, sfVars, SF!sfVars
    <2> QED
      BY <2>2, <2>3, <2>4, <2>5, <2>6, <2>7 DEF Next
  <1> QED
    BY <1>1, <1>2, Inductive, PTL DEF Spec, ImplementsSingleFlight, SF!Spec

(* Whoever is served a stale answer leaves a running refresh flight behind:  *)
(* _schedule_refresh creates one or joins one that is not done.              *)
THEOREM Revalidates == Spec => StaleIsRevalidated
  <1>1. IInv /\ [Next]_vars =>
          [\A c \in Clients, k \in Keys :
             ServeStale(c, k) =>
                \E t \in Tasks : SF!Running(t)' /\ owner'[t] = RefreshKey(k)]_vars
    <2> SUFFICES ASSUME IInv, NEW c \in Clients, NEW k \in Keys, ServeStale(c, k)
                 PROVE  \E t \in Tasks : SF!Running(t)' /\ owner'[t] = RefreshKey(k)
      OBVIOUS
    <2>1. PICK t \in Tasks : SF!get_or_create(RefreshKey(k), t)
      BY DEF ServeStale
    <2> QED
      BY <2>1, FlightKeyTypes, JoinOrCreate DEF IInv
  <1> QED
    BY <1>1, Inductive, PTL DEF Spec, StaleIsRevalidated

-----------------------------------------------------------------------------
(* The warmup file: what its loops leave in the queue, by induction over     *)
(* their rounds.                                                             *)
W == INSTANCE WellFoundedInduction

(* A set of rounds that contains the start and goes on contains all. *)
LEMMA LoopInduction ==
    ASSUME NEW N \in Nat, NEW T \in SUBSET (0 .. N), 0 \in T,
           \A n \in 1 .. N : n - 1 \in T => n \in T
    PROVE  T = 0 .. N
  <1> DEFINE R == {p \in Nat \X Nat : p[1] < p[2]}
             Missed == (0 .. N) \ T
  <1>1. W!IsWellFoundedOn(R, Nat)
    BY W!NatLessThanWellFounded, Zenon DEF W!OpToRel
  <1> SUFFICES ASSUME Missed # {} PROVE FALSE
    OBVIOUS
  <1> HIDE DEF R
  <1>2. PICK m \in Missed : \A n \in Missed : ~ (<<n, m>> \in R)
    <2>1. Missed \in SUBSET Nat
      OBVIOUS
    <2> HIDE DEF Missed
    <2> QED
      BY <1>1, <2>1, W!WFMin
  <1>3. m \in 1 .. N
    OBVIOUS
  <1>4. m - 1 \in Missed
    BY <1>3
  <1>5. <<m - 1, m>> \in R
    BY <1>3 DEF R
  <1> QED
    BY <1>2, <1>4, <1>5

(* The N rounds of a loop over S, and the values f of its variable after     *)
(* each of them.                                                             *)
Rounds(step, S, N) == \A s \in S, n \in 1 .. N : step[<<s, n>>] \in S
Values(f, s0, step, S, N) ==
    /\ f \in [0 .. N -> S]
    /\ f[0] = s0
    /\ \A n \in 1 .. N : f[n] = step[<<f[n - 1], n>>]

(* Such values exist. *)
LEMMA LoopExists ==
    ASSUME NEW N \in Nat, NEW S, NEW s0 \in S, NEW step,
           Rounds(step, S, N)
    PROVE  \E f : Values(f, s0, step, S, N)
  <1> DEFINE Runs(f, m) == f[0] = s0 /\ \A n \in 1 .. m : f[n] = step[<<f[n - 1], n>>]
             T == {m \in 0 .. N : \E f \in [0 .. m -> S] : Runs(f, m)}
  <1>1. 0 \in T
    <2> DEFINE f == [n \in 0 .. 0 |-> s0]
    <2>1. f \in [0 .. 0 -> S] /\ Runs(f, 0)
      OBVIOUS
    <2>2. 0 \in 0 .. N
      OBVIOUS
    <2> HIDE DEF f, Runs
    <2> QED
      BY <2>1, <2>2, Zenon
  <1>2. ASSUME NEW m \in 1 .. N, m - 1 \in T PROVE m \in T
    <2>1. PICK f \in [0 .. m - 1 -> S] : Runs(f, m - 1)
      BY <1>2
    <2> DEFINE x == step[<<f[m - 1], m>>]
               g == [n \in 0 .. m |-> IF n = m THEN x ELSE f[n]]
    <2>2. f[m - 1] \in S /\ x \in S
      BY <2>1 DEF Rounds
    <2>3. g \in [0 .. m -> S]
      <3> HIDE DEF x
      <3> QED
        BY <2>2
    <2>4. Runs(g, m)
      <3>1. g[0] = s0
        BY <2>1
      <3>2. ASSUME NEW n \in 1 .. m PROVE g[n] = step[<<g[n - 1], n>>]
        <4>1. g[n - 1] = f[n - 1]
          OBVIOUS
        <4>2. CASE n = m
          <5>1. g[n] = x
            BY <4>2
          <5> QED
            BY <4>1, <4>2, <5>1
        <4>3. CASE n # m
          <5>1. g[n] = f[n] /\ n \in 1 .. m - 1
            BY <4>3
          <5> HIDE DEF g
          <5> QED
            BY <2>1, <4>1, <5>1
        <4> QED
          BY <4>2, <4>3
      <3> QED
        BY <3>1, <3>2
    <2>5. m \in 0 .. N
      OBVIOUS
    <2> HIDE DEF g, Runs
    <2> QED
      BY <2>3, <2>4, <2>5, Zenon
  <1>3. T = 0 .. N
    <2> HIDE DEF T
    <2>1. T \in SUBSET (0 .. N)
      BY DEF T
    <2> QED
      BY <1>1, <1>2, <2>1, LoopInduction
  <1>4. N \in T
    <2>1. N \in 0 .. N
      OBVIOUS
    <2> HIDE DEF T
    <2> QED
      BY <1>3, <2>1
  <1> QED
    BY <1>4 DEF Values

(* What goes by the same rounds as long as it is in S has such values. *)
LEMMA LoopValues ==
    ASSUME NEW N \in Nat, NEW S, NEW s0 \in S, NEW step, Rounds(step, S, N), NEW P,
           P = [n \in 0 .. N |-> P[n]], P[0] = s0,
           \A n \in 1 .. N : P[n - 1] \in S => P[n] = step[<<P[n - 1], n>>]
    PROVE  Values(P, s0, step, S, N)
  <1> DEFINE T == {n \in 0 .. N : P[n] \in S}
  <1>1. \A n \in 1 .. N : n - 1 \in 0 .. N /\ n \in 0 .. N
    OBVIOUS
  <1>2. T = 0 .. N
    <2>1. 0 \in T
      OBVIOUS
    <2>2. \A n \in 1 .. N : n - 1 \in T => n \in T
      BY <1>1 DEF Rounds
    <2>3. T \in SUBSET (0 .. N)
      OBVIOUS
    <2> HIDE DEF T
    <2> QED
      BY <2>1, <2>2, <2>3, LoopInduction
  <1>3. \A n \in 0 .. N : P[n] \in S
    BY <1>2
  <1> QED
    BY <1>1, <1>3 DEF Values

(* parse_warmup_source keeps the keys of the jobs, line by line. *)
LEMMA ParsedLines ==
    ASSUME NEW K, NEW lines \in Seq(WarmupLine(K))
    PROVE  /\ Parsed(lines) \in [0 .. Len(lines) -> Seq(K)]
           /\ Parsed(lines)[0] = <<>>
           /\ \A n \in 1 .. Len(lines) :
                 Parsed(lines)[n] = IF IsJob(lines[n])
                                    THEN Append(Parsed(lines)[n - 1], lines[n].key)
                                    ELSE Parsed(lines)[n - 1]
  <1> DEFINE N == Len(lines)
             Round(items, n) == IF IsJob(lines[n]) THEN Append(items, lines[n].key) ELSE items
             step == [p \in Seq(K) \X (1 .. N) |-> Round(p[1], p[2])]
             Body(g) == [n \in 0 .. N |-> IF n = 0 THEN <<>> ELSE Round(g[n - 1], n)]
             P == Parsed(lines)
  <1>1. N \in Nat /\ \A n \in 1 .. N : n - 1 \in 0 .. N /\ n \in 0 .. N /\ n # 0
    OBVIOUS
  <1>2. ASSUME NEW items \in Seq(K), NEW n \in 1 .. N PROVE Round(items, n) \in Seq(K)
    <2>1. lines[n] \in WarmupLine(K)
      OBVIOUS
    <2>2. IsJob(lines[n]) => lines[n].key \in K
      BY <2>1 DEF WarmupLine, Blank, Invalid, Job, IsJob
    <2> QED
      BY <2>2
  <1>3. P = CHOOSE g : g = Body(g)
    BY Zenon DEF Parsed
  <1> HIDE DEF N, Round, P
  <1>4. \A items \in Seq(K), n \in 1 .. N : step[<<items, n>>] = Round(items, n)
    OBVIOUS
  <1> HIDE DEF step
  <1>5. <<>> \in Seq(K) /\ Rounds(step, Seq(K), N)
    BY <1>2, <1>4 DEF Rounds
  <1>6. PICK f : Values(f, <<>>, step, Seq(K), N)
    BY <1>1, <1>5, LoopExists, Zenon
  <1>7. f = Body(f)
    <2>1. ASSUME NEW n \in 0 .. N PROVE f[n] = IF n = 0 THEN <<>> ELSE Round(f[n - 1], n)
      <3>1. n = 0 \/ n \in 1 .. N
        BY <1>1
      <3> QED
        BY <1>1, <1>4, <1>6, <3>1 DEF Values
    <2> QED
      BY <1>6, <2>1 DEF Values
  <1>8. P = Body(P)
    <2> HIDE DEF Body
    <2> QED
      BY <1>3, <1>7, Zenon
  <1>9. P[0] = <<>> /\ \A n \in 1 .. N : P[n] = Round(P[n - 1], n)
    <2>1. 0 \in 0 .. N
      BY <1>1
    <2> QED
      BY <1>1, <1>8, <2>1, Zenon
  <1>10. P = [n \in 0 .. N |-> P[n]]
    BY <1>8, Zenon
  <1>11. \A n \in 1 .. N : P[n - 1] \in Seq(K) => P[n] = step[<<P[n - 1], n>>]
    BY <1>4, <1>9
  <1>12. Values(P, <<>>, step, Seq(K), N)
    BY <1>1, <1>5, <1>9, <1>10, <1>11, LoopValues
  <1> QED
    BY <1>9, <1>12 DEF N, P, Round, Values

(* enqueue_refresh keeps the queue a sequence of keys. *)
LEMMA EnqueuedType ==
    ASSUME NEW K, NEW q \in Seq(K), NEW k \in K, NEW queue_max \in Nat
    PROVE  Enqueued(q, k, queue_max) \in Seq(K)
  BY DEF Enqueued

(* The loop of enqueue_warmup_file calls enqueue_refresh once per item. *)
LEMMA QueueRounds ==
    ASSUME NEW K, NEW items \in Seq(K), NEW N \in 0 .. Len(items), NEW queue_max \in Nat
    PROVE  LET P == Queues(items, N, queue_max)
           IN /\ P \in [0 .. N -> Seq(K)]
              /\ P[0] = <<>>
              /\ \A n \in 1 .. N : P[n] = Enqueued(P[n - 1], items[n], queue_max)
  <1> DEFINE Round(q, n) == Enqueued(q, items[n], queue_max)
             step == [p \in Seq(K) \X (1 .. N) |-> Round(p[1], p[2])]
             Body(g) == [n \in 0 .. N |-> IF n = 0 THEN <<>> ELSE Round(g[n - 1], n)]
             P == Queues(items, N, queue_max)
  <1>1. N \in Nat /\ \A n \in 1 .. N : n - 1 \in 0 .. N /\ n \in 0 .. N /\ n # 0
    OBVIOUS
  <1>2. ASSUME NEW q \in Seq(K), NEW n \in 1 .. N PROVE Round(q, n) \in Seq(K)
    <2>1. items[n] \in K
      OBVIOUS
    <2> QED
      BY <2>1, EnqueuedType
  <1>3. P = CHOOSE g : g = Body(g)
    BY Zenon DEF Queues
  <1> HIDE DEF Round, P
  <1>4. \A q \in Seq(K), n \in 1 .. N : step[<<q, n>>] = Round(q, n)
    OBVIOUS
  <1> HIDE DEF step
  <1>5. <<>> \in Seq(K) /\ Rounds(step, Seq(K), N)
    BY <1>2, <1>4 DEF Rounds
  <1>6. PICK f : Values(f, <<>>, step, Seq(K), N)
    BY <1>1, <1>5, LoopExists, Zenon
  <1>7. f = Body(f)
    <2>1. ASSUME NEW n \in 0 .. N PROVE f[n] = IF n = 0 THEN <<>> ELSE Round(f[n - 1], n)
      <3>1. n = 0 \/ n \in 1 .. N
        BY <1>1
      <3> QED
        BY <1>1, <1>4, <1>6, <3>1 DEF Values
    <2> QED
      BY <1>6, <2>1 DEF Values
  <1>8. P = Body(P)
    <2> HIDE DEF Body
    <2> QED
      BY <1>3, <1>7, Zenon
  <1>9. P[0] = <<>> /\ \A n \in 1 .. N : P[n] = Round(P[n - 1], n)
    <2>1. 0 \in 0 .. N
      BY <1>1
    <2> QED
      BY <1>1, <1>8, <2>1, Zenon
  <1>10. P = [n \in 0 .. N |-> P[n]]
    BY <1>8, Zenon
  <1>11. \A n \in 1 .. N : P[n - 1] \in Seq(K) => P[n] = step[<<P[n - 1], n>>]
    BY <1>4, <1>9
  <1>12. Values(P, <<>>, step, Seq(K), N)
    BY <1>1, <1>5, <1>9, <1>10, <1>11, LoopValues
  <1> QED
    BY <1>9, <1>12 DEF P, Round, Values

(* The queue q after the first n items: distinct keys of these items, within *)
(* the bound, and all of them unless the queue is full.                      *)
Warmed(q, items, n, queue_max) ==
    /\ \A i, j \in 1 .. Len(q) : q[i] = q[j] => i = j
    /\ queue_max > 0 => Len(q) <= queue_max
    /\ Len(q) <= n
    /\ \A j \in 1 .. Len(q) : \E i \in 1 .. n : q[j] = items[i]
    /\ queue_max = 0 \/ Len(q) < queue_max =>
         \A i \in 1 .. n : \E j \in 1 .. Len(q) : q[j] = items[i]

(* Each call of enqueue_refresh keeps that. *)
LEMMA WarmedRound ==
    ASSUME NEW K, NEW items \in Seq(K), NEW n \in 1 .. Len(items), NEW queue_max \in Nat,
           NEW q \in Seq(K), Warmed(q, items, n - 1, queue_max)
    PROVE  Warmed(Enqueued(q, items[n], queue_max), items, n, queue_max)
  <1> DEFINE k == items[n]
  <1>1. k \in K /\ n \in Nat /\ n > 0 /\ Len(q) \in Nat
    OBVIOUS
  <1>2. \A i \in 1 .. n : i = n \/ i \in 1 .. n - 1
    BY <1>1
  <1>3. /\ \A i, j \in 1 .. Len(q) : q[i] = q[j] => i = j
        /\ (queue_max > 0 => Len(q) <= queue_max) /\ Len(q) <= n
    BY <1>1 DEF Warmed
  <1>4. \A j \in 1 .. Len(q) : \E i \in 1 .. n : q[j] = items[i]
    <2>1. \A i \in 1 .. n - 1 : i \in 1 .. n
      BY <1>1
    <2> QED
      BY <2>1 DEF Warmed
  <1>5. CASE \E i \in 1 .. Len(q) : q[i] = k
    <2>1. Enqueued(q, k, queue_max) = q
      BY <1>5 DEF Enqueued
    <2>2. queue_max = 0 \/ Len(q) < queue_max =>
             \A i \in 1 .. n : \E j \in 1 .. Len(q) : q[j] = items[i]
      BY <1>2, <1>5 DEF Warmed
    <2> QED
      BY <1>3, <1>4, <2>1, <2>2 DEF Warmed
  <1>6. CASE queue_max > 0 /\ Len(q) >= queue_max
    <2>1. Enqueued(q, k, queue_max) = q
      BY <1>6 DEF Enqueued
    <2>2. ~ (queue_max = 0 \/ Len(q) < queue_max)
      BY <1>1, <1>6
    <2> QED
      BY <1>3, <1>4, <2>1, <2>2 DEF Warmed
  <1>7. CASE /\ ~ \E i \in 1 .. Len(q) : q[i] = k
             /\ ~ (queue_max > 0 /\ Len(q) >= queue_max)
    <2> DEFINE r == Append(q, k)
    <2>1. Enqueued(q, k, queue_max) = r
      BY <1>7 DEF Enqueued
    <2>2. /\ Len(r) = Len(q) + 1 /\ r[Len(r)] = k
          /\ \A j \in 1 .. Len(q) : r[j] = q[j]
          /\ \A j \in 1 .. Len(r) : j = Len(r) \/ j \in 1 .. Len(q)
          /\ Len(r) \in 1 .. Len(r)
          /\ \A j \in 1 .. Len(q) : j \in 1 .. Len(r)
      BY <1>1
    <2> HIDE DEF r, k
    <2>3. \A i, j \in 1 .. Len(r) : r[i] = r[j] => i = j
      <3>1. \A j \in 1 .. Len(q) : r[j] # r[Len(r)]
        BY <1>7, <2>2
      <3>2. \A i, j \in 1 .. Len(q) : r[i] = r[j] => i = j
        BY <1>3, <2>2
      <3> QED
        BY <2>2, <3>1, <3>2
    <2>4. (queue_max > 0 => Len(r) <= queue_max) /\ Len(r) <= n
      BY <1>1, <1>7, <2>2 DEF Warmed
    <2>5. \A j \in 1 .. Len(r) : \E i \in 1 .. n : r[j] = items[i]
      <3>1. n \in 1 .. n /\ r[Len(r)] = items[n]
        BY <1>1, <2>2 DEF k
      <3> QED
        BY <1>4, <2>2, <3>1
    <2>6. ASSUME queue_max = 0 \/ Len(r) < queue_max, NEW i \in 1 .. n
          PROVE  \E j \in 1 .. Len(r) : r[j] = items[i]
      <3>1. CASE i = n
        BY <2>2, <3>1 DEF k
      <3>2. CASE i \in 1 .. n - 1
        <4>1. queue_max = 0 \/ Len(q) < queue_max
          BY <1>1, <2>2, <2>6
        <4>2. PICK j \in 1 .. Len(q) : q[j] = items[i]
          BY <3>2, <4>1 DEF Warmed
        <4> QED
          BY <2>2, <4>2
      <3> QED
        BY <1>2, <3>1, <3>2
    <2> QED
      BY <2>1, <2>3, <2>4, <2>5, <2>6, ZenonT(60) DEF Warmed, k
  <1> QED
    BY <1>5, <1>6, <1>7

(* parse_warmup_source gives a job per line with a name and a known type,    *)
(* and no others.                                                            *)
LEMMA ParsedKeys ==
    ASSUME NEW K, NEW lines \in Seq(WarmupLine(K))
    PROVE  LET items == parse_warmup_source(lines)
           IN /\ items \in Seq(K)
              /\ \A k \in K :
                   (\E i \in 1 .. Len(items) : items[i] = k)
                     <=> (\E n \in 1 .. Len(lines) : lines[n] = Job(k))
  <1> DEFINE N == Len(lines)
             P == Parsed(lines)
             In(q, k) == \E i \in 1 .. Len(q) : q[i] = k
             T == {n \in 0 .. N : \A k \in K : In(P[n], k) <=> \E m \in 1 .. n : lines[m] = Job(k)}
  <1>1. N \in Nat /\ \A n \in 1 .. N : n - 1 \in 0 .. N /\ n \in 0 .. N
    OBVIOUS
  <1>2. /\ P \in [0 .. N -> Seq(K)]
        /\ P[0] = <<>>
        /\ \A n \in 1 .. N : P[n] = IF IsJob(lines[n])
                                    THEN Append(P[n - 1], lines[n].key) ELSE P[n - 1]
    BY ParsedLines
  <1>3. 0 \in T
    BY <1>1, <1>2
  <1>4. ASSUME NEW n \in 1 .. N, n - 1 \in T PROVE n \in T
    <2>1. \A m : m \in 1 .. n <=> m = n \/ m \in 1 .. n - 1
      OBVIOUS
    <2>2. lines[n] \in WarmupLine(K) /\ P[n - 1] \in Seq(K)
      BY <1>1, <1>2
    <2> HIDE DEF P, N
    <2>3. ASSUME NEW k \in K PROVE In(P[n], k) <=> (lines[n] = Job(k) \/ In(P[n - 1], k))
      <3>1. CASE IsJob(lines[n])
        <4>1. PICK j \in K : lines[n] = Job(j)
          BY <2>2, <3>1 DEF WarmupLine, Blank, Invalid, IsJob
        <4>2. lines[n].key = j /\ (lines[n] = Job(k) <=> j = k)
          BY <4>1 DEF Job
        <4>3. P[n] = Append(P[n - 1], j)
          BY <1>2, <3>1, <4>2
        <4>4. In(Append(P[n - 1], j), k) <=> (j = k \/ In(P[n - 1], k))
          BY <2>2, <4>1
        <4> QED
          BY <4>2, <4>3, <4>4
      <3>2. CASE ~IsJob(lines[n])
        <4>1. P[n] = P[n - 1]
          BY <1>2, <3>2
        <4>2. lines[n] # Job(k)
          BY <3>2 DEF IsJob, Job
        <4> QED
          BY <4>1, <4>2
      <3> QED
        BY <3>1, <3>2
    <2> HIDE DEF In
    <2> QED
      BY <1>1, <1>4, <2>1, <2>3
  <1>5. T = 0 .. N
    <2>1. T \in SUBSET (0 .. N)
      OBVIOUS
    <2> HIDE DEF T, N
    <2> QED
      BY <1>1, <1>3, <1>4, <2>1, LoopInduction
  <1>6. N \in T
    BY <1>1, <1>5
  <1> QED
    BY <1>1, <1>2, <1>6 DEF parse_warmup_source

(* Whatever a warmup file holds, the startup leaves distinct keys of its     *)
(* first jobs in the queue, within its bound, and all of them unless the     *)
(* queue is full.                                                            *)
LEMMA WarmupLeaves ==
    ASSUME NEW K, NEW lines \in Seq(WarmupLine(K)), NEW limit \in Nat, NEW queue_max \in Nat
    PROVE  LET items == parse_warmup_source(lines)
               loaded == IF Len(items) < limit THEN Len(items) ELSE limit
               w == enqueue_warmup_file(lines, limit, queue_max)
           IN w \in Seq(K) /\ Warmed(w, items, loaded, queue_max)
  <1> DEFINE items == parse_warmup_source(lines)
             N == IF Len(items) < limit THEN Len(items) ELSE limit
             P == Queues(items, N, queue_max)
             T == {n \in 0 .. N : Warmed(P[n], items, n, queue_max)}
  <1>1. items \in Seq(K)
    BY ParsedKeys
  <1>2. enqueue_warmup_file(lines, limit, queue_max) = P[N]
    BY DEF enqueue_warmup_file
  <1> HIDE DEF items
  <1>3. N \in 0 .. Len(items) /\ N \in Nat
    BY <1>1
  <1> HIDE DEF N
  <1>4. /\ P \in [0 .. N -> Seq(K)]
        /\ P[0] = <<>>
        /\ \A n \in 1 .. N : P[n] = Enqueued(P[n - 1], items[n], queue_max)
    BY <1>1, <1>3, QueueRounds
  <1> HIDE DEF P
  <1>5. 0 \in T
    BY <1>3, <1>4 DEF Warmed
  <1>6. ASSUME NEW n \in 1 .. N, n - 1 \in T PROVE n \in T
    <2>1. n \in 1 .. Len(items) /\ n - 1 \in 0 .. N /\ n \in 0 .. N
      BY <1>1, <1>3
    <2>2. P[n - 1] \in Seq(K) /\ Warmed(P[n - 1], items, n - 1, queue_max)
      BY <1>4, <1>6, <2>1
    <2> QED
      BY <1>1, <1>4, <2>1, <2>2, WarmedRound
  <1>7. T = 0 .. N
    <2>1. T \in SUBSET (0 .. N)
      OBVIOUS
    <2> HIDE DEF T
    <2> QED
      BY <1>3, <1>5, <1>6, <2>1, LoopInduction
  <1>8. N \in 0 .. N /\ N \in T
    BY <1>3, <1>7
  <1> QED
    BY <1>2, <1>4, <1>8 DEF N, items

(* The queue that the startup makes of a warmup file meets the assumptions   *)
(* of the handler about its initial queue, for every file, limit and bound:  *)
(* distinct keys, within refresh_queue_max and the limit.  It holds only     *)
(* jobs of the file, and when neither limit is met, all of them.             *)
THEOREM WarmupIsAsAssumed ==
    ASSUME NEW lines \in Seq(WarmupLine(Keys)), NEW limit \in Nat
    PROVE  LET w == enqueue_warmup_file(lines, limit, refresh_queue_max)
               Queued(k) == \E j \in 1 .. Len(w) : w[j] = k
               InFile(k) == \E n \in 1 .. Len(lines) : lines[n] = Job(k)
           IN /\ w \in Seq(Keys)
              /\ refresh_queue_max > 0 => Len(w) <= refresh_queue_max
              /\ \A i, j \in 1 .. Len(w) : w[i] = w[j] => i = j
              /\ Len(w) <= limit
              /\ \A k \in Keys : Queued(k) => InFile(k)
              /\ /\ refresh_queue_max = 0 \/ Len(w) < refresh_queue_max
                 /\ Len(parse_warmup_source(lines)) <= limit
                 => \A k \in Keys : InFile(k) => Queued(k)
  <1> DEFINE w == enqueue_warmup_file(lines, limit, refresh_queue_max)
             items == parse_warmup_source(lines)
             N == IF Len(items) < limit THEN Len(items) ELSE limit
             Queued(k) == \E j \in 1 .. Len(w) : w[j] = k
             InFile(k) == \E n \in 1 .. Len(lines) : lines[n] = Job(k)
  <1>1. w \in Seq(Keys) /\ Warmed(w, items, N, refresh_queue_max)
    BY HandlerAssumption, WarmupLeaves
  <1>2. /\ items \in Seq(Keys)
        /\ \A k \in Keys : (\E i \in 1 .. Len(items) : items[i] = k) <=> InFile(k)
    BY ParsedKeys, ZenonT(60)
  <1> HIDE DEF w, items, InFile
  <1>3. /\ N \in Nat /\ N <= limit /\ \A i \in 1 .. N : i \in 1 .. Len(items)
        /\ Len(items) <= limit => N = Len(items)
    BY <1>2
  <1>4. Len(w) \in Nat /\ \A j \in 1 .. Len(w) : w[j] \in Keys
    BY <1>1
  <1> HIDE DEF N
  <1>5. Len(w) <= limit
    BY <1>1, <1>3, <1>4 DEF Warmed
  <1>6. \A k \in Keys : Queued(k) => InFile(k)
    BY <1>1, <1>2, <1>3 DEF Warmed
  <1>7. ASSUME refresh_queue_max = 0 \/ Len(w) < refresh_queue_max, Len(items) <= limit,
               NEW k \in Keys, InFile(k)
        PROVE  Queued(k)
    <2>1. PICK i \in 1 .. N : items[i] = k
      BY <1>2, <1>3, <1>7
    <2> QED
      BY <1>1, <1>7, <2>1 DEF Warmed
  <1> QED
    BY <1>1, <1>5, <1>6, <1>7 DEF Warmed, w, items, InFile

-----------------------------------------------------------------------------
(* The proofs about the cache, for the cache in the handler, which sees it   *)
(* only between its operations.                                              *)
CP == INSTANCE MemoryDnsCacheProofs
      WITH pc <- "idle", entries <- store, order <- older, todo <- {}, key <- NoEntry,
           at <- now

(* The operations of the cache in the handler are those the cache's proofs   *)
(* are about.                                                                *)
LEMMA SameSteps ==
    /\ Cache!Init => CP!Init
    /\ [Cache!Next]_(Cache!cacheVars) => [CP!Next]_(CP!cacheVars)
  <1>1. \A k : (Cache!get_fresh(k) \/ Cache!get_stale(k)) <=> (CP!get_fresh(k) \/ CP!get_stale(k))
    BY DEF Cache!get_fresh, CP!get_fresh, Cache!get_stale, CP!get_stale, Cache!HasFresh,
           CP!HasFresh, Cache!HasStale, CP!HasStale, Cache!Fresh, CP!Fresh, Cache!Stale,
           CP!Stale, Cache!Hit, CP!Hit, Cache!HitEntry, CP!HitEntry, Cache!Touch, CP!Touch,
           Cache!Cached, CP!Cached
  <1>2. \A k, r : Cache!put(k, r) <=> CP!put(k, r)
    <2>1. \A r : Cache!NewEntry(r) = CP!NewEntry(r)
      BY DEF Cache!NewEntry, CP!NewEntry, Cache!compute_ttl_seconds,
             CP!compute_ttl_seconds, Cache!NOERROR, CP!NOERROR, Cache!Min, CP!Min
    <2>2. \A st, ord, ks, t, victims :
             Cache!evict_if_needed(st, ord, ks, t, victims)
               <=> CP!evict_if_needed(st, ord, ks, t, victims)
      BY DEF Cache!evict_if_needed, CP!evict_if_needed, Cache!Excess, CP!Excess,
             Cache!EvictedBefore, CP!EvictedBefore, Cache!DeadBy, CP!DeadBy,
             Cache!Cardinality, CP!Cardinality
    <2> SUFFICES ASSUME NEW k, NEW r PROVE Cache!put(k, r) <=> CP!put(k, r)
      OBVIOUS
    <2>3. PICK e : e = Cache!NewEntry(r) /\ e = CP!NewEntry(r)
      BY <2>1
    <2> DEFINE st == [store EXCEPT ![k] = e]
               ks == Cache!Cached \cup {k}
               cpks == CP!Cached \cup {k}
               ord == Cache!Touch(older, ks, k)
               cpord == CP!Touch(older, cpks, k)
               Result(o, t, victims) ==
                   /\ store' = [j \in Keys |-> IF j \in victims THEN NoEntry ELSE st[j]]
                   /\ older' = {p \in o : p[1] \notin victims /\ p[2] \notin victims}
                   /\ now' = t
    <2>4. Cache!put(k, r) <=> \E t \in Cache!Later(now), victims \in SUBSET ks :
                                /\ Cache!evict_if_needed(st, ord, ks, t, victims)
                                /\ Result(ord, t, victims)
      BY <2>3, ZenonT(60) DEF Cache!put
    <2>5. CP!put(k, r) <=> \E t \in CP!Later(now), victims \in SUBSET cpks :
                             /\ CP!evict_if_needed(st, cpord, cpks, t, victims)
                             /\ Result(cpord, t, victims)
      BY <2>3, ZenonT(60) DEF CP!put
    <2>6. ks = cpks /\ Cache!Later(now) = CP!Later(now)
      BY DEF Cache!Cached, CP!Cached, Cache!Later, CP!Later
    <2>7. ord = cpord
      BY <2>6 DEF Cache!Touch, CP!Touch
    <2> HIDE DEF st, ks, cpks, ord, cpord, Result
    <2> QED
      BY <2>2, <2>4, <2>5, <2>6, <2>7, ZenonT(60)
  <1>3. (Cache!clear <=> CP!clear) /\ (Cache!Tick <=> CP!Tick)
    BY DEF Cache!clear, CP!clear, Cache!Tick, CP!Tick
  <1>4. Cache!Next <=> CP!Next
    BY <1>1, <1>2, <1>3 DEF Cache!Next, CP!Next
  <1> QED
    BY <1>4 DEF Cache!Init, CP!Init, Cache!cacheVars, CP!cacheVars

(* The handler's cache behaves as the cache's proofs say. *)
LEMMA IsTheCache == Spec => CP!Spec
  BY SameSteps, RefinesCache, PTL DEF ImplementsCache, Cache!Spec, CP!Spec

(* The state of the handler, of its cache and of SingleFlight keeps its      *)
(* shape.  The cache's part comes from the refinement.                       *)
THEOREM TypeCorrect == Spec => []TypeOK
  <1>1. IInv => SF!TypeOK /\ HandlerTypeOK
    BY DEF IInv, SF!IInv
  <1>2. CP!Spec => []CP!TypeOK
    BY CacheAssumption, CP!TypeCorrect, ZenonT(60)
    DEF Cache!Response, CP!Response, Cache!CacheEntry, CP!CacheEntry,
        IsFiniteSet, CP!IsFiniteSet
  <1>3. CP!TypeOK => Cache!TypeOK
    BY DEF Cache!TypeOK, CP!TypeOK, Cache!CacheEntry, CP!CacheEntry, Cache!Response,
           CP!Response
  <1> QED
    BY <1>1, <1>2, <1>3, IsTheCache, Inductive, PTL DEF TypeOK

(* Whichever flights store answers and however the handler looks them up,    *)
(* its cache never holds more than max_entries entries.                      *)
THEOREM CacheIsBounded == Spec => []Cache!CapacityBound
  <1>1. CP!Spec => []CP!CapacityBound
    BY CacheAssumption, CP!Bounded, ZenonT(60)
    DEF Cache!Response, CP!Response, Cache!CacheEntry, CP!CacheEntry,
        IsFiniteSet, CP!IsFiniteSet
  <1>2. CP!CapacityBound <=> Cache!CapacityBound
    BY DEF CP!CapacityBound, Cache!CapacityBound, Cache!Cached, CP!Cached,
           Cache!Cardinality, CP!Cardinality
  <1> QED
    BY <1>1, <1>2, IsTheCache, PTL

(* Of two answers in the handler's cache, the one nearer to eviction was     *)
(* stored or served no later than the other one.                             *)
THEOREM CacheFrontIsLeastRecent == Spec => []Cache!OrderIsRecency
  <1>1. CP!Spec => []CP!OrderIsRecency
    BY CacheAssumption, CP!FrontIsLeastRecent, ZenonT(60)
    DEF Cache!Response, CP!Response, Cache!CacheEntry, CP!CacheEntry,
        IsFiniteSet, CP!IsFiniteSet
  <1>2. CP!OrderIsRecency <=> Cache!OrderIsRecency
    BY DEF CP!OrderIsRecency, Cache!OrderIsRecency, CP!LastUse, Cache!LastUse,
           CP!Max, Cache!Max, Cache!compute_ttl_seconds, CP!compute_ttl_seconds,
           Cache!NOERROR, CP!NOERROR, Cache!Min, CP!Min
  <1> QED
    BY <1>1, <1>2, IsTheCache, PTL

(* No step of the handler gives up an answer that could still be served and  *)
(* keeps one that could not.                                                 *)
THEOREM CacheEvictsDeadFirst == Spec => Cache!ServableOutlivesDead
  <1> DEFINE A == [\A k, j \in Cache!Cached :
                     /\ store'[k] = NoEntry
                     /\ store'[j] = store[j]
                     /\ ~Cache!DeadBy(store[k], now')
                     => ~Cache!DeadBy(store[j], now')]_(Cache!cacheVars)
             B == [\A k, j \in CP!Cached :
                     /\ store'[k] = NoEntry
                     /\ store'[j] = store[j]
                     /\ ~CP!DeadBy(store[k], now')
                     => ~CP!DeadBy(store[j], now')]_(CP!cacheVars)
  <1>1. CP!Spec => CP!ServableOutlivesDead
    BY CacheAssumption, CP!EvictsDeadFirst, ZenonT(60)
    DEF Cache!Response, CP!Response, Cache!CacheEntry, CP!CacheEntry,
        IsFiniteSet, CP!IsFiniteSet
  <1>2. B => A
    BY DEF CP!Cached, Cache!Cached, CP!DeadBy, Cache!DeadBy, CP!cacheVars, Cache!cacheVars
  <1> QED
    BY <1>1, <1>2, IsTheCache, PTL DEF CP!ServableOutlivesDead, Cache!ServableOutlivesDead
=============================================================================
