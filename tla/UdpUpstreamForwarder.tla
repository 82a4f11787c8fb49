------------------------ MODULE UdpUpstreamForwarder ------------------------
(***************************************************************************)
(* The UDP forwarder (src/resilientdns/upstream/udp_forwarder.py): query    *)
(* hands its request to a thread of an executor and awaits the result.      *)
(*                                                                         *)
(* Two kinds of steps interleave: what the event loop runs between two       *)
(* suspensions of query, and what a thread does.  _inflight_lock is never    *)
(* held across a suspension, so it is not modelled.  A thread cannot be      *)
(* interrupted: a cancelled query leaves it running.                        *)
(***************************************************************************)
EXTENDS Naturals, Sequences, FiniteSets

CONSTANTS
    Queries,    \* concurrent calls of query
    Threads,    \* the max_workers threads of _executor
    NoCall,     \* the thread is idle
    Orphan,     \* the request of a call that was cancelled
    max_inflight, timeout_s,
    MaxQueue,   \* bound on the requests that wait, for TLC
    MaxTime     \* bound on the clock, for TLC

ASSUME UdpAssumption ==
    /\ IsFiniteSet(Queries)
    /\ IsFiniteSet(Threads)
    /\ Threads # {}
    /\ NoCall \notin Queries
    /\ Orphan \notin Queries \cup {NoCall}
    /\ max_inflight \in Nat
    /\ timeout_s \in Nat \ {0}
    /\ MaxQueue \in Nat
    /\ MaxTime \in Nat

VARIABLES
    now,        \* the clock
    closed,     \* _closed
    stopping,   \* the process shuts down: callers may be cancelled
    inflight,   \* _inflight
    call,       \* per call of query: where it is and when it was made
    queue,      \* the requests that wait for a thread, named by their calls
    thread      \* per thread: for whom it works and since when

vars == <<now, closed, stopping, inflight, call, queue, thread>>

(* "await": in run_in_executor; "resume": its future is done. *)
Idle == [pc |-> "idle", at |-> 0]
Unused == [of |-> NoCall, at |-> 0]
InQueue == {queue[i] : i \in DOMAIN queue}
Busy == {w \in Threads : thread[w].of # NoCall}
Served == {thread[w].of : w \in Busy}
UnderWay == {q \in Queries : call[q].pc # "idle"}

TypeOK ==
    /\ now \in Nat
    /\ closed \in BOOLEAN
    /\ stopping \in BOOLEAN
    /\ inflight \in Nat
    /\ call \in [Queries -> [pc : {"idle", "await", "resume"}, at : Nat]]
    /\ queue \in Seq(Queries \cup {Orphan})
    /\ thread \in [Threads -> [of : Queries \cup {NoCall, Orphan}, at : Nat]]

Init ==
    /\ now = 0
    /\ closed = FALSE
    /\ stopping = FALSE
    /\ inflight = 0
    /\ call = [q \in Queries |-> Idle]
    /\ queue = <<>>
    /\ thread = [w \in Threads |-> Unused]

-----------------------------------------------------------------------------
(* query, up to its suspension.  A call that finds the forwarder closed, or  *)
(* max_inflight calls under way, returns None and changes nothing.           *)
AdmittedUnchecked == ~closed
Admitted == ~closed /\ (max_inflight > 0 => inflight < max_inflight)
query_start(q) ==
    /\ call[q].pc = "idle"
    /\ Admitted
    /\ Len(queue) < MaxQueue
    /\ inflight' = IF max_inflight > 0 THEN inflight + 1 ELSE inflight
    /\ call' = [call EXCEPT ![q] = [pc |-> "await", at |-> now]]
    /\ queue' = Append(queue, q)
    /\ UNCHANGED <<now, closed, stopping, thread>>

(* The finally of query. *)
EndLosingSlot(q) ==
    /\ call' = [call EXCEPT ![q] = Idle]
    /\ inflight' = inflight
EndQuery(q) ==
    /\ call' = [call EXCEPT ![q] = Idle]
    /\ inflight' = IF max_inflight > 0 THEN inflight - 1 ELSE inflight

(* query after run_in_executor: it returns the answer, None, or ends with    *)
(* CancelledError because close has cancelled its future.                    *)
query_resumed(q) ==
    /\ call[q].pc = "resume"
    /\ EndQuery(q)
    /\ UNCHANGED <<now, closed, stopping, queue, thread>>

(* The caller is cancelled: a thread drops the request when it gets to it,   *)
(* and one that already works on it goes on for nobody.                      *)
Orphaned(f, q) == IF f = q THEN Orphan ELSE f
CancelKeepingRequest(q) ==
    /\ stopping
    /\ call[q].pc = "await"
    /\ EndQuery(q)
    /\ UNCHANGED <<now, closed, stopping, queue, thread>>
query_cancelled(q) ==
    /\ stopping
    /\ call[q].pc = "await"
    /\ EndQuery(q)
    /\ queue' = [i \in 1 .. Len(queue) |-> Orphaned(queue[i], q)]
    /\ thread' = [w \in Threads |-> [thread[w] EXCEPT !.of = Orphaned(@, q)]]
    /\ UNCHANGED <<now, closed, stopping>>

-----------------------------------------------------------------------------
(* An idle thread takes the oldest request and sends it: _query_blocking up  *)
(* to recvfrom.                                                              *)
thread_takes(w) ==
    /\ thread[w].of = NoCall
    /\ queue # <<>>
    /\ Head(queue) # Orphan
    /\ thread' = [thread EXCEPT ![w] = [of |-> Head(queue), at |-> now]]
    /\ queue' = Tail(queue)
    /\ UNCHANGED <<now, closed, stopping, inflight, call>>

(* It drops the request of a cancelled call. *)
thread_drops(w) ==
    /\ thread[w].of = NoCall
    /\ queue # <<>>
    /\ Head(queue) = Orphan
    /\ queue' = Tail(queue)
    /\ UNCHANGED <<now, closed, stopping, inflight, call, thread>>

(* _query_blocking ends: an answer, an error, or timeout_s has passed.        *)
thread_returns(w) ==
    /\ thread[w].of # NoCall
    /\ thread' = [thread EXCEPT ![w] = Unused]
    /\ call' = [q \in Queries |-> IF q = thread[w].of THEN [call[q] EXCEPT !.pc = "resume"]
                                  ELSE call[q]]
    /\ UNCHANGED <<now, closed, stopping, inflight, queue>>

stop_signal ==
    /\ ~stopping
    /\ stopping' = TRUE
    /\ UNCHANGED <<now, closed, inflight, call, queue, thread>>

(* close: the executor cancels the requests that wait and takes no new ones. *)
(* The fallback without cancel_futures is for Pythons older than the 3.10     *)
(* that the project requires.                                                *)
CloseWithoutCancelling ==
    /\ stopping /\ ~closed
    /\ closed' = TRUE
    /\ UNCHANGED <<now, stopping, inflight, call, queue, thread>>
CloseKeepingFutures ==
    /\ stopping /\ ~closed
    /\ closed' = TRUE
    /\ queue' = <<>>
    /\ UNCHANGED <<now, stopping, inflight, call, thread>>
close ==
    /\ stopping /\ ~closed
    /\ closed' = TRUE
    /\ call' = [q \in Queries |-> IF q \in InQueue THEN [call[q] EXCEPT !.pc = "resume"]
                                  ELSE call[q]]
    /\ queue' = <<>>
    /\ UNCHANGED <<now, stopping, inflight, thread>>

(* The clock.  A second is long: before it is over, an idle thread has taken *)
(* a request that waits, recvfrom has timed out when timeout_s is over, and   *)
(* the event loop has resumed who is ready.                                  *)
Due(w) == thread[w].of # NoCall /\ now >= thread[w].at + timeout_s
tick ==
    /\ now < MaxTime
    /\ queue # <<>> => Busy = Threads
    /\ \A w \in Threads : ~Due(w)
    /\ \A q \in Queries : call[q].pc # "resume"
    /\ now' = now + 1
    /\ UNCHANGED <<closed, stopping, inflight, call, queue, thread>>

-----------------------------------------------------------------------------
Next ==
    \/ \E q \in Queries : query_start(q) \/ query_resumed(q) \/ query_cancelled(q)
    \/ \E w \in Threads : thread_takes(w) \/ thread_drops(w) \/ thread_returns(w)
    \/ stop_signal \/ close
    \/ tick

Spec == Init /\ [][Next]_vars

(* Threads run and recvfrom has a timeout; the event loop resumes who is     *)
(* ready.  Nothing makes a stop signal arrive or close be called.            *)
Fairness ==
    /\ \A w \in Threads : WF_vars(thread_takes(w) \/ thread_drops(w))
                       /\ WF_vars(thread_returns(w))
    /\ \A q \in Queries : WF_vars(query_resumed(q))

FairSpec == Spec /\ Fairness

-----------------------------------------------------------------------------
(* _inflight is the number of calls under way, however they end, and stays   *)
(* within max_inflight: no slot is lost and none given away twice.           *)
InflightExact ==
    max_inflight > 0 =>
        /\ inflight = Cardinality(UnderWay)
        /\ inflight <= max_inflight

(* Nobody waits for nothing: the request of a call that waits is in the      *)
(* queue once or with one thread, and nowhere once the call is over.         *)
OnePlace ==
    /\ \A i, j \in DOMAIN queue : queue[i] = queue[j] /\ i # j => queue[i] = Orphan
    /\ \A v, w \in Busy : thread[v].of = thread[w].of /\ v # w => thread[v].of = Orphan
    /\ \A q \in Queries :
          /\ ~(q \in InQueue /\ q \in Served)
          /\ (call[q].pc = "await") <=> (q \in InQueue \cup Served)

(* max_inflight also bounds the requests at the upstream until the process   *)
(* stops; from then on threads may work for cancelled calls beyond it.       *)
ThreadsHaveSlots ==
    ~stopping /\ max_inflight > 0 => Cardinality(Busy) <= inflight

(* A slot stands for one call and for one request at the upstream at most. *)
SlotsAreExact == InflightExact /\ ThreadsHaveSlots

(* With a limit of at most max_workers no call queues for a thread: until    *)
(* the process stops every call is over within timeout_s.                    *)
LimitedIsTimely ==
    ~stopping /\ max_inflight \in 1 .. Cardinality(Threads) =>
        \A q \in UnderWay : now <= call[q].at + timeout_s

(* Every call of query ends. *)
EveryQueryEnds == \A q \in Queries : call[q].pc # "idle" ~> call[q].pc = "idle"

(* close is final: no thread starts an exchange after it, whatever waited    *)
(* then and whoever calls query later, so at the exit of the process the     *)
(* threads still finish what they are at and no more.                        *)
ClosedSendsNothing == [][closed => Busy' \subseteq Busy]_vars

-----------------------------------------------------------------------------
(* The inductive invariant.  Only a stopping process has orphans or closes    *)
(* the forwarder, and nothing waits for the threads of a closed one.          *)
StopsFirst ==
    /\ ~stopping => ~closed /\ Orphan \notin InQueue \cup Served
    /\ closed => queue = <<>>

(* No thread is overdue.  While calls are limited to the threads, a request  *)
(* that waits was made in this second, and a thread has had its request       *)
(* since the call was made.                                                  *)
Limited == ~stopping /\ max_inflight \in 1 .. Cardinality(Threads)
OnTime ==
    /\ \A w \in Busy : thread[w].at <= now /\ now <= thread[w].at + timeout_s
    /\ Limited =>
         /\ \A q \in Queries \cap InQueue : call[q].at = now
         /\ \A w \in Busy : call[thread[w].of].at = thread[w].at
         /\ \A q \in Queries : call[q].pc = "resume" => now <= call[q].at + timeout_s

IInv == TypeOK /\ OnePlace /\ InflightExact /\ StopsFirst /\ OnTime

-----------------------------------------------------------------------------
(* What the documentation says and the code does not do: "Upstream queries   *)
(* are bounded by a timeout" (docs/failure-modes.md:5).  timeout_s counts     *)
(* from recvfrom on, not from the call.                                      *)
CallsAreTimely == ~stopping => \A q \in UnderWay : now <= call[q].at + timeout_s
=============================================================================
