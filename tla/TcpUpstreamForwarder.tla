------------------------ MODULE TcpUpstreamForwarder ------------------------
(***************************************************************************)
(* The TCP forwarder (src/resilientdns/upstream/tcp_forwarder.py): calls of *)
(* query share a pool of connections to the upstream.                       *)
(*                                                                         *)
(* A step is what the event loop runs between two suspensions.  _pool_lock  *)
(* is an asyncio.Lock: it is handed over in the order of the requests, and  *)
(* taking it does not suspend when nobody holds or awaits it.               *)
(* _inflight_lock is never held across a suspension, so it is not modelled. *)
(*                                                                         *)
(* A connection identifier stands for one open connection and goes back to  *)
(* the finite pool Conns when its writer is closed.                         *)
(***************************************************************************)
EXTENDS Integers, Sequences, FiniteSets, Functions

CONSTANTS
    Queries,    \* concurrent calls of query
    Conns,      \* identifiers of connections
    NoConn,     \* the call has no connection
    Closer,     \* the call of close, where it queues for the lock
    max_inflight, pool_max_conns, pool_idle_timeout_s,
    MaxOwed,    \* bound on the answers a connection owes, for TLC
    MaxTime     \* bound on the clock, for TLC

ASSUME ForwarderAssumption ==
    /\ IsFiniteSet(Queries)
    /\ max_inflight \in Nat
    /\ pool_max_conns \in Nat
    /\ pool_idle_timeout_s \in Nat
    /\ MaxOwed \in Nat
    /\ MaxTime \in Nat
    /\ NoConn \notin Conns
    /\ Closer \notin Queries

VARIABLES
    now,        \* time.monotonic()
    closed,     \* _closed
    stopping,   \* the process shuts down: callers may be cancelled
    inflight,   \* _inflight
    pool,       \* _pool
    last_used,  \* last_used_s of the pooled connections, 0 for others
    lock,       \* who holds _pool_lock, then who awaits it
    open,       \* the connections whose writer is not closed
    eof,        \* the open connections the upstream has closed
    wire,       \* per connection: the queries whose answers are still to be
                \* read; once the upstream has closed it, the answers that
                \* are in the reader's buffer
    query,      \* per call of query: where it is
    closer,     \* the call of close: "idle", "lock", "closing" or "done"
    to_close    \* the connections close still has to close

connVars == <<open, eof, wire>>
vars == <<now, closed, stopping, inflight, pool, last_used, lock, connVars, query, closer,
          to_close>>

(* A sequence read from its end, and without its i-th element. *)
Last(s) == s[Len(s)]
Front(s) == SubSeq(s, 1, Len(s) - 1)
RemoveAt(s, i) == SubSeq(s, 1, i - 1) \o SubSeq(s, i + 1, Len(s))

(* "acquire" and "release": it awaits the lock.  "discard" and "full": it    *)
(* closes a connection and holds the lock.  "closing": it closes one without *)
(* the lock.  at is the time _acquire_from_pool has read.                    *)
PCs == {"idle", "acquire", "discard", "connect", "read", "release", "full", "closing"}
Call == [pc : PCs, conn : Conns \cup {NoConn}, at : Nat]
At(pc, c, t) == [pc |-> pc, conn |-> c, at |-> t]
Idle == At("idle", NoConn, 0)

TypeOK ==
    /\ now \in Nat
    /\ closed \in BOOLEAN
    /\ stopping \in BOOLEAN
    /\ inflight \in Nat
    /\ pool \in Seq(Conns)
    /\ last_used \in [Conns -> Nat]
    /\ lock \in Seq(Queries \cup {Closer})
    /\ open \in SUBSET Conns
    /\ eof \in SUBSET open
    /\ wire \in [Conns -> Seq(Queries)]
    /\ query \in [Queries -> Call]
    /\ closer \in {"idle", "lock", "closing", "done"}
    /\ to_close \in Seq(Conns)

Init ==
    /\ now = 0
    /\ closed = FALSE
    /\ stopping = FALSE
    /\ inflight = 0
    /\ pool = <<>>
    /\ last_used = [c \in Conns |-> 0]
    /\ lock = <<>>
    /\ open = {}
    /\ eof = {}
    /\ wire = [c \in Conns |-> <<>>]
    /\ query = [q \in Queries |-> Idle]
    /\ closer = "idle"
    /\ to_close = <<>>

-----------------------------------------------------------------------------
(* _close_writer: the connection is gone; the caller waits for wait_closed. *)
CloseWriterForgotten(c) == UNCHANGED connVars
CloseWriter(c) ==
    /\ open' = open \ {c}
    /\ eof' = eof \ {c}
    /\ wire' = [wire EXCEPT ![c] = <<>>]

(* reader.at_eof(), with w on the wires: the upstream has closed and the     *)
(* buffer is empty.                                                         *)
AtEof(c, w) == c \in eof /\ w[c] = <<>>

(* query writes the request and waits for the answer, which does not come    *)
(* from an upstream that has closed.                                         *)
Send(q, c) ==
    /\ wire' = IF c \in eof THEN wire ELSE [wire EXCEPT ![c] = Append(@, q)]
    /\ query' = [query EXCEPT ![q] = At("read", c, 0)]

(* The outer finally of query. *)
EndQueryLosingCount(q) ==
    /\ query' = [query EXCEPT ![q] = Idle]
    /\ inflight' = inflight
EndQuery(q) ==
    /\ query' = [query EXCEPT ![q] = Idle]
    /\ inflight' = IF max_inflight > 0 THEN inflight - 1 ELSE inflight

(* _pool.pop() *)
PoppedNothing == pool
Popped == Front(pool)

(* The loop of _acquire_from_pool that has read the time t, up to its next  *)
(* suspension, with rest waiting for the lock behind q.                     *)
Reusable(c, t) ==
    /\ ~AtEof(c, wire)
    /\ pool_idle_timeout_s > 0
    /\ t <= last_used[c] + pool_idle_timeout_s
acquire_from_pool(q, t, rest) ==
    /\ \/ /\ pool = <<>>
          /\ query' = [query EXCEPT ![q] = At("connect", NoConn, 0)]
          /\ lock' = rest
          /\ UNCHANGED <<pool, last_used, connVars>>
       \/ /\ pool # <<>>
          /\ Reusable(Last(pool), t)
          /\ Send(q, Last(pool))
          /\ pool' = Popped
          /\ last_used' = [last_used EXCEPT ![Last(pool)] = 0]
          /\ lock' = rest
          /\ UNCHANGED <<open, eof>>
       \/ /\ pool # <<>>
          /\ ~Reusable(Last(pool), t)
          /\ CloseWriter(Last(pool))
          /\ pool' = Popped
          /\ last_used' = [last_used EXCEPT ![Last(pool)] = 0]
          /\ query' = [query EXCEPT ![q] = At("discard", NoConn, t)]
          /\ lock' = <<q>> \o rest
    /\ UNCHANGED <<now, closed, stopping, closer, to_close>>

(* There is room in the pool for one more connection. *)
Room == Len(pool) < pool_max_conns

(* _release_to_pool of the connection of q, with the lock; w is what is on   *)
(* the wires.                                                               *)
PutBack(q, w, rest) ==
    LET c == query[q].conn IN
    /\ \/ /\ Room
          /\ pool' = Append(pool, c)
          /\ last_used' = [last_used EXCEPT ![c] = now]
          /\ wire' = w
          /\ EndQuery(q)
          /\ lock' = rest
          /\ UNCHANGED <<open, eof>>
       \/ /\ ~Room
          /\ CloseWriter(c)
          /\ query' = [query EXCEPT ![q] = At("full", NoConn, 0)]
          /\ lock' = <<q>> \o rest
          /\ UNCHANGED <<inflight, pool, last_used>>
    /\ UNCHANGED <<now, closed, stopping, closer, to_close>>

(* _release_to_pool up to its next suspension. *)
AwaitRelease(q, w) ==
    /\ lock # <<>>
    /\ lock' = Append(lock, q)
    /\ query' = [query EXCEPT ![q].pc = "release"]
    /\ wire' = w
    /\ UNCHANGED <<now, closed, stopping, inflight, pool, last_used, open, eof, closer, to_close>>
ReleaseUnlessEof(q, w) ==
    \/ /\ pool_max_conns = 0 \/ AtEof(query[q].conn, w)
       /\ CloseWriter(query[q].conn)
       /\ query' = [query EXCEPT ![q] = At("closing", NoConn, 0)]
       /\ UNCHANGED <<now, closed, stopping, inflight, pool, last_used, lock, closer, to_close>>
    \/ /\ pool_max_conns > 0 /\ ~AtEof(query[q].conn, w)
       /\ (lock = <<>> /\ PutBack(q, w, <<>>)) \/ AwaitRelease(q, w)
release_to_pool(q, w) ==
    \/ /\ closed \/ pool_max_conns = 0 \/ AtEof(query[q].conn, w)
       /\ CloseWriter(query[q].conn)
       /\ query' = [query EXCEPT ![q] = At("closing", NoConn, 0)]
       /\ UNCHANGED <<now, closed, stopping, inflight, pool, last_used, lock, closer, to_close>>
    \/ /\ ~closed /\ pool_max_conns > 0 /\ ~AtEof(query[q].conn, w)
       /\ (lock = <<>> /\ PutBack(q, w, <<>>)) \/ AwaitRelease(q, w)

-----------------------------------------------------------------------------
(* query, up to its first suspension.  A call that finds the forwarder      *)
(* closed, or max_inflight calls under way, returns None and changes        *)
(* nothing.  With pool_max_conns = 0 nothing is ever pooled or locked, and   *)
(* the early return of _acquire_from_pool is the case of an empty pool.      *)
query_start(q) ==
    /\ query[q].pc = "idle"
    /\ ~closed
    /\ max_inflight > 0 => inflight < max_inflight
    /\ inflight' = IF max_inflight > 0 THEN inflight + 1 ELSE inflight
    /\ \/ /\ lock = <<>>
          /\ acquire_from_pool(q, now, <<>>)
       \/ /\ lock # <<>>
          /\ lock' = Append(lock, q)
          /\ query' = [query EXCEPT ![q] = At("acquire", NoConn, now)]
          /\ UNCHANGED <<now, closed, stopping, pool, last_used, connVars, closer, to_close>>

(* q gets the lock, or has closed a connection it cannot reuse. *)
query_acquire(q) ==
    /\ query[q].pc \in {"acquire", "discard"}
    /\ Head(lock) = q
    /\ acquire_from_pool(q, query[q].at, Tail(lock))
    /\ inflight' = inflight

(* open_connection succeeds; or it times out or fails. *)
query_connected(q) ==
    /\ query[q].pc = "connect"
    /\ \E c \in Conns \ open : open' = open \cup {c} /\ Send(q, c)
    /\ UNCHANGED <<now, closed, stopping, inflight, pool, last_used, lock, eof, closer, to_close>>
query_connect_failed(q) ==
    /\ query[q].pc = "connect"
    /\ EndQuery(q)
    /\ UNCHANGED <<now, closed, stopping, pool, last_used, lock, connVars, closer, to_close>>

(* A whole answer arrives: q takes the first one on the wire. *)
query_answered(q) ==
    /\ query[q].pc = "read"
    /\ wire[query[q].conn] # <<>>
    /\ release_to_pool(q, [wire EXCEPT ![query[q].conn] = Tail(@)])

(* Writing or reading times out or fails, or the answer is too long. *)
ReadFailedReleasing(q) ==
    /\ query[q].pc = "read"
    /\ release_to_pool(q, wire)
query_read_failed(q) ==
    /\ query[q].pc = "read"
    /\ CloseWriter(query[q].conn)
    /\ query' = [query EXCEPT ![q] = At("closing", NoConn, 0)]
    /\ UNCHANGED <<now, closed, stopping, inflight, pool, last_used, lock, closer, to_close>>

(* q gets the lock to put its connection back. *)
query_release(q) ==
    /\ query[q].pc = "release"
    /\ Head(lock) = q
    /\ PutBack(q, wire, Tail(lock))

(* wait_closed ends, or its timeout of 0.2 s does. *)
ClosedKeepingLock(q) ==
    /\ query[q].pc \in {"closing", "full"}
    /\ EndQuery(q)
    /\ UNCHANGED <<now, closed, stopping, pool, last_used, lock, connVars, closer, to_close>>
query_closed(q) ==
    /\ \/ query[q].pc = "closing" /\ lock' = lock
       \/ query[q].pc = "full" /\ lock' = Tail(lock)
    /\ EndQuery(q)
    /\ UNCHANGED <<now, closed, stopping, pool, last_used, connVars, closer, to_close>>

(* CancelledError is raised at the suspension of q.  errored is false while  *)
(* q reads, so its connection is released like after an answer.             *)
query_cancelled(q) ==
    /\ stopping
    /\ \/ /\ query[q].pc \in {"connect", "closing"}
          /\ EndQuery(q)
          /\ UNCHANGED <<now, closed, stopping, pool, last_used, lock, connVars, closer, to_close>>
       \/ /\ query[q].pc \in {"acquire", "discard", "release", "full"}
          /\ EndQuery(q)
          /\ \E i \in 1 .. Len(lock) : lock[i] = q /\ lock' = RemoveAt(lock, i)
          /\ UNCHANGED <<now, closed, stopping, pool, last_used, connVars, closer, to_close>>
       \/ /\ query[q].pc = "read"
          /\ Len(wire[query[q].conn]) < MaxOwed
          /\ release_to_pool(q, wire)

-----------------------------------------------------------------------------
(* close takes the pool over and then closes one connection after the other. *)
(* It is called, and callers of query are cancelled, once a signal stopped   *)
(* the servers.                                                              *)
TakePoolTooLate(rest) ==
    /\ to_close' = <<>>
    /\ pool' = <<>>
    /\ last_used' = [c \in Conns |-> 0]
    /\ closer' = "closing"
    /\ lock' = rest
TakePool(rest) ==
    /\ to_close' = pool
    /\ pool' = <<>>
    /\ last_used' = [c \in Conns |-> 0]
    /\ closer' = "closing"
    /\ lock' = rest
stop_signal ==
    /\ ~stopping
    /\ stopping' = TRUE
    /\ UNCHANGED <<now, closed, inflight, pool, last_used, lock, connVars, query, closer,
                   to_close>>
close_call ==
    /\ stopping
    /\ closer = "idle"
    /\ closed' = TRUE
    /\ \/ lock = <<>> /\ TakePool(<<>>)
       \/ /\ lock # <<>>
          /\ lock' = Append(lock, Closer)
          /\ closer' = "lock"
          /\ UNCHANGED <<pool, last_used, to_close>>
    /\ UNCHANGED <<now, stopping, inflight, connVars, query>>
close_acquire ==
    /\ closer = "lock"
    /\ Head(lock) = Closer
    /\ TakePool(Tail(lock))
    /\ UNCHANGED <<now, closed, stopping, inflight, connVars, query>>
close_next ==
    /\ closer = "closing"
    /\ \/ /\ to_close # <<>>
          /\ CloseWriter(Head(to_close))
          /\ to_close' = Tail(to_close)
          /\ closer' = closer
       \/ /\ to_close = <<>>
          /\ closer' = "done"
          /\ UNCHANGED <<connVars, to_close>>
    /\ UNCHANGED <<now, closed, stopping, inflight, pool, last_used, lock, query>>

(* The upstream closes a connection, after it has sent some of the answers   *)
(* it owes.  An answer cut off by the end of the stream counts as not sent.  *)
upstream_closes(c) ==
    /\ c \in open \ eof
    /\ eof' = eof \cup {c}
    /\ \E n \in 0 .. Len(wire[c]) : wire' = [wire EXCEPT ![c] = SubSeq(@, 1, n)]
    /\ UNCHANGED <<now, closed, stopping, inflight, pool, last_used, lock, open, query, closer,
                   to_close>>

tick ==
    /\ now < MaxTime
    /\ now' = now + 1
    /\ UNCHANGED <<closed, stopping, inflight, pool, last_used, lock, connVars, query, closer,
                   to_close>>

-----------------------------------------------------------------------------
Step(q) ==
    \/ query_acquire(q)
    \/ query_connected(q) \/ query_connect_failed(q)
    \/ query_answered(q) \/ query_read_failed(q)
    \/ query_release(q)
    \/ query_closed(q)

Next ==
    \/ \E q \in Queries : query_start(q) \/ Step(q) \/ query_cancelled(q)
    \/ stop_signal \/ close_call \/ close_acquire \/ close_next
    \/ \E c \in Conns : upstream_closes(c)
    \/ tick

Spec == Init /\ [][Next]_vars

(* Connecting, reading and waiting for wait_closed are bounded by timeouts,  *)
(* and the event loop runs who gets the lock.  Nothing makes close be        *)
(* called, but once called it goes on.                                       *)
FairSpec ==
    /\ Spec
    /\ \A q \in Queries : WF_vars(Step(q))
    /\ WF_vars(close_acquire \/ close_next)

-----------------------------------------------------------------------------
(* "Upstream concurrency limits (max_inflight) are fail-fast" (README.md:137) *)
(* and exact: _inflight counts the calls under way however they end, so a     *)
(* slot is neither lost nor given away twice.                                 *)
InflightExact ==
    max_inflight > 0 =>
        /\ inflight = Cardinality({q \in Queries : query[q].pc # "idle"})
        /\ inflight <= max_inflight

(* A connection has one user: it is in the pool once, or one call of query   *)
(* has it, or close is about to close it; and it is open as long.            *)
Held == {query[q].conn : q \in Queries} \ {NoConn}
OneUser ==
    /\ \A p, q \in Queries : query[p].conn = query[q].conn /\ p # q => query[p].conn = NoConn
    /\ IsInjective(pool) /\ IsInjective(to_close)
    /\ Held \cap Range(pool) = {}
    /\ Held \cap Range(to_close) = {}
    /\ Range(pool) \cap Range(to_close) = {}
    /\ Held \cup Range(pool) \cup Range(to_close) \subseteq open

(* No connection is forgotten: until the process stops, an open one has a    *)
(* user who will close it or put it back.                                    *)
NoLeakedConnection == stopping \/ open \subseteq Held \cup Range(pool)

(* The process stopping or not, an open connection loses its user in one way *)
(* only: the finally of query is cancelled while _release_to_pool awaits the *)
(* lock.  close, a full pool, a failed read and the other cancellations all   *)
(* hand the connection on or close it.                                       *)
Users == Held \cup Range(pool) \cup Range(to_close)
ForgottenByCancel(c) ==
    \E q \in Queries : /\ query[q].pc = "release" /\ query[q].conn = c
                       /\ stopping /\ query'[q] = Idle
UsersKept == \A c \in Users : c \in open' /\ c \notin Users' => ForgottenByCancel(c)
OnlyCancelForgets == [][UsersKept]_vars

(* "one in-flight per connection (no pipelining)" (README.md:136): a query   *)
(* is written only to a connection that owes no answer, so the first answer  *)
(* to arrive is its own.  It holds until callers are cancelled.              *)
OneInFlight ==
    \A c \in Conns : wire[c] = <<>> \/ \E q \in Queries : /\ wire[c] = <<q>>
                                                        /\ query[q] = At("read", c, 0)
OneInFlightUntilStop == stopping \/ OneInFlight

(* Once close has taken the pool over, no release puts a connection into it  *)
(* any more: a release that saw the forwarder open queued for the lock       *)
(* before close did.                                                         *)
ClosedPoolIsEmpty == closer \in {"closing", "done"} => pool = <<>>

(* Every call of query ends. *)
EveryQueryEnds == \A q \in Queries : query[q].pc # "idle" ~> query[q].pc = "idle"

-----------------------------------------------------------------------------
(* The inductive invariant.  LockInOrder: who is in the lock's queue, and    *)
(* that close is behind all who found the forwarder open.  ConnOfCall: the   *)
(* calls that hold a connection.  Owed: until callers are cancelled, a wire  *)
(* carries the query of the call that reads it, unless the upstream has      *)
(* closed, and nothing else.                                                 *)
LockInOrder ==
    /\ IsInjective(lock)
    /\ \A q \in Queries :
        /\ q \in Range(lock) <=> query[q].pc \in {"acquire", "discard", "release", "full"}
        /\ query[q].pc \in {"discard", "full"} => Head(lock) = q
    /\ Closer \in Range(lock) <=> closer = "lock"
    /\ closer = "lock" => Last(lock) = Closer
    /\ closer \in {"closing", "done"} => lock = <<>>
    /\ closed <=> closer # "idle"
    /\ closed => stopping
    /\ closer \in {"idle", "lock"} => to_close = <<>>
ConnOfCall ==
    \A q \in Queries : /\ query[q].conn # NoConn <=> query[q].pc \in {"read", "release"}
                       /\ query[q].pc = "read" => query[q].at = 0
Owed ==
    \A c \in Conns :
        /\ \A q \in Queries : query[q].pc = "read" /\ query[q].conn = c =>
               wire[c] = <<q>> \/ AtEof(c, wire)
        /\ (\A q \in Queries : ~(query[q].pc = "read" /\ query[q].conn = c)) => wire[c] = <<>>
IInv ==
    /\ TypeOK /\ LockInOrder /\ ConnOfCall
    /\ InflightExact /\ OneUser /\ NoLeakedConnection /\ ClosedPoolIsEmpty
    /\ stopping \/ Owed
=============================================================================
