--------------------- MODULE UdpUpstreamForwarderProofs ---------------------
(***************************************************************************)
(* Proofs about the UDP forwarder for any number of calls and threads.      *)
(***************************************************************************)
EXTENDS UdpUpstreamForwarder, FiniteSetTheorems, TLAPS

(* The time limits of the provers, in seconds. *)
USE ZenonT(5), SMTT(60)

(* Pcs of calls, the queue and the threads as the proofs use them. *)
LEMMA UnderWayFinite ==
    /\ IsFiniteSet(UnderWay)
    /\ Cardinality(UnderWay) \in Nat
  BY UdpAssumption, FS_Subset, FS_CardinalityType DEF UnderWay

(* A call that starts is counted, and the limit is kept. *)
LEMMA StartCounts ==
    ASSUME TypeOK, InflightExact, NEW q \in Queries, query_start(q)
    PROVE  InflightExact'
  <1>1. UnderWay' = UnderWay \cup {q} /\ q \notin UnderWay
    BY DEF TypeOK, UnderWay, query_start
  <1>2. Cardinality(UnderWay') = Cardinality(UnderWay) + 1
    BY <1>1, UnderWayFinite, FS_AddElement
  <1> QED
    BY <1>2, UnderWayFinite, UdpAssumption DEF TypeOK, InflightExact, query_start, Admitted

(* A call that ends gives its slot back. *)
LEMMA EndCounts ==
    ASSUME TypeOK, InflightExact, NEW q \in Queries, call[q].pc # "idle", EndQuery(q)
    PROVE  InflightExact' /\ inflight' \in Nat
  <1>1. UnderWay' = UnderWay \ {q} /\ q \in UnderWay
    BY DEF TypeOK, UnderWay, EndQuery, Idle
  <1>2. Cardinality(UnderWay') = Cardinality(UnderWay) - 1
    BY <1>1, UnderWayFinite, FS_RemoveElement
  <1>3. Cardinality(UnderWay') \in Nat
    BY <1>1, UnderWayFinite, FS_RemoveElement, FS_CardinalityType
  <1> QED
    BY <1>2, <1>3, UnderWayFinite, UdpAssumption DEF TypeOK, InflightExact, EndQuery

(* A step in which nobody starts or ends keeps the count. *)
LEMMA SameCounts ==
    ASSUME InflightExact, inflight' = inflight, UnderWay' = UnderWay
    PROVE  InflightExact'
  BY DEF InflightExact

-----------------------------------------------------------------------------
(* A call that hands its request to the executor keeps the invariant. *)
LEMMA StartInv ==
    ASSUME IInv, NEW q \in Queries, query_start(q)
    PROVE  IInv'
  <1> USE DEF IInv
  <1>1. /\ queue' \in Seq(Queries \cup {Orphan})
        /\ Len(queue') = Len(queue) + 1
        /\ \A i \in 1 .. Len(queue) : queue'[i] = queue[i]
        /\ queue'[Len(queue) + 1] = q
        /\ DOMAIN queue' = 1 .. Len(queue) + 1
        /\ DOMAIN queue = 1 .. Len(queue)
        /\ Len(queue) \in Nat
    BY DEF TypeOK, query_start
  <1>2. InQueue' = InQueue \cup {q}
    BY <1>1 DEF InQueue
  <1>3. Busy' = Busy /\ Served' = Served
    BY DEF Busy, Served, query_start
  <1>4. TypeOK'
    BY <1>1, UdpAssumption DEF TypeOK, query_start
  <1>5. q \notin InQueue \cup Served
    BY DEF OnePlace, query_start
  <1>6. OnePlace'
    <2>1. \A i, j \in DOMAIN queue' : queue'[i] = queue'[j] /\ i # j => queue'[i] = Orphan
      BY <1>1, <1>5 DEF OnePlace, InQueue
    <2>2. \A v, w \in Busy' : thread'[v].of = thread'[w].of /\ v # w => thread'[v].of = Orphan
      BY <1>3 DEF OnePlace, query_start
    <2>3. \A p \in Queries :
            /\ ~(p \in InQueue' /\ p \in Served')
            /\ (call'[p].pc = "await") <=> (p \in InQueue' \cup Served')
      BY <1>2, <1>3, <1>5 DEF OnePlace, query_start, TypeOK
    <2> QED
      BY <2>1, <2>2, <2>3 DEF OnePlace
  <1>7. InflightExact'
    BY StartCounts
  <1>8. StopsFirst'
    BY <1>2, <1>3, UdpAssumption DEF StopsFirst, query_start, Admitted
  <1>9. OnTime'
    <2>1. \A w \in Busy' : thread'[w].at <= now' /\ now' <= thread'[w].at + timeout_s
      BY <1>3 DEF OnTime, query_start
    <2>2. ASSUME Limited' PROVE \A p \in Queries \cap InQueue' : call'[p].at = now'
      BY <2>2, <1>2, <1>5 DEF OnTime, query_start, Limited, TypeOK
    <2>3. ASSUME Limited' PROVE \A w \in Busy' : call'[thread'[w].of].at = thread'[w].at
      <3> SUFFICES ASSUME NEW w \in Busy PROVE call'[thread[w].of].at = thread[w].at
        BY <1>3 DEF query_start
      <3>1. thread[w].of \in Served
        BY DEF Served
      <3> QED
        BY <3>1, <2>3, <1>5 DEF OnTime, query_start, Limited, TypeOK
    <2>4. ASSUME Limited'
          PROVE  \A p \in Queries : call'[p].pc = "resume" => now' <= call'[p].at + timeout_s
      BY <2>4 DEF OnTime, query_start, Limited, TypeOK
    <2> QED
      BY <2>1, <2>2, <2>3, <2>4 DEF OnTime
  <1> QED
    BY <1>4, <1>6, <1>7, <1>8, <1>9

(* A call that resumes and gives its slot back keeps the invariant. *)
LEMMA ResumedInv ==
    ASSUME IInv, NEW q \in Queries, query_resumed(q)
    PROVE  IInv'
  <1> USE DEF IInv
  <1>1. InQueue' = InQueue /\ Busy' = Busy /\ Served' = Served
    BY DEF InQueue, Busy, Served, query_resumed
  <1>2. inflight' \in Nat /\ InflightExact'
    BY EndCounts DEF query_resumed
  <1>3. TypeOK'
    BY <1>2 DEF TypeOK, query_resumed, EndQuery, Idle
  <1>4. q \notin InQueue \cup Served
    BY DEF OnePlace, query_resumed
  <1>5. OnePlace'
    <2>1. \A p \in Queries :
            /\ ~(p \in InQueue' /\ p \in Served')
            /\ (call'[p].pc = "await") <=> (p \in InQueue' \cup Served')
      BY <1>1, <1>4 DEF OnePlace, query_resumed, EndQuery, Idle, TypeOK
    <2> QED
      BY <2>1, <1>1 DEF OnePlace, query_resumed
  <1>6. StopsFirst'
    BY <1>1 DEF StopsFirst, query_resumed
  <1>7. OnTime'
    <2>1. \A w \in Busy : thread[w].of # q
      BY <1>4 DEF Served
    <2> QED
      BY <1>1, <1>4, <2>1 DEF OnTime, query_resumed, EndQuery, Idle, Limited, TypeOK
  <1> QED
    BY <1>2, <1>3, <1>5, <1>6, <1>7

(* Cancelling replaces a request by an orphan, wherever it is. *)
LEMMA CancelledInv ==
    ASSUME IInv, NEW q \in Queries, query_cancelled(q)
    PROVE  IInv'
  <1> USE DEF IInv
  <1>1. /\ DOMAIN queue = 1 .. Len(queue)
        /\ Len(queue) \in Nat
        /\ \A i \in 1 .. Len(queue) : queue[i] \in Queries \cup {Orphan}
    BY DEF TypeOK
  <1>2. /\ DOMAIN queue' = 1 .. Len(queue)
        /\ \A i \in 1 .. Len(queue) : queue'[i] = IF queue[i] = q THEN Orphan ELSE queue[i]
    BY DEF query_cancelled, Orphaned
  <1>3. queue' \in Seq(Queries \cup {Orphan})
    <2>1. queue' \in [1 .. Len(queue) -> Queries \cup {Orphan}]
      BY <1>1 DEF query_cancelled, Orphaned
    <2> QED
      BY <2>1, <1>1
  <1>4. \A w \in Threads : /\ thread'[w].of = IF thread[w].of = q THEN Orphan ELSE thread[w].of
                           /\ thread'[w].at = thread[w].at
    BY DEF query_cancelled, Orphaned, TypeOK
  <1>5. Busy' = Busy
    BY <1>4, UdpAssumption DEF Busy
  <1>6. \A p \in Queries : /\ p \in InQueue' <=> p \in InQueue /\ p # q
                           /\ p \in Served' <=> p \in Served /\ p # q
    <2>1. \A p \in Queries : p \in InQueue' <=> p \in InQueue /\ p # q
      BY <1>1, <1>2, UdpAssumption DEF InQueue
    <2>2. \A p \in Queries : p \in Served' <=> p \in Served /\ p # q
      BY <1>4, <1>5, UdpAssumption DEF Served, Busy
    <2> QED
      BY <2>1, <2>2
  <1>7. inflight' \in Nat /\ InflightExact'
    BY EndCounts DEF query_cancelled
  <1>8. TypeOK'
    <2>1. thread' \in [Threads -> [of : Queries \cup {NoCall, Orphan}, at : Nat]]
      BY DEF TypeOK, query_cancelled, Orphaned
    <2>2. call' \in [Queries -> [pc : {"idle", "await", "resume"}, at : Nat]]
      BY DEF TypeOK, query_cancelled, EndQuery, Idle
    <2> QED
      BY <1>3, <1>7, <2>1, <2>2 DEF TypeOK, query_cancelled
  <1>9. OnePlace'
    <2>1. \A i, j \in DOMAIN queue' : queue'[i] = queue'[j] /\ i # j => queue'[i] = Orphan
      BY <1>1, <1>2 DEF OnePlace
    <2>2. \A v, w \in Busy' : thread'[v].of = thread'[w].of /\ v # w => thread'[v].of = Orphan
      BY <1>4, <1>5 DEF OnePlace, Busy
    <2>3. \A p \in Queries : call'[p].pc = IF p = q THEN "idle" ELSE call[p].pc
      BY DEF query_cancelled, EndQuery, Idle, TypeOK
    <2>4. \A p \in Queries :
            /\ ~(p \in InQueue' /\ p \in Served')
            /\ (call'[p].pc = "await") <=> (p \in InQueue' \cup Served')
      BY <1>6, <2>3 DEF OnePlace
    <2> QED
      BY <2>1, <2>2, <2>4 DEF OnePlace
  <1>10. StopsFirst' /\ ~Limited'
    <2>1. queue = <<>> => queue' = <<>>
      BY DEF query_cancelled
    <2> QED
      BY <2>1 DEF StopsFirst, Limited, query_cancelled
  <1>11. OnTime'
    BY <1>4, <1>5, <1>10 DEF OnTime, Busy, query_cancelled
  <1> QED
    BY <1>7, <1>8, <1>9, <1>10, <1>11

(* What taking the first request leaves in the queue. *)
LEMMA Popping ==
    ASSUME TypeOK, queue # <<>>, queue' = Tail(queue)
    PROVE  /\ queue' \in Seq(Queries \cup {Orphan})
           /\ Len(queue) \in Nat \ {0}
           /\ DOMAIN queue = 1 .. Len(queue)
           /\ DOMAIN queue' = 1 .. Len(queue) - 1
           /\ \A i \in 1 .. Len(queue) - 1 : queue'[i] = queue[i + 1]
           /\ Head(queue) = queue[1] /\ Head(queue) \in Queries \cup {Orphan}
  BY DEF TypeOK

(* A thread that takes a request keeps the invariant. *)
LEMMA TakesInv ==
    ASSUME IInv, NEW w \in Threads, thread_takes(w)
    PROVE  IInv'
  <1> DEFINE q == Head(queue)
  <1> USE DEF IInv
  <1>1. /\ queue' \in Seq(Queries \cup {Orphan})
        /\ Len(queue) \in Nat \ {0}
        /\ DOMAIN queue = 1 .. Len(queue)
        /\ DOMAIN queue' = 1 .. Len(queue) - 1
        /\ \A i \in 1 .. Len(queue) - 1 : queue'[i] = queue[i + 1]
        /\ q = queue[1] /\ q \in Queries \cup {Orphan}
    BY Popping DEF thread_takes
  <1>2. q \in Queries /\ q \in InQueue
    BY <1>1 DEF thread_takes, InQueue
  <1> HIDE DEF q
  <1>3. \A v \in Threads : thread'[v] = IF v = w THEN [of |-> q, at |-> now] ELSE thread[v]
    BY DEF thread_takes, TypeOK, q
  <1>4. Busy' = Busy \cup {w} /\ w \notin Busy
    BY <1>2, <1>3, UdpAssumption DEF Busy, thread_takes
  <1>5. Served' = Served \cup {q}
    BY <1>3, <1>4 DEF Served, Busy
  <1>6. InQueue' \subseteq InQueue /\ q \notin InQueue' /\ InQueue \subseteq InQueue' \cup {q}
    <2>1. InQueue' \subseteq InQueue
      BY <1>1 DEF InQueue
    <2>2. q \notin InQueue'
      <3> SUFFICES ASSUME NEW i \in 1 .. Len(queue) - 1, queue[i + 1] = q PROVE FALSE
        BY <1>1 DEF InQueue
      <3> QED
        BY <1>1, <1>2, UdpAssumption DEF OnePlace
    <2>3. ASSUME NEW i \in DOMAIN queue PROVE queue[i] \in InQueue' \cup {q}
      <3>1. CASE i = 1
        BY <3>1, <1>1
      <3>2. CASE i # 1
        <4>1. i - 1 \in 1 .. Len(queue) - 1 /\ queue'[i - 1] = queue[i]
          BY <3>2, <1>1, <2>3
        <4> QED
          BY <4>1, <1>1 DEF InQueue
      <3> QED
        BY <3>1, <3>2
    <2> QED
      BY <2>1, <2>2, <2>3 DEF InQueue
  <1>7. TypeOK'
    BY <1>1, <1>2, <1>3 DEF TypeOK, thread_takes, q
  <1>8. OnePlace'
    <2>1. \A i, j \in DOMAIN queue' : queue'[i] = queue'[j] /\ i # j => queue'[i] = Orphan
      BY <1>1 DEF OnePlace
    <2>2. \A u, v \in Busy' : thread'[u].of = thread'[v].of /\ u # v => thread'[u].of = Orphan
      <3>1. \A v \in Busy : thread[v].of # q
        BY <1>2 DEF OnePlace, Served
      <3> QED
        BY <1>3, <1>4, <3>1 DEF OnePlace, Busy
    <2>3. \A p \in Queries :
            /\ ~(p \in InQueue' /\ p \in Served')
            /\ (call'[p].pc = "await") <=> (p \in InQueue' \cup Served')
      BY <1>2, <1>5, <1>6 DEF OnePlace, thread_takes
    <2> QED
      BY <2>1, <2>2, <2>3 DEF OnePlace
  <1>9. InflightExact'
    BY SameCounts DEF thread_takes, UnderWay
  <1>10. StopsFirst'
    BY <1>2, <1>5, <1>6, UdpAssumption DEF StopsFirst, thread_takes
  <1>11. OnTime'
    BY <1>2, <1>3, <1>4, <1>6, UdpAssumption DEF OnTime, Limited, Busy, thread_takes, TypeOK
  <1> QED
    BY <1>7, <1>8, <1>9, <1>10, <1>11

(* A thread that drops a cancelled request keeps the invariant. *)
LEMMA DropsInv ==
    ASSUME IInv, NEW w \in Threads, thread_drops(w)
    PROVE  IInv'
  <1> USE DEF IInv
  <1>1. /\ queue' \in Seq(Queries \cup {Orphan})
        /\ Len(queue) \in Nat \ {0}
        /\ DOMAIN queue = 1 .. Len(queue)
        /\ DOMAIN queue' = 1 .. Len(queue) - 1
        /\ \A i \in 1 .. Len(queue) - 1 : queue'[i] = queue[i + 1]
        /\ queue[1] = Orphan
    BY Popping DEF thread_drops
  <1>2. Busy' = Busy /\ Served' = Served
    BY DEF Busy, Served, thread_drops
  <1>3. \A p \in Queries : p \in InQueue' <=> p \in InQueue
    <2>1. ASSUME NEW i \in DOMAIN queue, queue[i] \in Queries PROVE queue[i] \in InQueue'
      <3>1. i # 1
        BY <1>1, <2>1, UdpAssumption
      <3>2. i - 1 \in 1 .. Len(queue) - 1 /\ queue'[i - 1] = queue[i]
        BY <3>1, <1>1, <2>1
      <3> QED
        BY <3>2, <1>1 DEF InQueue
    <2>2. InQueue' \subseteq InQueue
      BY <1>1 DEF InQueue
    <2> QED
      BY <2>1, <2>2 DEF InQueue
  <1>4. stopping
    BY <1>1 DEF StopsFirst, InQueue
  <1>5. TypeOK'
    BY <1>1 DEF TypeOK, thread_drops
  <1>6. OnePlace'
    <2>1. \A i, j \in DOMAIN queue' : queue'[i] = queue'[j] /\ i # j => queue'[i] = Orphan
      BY <1>1 DEF OnePlace
    <2>2. \A p \in Queries :
            /\ ~(p \in InQueue' /\ p \in Served')
            /\ (call'[p].pc = "await") <=> (p \in InQueue' \cup Served')
      BY <1>2, <1>3 DEF OnePlace, thread_drops
    <2> QED
      BY <2>1, <2>2, <1>2 DEF OnePlace, thread_drops
  <1>7. InflightExact'
    BY SameCounts DEF thread_drops, UnderWay
  <1>8. StopsFirst' /\ OnTime'
    BY <1>2, <1>4 DEF StopsFirst, OnTime, Limited, thread_drops
  <1> QED
    BY <1>5, <1>6, <1>7, <1>8

(* A thread that ends its exchange keeps the invariant. *)
LEMMA ReturnsInv ==
    ASSUME IInv, NEW w \in Threads, thread_returns(w)
    PROVE  IInv'
  <1> USE DEF IInv
  <1>1. \A v \in Threads : thread'[v] = IF v = w THEN Unused ELSE thread[v]
    BY DEF thread_returns, TypeOK
  <1>2. Busy' = Busy \ {w} /\ w \in Busy
    BY <1>1 DEF Busy, Unused, thread_returns
  <1>3. \A p \in Queries : p \in Served' <=> p \in Served /\ p # thread[w].of
    BY <1>1, <1>2, UdpAssumption DEF Served, OnePlace, Busy
  <1>4. Served' \subseteq Served /\ InQueue' = InQueue
    BY <1>1, <1>2 DEF Served, InQueue, Busy, thread_returns
  <1>5. \A p \in Queries : /\ call'[p].at = call[p].at
                           /\ call'[p].pc = IF p = thread[w].of THEN "resume" ELSE call[p].pc
    BY DEF thread_returns, TypeOK
  <1>6. TypeOK'
    <2>1. thread' \in [Threads -> [of : Queries \cup {NoCall, Orphan}, at : Nat]]
      BY DEF TypeOK, thread_returns, Unused
    <2>2. call' \in [Queries -> [pc : {"idle", "await", "resume"}, at : Nat]]
      BY DEF TypeOK, thread_returns
    <2> QED
      BY <2>1, <2>2 DEF TypeOK, thread_returns
  <1>7. OnePlace'
    <2>1. \A u, v \in Busy' : thread'[u].of = thread'[v].of /\ u # v => thread'[u].of = Orphan
      BY <1>1, <1>2 DEF OnePlace, Busy
    <2>2. thread[w].of \in Served
      BY <1>2 DEF Served
    <2>3. \A p \in Queries :
            /\ ~(p \in InQueue' /\ p \in Served')
            /\ (call'[p].pc = "await") <=> (p \in InQueue' \cup Served')
      BY <1>3, <1>4, <1>5, <2>2 DEF OnePlace
    <2> QED
      BY <2>1, <2>3, <1>4 DEF OnePlace, thread_returns
  <1>8. InflightExact'
    <2>1. \A p \in Queries : call'[p].pc = "idle" <=> call[p].pc = "idle"
      <3>1. thread[w].of \in Queries => call[thread[w].of].pc = "await"
        BY <1>2 DEF OnePlace, Served
      <3> QED
        BY <1>5, <3>1
    <2> QED
      BY <2>1, SameCounts DEF thread_returns, UnderWay
  <1>9. StopsFirst'
    BY <1>4 DEF StopsFirst, thread_returns
  <1>10. OnTime'
    <2>1. \A v \in Busy' : thread'[v] = thread[v] /\ v \in Busy
      BY <1>1, <1>2 DEF Busy
    <2>2. now' = now /\ Limited' = Limited
      BY DEF thread_returns, Limited
    <2>3. ASSUME Limited, NEW v \in Busy' PROVE call'[thread[v].of].at = thread[v].at
      <3>1. thread[v].of \in Queries
        BY <2>1, <2>3 DEF StopsFirst, Limited, Served, Busy, TypeOK
      <3> QED
        BY <3>1, <1>5, <2>1, <2>3 DEF OnTime
    <2>4. ASSUME Limited, NEW p \in Queries, call'[p].pc = "resume"
          PROVE  now <= call'[p].at + timeout_s
      <3>1. CASE p = thread[w].of
        BY <3>1, <2>4, <1>2, <1>5 DEF OnTime
      <3>2. CASE p # thread[w].of
        BY <3>2, <2>4, <1>5 DEF OnTime
      <3> QED
        BY <3>1, <3>2
    <2>5. ASSUME Limited, NEW p \in Queries \cap InQueue' PROVE call'[p].at = now
      BY <2>5, <1>4, <1>5 DEF OnTime
    <2> QED
      BY <2>1, <2>2, <2>3, <2>4, <2>5 DEF OnTime
  <1> QED
    BY <1>6, <1>7, <1>8, <1>9, <1>10

(* The stop signal keeps the invariant. *)
LEMMA StopInv ==
    ASSUME IInv, stop_signal
    PROVE  IInv'
  <1>1. InQueue' = InQueue /\ Busy' = Busy /\ Served' = Served /\ UnderWay' = UnderWay
    BY DEF InQueue, Busy, Served, UnderWay, stop_signal
  <1>2. TypeOK' /\ OnePlace' /\ StopsFirst'
    BY <1>1 DEF IInv, TypeOK, OnePlace, StopsFirst, stop_signal
  <1>3. InflightExact'
    BY <1>1, SameCounts DEF IInv, stop_signal
  <1>4. OnTime'
    BY <1>1 DEF IInv, OnTime, Limited, stop_signal
  <1> QED
    BY <1>2, <1>3, <1>4 DEF IInv

(* close, which cancels the queued requests, keeps the invariant. *)
LEMMA CloseInv ==
    ASSUME IInv, close
    PROVE  IInv'
  <1> USE DEF IInv
  <1>1. InQueue' = {} /\ Busy' = Busy /\ Served' = Served
    BY DEF InQueue, Busy, Served, close
  <1>2. \A p \in Queries : call'[p].pc = IF p \in InQueue THEN "resume" ELSE call[p].pc
    BY DEF close, TypeOK
  <1>3. TypeOK'
    BY DEF TypeOK, close
  <1>4. OnePlace'
    BY <1>1, <1>2 DEF OnePlace, close
  <1>5. InflightExact'
    BY <1>2, SameCounts DEF close, UnderWay, OnePlace
  <1>6. StopsFirst' /\ ~Limited'
    BY DEF StopsFirst, Limited, close
  <1>7. OnTime'
    BY <1>1, <1>6 DEF OnTime, close
  <1> QED
    BY <1>3, <1>4, <1>5, <1>6, <1>7

(* While calls are limited to the threads, a request that waits leaves some  *)
(* thread idle: the busy ones have other calls under way.                    *)
LEMMA SomeThreadIsIdle ==
    ASSUME IInv, Limited, queue # <<>>
    PROVE  Busy # Threads
  <1> SUFFICES ASSUME Busy = Threads PROVE FALSE
    OBVIOUS
  <1> DEFINE q == queue[1]
             f == [w \in Threads |-> thread[w].of]
             rest == UnderWay \ {q}
  <1> USE DEF IInv
  <1>1. q \in InQueue /\ q \in Queries /\ q \in UnderWay
    <2>1. q \in InQueue /\ q \in Queries \cup {Orphan}
      BY DEF TypeOK, InQueue
    <2> QED
      BY <2>1 DEF Limited, StopsFirst, OnePlace, UnderWay
  <1>2. \A w \in Threads : f[w] \in Served /\ f[w] \in Queries
    BY DEF Served, Busy, StopsFirst, Limited, TypeOK
  <1>3. f \in [Threads -> rest]
    BY <1>1, <1>2 DEF OnePlace, UnderWay
  <1>4. IsFiniteSet(rest) /\ Cardinality(rest) = Cardinality(UnderWay) - 1
    BY <1>1, UnderWayFinite, FS_RemoveElement
  <1>5. Cardinality(rest) < Cardinality(Threads)
    BY <1>4, UnderWayFinite, UdpAssumption, FS_CardinalityType DEF InflightExact, Limited, TypeOK
  <1>6. PICK v, w \in Threads : v # w /\ f[v] = f[w]
    <2> HIDE DEF f, rest, q, IInv
    <2> QED
      BY <1>3, <1>4, <1>5, UdpAssumption, FS_PigeonHole
  <1> QED
    BY <1>2, <1>6, UdpAssumption DEF OnePlace

(* The clock keeps the invariant. *)
LEMMA TickInv ==
    ASSUME IInv, tick
    PROVE  IInv'
  <1> USE DEF IInv
  <1>1. InQueue' = InQueue /\ Busy' = Busy /\ Served' = Served /\ UnderWay' = UnderWay
    BY DEF InQueue, Busy, Served, UnderWay, tick
  <1>2. TypeOK' /\ OnePlace' /\ StopsFirst'
    BY <1>1 DEF TypeOK, OnePlace, StopsFirst, tick
  <1>3. InflightExact'
    BY <1>1, SameCounts DEF tick
  <1>4. Limited => InQueue = {}
    BY SomeThreadIsIdle DEF tick, InQueue
  <1>5. OnTime'
    BY <1>1, <1>4, UdpAssumption DEF OnTime, Limited, Due, Busy, TypeOK, tick
  <1> QED
    BY <1>2, <1>3, <1>5

(* The inductive invariant holds in every state. *)
LEMMA Inductive == Spec => []IInv
  <1>1. Init => IInv
    <2> SUFFICES ASSUME Init PROVE IInv
      OBVIOUS
    <2>1. InQueue = {} /\ Busy = {} /\ Served = {} /\ UnderWay = {}
      BY DEF Init, InQueue, Busy, Served, UnderWay, Idle, Unused
    <2>2. TypeOK
      <3>1. queue \in Seq(Queries \cup {Orphan})
        BY DEF Init
      <3> QED
        BY <3>1, Zenon DEF Init, TypeOK, Idle, Unused
    <2>3. OnePlace /\ StopsFirst
      BY <2>1 DEF Init, OnePlace, StopsFirst, Idle
    <2>4. InflightExact
      BY <2>1, FS_EmptySet, UdpAssumption DEF Init, InflightExact
    <2>5. OnTime
      BY <2>1 DEF Init, OnTime, Idle
    <2> QED
      BY <2>2, <2>3, <2>4, <2>5 DEF IInv
  <1>2. IInv /\ [Next]_vars => IInv'
    <2> SUFFICES ASSUME IInv, [Next]_vars PROVE IInv'
      OBVIOUS
    <2>1. ASSUME NEW q \in Queries, query_start(q) \/ query_resumed(q) \/ query_cancelled(q)
          PROVE  IInv'
      BY <2>1, StartInv, ResumedInv, CancelledInv
    <2>2. ASSUME NEW w \in Threads, thread_takes(w) \/ thread_drops(w) \/ thread_returns(w)
          PROVE  IInv'
      BY <2>2, TakesInv, DropsInv, ReturnsInv
    <2>3. CASE stop_signal \/ close \/ tick
      BY <2>3, StopInv, CloseInv, TickInv
    <2>4. CASE UNCHANGED vars
      <3>1. InQueue' = InQueue /\ Busy' = Busy /\ Served' = Served /\ UnderWay' = UnderWay
        BY <2>4 DEF InQueue, Busy, Served, UnderWay, vars
      <3> QED
        BY <2>4, <3>1 DEF vars, IInv, TypeOK, OnePlace, InflightExact, StopsFirst, OnTime, Limited
    <2> QED
      BY <2>1, <2>2, <2>3, <2>4 DEF Next
  <1> QED
    BY <1>1, <1>2, PTL DEF Spec

-----------------------------------------------------------------------------
(* TypeOK: the state keeps its shape; _inflight is never negative. *)
THEOREM TypeCorrect == Spec => []TypeOK
  <1>1. IInv => TypeOK
    BY DEF IInv
  <1> QED
    BY <1>1, Inductive, PTL

(* InflightExact: the counter of query is the number of calls under way. *)
THEOREM CountsExactly == Spec => []InflightExact
  <1>1. IInv => InflightExact
    BY DEF IInv
  <1> QED
    BY <1>1, Inductive, PTL

(* After close no thread starts an exchange with the upstream: the requests  *)
(* that waited are gone, and no later call adds one.                         *)
THEOREM CloseStopsSending == Spec => ClosedSendsNothing
  <1>1. IInv /\ [Next]_vars => [closed => Busy' \subseteq Busy]_vars
    <2> SUFFICES ASSUME IInv, Next, closed PROVE Busy' \subseteq Busy
      BY DEF vars
    <2>1. ASSUME NEW w \in Threads, thread_takes(w) PROVE FALSE
      BY <2>1 DEF IInv, StopsFirst, thread_takes
    <2>2. ASSUME NEW w \in Threads, thread_returns(w) PROVE Busy' \subseteq Busy
      BY <2>2 DEF IInv, TypeOK, Busy, Unused, thread_returns
    <2>3. ASSUME NEW q \in Queries, query_cancelled(q) PROVE Busy' \subseteq Busy
      BY <2>3, UdpAssumption DEF IInv, TypeOK, Busy, Orphaned, query_cancelled
    <2>4. CASE UNCHANGED thread
      BY <2>4 DEF Busy
    <2> QED
      BY <2>1, <2>2, <2>3, <2>4
       DEF Next, query_start, query_resumed, thread_drops, stop_signal, close, tick
  <1> QED
    BY <1>1, Inductive, PTL DEF Spec, ClosedSendsNothing

(* OnePlace: the request of a call that waits is in exactly one place, so    *)
(* some thread is going to answer it.                                        *)
THEOREM NobodyWaitsForNothing == Spec => []OnePlace
  <1>1. IInv => OnePlace
    BY DEF IInv
  <1> QED
    BY <1>1, Inductive, PTL

(* ThreadsHaveSlots: until the process stops, the upstream has at most       *)
(* max_inflight requests.                                                    *)
THEOREM LimitsUpstream == Spec => []ThreadsHaveSlots
  <1>1. IInv => ThreadsHaveSlots
    <2> SUFFICES ASSUME IInv, ~stopping, max_inflight > 0
                 PROVE  Cardinality(Busy) <= inflight
      BY DEF ThreadsHaveSlots
    <2> DEFINE f == [w \in Busy |-> thread[w].of]
    <2>1. f \in [Busy -> UnderWay]
      BY DEF IInv, TypeOK, StopsFirst, OnePlace, Served, Busy, UnderWay
    <2>2. \A v, w \in Busy : f[v] = f[w] => v = w
      BY DEF IInv, StopsFirst, OnePlace, Served
    <2>3. f \in Injection(Busy, UnderWay)
      BY <2>1, <2>2 DEF Injection, IsInjective
    <2> QED
      BY <2>3, UnderWayFinite, FS_Injection DEF IInv, InflightExact
  <1> QED
    BY <1>1, Inductive, PTL

(* SlotsAreExact: both of the above. *)
THEOREM SlotsCountBoth == Spec => []SlotsAreExact
  <1>1. InflightExact /\ ThreadsHaveSlots => SlotsAreExact
    BY DEF SlotsAreExact
  <1> QED
    BY <1>1, CountsExactly, LimitsUpstream, PTL

(* LimitedIsTimely: with max_inflight between 1 and max_workers, a call is    *)
(* over within timeout_s.                                                    *)
THEOREM LimitMakesTimely == Spec => []LimitedIsTimely
  <1>1. IInv => LimitedIsTimely
    <2> SUFFICES ASSUME IInv, Limited, NEW q \in UnderWay
                 PROVE  now <= call[q].at + timeout_s
      BY DEF LimitedIsTimely, Limited
    <2>1. q \in Queries /\ call[q].pc \in {"await", "resume"}
      BY DEF IInv, TypeOK, UnderWay
    <2>2. CASE call[q].pc = "resume"
      BY <2>1, <2>2 DEF IInv, OnTime
    <2>3. CASE call[q].pc = "await"
      <3>1. CASE q \in InQueue
        BY <2>1, <3>1, UdpAssumption DEF IInv, OnTime, TypeOK
      <3>2. CASE q \in Served
        <4>1. PICK w \in Busy : thread[w].of = q
          BY <3>2 DEF Served
        <4> QED
          BY <4>1 DEF IInv, OnTime
      <3> QED
        BY <2>1, <2>3, <3>1, <3>2 DEF IInv, OnePlace
    <2> QED
      BY <2>1, <2>2, <2>3
  <1> QED
    BY <1>1, Inductive, PTL
=============================================================================
