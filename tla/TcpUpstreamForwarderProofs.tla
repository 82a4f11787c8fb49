--------------------- MODULE TcpUpstreamForwarderProofs ---------------------
(***************************************************************************)
(* Proofs about the TCP forwarder for any number of calls and connections   *)
(* and any limits.                                                          *)
(***************************************************************************)
EXTENDS TcpForwarderLemmas

(* The time limits of the provers, in seconds. *)
USE ZenonT(5), SMTT(60)

-----------------------------------------------------------------------------
(* Nothing follows the only element of a sequence. *)
LEMMA TailSingle ==
    ASSUME NEW e
    PROVE  Tail(<<e>>) = <<>>
  OBVIOUS

(* A prefix of a sequence is a sequence over the same set. *)
LEMMA PrefixSeq ==
    ASSUME NEW S, NEW s \in Seq(S), NEW n \in 0 .. Len(s)
    PROVE  SubSeq(s, 1, n) \in Seq(S)
  OBVIOUS

(* A sequence of one element has two prefixes. *)
LEMMA PrefixSingle ==
    ASSUME NEW S, NEW e \in S, NEW n \in 0 .. Len(<<e>>)
    PROVE  SubSeq(<<e>>, 1, n) \in {<<>>, <<e>>}
  <1>1. n = 0 \/ n = 1
    OBVIOUS
  <1>2. SubSeq(<<e>>, 1, 0) = <<>>
    OBVIOUS
  <1>3. SubSeq(<<e>>, 1, 1) = <<e>>
    <2> DEFINE s == SubSeq(<<e>>, 1, 1)
    <2>1. s \in Seq(S) /\ Len(s) = 1 /\ s[1] = e
      OBVIOUS
    <2> HIDE DEF s
    <2>2. DOMAIN s = 1 .. 1 /\ s = [i \in 1 .. 1 |-> s[i]]
      BY <2>1
    <2>3. <<e>> = [i \in 1 .. 1 |-> <<e>>[i]]
      OBVIOUS
    <2>4. \A i \in 1 .. 1 : s[i] = <<e>>[i]
      BY <2>1
    <2> QED
      BY <2>2, <2>3, <2>4 DEF s
  <1> QED
    BY <1>1, <1>2, <1>3

(* Closing a writer keeps the types of what is known of connections. *)
LEMMA CloseTypes ==
    ASSUME TypeOK, NEW c, CloseWriter(c)
    PROVE  open' \in SUBSET Conns /\ eof' \in SUBSET open' /\ wire' \in [Conns -> Seq(Queries)]
  <1>1. wire' \in [Conns -> Seq(Queries)]
    BY EmptyProps, Zenon DEF TypeOK, CloseWriter
  <1>2. open' \in SUBSET Conns /\ eof' \in SUBSET open'
    BY DEF TypeOK, CloseWriter
  <1> QED
    BY <1>1, <1>2

(* One lemma per operation: the invariant survives it. *)
LEMMA AcquireInv ==
    ASSUME IInv, NEW q \in Queries, NEW t \in Nat, NEW rest, Turn(q, rest),
           query[q].pc \in {"idle", "acquire", "discard"},
           acquire_from_pool(q, t, rest), InflightExact', inflight' \in Nat
    PROVE  IInv' /\ UsersKept
  <1> USE DEF IInv
  <1>1. ConnInv /\ query[q].conn = NoConn /\ query[q].pc # "read"
    BY DEF ConnInv, ConnOfCall
  <1>2. Others(q) /\ CloseSame
    BY DEF acquire_from_pool, Others, CloseSame, Send, TypeOK
  <1>3. rest \in Seq(Queries \cup {Closer}) /\ <<q>> \o rest \in Seq(Queries \cup {Closer})
    BY Handover, Zenon
  <1>4. CASE /\ pool = <<>>
             /\ query' = [query EXCEPT ![q] = At("connect", NoConn, 0)]
             /\ lock' = rest
             /\ UNCHANGED <<pool, last_used, connVars>>
    <2>1. query'[q] = At("connect", NoConn, 0)
      BY <1>4 DEF TypeOK
    <2>2. TypeOK'
      BY <1>2, <1>3, <1>4 DEF TypeOK, acquire_from_pool, connVars, At, Call, PCs
    <2>3. LockInOrder'
      BY <1>2, <1>4, <2>1, GivesUp DEF LockPCs, At
    <2>4. ConnInv' /\ UsersKept
      BY <1>1, <1>2, <1>4, <2>1, ConnsSame DEF Others, CloseSame, At, connVars
    <2>5. ConnOfCall' /\ ClosedPoolIsEmpty'
      BY <1>2, <1>4, <2>1 DEF ConnOfCall, Others, At, ClosedPoolIsEmpty, CloseSame
    <2> QED
      BY <2>2, <2>3, <2>4, <2>5 DEF ConnInv
  <1>5. CASE /\ pool # <<>>
             /\ ~AtEof(Last(pool), wire)
             /\ Send(q, Last(pool))
             /\ pool' = Popped
             /\ last_used' = [last_used EXCEPT ![Last(pool)] = 0]
             /\ lock' = rest
             /\ UNCHANGED <<open, eof>>
    <2>1. query'[q] = At("read", Last(pool), 0) /\ Last(pool) \in Conns
      BY <1>5, SetProps DEF TypeOK, Send
    <2>2. ConnInv' /\ UsersKept /\ pool' \in Seq(Conns)
      BY <1>1, <1>2, <1>5, Reuses
    <2>3. TypeOK'
      <3>1. wire' \in [Conns -> Seq(Queries)]
        BY <1>5, <2>1, AppendSeq DEF TypeOK, Send, AtEof
      <3>2. query' \in [Queries -> Call]
        BY <1>5, <2>1 DEF TypeOK, Send, At, Call, PCs
      <3> QED
        BY <1>2, <1>3, <1>5, <2>2, <3>1, <3>2, ZenonT(60)
         DEF TypeOK, acquire_from_pool, CloseSame
    <2>4. LockInOrder'
      BY <1>2, <1>5, <2>1, GivesUp DEF LockPCs, At
    <2>5. ConnOfCall'
      BY <1>2, <2>1, ForwarderAssumption DEF ConnOfCall, Others, At
    <2>6. ClosedPoolIsEmpty'
      BY <1>2, <1>5, <2>2, ForwarderAssumption
         DEF ClosedPoolIsEmpty, CloseSame, TypeOK
    <2> QED
      BY <2>2, <2>3, <2>4, <2>5, <2>6 DEF ConnInv
  <1>6. CASE /\ pool # <<>>
             /\ CloseWriter(Last(pool))
             /\ pool' = Popped
             /\ last_used' = [last_used EXCEPT ![Last(pool)] = 0]
             /\ query' = [query EXCEPT ![q] = At("discard", NoConn, t)]
             /\ lock' = <<q>> \o rest
    <2>1. query'[q] = At("discard", NoConn, t)
      BY <1>6 DEF TypeOK
    <2>2. ConnInv' /\ UsersKept /\ pool' \in Seq(Conns)
      BY <1>1, <1>2, <1>6, <2>1, Discards DEF At
    <2>3. TypeOK'
      <3>1. query' \in [Queries -> Call]
        BY <1>6 DEF TypeOK, At, Call, PCs
      <3>2. last_used' \in [Conns -> Nat]
        BY <1>6, Zenon DEF TypeOK
      <3>3. open' \in SUBSET Conns /\ eof' \in SUBSET open' /\ wire' \in [Conns -> Seq(Queries)]
        BY <1>6, CloseTypes
      <3> QED
        BY <1>2, <1>3, <1>6, <2>2, <3>1, <3>2, <3>3, ZenonT(60)
         DEF TypeOK, acquire_from_pool, CloseSame
    <2>4. LockInOrder'
      <3>1. closer \notin {"closing", "done"} /\ lock' = <<q>> \o rest
        BY <1>6 DEF ClosedPoolIsEmpty
      <3>2. query'[q].pc \in {"discard", "full"}
        BY <2>1 DEF At
      <3> QED
        BY <1>2, <3>1, <3>2, Keeps, Zenon
    <2>5. ConnOfCall'
      BY <1>2, <2>1 DEF ConnOfCall, Others, At
    <2>6. ClosedPoolIsEmpty'
      BY <1>2, <1>6, <2>2, ForwarderAssumption
         DEF ClosedPoolIsEmpty, CloseSame, TypeOK
    <2> QED
      BY <2>2, <2>3, <2>4, <2>5, <2>6 DEF ConnInv
  <1> QED
    BY <1>4, <1>5, <1>6 DEF acquire_from_pool, Reusable

(* Putting a connection back, or finding the pool full, keeps the invariant. *)
LEMMA PutBackInv ==
    ASSUME IInv, NEW q \in Queries, NEW rest, Turn(q, rest), query[q].pc \in {"read", "release"},
           closer \notin {"closing", "done"}, NEW w, WireAfter(q, w), PutBack(q, w, rest)
    PROVE  IInv' /\ UsersKept
  <1> USE DEF IInv
  <1>1. ConnInv /\ query[q].conn # NoConn /\ query[q].conn \in Conns
    BY DEF ConnInv, ConnOfCall, TypeOK, Call
  <1>2. Others(q) /\ CloseSame
    BY DEF PutBack, Others, CloseSame, EndQuery, TypeOK
  <1>3. rest \in Seq(Queries \cup {Closer}) /\ <<q>> \o rest \in Seq(Queries \cup {Closer})
    BY Handover, Zenon
  <1>4. CASE /\ Room
             /\ pool' = Append(pool, query[q].conn)
             /\ last_used' = [last_used EXCEPT ![query[q].conn] = now]
             /\ wire' = w
             /\ EndQuery(q)
             /\ lock' = rest
             /\ UNCHANGED <<open, eof>>
    <2>1. query'[q] = Idle /\ InflightExact' /\ inflight' \in Nat
      BY <1>4, EndCounts, ZenonT(60) DEF TypeOK, EndQuery
    <2>2. ConnInv' /\ UsersKept /\ pool' \in Seq(Conns)
      BY <1>1, <1>2, <1>4, <2>1, Returns DEF Idle, At
    <2>3. TypeOK'
      BY <1>1, <1>2, <1>3, <1>4, <2>1, <2>2
         DEF TypeOK, PutBack, CloseSame, WireAfter, EndQuery, Idle, At, Call, PCs
    <2>4. LockInOrder'
      BY <1>2, <1>4, <2>1, GivesUp DEF LockPCs, Idle, At
    <2>5. ConnOfCall'
      BY <1>2, <2>1 DEF ConnOfCall, Others, Idle, At
    <2>6. ClosedPoolIsEmpty'
      BY <1>2, <1>4, <2>2, ForwarderAssumption
         DEF ClosedPoolIsEmpty, CloseSame, TypeOK, Room
    <2> QED
      BY <2>1, <2>2, <2>3, <2>4, <2>5, <2>6 DEF ConnInv
  <1>5. CASE /\ CloseWriter(query[q].conn)
             /\ query' = [query EXCEPT ![q] = At("full", NoConn, 0)]
             /\ lock' = <<q>> \o rest
             /\ UNCHANGED <<inflight, pool, last_used>>
    <2>1. query'[q] = At("full", NoConn, 0)
      BY <1>5 DEF TypeOK
    <2>2. ConnInv' /\ UsersKept
      BY <1>1, <1>2, <1>5, <2>1, ClosesOwn DEF At
    <2>3. TypeOK'
      <3>1. query' \in [Queries -> Call]
        BY <1>5 DEF TypeOK, At, Call, PCs
      <3>2. open' \in SUBSET Conns /\ eof' \in SUBSET open' /\ wire' \in [Conns -> Seq(Queries)]
        BY <1>5, CloseTypes
      <3> QED
        BY <1>2, <1>3, <1>5, <3>1, <3>2 DEF TypeOK, PutBack, CloseSame
    <2>4. LockInOrder'
      BY <1>2, <1>5, <2>1, Keeps DEF At
    <2>5. ConnOfCall'
      BY <1>2, <2>1 DEF ConnOfCall, Others, At
    <2>6. ClosedPoolIsEmpty'
      BY <1>2, <1>5 DEF ClosedPoolIsEmpty, CloseSame
    <2>7. InflightExact'
      BY <1>2, <1>5, <2>1, SameCount DEF Others, At
    <2> QED
      BY <2>2, <2>3, <2>4, <2>5, <2>6, <2>7 DEF ConnInv
  <1> QED
    BY <1>4, <1>5 DEF PutBack

(* q closes its connection without the lock. *)
LEMMA ClosingInv ==
    ASSUME IInv, NEW q \in Queries, query[q].pc = "read", CloseWriter(query[q].conn),
           query' = [query EXCEPT ![q] = At("closing", NoConn, 0)],
           UNCHANGED <<now, closed, stopping, inflight, pool, last_used, lock, closer, to_close>>
    PROVE  IInv' /\ UsersKept
  <1> USE DEF IInv
  <1>1. ConnInv /\ query[q].conn # NoConn /\ query[q].conn \in Conns
    BY DEF ConnInv, ConnOfCall, TypeOK, Call
  <1>2. Others(q) /\ CloseSame /\ query'[q] = At("closing", NoConn, 0)
    BY DEF Others, CloseSame, TypeOK
  <1>3. ConnInv' /\ UsersKept
    BY <1>1, <1>2, ClosesOwn DEF At
  <1>4. TypeOK'
    <2>1. query' \in [Queries -> Call]
      BY DEF TypeOK, At, Call, PCs
    <2>2. open' \in SUBSET Conns /\ eof' \in SUBSET open' /\ wire' \in [Conns -> Seq(Queries)]
      BY CloseTypes
    <2> QED
      BY <2>1, <2>2 DEF TypeOK
  <1>5. LockInOrder'
    BY <1>2, NoTurn DEF Others, At, LockPCs
  <1>6. ConnOfCall'
    BY <1>2 DEF ConnOfCall, Others, At
  <1>7. InflightExact'
    BY <1>2, SameCount DEF Others, At
  <1>8. ClosedPoolIsEmpty'
    BY DEF ClosedPoolIsEmpty
  <1> QED
    BY <1>3, <1>4, <1>5, <1>6, <1>7, <1>8 DEF ConnInv

(* _release_to_pool up to its first suspension keeps the invariant. *)
LEMMA ReleaseInv ==
    ASSUME IInv, NEW q \in Queries, query[q].pc = "read", NEW w, WireAfter(q, w),
           release_to_pool(q, w)
    PROVE  IInv' /\ UsersKept
  <1> USE DEF IInv
  <1>1. CASE /\ CloseWriter(query[q].conn)
             /\ query' = [query EXCEPT ![q] = At("closing", NoConn, 0)]
             /\ UNCHANGED <<now, closed, stopping, inflight, pool, last_used, lock, closer,
                            to_close>>
    BY <1>1, ClosingInv, ZenonT(60)
  <1>2. CASE ~closed /\ lock = <<>> /\ PutBack(q, w, <<>>)
    <2>1. closer \notin {"closing", "done"} /\ Turn(q, <<>>)
      BY <1>2 DEF LockInOrder, Turn
    <2> QED
      BY <1>2, <2>1, PutBackInv
  <1>3. CASE ~closed /\ AwaitRelease(q, w)
    <2>1. ConnInv /\ query[q].conn # NoConn
      BY DEF ConnInv, ConnOfCall
    <2>2. /\ Others(q) /\ CloseSame
          /\ query'[q].pc = "release" /\ query'[q].conn = query[q].conn
      BY <1>3 DEF Others, CloseSame, TypeOK, AwaitRelease, Call
    <2>3. ConnInv' /\ UsersKept
      BY <1>3, <2>1, <2>2, Awaits DEF AwaitRelease
    <2>4. LockInOrder' /\ lock' \in Seq(Queries \cup {Closer})
      BY <1>3, <2>2, QueuesUp DEF AwaitRelease, LockPCs
    <2>5. TypeOK'
      BY <1>3, <2>4, ZenonT(60) DEF TypeOK, AwaitRelease, WireAfter, Call, PCs
    <2>6. ConnOfCall'
      BY <2>1, <2>2 DEF ConnOfCall, Others
    <2>7. InflightExact'
      BY <1>3, <2>2, SameCount DEF Others, AwaitRelease
    <2>8. ClosedPoolIsEmpty'
      BY <1>3 DEF ClosedPoolIsEmpty, AwaitRelease
    <2> QED
      BY <2>3, <2>4, <2>5, <2>6, <2>7, <2>8 DEF ConnInv
  <1> QED
    BY <1>1, <1>2, <1>3 DEF release_to_pool

(* q, without a connection, ends: its place in the queue is dealt with. *)
LEMMA EndInv ==
    ASSUME IInv, NEW q \in Queries, query[q].pc # "idle", EndQuery(q), LockInOrder',
           lock' \in Seq(Queries \cup {Closer}), pool' = pool, last_used' = last_used,
           UNCHANGED connVars, now' = now, CloseSame, query[q].conn = NoConn
    PROVE  IInv' /\ UsersKept
  <1> USE DEF IInv
  <1>1. Others(q) /\ query'[q] = Idle /\ InflightExact' /\ inflight' \in Nat /\ ConnInv
    BY EndCounts, Zenon DEF TypeOK, EndQuery, Others, ConnInv
  <1>2. query[q].pc # "read"
    BY DEF ConnOfCall
  <1>3. ConnInv' /\ UsersKept
    BY <1>1, <1>2, ConnsSame DEF Others, CloseSame, Idle, At, connVars
  <1>4. TypeOK'
    BY <1>1 DEF TypeOK, CloseSame, EndQuery, Idle, At, Call, PCs, connVars
  <1>5. ConnOfCall'
    BY <1>1 DEF ConnOfCall, Others, Idle, At
  <1>6. ClosedPoolIsEmpty'
    BY DEF ClosedPoolIsEmpty, CloseSame
  <1> QED
    BY <1>1, <1>3, <1>4, <1>5, <1>6 DEF ConnInv

(* While the process stops, q is cancelled and forgets its connection. *)
LEMMA ForgetInv ==
    ASSUME IInv, NEW q \in Queries, stopping, query[q].pc = "release", EndQuery(q), LockInOrder',
           lock' \in Seq(Queries \cup {Closer}), pool' = pool, last_used' = last_used,
           UNCHANGED connVars, now' = now, CloseSame, query[q].conn # NoConn
    PROVE  IInv' /\ UsersKept
  <1> USE DEF IInv
  <1>1. Others(q) /\ query'[q] = Idle /\ InflightExact' /\ inflight' \in Nat
    BY EndCounts, ZenonT(60) DEF TypeOK, EndQuery, Others
  <1>2. Held' = Held \ {query[q].conn}
    BY <1>1, HeldLose DEF Idle, At
  <1>3. OneUser'
    <2>1. \A p, r \in Queries :
            query'[p].conn = query'[r].conn /\ p # r => query'[p].conn = NoConn
      BY <1>1 DEF OneUser, Others, Idle, At
    <2> QED
      BY <2>1, <1>2 DEF OneUser, CloseSame, connVars
  <1>4. TypeOK'
    BY <1>1 DEF TypeOK, CloseSame, EndQuery, Idle, At, Call, PCs, connVars
  <1>5. ConnOfCall'
    BY <1>1 DEF ConnOfCall, Others, Idle, At
  <1>6. ClosedPoolIsEmpty' /\ stopping' /\ NoLeakedConnection'
    BY DEF ClosedPoolIsEmpty, CloseSame, NoLeakedConnection
  <1>7. UsersKept
    BY <1>1, <1>2 DEF UsersKept, Users, ForgottenByCancel, CloseSame
  <1> QED
    BY <1>1, <1>3, <1>4, <1>5, <1>6, <1>7

(* Every step of a call of query keeps the invariant. *)
LEMMA QueryInv ==
    ASSUME IInv, NEW q \in Queries, query_start(q) \/ Step(q) \/ query_cancelled(q)
    PROVE  IInv' /\ UsersKept
  <1> USE DEF IInv
  <1>1. CASE query_start(q)
    <2>1. CASE lock = <<>> /\ acquire_from_pool(q, now, <<>>)
      <3>1. query'[q].pc # "idle" /\ Others(q)
        BY <2>1 DEF acquire_from_pool, TypeOK, Send, At, Others
      <3>2. InflightExact' /\ inflight' \in Nat
        BY <1>1, <3>1, StartCounts DEF query_start, Others
      <3>3. Turn(q, <<>>) /\ query[q].pc = "idle" /\ now \in Nat
        BY <1>1, <2>1 DEF Turn, query_start, TypeOK
      <3> QED
        BY <2>1, <3>2, <3>3, AcquireInv, ZenonT(60)
    <2>2. CASE /\ lock # <<>>
               /\ lock' = Append(lock, q)
               /\ query' = [query EXCEPT ![q] = At("acquire", NoConn, now)]
               /\ UNCHANGED <<now, closed, stopping, pool, last_used, connVars, closer, to_close>>
      <3>1. /\ query'[q] = At("acquire", NoConn, now) /\ Others(q) /\ CloseSame
            /\ query[q].pc = "idle" /\ ~closed /\ ConnInv
        BY <1>1, <2>2 DEF TypeOK, Others, CloseSame, query_start, ConnInv
      <3>2. InflightExact' /\ inflight' \in Nat
        BY <1>1, <3>1, StartCounts DEF query_start, Others, At
      <3>3. LockInOrder' /\ lock' \in Seq(Queries \cup {Closer})
        BY <2>2, <3>1, QueuesUp DEF At, LockPCs
      <3>4. ConnInv' /\ UsersKept
        BY <2>2, <3>1, ConnsSame DEF Others, At, ConnOfCall, connVars
      <3>5. query' \in [Queries -> Call]
        BY <2>2 DEF TypeOK, At, Call, PCs
      <3>6. TypeOK'
        BY <2>2, <3>2, <3>3, <3>5 DEF TypeOK, connVars
      <3>7. ConnOfCall'
        BY <3>1 DEF ConnOfCall, Others, At
      <3>8. ClosedPoolIsEmpty'
        BY <2>2 DEF ClosedPoolIsEmpty
      <3> QED
        BY <3>2, <3>3, <3>4, <3>6, <3>7, <3>8 DEF ConnInv
    <2> QED
      BY <1>1, <2>1, <2>2 DEF query_start
  <1>2. CASE query_acquire(q)
    <2>1. query[q].at \in Nat /\ query[q].pc \in {"acquire", "discard"}
      BY <1>2 DEF query_acquire, TypeOK, Call
    <2>2. Turn(q, Tail(lock))
      <3>1. q \in Range(lock)
        BY <2>1 DEF LockInOrder
      <3> QED
        BY <1>2, <3>1, EmptyProps DEF query_acquire, Turn
    <2>3. \A p \in Queries : query'[p].pc = "idle" <=> query[p].pc = "idle"
      <3>1. PICK t, rest : acquire_from_pool(q, t, rest)
        BY <1>2 DEF query_acquire
      <3>2. query'[q].pc # "idle" /\ Others(q)
        BY <3>1 DEF acquire_from_pool, TypeOK, Send, At, Others
      <3> QED
        BY <2>1, <3>2 DEF Others
    <2>4. InflightExact' /\ inflight' \in Nat
      BY <1>2, <2>3, SameCount DEF query_acquire
    <2> QED
      BY <1>2, <2>1, <2>2, <2>4, AcquireInv DEF query_acquire
  <1>3. CASE query_connected(q)
    <2>1. PICK c \in Conns \ open : open' = open \cup {c} /\ Send(q, c)
      BY <1>3 DEF query_connected
    <2>2. /\ query'[q] = At("read", c, 0) /\ Others(q) /\ CloseSame
          /\ query[q].pc = "connect" /\ query[q].conn = NoConn /\ ConnInv
      BY <1>3, <2>1, ZenonT(60)
       DEF TypeOK, Others, CloseSame, query_connected, ConnInv, Send, ConnOfCall
    <2>3. ConnInv' /\ UsersKept
      BY <1>3, <2>1, <2>2, Connects, ZenonT(60) DEF query_connected
    <2>4. LockInOrder'
      BY <1>3, <2>2, NoTurn DEF Others, At, LockPCs, query_connected
    <2>5. TypeOK'
      <3>1. wire' \in [Conns -> Seq(Queries)]
        BY <2>1, AppendSeq DEF TypeOK, Send
      <3>2. query' \in [Queries -> Call]
        BY <2>1 DEF TypeOK, Send, At, Call, PCs
      <3> QED
        BY <1>3, <2>1, <3>1, <3>2 DEF TypeOK, query_connected
    <2>6. ConnOfCall'
      BY <2>2, ForwarderAssumption DEF ConnOfCall, Others, At
    <2>7. InflightExact'
      BY <1>3, <2>2, SameCount DEF Others, At, query_connected
    <2>8. ClosedPoolIsEmpty'
      BY <1>3 DEF ClosedPoolIsEmpty, query_connected
    <2> QED
      BY <2>3, <2>4, <2>5, <2>6, <2>7, <2>8 DEF ConnInv
  <1>4. CASE query_connect_failed(q)
    <2>1. /\ query'[q] = Idle /\ Others(q) /\ CloseSame
          /\ query[q].pc = "connect" /\ query[q].conn = NoConn
      BY <1>4, ZenonT(60)
       DEF TypeOK, Others, CloseSame, query_connect_failed, ConnOfCall, EndQuery
    <2>2. LockInOrder'
      BY <1>4, <2>1, NoTurn DEF Others, At, Idle, LockPCs, query_connect_failed
    <2> QED
      BY <1>4, <2>1, <2>2, EndInv, ZenonT(60) DEF query_connect_failed, TypeOK
  <1>5. CASE query_answered(q)
    <2> DEFINE w == [wire EXCEPT ![query[q].conn] = Tail(@)]
    <2>1. query[q].pc = "read" /\ query[q].conn \in Conns /\ release_to_pool(q, w)
      BY <1>5 DEF query_answered, TypeOK, Call, ConnOfCall
    <2>2. query[q].at = 0
      BY <2>1 DEF ConnOfCall
    <2>3. WireAfter(q, w)
      <3>1. w \in [Conns -> Seq(Queries)]
        <4>1. Tail(wire[query[q].conn]) \in Seq(Queries)
          BY <1>5, <2>1 DEF TypeOK, query_answered
        <4> QED
          BY <4>1, ZenonT(60) DEF TypeOK
      <3>2. ASSUME ~stopping PROVE wire[query[q].conn] = <<q>>
        BY <1>5, <2>1, <3>2 DEF Owed, AtEof, query_answered
      <3>3. ASSUME ~stopping
            PROVE  \A c \in Conns : w[c] = IF c = query[q].conn THEN <<>> ELSE wire[c]
        <4>1. Tail(wire[query[q].conn]) = <<>>
          BY <3>2, <3>3, TailSingle, Zenon
        <4> QED
          BY <2>1, <4>1, ZenonT(60) DEF TypeOK
      <3> HIDE DEF w
      <3> QED
        BY <3>1, <3>3 DEF WireAfter
    <2> QED
      BY <2>1, <2>3, ReleaseInv
  <1>6. CASE query_read_failed(q)
    BY <1>6, ClosingInv, ZenonT(60) DEF query_read_failed
  <1>7. CASE query_release(q)
    <2>1. query[q].pc = "release" /\ q \in Range(lock) /\ lock # <<>>
      BY <1>7, EmptyProps DEF query_release, LockInOrder
    <2>2. Turn(q, Tail(lock)) /\ closer \notin {"closing", "done"}
      BY <1>7, <2>1 DEF query_release, Turn, LockInOrder
    <2>3. WireAfter(q, wire)
      <3>1. query[q].conn \in Conns
        BY <2>1 DEF TypeOK, Call, ConnOfCall
      <3>2. \A p \in Queries : ~(query[p].pc = "read" /\ query[p].conn = query[q].conn)
        BY <2>1, <3>1, ForwarderAssumption DEF OneUser
      <3>3. stopping \/ wire[query[q].conn] = <<>>
        BY <3>1, <3>2 DEF Owed
      <3> QED
        BY <3>3 DEF WireAfter, TypeOK
    <2> QED
      BY <1>7, <2>1, <2>2, <2>3, PutBackInv DEF query_release
  <1>8. CASE query_closed(q)
    <2>1. /\ query'[q] = Idle /\ Others(q) /\ CloseSame
          /\ query[q].pc \in {"closing", "full"} /\ query[q].conn = NoConn
      BY <1>8, ZenonT(60) DEF TypeOK, Others, CloseSame, query_closed, ConnOfCall, EndQuery
    <2>2. LockInOrder' /\ lock' \in Seq(Queries \cup {Closer})
      <3>1. CASE query[q].pc = "closing" /\ lock' = lock
        <4>1. \A p \in Queries : \/ query'[p].pc = query[p].pc
                                 \/ query[p].pc \notin LockPCs /\ query'[p].pc \notin LockPCs
          BY <3>1, <2>1 DEF Others, At, Idle, LockPCs
        <4> QED
          BY <3>1, <2>1, <4>1, NoTurn DEF TypeOK
      <3>2. CASE query[q].pc = "full" /\ lock' = Tail(lock)
        <4>1. Turn(q, Tail(lock))
          BY <3>2, EmptyProps DEF Turn, LockInOrder
        <4>2. query'[q].pc \notin LockPCs
          BY <2>1 DEF Idle, At, LockPCs
        <4> QED
          BY <3>2, <4>1, <4>2, <2>1, GivesUp, Handover, ZenonT(60)
      <3> QED
        BY <1>8, <3>1, <3>2 DEF query_closed
    <2> QED
      BY <1>8, <2>1, <2>2, EndInv, ZenonT(60) DEF query_closed
  <1>9. CASE query_cancelled(q)
    <2>1. CASE /\ query[q].pc \in {"connect", "closing"}
               /\ EndQuery(q)
               /\ UNCHANGED <<now, closed, stopping, pool, last_used, lock, connVars, closer,
                              to_close>>
      <3>1. query'[q] = Idle /\ Others(q) /\ CloseSame /\ query[q].conn = NoConn
        BY <2>1, ZenonT(60) DEF TypeOK, Others, CloseSame, ConnOfCall, EndQuery
      <3>2. LockInOrder'
        BY <2>1, <3>1, NoTurn DEF Others, At, Idle, LockPCs
      <3> QED
        BY <2>1, <3>1, <3>2, EndInv, ZenonT(60) DEF TypeOK
    <2>2. CASE /\ query[q].pc \in {"acquire", "discard", "release", "full"}
               /\ EndQuery(q)
               /\ \E i \in 1 .. Len(lock) : lock[i] = q /\ lock' = RemoveAt(lock, i)
               /\ UNCHANGED <<now, closed, stopping, pool, last_used, connVars, closer, to_close>>
      <3>1. query'[q] = Idle /\ Others(q) /\ CloseSame
        BY <2>2 DEF TypeOK, Others, CloseSame, EndQuery
      <3>2. PICK i \in 1 .. Len(lock) : lock[i] = q /\ lock' = RemoveAt(lock, i)
        BY <2>2
      <3>3. query'[q].pc \notin LockPCs
        BY <3>1 DEF Idle, At, LockPCs
      <3>4. LockInOrder' /\ lock' \in Seq(Queries \cup {Closer})
        BY <3>1, <3>2, <3>3, Leaves, ZenonT(60)
      <3>5. CASE query[q].conn = NoConn
        BY <2>2, <3>1, <3>4, <3>5, EndInv, ZenonT(60)
      <3>6. CASE query[q].conn # NoConn
        <4>1. query[q].pc = "release" /\ stopping
          BY <1>9, <2>2, <3>6 DEF query_cancelled, ConnOfCall
        <4> QED
          BY <2>2, <3>1, <3>4, <3>6, <4>1, ForgetInv, ZenonT(60)
      <3> QED
        BY <3>5, <3>6
    <2>3. CASE query[q].pc = "read" /\ release_to_pool(q, wire)
      <3>1. WireAfter(q, wire)
        BY <1>9 DEF WireAfter, TypeOK, query_cancelled
      <3> QED
        BY <2>3, <3>1, ReleaseInv, ZenonT(60)
    <2> QED
      BY <1>9, <2>1, <2>2, <2>3, ZenonT(60) DEF query_cancelled
  <1> QED
    BY <1>1, <1>2, <1>3, <1>4, <1>5, <1>6, <1>7, <1>8, <1>9 DEF Step

-----------------------------------------------------------------------------
(* The stop signal, the clock and the upstream keep the invariant. *)
LEMMA StopInv ==
    ASSUME IInv, stop_signal \/ tick \/ \E c \in Conns : upstream_closes(c)
    PROVE  IInv' /\ UsersKept
  <1> USE DEF IInv
  <1>1. /\ UNCHANGED <<closed, inflight, pool, last_used, lock, open, query, closer, to_close>>
        /\ stopping => stopping'
        /\ stopping' \in BOOLEAN
        /\ now' \in Nat
        /\ eof' \in SUBSET open
    <2>1. CASE stop_signal
      BY <2>1, ZenonT(60) DEF stop_signal, connVars, TypeOK
    <2>2. CASE tick
      <3>1. now' \in Nat
        BY <2>2 DEF tick, TypeOK
      <3> QED
        BY <2>2, <3>1, ZenonT(60) DEF tick, connVars, TypeOK
    <2>3. ASSUME NEW c \in Conns, upstream_closes(c)
          PROVE  /\ UNCHANGED <<now, closed, stopping, inflight, pool, last_used, lock, open,
                                query, closer, to_close>>
                 /\ eof' = eof \cup {c} /\ c \in open
      BY <2>3 DEF upstream_closes
    <2>4. CASE \E c \in Conns : upstream_closes(c)
      BY <2>3, <2>4 DEF TypeOK
    <2> QED
      BY <2>1, <2>2, <2>4
  <1>2. /\ wire' \in [Conns -> Seq(Queries)]
        /\ Owed => Owed'
    <2>1. CASE UNCHANGED <<eof, wire>>
      BY <1>1, <2>1 DEF TypeOK, Owed, AtEof
    <2>2. ASSUME NEW c \in Conns, eof' = eof \cup {c}, NEW n \in 0 .. Len(wire[c]),
                 wire' = [wire EXCEPT ![c] = SubSeq(@, 1, n)]
          PROVE  wire' \in [Conns -> Seq(Queries)] /\ (Owed => Owed')
      <3>1. /\ wire[c] \in Seq(Queries)
            /\ SubSeq(wire[c], 1, n) \in Seq(Queries)
            /\ \A d \in Conns : wire'[d] = IF d = c THEN SubSeq(wire[c], 1, n) ELSE wire[d]
        BY <2>2, PrefixSeq DEF TypeOK
      <3>2. wire' \in [Conns -> Seq(Queries)]
        BY <2>2, <3>1 DEF TypeOK
      <3>3. ASSUME NEW q \in Queries, wire[c] = <<q>>
            PROVE  SubSeq(wire[c], 1, n) \in {<<>>, <<q>>}
        BY <2>2, <3>3, PrefixSingle
      <3>4. wire[c] = <<>> => SubSeq(wire[c], 1, n) = <<>>
        BY <2>2
      <3>5. ASSUME Owed PROVE Owed'
        BY <1>1, <2>2, <3>1, <3>3, <3>4, <3>5 DEF Owed, AtEof
      <3> QED
        BY <3>2, <3>5
    <2> QED
      BY <2>1, <2>2 DEF stop_signal, tick, upstream_closes, connVars
  <1>3. TypeOK'
    BY <1>1, <1>2, ZenonT(60) DEF TypeOK
  <1>4. LockInOrder'
    BY <1>1, ZenonT(60) DEF LockInOrder
  <1>5. ConnOfCall' /\ ClosedPoolIsEmpty'
    BY <1>1, ZenonT(60) DEF ConnOfCall, ClosedPoolIsEmpty
  <1>6. InflightExact'
    BY <1>1, SameCount
  <1>7. Held' = Held
    BY <1>1, HeldSame
  <1>8. OneUser' /\ NoLeakedConnection' /\ UsersKept
    BY <1>1, <1>7 DEF OneUser, NoLeakedConnection, UsersKept, Users
  <1> QED
    BY <1>1, <1>2, <1>3, <1>4, <1>5, <1>6, <1>8

(* close takes the pool over, with the lock free or with nobody behind it. *)
LEMMA TakePoolInv ==
    ASSUME IInv, stopping, closer \in {"idle", "lock"}, TakePool(<<>>), closed',
           Range(lock) \cap Queries = {},
           UNCHANGED <<now, stopping, inflight, connVars, query>>
    PROVE  IInv' /\ UsersKept
  <1> USE DEF IInv
  <1>1. to_close = <<>> /\ lock' = <<>> /\ pool' = <<>> /\ to_close' = pool /\ closer' = "closing"
    BY DEF LockInOrder, TakePool
  <1>2. TypeOK'
    BY <1>1, EmptyProps DEF TypeOK, TakePool, connVars
  <1>3. LockInOrder'
    <2>1. \A q \in Queries : query[q].pc \notin {"acquire", "discard", "release", "full"}
      BY DEF LockInOrder
    <2> QED
      BY <1>1, <2>1, EmptyProps DEF LockInOrder
  <1>4. ConnOfCall' /\ ClosedPoolIsEmpty'
    BY <1>1, ForwarderAssumption DEF ConnOfCall, ClosedPoolIsEmpty
  <1>5. InflightExact'
    BY SameCount
  <1>6. Held' = Held
    BY HeldSame
  <1>7. OneUser' /\ NoLeakedConnection' /\ UsersKept
    BY <1>1, <1>6, EmptyProps DEF OneUser, NoLeakedConnection, connVars, UsersKept, Users
  <1> QED
    BY <1>2, <1>3, <1>4, <1>5, <1>7

(* Every step of close keeps the invariant. *)
LEMMA CloseInv ==
    ASSUME IInv, close_call \/ close_acquire \/ close_next
    PROVE  IInv' /\ UsersKept
  <1> USE DEF IInv
  <1>1. CASE close_call
    <2>1. CASE lock = <<>> /\ TakePool(<<>>)
      BY <1>1, <2>1, TakePoolInv, EmptyProps DEF close_call
    <2>2. CASE /\ lock # <<>>
               /\ lock' = Append(lock, Closer)
               /\ closer' = "lock"
               /\ UNCHANGED <<pool, last_used, to_close>>
      <3>1. Closer \notin Range(lock) /\ closer = "idle"
        BY <1>1, ZenonT(60) DEF close_call, LockInOrder
      <3>2. /\ lock' \in Seq(Queries \cup {Closer})
            /\ IsInjective(lock')
            /\ Range(lock') = Range(lock) \cup {Closer}
            /\ Last(lock') = Closer
            /\ Head(lock') = Head(lock)
        BY <2>2, <3>1, AppendProps DEF TypeOK, LockInOrder
      <3>3. TypeOK'
        BY <1>1, <2>2, <3>2 DEF TypeOK, close_call, connVars
      <3>4. LockInOrder'
        <4>1. \A q \in Queries : q # Closer
          BY ForwarderAssumption
        <4> QED
          BY <1>1, <2>2, <3>1, <3>2, <4>1 DEF LockInOrder, close_call
      <3>5. ConnOfCall' /\ ClosedPoolIsEmpty'
        BY <1>1, <2>2, ZenonT(60) DEF ConnOfCall, ClosedPoolIsEmpty, close_call
      <3>6. InflightExact'
        BY <1>1, SameCount, ZenonT(60) DEF close_call
      <3>7. Held' = Held
        BY <1>1, HeldSame DEF close_call
      <3>8. OneUser' /\ NoLeakedConnection' /\ stopping' /\ UsersKept
        BY <1>1, <2>2, <3>7
         DEF OneUser, NoLeakedConnection, close_call, connVars, UsersKept, Users
      <3> QED
        BY <3>3, <3>4, <3>5, <3>6, <3>8
    <2> QED
      BY <1>1, <2>1, <2>2 DEF close_call
  <1>2. CASE close_acquire
    <2>1. closer = "lock" /\ Closer \in Range(lock) /\ Last(lock) = Closer /\ lock # <<>>
      BY <1>2, EmptyProps, ZenonT(60) DEF close_acquire, LockInOrder
    <2>2. Tail(lock) = <<>> /\ Range(Tail(lock)) = Range(lock) \ {Closer}
      BY <1>2, <2>1, TailProps, ZenonT(60) DEF close_acquire, TypeOK, LockInOrder
    <2>3. Range(lock) \cap Queries = {}
      BY <2>2, EmptyProps, ForwarderAssumption, ZenonT(60)
    <2>4. TakePool(<<>>)
      BY <1>2, <2>2, ZenonT(60) DEF close_acquire
    <2> QED
      BY <1>2, <2>1, <2>3, <2>4, TakePoolInv, ZenonT(60) DEF close_acquire, LockInOrder
  <1>3. CASE close_next
    <2>1. stopping /\ stopping' /\ closer' \in {"closing", "done"} /\ closed
      BY <1>3 DEF close_next, LockInOrder
    <2>2. ConnOfCall' /\ ClosedPoolIsEmpty' /\ LockInOrder'
      BY <1>3, <2>1
       DEF ConnOfCall, ClosedPoolIsEmpty, LockInOrder, close_next
    <2>3. InflightExact'
      BY <1>3, SameCount DEF close_next
    <2>4. Held' = Held
      BY <1>3, HeldSame DEF close_next
    <2>5. TypeOK' /\ OneUser' /\ UsersKept
      <3>1. CASE to_close = <<>> /\ UNCHANGED <<connVars, to_close>>
        BY <1>3, <2>1, <2>4, <3>1 DEF TypeOK, OneUser, close_next, connVars, UsersKept, Users
      <3>2. CASE /\ to_close # <<>>
                 /\ CloseWriter(Head(to_close))
                 /\ to_close' = Tail(to_close)
        <4>1. /\ to_close' \in Seq(Conns)
              /\ IsInjective(to_close')
              /\ Range(to_close') = Range(to_close) \ {Head(to_close)}
          BY <3>2, TailProps, ZenonT(60) DEF TypeOK, OneUser
        <4>2. Head(to_close) \in Range(to_close)
          BY <3>2, SetProps DEF TypeOK
        <4>3. /\ open' \in SUBSET Conns
              /\ eof' \in SUBSET open'
              /\ wire' \in [Conns -> Seq(Queries)]
          BY <3>2, CloseTypes
        <4>4. TypeOK'
          BY <1>3, <2>1, <4>1, <4>3 DEF TypeOK, close_next
        <4>5. OneUser'
          BY <1>3, <2>4, <3>2, <4>1, <4>2 DEF OneUser, close_next, CloseWriter
        <4>6. UsersKept
          BY <1>3, <2>4, <3>2, <4>1 DEF UsersKept, Users, close_next, CloseWriter
        <4> QED
          BY <4>4, <4>5, <4>6
      <3> QED
        BY <1>3, <3>1, <3>2 DEF close_next
    <2> QED
      BY <2>1, <2>2, <2>3, <2>5 DEF NoLeakedConnection
  <1> QED
    BY <1>1, <1>2, <1>3

(* The invariant holds of a new forwarder. *)
LEMMA InitInv ==
    ASSUME Init
    PROVE  IInv
  <1>1. TypeOK
    BY EmptyProps, ForwarderAssumption, ZenonT(60) DEF Init, TypeOK, Idle, At, Call, PCs
  <1>2. LockInOrder /\ ConnOfCall /\ Owed
    BY EmptyProps DEF Init, LockInOrder, ConnOfCall, Owed, Idle, At, AtEof
  <1>3. ClosedPoolIsEmpty
    BY DEF Init, ClosedPoolIsEmpty
  <1>4. Held = {}
    BY DEF Init, Held, Idle, At
  <1>5. OneUser /\ NoLeakedConnection
    BY <1>4, EmptyProps DEF Init, OneUser, NoLeakedConnection, Idle, At
  <1>6. InflightExact
    <2>1. {q \in Queries : query[q].pc # "idle"} = {}
      BY DEF Init, Idle, At
    <2>2. Cardinality({q \in Queries : query[q].pc # "idle"}) = 0
      BY <2>1, FS_EmptySet, ZenonT(60)
    <2> QED
      BY <2>2, ForwarderAssumption DEF InflightExact, Init
  <1> QED
    BY <1>1, <1>2, <1>3, <1>5, <1>6 DEF IInv

(* Every step of the forwarder keeps the invariant. *)
LEMMA StepInv ==
    ASSUME IInv, [Next]_vars
    PROVE  IInv' /\ [UsersKept]_vars
  <1>1. CASE UNCHANGED vars
    <2>1. CloseSame /\ ConnInv
      BY <1>1 DEF vars, CloseSame, IInv, ConnInv
    <2>2. ConnInv'
      BY <1>1, <2>1, ConnsSame, ZenonT(60) DEF vars, connVars, CloseSame
    <2>3. InflightExact'
      BY <1>1, SameCount DEF vars, IInv
    <2>4. TypeOK' /\ LockInOrder' /\ ConnOfCall' /\ ClosedPoolIsEmpty'
      BY <1>1 DEF vars, connVars, IInv, TypeOK, LockInOrder, ConnOfCall,
                  ClosedPoolIsEmpty
    <2> QED
      BY <1>1, <2>2, <2>3, <2>4 DEF IInv, ConnInv
  <1>2. CASE Next
    <2>1. IInv' /\ UsersKept
      BY <1>2, QueryInv, CloseInv, StopInv DEF Next
    <2> QED
      BY <2>1
  <1> QED
    BY <1>1, <1>2

(* The inductive invariant holds throughout. *)
THEOREM Invariant == Spec => []IInv
  BY InitInv, StepInv, PTL DEF Spec

-----------------------------------------------------------------------------
(* The forwarder's variables keep their types. *)
THEOREM TypeCorrect == Spec => []TypeOK
  <1>1. IInv => TypeOK
    BY DEF IInv
  <1> QED
    BY Invariant, <1>1, PTL

(* _inflight counts the calls under way and stays within max_inflight, for   *)
(* every interleaving of starts, failures, cancellations and close.          *)
THEOREM CountsExactly == Spec => []InflightExact
  <1>1. IInv => InflightExact
    BY DEF IInv
  <1> QED
    BY Invariant, <1>1, PTL

(* A connection is never pooled twice, shared by two calls, or used by a     *)
(* call after it was pooled or closed.                                      *)
THEOREM ConnectionsHaveOneUser == Spec => []OneUser
  <1>1. IInv => OneUser
    BY DEF IInv
  <1> QED
    BY Invariant, <1>1, PTL

(* In every interleaving, a connection that stays open without a user was    *)
(* forgotten by a call that was cancelled while it awaited the lock to put   *)
(* it back: nothing else forgets a connection, close included.               *)
THEOREM NothingElseForgets == Spec => OnlyCancelForgets
  <1>1. IInv /\ [Next]_vars => [UsersKept]_vars
    BY StepInv
  <1> QED
    BY Invariant, <1>1, PTL DEF Spec, OnlyCancelForgets

(* Until callers are cancelled, every open connection has an owner. *)
THEOREM NothingLeaks == Spec => []NoLeakedConnection
  <1>1. IInv => NoLeakedConnection
    BY DEF IInv
  <1> QED
    BY Invariant, <1>1, PTL

(* Until callers are cancelled, a connection carries at most one query, that *)
(* of the call that reads it.                                                *)
THEOREM NoPipeliningUntilStop == Spec => []OneInFlightUntilStop
  <1>1. IInv => OneInFlightUntilStop
    <2> SUFFICES ASSUME IInv, ~stopping, NEW c \in Conns, wire[c] # <<>>
                 PROVE  \E q \in Queries : wire[c] = <<q>> /\ query[q] = At("read", c, 0)
      BY DEF OneInFlightUntilStop, OneInFlight
    <2>1. PICK q \in Queries : query[q].pc = "read" /\ query[q].conn = c
      BY DEF IInv, Owed
    <2>2. wire[c] = <<q>> /\ query[q].at = 0
      BY <2>1 DEF IInv, Owed, ConnOfCall, AtEof
    <2>3. query[q] = At("read", c, 0)
      BY <2>1, <2>2 DEF IInv, TypeOK, Call, At
    <2> QED
      BY <2>2, <2>3
  <1> QED
    BY Invariant, <1>1, PTL

(* Once close has emptied the pool, it stays empty. *)
THEOREM CloseIsFinal == Spec => []ClosedPoolIsEmpty
  <1>1. IInv => ClosedPoolIsEmpty
    BY DEF IInv
  <1> QED
    BY Invariant, <1>1, PTL

(* No end of a call leaves the lock behind.  Whoever holds _pool_lock, a     *)
(* cancelled call's successor included, is a call that is still there to go  *)
(* on and release it, and whoever awaits the lock is in its queue: the calls *)
(* cannot wait for each other in a circle.                                   *)
Holder(x) ==
    \/ x \in Queries /\ query[x].pc \in {"acquire", "discard", "release", "full"}
    \/ x = Closer /\ closer = "lock"
LockGoesOn ==
    /\ lock # <<>> => Holder(Head(lock))
    /\ \A q \in Queries : query[q].pc \in {"acquire", "release"} => q \in Range(lock)
    /\ closer = "lock" => Closer \in Range(lock)

(* The lock of the pool is never lost, and nobody awaits it outside of its   *)
(* queue, however calls fail, time out or are cancelled while they hold it.  *)
THEOREM LockIsNeverLost == Spec => []LockGoesOn
  <1>1. IInv => LockGoesOn
    <2> SUFFICES ASSUME IInv PROVE LockGoesOn
      OBVIOUS
    <2>1. ASSUME lock # <<>> PROVE Holder(Head(lock))
      <3>1. lock \in Seq(Queries \cup {Closer})
        BY DEF IInv, TypeOK
      <3>2. Head(lock) \in Range(lock) /\ Head(lock) \in Queries \cup {Closer}
        BY <2>1, <3>1 DEF Range
      <3> QED
        BY <3>2 DEF IInv, LockInOrder, Holder
    <2> QED
      BY <2>1 DEF IInv, LockInOrder, LockGoesOn
  <1> QED
    BY Invariant, <1>1, PTL
=============================================================================
