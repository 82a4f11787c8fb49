------------------------- MODULE TcpForwarderLemmas -------------------------
(***************************************************************************)
(* What the proofs about the TCP forwarder rest on: sequences without       *)
(* duplicates, the count of the calls under way, the queue for the lock and *)
(* who has which connection.                                                *)
(***************************************************************************)
EXTENDS TcpUpstreamForwarder, FiniteSetTheorems, TLAPS

(* The time limits of the provers, in seconds. *)
USE ZenonT(5), SMTT(60)

-----------------------------------------------------------------------------
(* Facts about sequences without duplicates. *)
LEMMA EmptyProps ==
    /\ IsInjective(<<>>)
    /\ Range(<<>>) = {}
    /\ \A S : <<>> \in Seq(S)
  BY DEF IsInjective, Range

(* A sequence of one element. *)
LEMMA SingleProps ==
    ASSUME NEW S, NEW e \in S
    PROVE  /\ <<e>> \in Seq(S)
           /\ IsInjective(<<e>>)
           /\ Range(<<e>>) = {e}
           /\ Head(<<e>>) = e
           /\ Last(<<e>>) = e
           /\ <<e>> # <<>>
  BY DEF IsInjective, Range, Last

(* The ends of a sequence are among its elements. *)
LEMMA SetProps ==
    ASSUME NEW S, NEW s \in Seq(S), s # <<>>
    PROVE  /\ Head(s) \in Range(s)
           /\ Last(s) \in Range(s)
           /\ Range(s) \subseteq S
  BY DEF Range, Last

(* Appending an element of the set gives a sequence over the set. *)
LEMMA AppendSeq ==
    ASSUME NEW S, NEW s \in Seq(S), NEW e \in S
    PROVE  Append(s, e) \in Seq(S)
  OBVIOUS

(* The length and the elements of a concatenation. *)
LEMMA ConcatSeq ==
    ASSUME NEW S, NEW s \in Seq(S), NEW t \in Seq(S)
    PROVE  /\ s \o t \in Seq(S)
           /\ Len(s \o t) = Len(s) + Len(t)
           /\ \A i \in 1 .. Len(s) + Len(t) :
                 (s \o t)[i] = IF i <= Len(s) THEN s[i] ELSE t[i - Len(s)]
  OBVIOUS

(* Appending a new element keeps a sequence free of duplicates. *)
LEMMA AppendProps ==
    ASSUME NEW S, NEW s \in Seq(S), NEW e \in S, IsInjective(s), e \notin Range(s)
    PROVE  /\ Append(s, e) \in Seq(S)
           /\ IsInjective(Append(s, e))
           /\ Range(Append(s, e)) = Range(s) \cup {e}
           /\ Append(s, e) # <<>>
           /\ Last(Append(s, e)) = e
           /\ s # <<>> => Head(Append(s, e)) = Head(s)
           /\ Len(Append(s, e)) = Len(s) + 1
  <1>1. /\ DOMAIN Append(s, e) = 1 .. Len(s) + 1
        /\ DOMAIN s = 1 .. Len(s)
        /\ Len(s) \in Nat
        /\ \A i \in 1 .. Len(s) : Append(s, e)[i] = s[i]
        /\ Append(s, e)[Len(s) + 1] = e
        /\ Len(Append(s, e)) = Len(s) + 1
    OBVIOUS
  <1>2. IsInjective(Append(s, e))
    BY <1>1 DEF IsInjective, Range
  <1>3. Range(Append(s, e)) = Range(s) \cup {e}
    BY <1>1 DEF Range
  <1> QED
    BY <1>1, <1>2, <1>3 DEF Last

(* Without its last element, a sequence has no duplicates either. *)
LEMMA FrontProps ==
    ASSUME NEW S, NEW s \in Seq(S), s # <<>>, IsInjective(s)
    PROVE  /\ Front(s) \in Seq(S)
           /\ IsInjective(Front(s))
           /\ Range(Front(s)) = Range(s) \ {Last(s)}
           /\ Len(Front(s)) = Len(s) - 1
  <1>1. /\ DOMAIN s = 1 .. Len(s)
        /\ Len(s) \in Nat \ {0}
    OBVIOUS
  <1>2. /\ Front(s) \in Seq(S)
        /\ Len(Front(s)) = Len(s) - 1
        /\ DOMAIN Front(s) = 1 .. Len(s) - 1
        /\ \A i \in 1 .. Len(s) - 1 : Front(s)[i] = s[i]
    BY <1>1 DEF Front
  <1> QED
    BY <1>1, <1>2 DEF IsInjective, Range, Last

(* Without its first element, a sequence has no duplicates either. *)
LEMMA TailProps ==
    ASSUME NEW S, NEW s \in Seq(S), s # <<>>, IsInjective(s)
    PROVE  /\ Tail(s) \in Seq(S)
           /\ IsInjective(Tail(s))
           /\ Range(Tail(s)) = Range(s) \ {Head(s)}
           /\ Tail(s) # <<>> => Last(Tail(s)) = Last(s)
           /\ Last(s) = Head(s) => Tail(s) = <<>>
           /\ <<Head(s)>> \o Tail(s) = s
  <1>1. /\ DOMAIN s = 1 .. Len(s)
        /\ Len(s) \in Nat \ {0}
        /\ Head(s) = s[1]
    OBVIOUS
  <1>2. /\ Tail(s) \in Seq(S)
        /\ Len(Tail(s)) = Len(s) - 1
        /\ DOMAIN Tail(s) = 1 .. Len(s) - 1
        /\ \A i \in 1 .. Len(s) - 1 : Tail(s)[i] = s[i + 1]
    BY <1>1
  <1>3. IsInjective(Tail(s))
    BY <1>1, <1>2 DEF IsInjective
  <1>4. ASSUME NEW x \in Range(s), x # Head(s) PROVE x \in Range(Tail(s))
    <2>1. PICK i \in 1 .. Len(s) : x = s[i]
      BY <1>1 DEF Range
    <2>2. i - 1 \in 1 .. Len(s) - 1 /\ Tail(s)[i - 1] = x
      BY <1>1, <1>2, <1>4, <2>1
    <2> QED
      BY <2>2, <1>2, Zenon DEF Range
  <1>5. Range(Tail(s)) \subseteq Range(s) \ {Head(s)}
    BY <1>1, <1>2 DEF Range, IsInjective
  <1>6. Tail(s) # <<>> => Last(Tail(s)) = Last(s)
    BY <1>1, <1>2 DEF Last
  <1>7. Last(s) = Head(s) => Tail(s) = <<>>
    BY <1>1, <1>2 DEF Last, IsInjective
  <1>8. <<Head(s)>> \o Tail(s) = s
    OBVIOUS
  <1> QED
    BY <1>2, <1>3, <1>4, <1>5, <1>6, <1>7, <1>8

(* The length and the elements of a suffix. *)
LEMMA SuffixProps ==
    ASSUME NEW S, NEW s \in Seq(S), NEW m \in Int, m >= 1, m <= Len(s) + 1
    PROVE  /\ SubSeq(s, m, Len(s)) \in Seq(S)
           /\ Len(SubSeq(s, m, Len(s))) = Len(s) - m + 1
           /\ \A j \in 1 .. Len(s) - m + 1 : SubSeq(s, m, Len(s))[j] = s[j + m - 1]
  OBVIOUS

(* Removing one element takes out that element and keeps the order. *)
LEMMA RemoveAtProps ==
    ASSUME NEW S, NEW s \in Seq(S), IsInjective(s), NEW i \in 1 .. Len(s)
    PROVE  /\ RemoveAt(s, i) \in Seq(S)
           /\ IsInjective(RemoveAt(s, i))
           /\ Range(RemoveAt(s, i)) = Range(s) \ {s[i]}
           /\ s[i] # Head(s) => Head(RemoveAt(s, i)) = Head(s)
           /\ s[i] # Last(s) => Last(RemoveAt(s, i)) = Last(s)
  <1> DEFINE r == RemoveAt(s, i)
  <1>1. /\ DOMAIN s = 1 .. Len(s)
        /\ Len(s) \in Nat \ {0}
        /\ Head(s) = s[1]
    OBVIOUS
  <1>2. /\ r \in Seq(S)
        /\ Len(r) = Len(s) - 1
        /\ DOMAIN r = 1 .. Len(s) - 1
        /\ \A j \in 1 .. Len(s) - 1 : r[j] = IF j < i THEN s[j] ELSE s[j + 1]
    <2> DEFINE a == SubSeq(s, 1, i - 1)
               b == SubSeq(s, i + 1, Len(s))
    <2>1. /\ a \in Seq(S)
          /\ Len(a) = i - 1
          /\ \A j \in 1 .. i - 1 : a[j] = s[j]
      BY <1>1
    <2>2. /\ b \in Seq(S)
          /\ Len(b) = Len(s) - i
          /\ \A j \in 1 .. Len(s) - i : b[j] = s[j + i]
      <3>1. i + 1 >= 1 /\ i + 1 <= Len(s) + 1 /\ i + 1 \in Int
        BY <1>1
      <3>2. /\ b \in Seq(S)
            /\ Len(b) = Len(s) - (i + 1) + 1
            /\ \A j \in 1 .. Len(s) - (i + 1) + 1 : b[j] = s[j + (i + 1) - 1]
        BY <3>1, SuffixProps, Zenon
      <3> HIDE DEF b
      <3> QED
        BY <3>2, <1>1
    <2>3. r = a \o b
      BY DEF RemoveAt
    <2> HIDE DEF a, b, r
    <2>4. r \in Seq(S) /\ Len(r) = Len(s) - 1
      <3>1. r \in Seq(S) /\ Len(r) = Len(a) + Len(b)
        BY <2>1, <2>2, <2>3, ConcatSeq, Zenon
      <3> QED
        BY <3>1, <1>1, <2>1, <2>2
    <2>5. \A j \in 1 .. Len(s) - 1 : r[j] = IF j <= i - 1 THEN a[j] ELSE b[j - (i - 1)]
      <3>1. \A j \in 1 .. Len(a) + Len(b) : r[j] = IF j <= Len(a) THEN a[j] ELSE b[j - Len(a)]
        BY <2>1, <2>2, <2>3, ConcatSeq, ZenonT(60)
      <3> QED
        BY <3>1, <1>1, <2>1, <2>2
    <2>6. ASSUME NEW j \in 1 .. Len(s) - 1 PROVE r[j] = IF j < i THEN s[j] ELSE s[j + 1]
      <3>1. CASE j < i
        <4>1. j \in 1 .. i - 1
          BY <1>1, <3>1
        <4> QED
          BY <1>1, <2>1, <2>5, <3>1, <4>1
      <3>2. CASE ~(j < i)
        <4>1. j - (i - 1) \in 1 .. Len(s) - i /\ j - (i - 1) + i = j + 1 /\ ~(j <= i - 1)
          BY <1>1, <3>2
        <4>2. b[j - (i - 1)] = s[j + 1]
          BY <2>2, <4>1
        <4> QED
          BY <2>5, <3>2, <4>1, <4>2
      <3> QED
        BY <3>1, <3>2
    <2>7. DOMAIN r = 1 .. Len(s) - 1
      BY <2>4
    <2> QED
      BY <2>4, <2>6, <2>7
  <1> HIDE DEF r
  <1>3. IsInjective(r)
    <2> DEFINE at(j) == IF j < i THEN j ELSE j + 1
    <2> SUFFICES ASSUME NEW j \in 1 .. Len(s) - 1, NEW k \in 1 .. Len(s) - 1, r[j] = r[k]
                 PROVE  j = k
      BY <1>2 DEF IsInjective
    <2>1. at(j) \in DOMAIN s /\ at(k) \in DOMAIN s /\ s[at(j)] = s[at(k)]
      BY <1>1, <1>2
    <2>2. at(j) = at(k)
      BY <2>1 DEF IsInjective
    <2> QED
      BY <2>2, <1>1
  <1>4. ASSUME NEW x \in Range(s), x # s[i] PROVE x \in Range(r)
    <2>1. PICK j \in 1 .. Len(s) : x = s[j]
      BY <1>1 DEF Range
    <2>2. CASE j < i
      <3>1. j \in 1 .. Len(s) - 1 /\ r[j] = x
        BY <2>1, <2>2, <1>1, <1>2
      <3> QED
        BY <3>1, <1>2 DEF Range
    <2>3. CASE j > i
      <3>1. j - 1 \in 1 .. Len(s) - 1 /\ r[j - 1] = x
        BY <2>1, <2>3, <1>1, <1>2
      <3> QED
        BY <3>1, <1>2 DEF Range
    <2> QED
      BY <2>1, <2>2, <2>3, <1>4
  <1>5. Range(r) \subseteq Range(s) \ {s[i]}
    BY <1>1, <1>2 DEF Range, IsInjective
  <1>6. s[i] # Head(s) => Head(r) = Head(s)
    BY <1>1, <1>2
  <1>7. s[i] # Last(s) => Last(r) = Last(s)
    BY <1>1, <1>2 DEF Last
  <1> QED
    BY <1>2, <1>3, <1>4, <1>5, <1>6, <1>7 DEF r

-----------------------------------------------------------------------------
(* The count of calls under way. *)
UnderWay == {q \in Queries : query[q].pc # "idle"}

(* The calls under way are finitely many. *)
LEMMA UnderWayFinite ==
    IsFiniteSet(UnderWay) /\ Cardinality(UnderWay) \in Nat
  BY ForwarderAssumption, FS_Subset, FS_CardinalityType DEF UnderWay

(* No call starts or ends: the count stays exact. *)
LEMMA SameCount ==
    ASSUME TypeOK, InflightExact, inflight' = inflight,
           \A q \in Queries : query'[q].pc = "idle" <=> query[q].pc = "idle"
    PROVE  InflightExact' /\ inflight' \in Nat
  <1>1. UnderWay' = UnderWay
    BY DEF UnderWay
  <1> QED
    BY <1>1, Zenon DEF InflightExact, UnderWay, TypeOK

(* A call ends and gives its slot back: the count stays exact. *)
LEMMA EndCounts ==
    ASSUME TypeOK, InflightExact, NEW q \in Queries, query[q].pc # "idle", EndQuery(q)
    PROVE  InflightExact' /\ inflight' \in Nat
  <1>1. UnderWay' = UnderWay \ {q} /\ q \in UnderWay
    BY DEF TypeOK, UnderWay, EndQuery, Idle, At
  <1>2. Cardinality(UnderWay') = Cardinality(UnderWay) - 1 /\ Cardinality(UnderWay') \in Nat
    BY <1>1, UnderWayFinite, FS_RemoveElement, FS_CardinalityType
  <1> QED
    BY <1>2, UnderWayFinite, ForwarderAssumption DEF TypeOK, InflightExact, EndQuery, UnderWay

(* A call starts and takes a slot: the count stays exact. *)
LEMMA StartCounts ==
    ASSUME TypeOK, InflightExact, NEW q \in Queries, query[q].pc = "idle",
           max_inflight > 0 => inflight < max_inflight,
           inflight' = IF max_inflight > 0 THEN inflight + 1 ELSE inflight,
           query'[q].pc # "idle", \A p \in Queries \ {q} : query'[p] = query[p]
    PROVE  InflightExact' /\ inflight' \in Nat
  <1>1. UnderWay' = UnderWay \cup {q} /\ q \notin UnderWay
    BY DEF TypeOK, UnderWay
  <1>2. Cardinality(UnderWay') = Cardinality(UnderWay) + 1
    BY <1>1, UnderWayFinite, FS_AddElement, Zenon
  <1> QED
    BY <1>2, UnderWayFinite, ForwarderAssumption DEF TypeOK, InflightExact, UnderWay

-----------------------------------------------------------------------------
(* The lock's queue.  Turn: q holds the lock, or takes the free lock, and    *)
(* rest is the queue behind it.                                             *)
Turn(q, rest) == \/ lock = <<>> /\ rest = <<>>
                 \/ lock # <<>> /\ Head(lock) = q /\ rest = Tail(lock)
Others(q) == \A p \in Queries \ {q} : query'[p] = query[p]
LockPCs == {"acquire", "discard", "release", "full"}
CloseSame == closer' = closer /\ closed' = closed /\ stopping' = stopping /\ to_close' = to_close

(* The queue for the lock with and without its holder. *)
LEMMA Handover ==
    ASSUME TypeOK, LockInOrder, NEW q \in Queries, NEW rest, Turn(q, rest)
    PROVE  /\ rest \in Seq(Queries \cup {Closer})
           /\ IsInjective(rest)
           /\ Range(rest) = Range(lock) \ {q}
           /\ closer = "lock" => Last(rest) = Closer
           /\ <<q>> \o rest \in Seq(Queries \cup {Closer})
           /\ IsInjective(<<q>> \o rest)
           /\ Range(<<q>> \o rest) = Range(lock) \cup {q}
           /\ Head(<<q>> \o rest) = q
           /\ closer = "lock" => Last(<<q>> \o rest) = Closer
  <1> DEFINE S == Queries \cup {Closer}
  <1>1. CASE lock = <<>> /\ rest = <<>>
    <2>1. <<q>> \o rest = <<q>>
      BY <1>1
    <2>2. closer # "lock"
      BY <1>1, EmptyProps DEF LockInOrder
    <2> QED
      BY <1>1, <2>1, <2>2, EmptyProps, SingleProps, q \in S
  <1>2. CASE lock # <<>> /\ Head(lock) = q /\ rest = Tail(lock)
    <2>1. /\ rest \in Seq(S)
          /\ IsInjective(rest)
          /\ Range(rest) = Range(lock) \ {q}
          /\ rest # <<>> => Last(rest) = Last(lock)
          /\ Last(lock) = q => rest = <<>>
          /\ <<q>> \o rest = lock
      BY <1>2, TailProps DEF TypeOK, LockInOrder
    <2>2. q \in Range(lock) /\ Last(lock) \in Range(lock)
      BY <1>2, SetProps DEF TypeOK
    <2>3. closer = "lock" => rest # <<>>
      <3> SUFFICES ASSUME closer = "lock", rest = <<>> PROVE FALSE
        OBVIOUS
      <3>1. Range(lock) = {q}
        BY <2>1, <2>2, EmptyProps
      <3> QED
        BY <3>1, ForwarderAssumption DEF LockInOrder
    <2> QED
      BY <1>2, <2>1, <2>2, <2>3, ZenonT(60) DEF TypeOK, LockInOrder
  <1> QED
    BY <1>1, <1>2 DEF Turn

(* q gives the lock up. *)
LEMMA GivesUp ==
    ASSUME TypeOK, LockInOrder, NEW q \in Queries, NEW rest, Turn(q, rest), lock' = rest,
           query'[q].pc \notin LockPCs, Others(q), CloseSame
    PROVE  LockInOrder'
  <1>1. /\ IsInjective(rest)
        /\ Range(rest) = Range(lock) \ {q}
        /\ closer = "lock" => Last(rest) = Closer
    BY Handover, Zenon
  <1>2. \A p \in Queries \ {q} : query[p].pc \notin {"discard", "full"}
    BY EmptyProps DEF LockInOrder, Turn
  <1>3. \A p \in Queries :
          /\ p \in Range(lock') <=> query'[p].pc \in {"acquire", "discard", "release", "full"}
          /\ query'[p].pc \in {"discard", "full"} => Head(lock') = p
    BY <1>1, <1>2 DEF LockInOrder, Others, LockPCs
  <1>4. Closer # q
    BY ForwarderAssumption
  <1>5. closer \in {"closing", "done"} => rest = <<>>
    BY DEF LockInOrder, Turn
  <1> QED
    BY <1>1, <1>3, <1>4, <1>5 DEF LockInOrder, CloseSame

(* q keeps the lock while it closes a connection. *)
LEMMA Keeps ==
    ASSUME TypeOK, LockInOrder, NEW q \in Queries, NEW rest, Turn(q, rest),
           closer \notin {"closing", "done"}, lock' = <<q>> \o rest,
           query'[q].pc \in {"discard", "full"}, Others(q), CloseSame
    PROVE  LockInOrder'
  <1>1. /\ IsInjective(<<q>> \o rest)
        /\ Range(<<q>> \o rest) = Range(lock) \cup {q}
        /\ Head(<<q>> \o rest) = q
        /\ closer = "lock" => Last(<<q>> \o rest) = Closer
    BY Handover
  <1>2. \A p \in Queries \ {q} : query[p].pc \notin {"discard", "full"}
    BY EmptyProps DEF LockInOrder, Turn
  <1>3. \A p \in Queries :
          /\ p \in Range(lock') <=> query'[p].pc \in {"acquire", "discard", "release", "full"}
          /\ query'[p].pc \in {"discard", "full"} => Head(lock') = p
    BY <1>1, <1>2 DEF LockInOrder, Others
  <1>4. Closer # q
    BY ForwarderAssumption
  <1> QED
    BY <1>1, <1>3, <1>4 DEF LockInOrder, CloseSame

(* q queues up for the lock. *)
LEMMA QueuesUp ==
    ASSUME TypeOK, LockInOrder, NEW q \in Queries, lock # <<>>, ~closed,
           query[q].pc \notin LockPCs, lock' = Append(lock, q),
           query'[q].pc \in {"acquire", "release"}, Others(q), CloseSame
    PROVE  LockInOrder' /\ lock' \in Seq(Queries \cup {Closer})
  <1>1. q \notin Range(lock)
    BY DEF LockInOrder, LockPCs
  <1>2. /\ lock' \in Seq(Queries \cup {Closer})
        /\ IsInjective(lock')
        /\ Range(lock') = Range(lock) \cup {q}
        /\ Head(lock') = Head(lock)
    BY <1>1, AppendProps DEF TypeOK, LockInOrder
  <1>3. \A p \in Queries :
          /\ p \in Range(lock') <=> query'[p].pc \in {"acquire", "discard", "release", "full"}
          /\ query'[p].pc \in {"discard", "full"} => Head(lock') = p
    BY <1>2 DEF LockInOrder, Others
  <1>4. Closer # q
    BY ForwarderAssumption
  <1> QED
    BY <1>2, <1>3, <1>4 DEF LockInOrder, CloseSame

(* The queue is left alone. *)
LEMMA NoTurn ==
    ASSUME LockInOrder, lock' = lock, CloseSame,
           \A q \in Queries : \/ query'[q].pc = query[q].pc
                              \/ query[q].pc \notin LockPCs /\ query'[q].pc \notin LockPCs
    PROVE  LockInOrder'
  BY DEF LockInOrder, CloseSame, LockPCs

(* q is cancelled in the queue. *)
LEMMA Leaves ==
    ASSUME TypeOK, LockInOrder, NEW q \in Queries, NEW i \in 1 .. Len(lock), lock[i] = q,
           lock' = RemoveAt(lock, i), query'[q].pc \notin LockPCs, Others(q), CloseSame
    PROVE  LockInOrder' /\ lock' \in Seq(Queries \cup {Closer})
  <1>1. /\ lock' \in Seq(Queries \cup {Closer})
        /\ IsInjective(lock')
        /\ Range(lock') = Range(lock) \ {q}
        /\ q # Head(lock) => Head(lock') = Head(lock)
        /\ q # Last(lock) => Last(lock') = Last(lock)
    BY RemoveAtProps, ZenonT(60) DEF TypeOK, LockInOrder
  <1>2. \A p \in Queries :
          /\ p \in Range(lock') <=> query'[p].pc \in {"acquire", "discard", "release", "full"}
          /\ query'[p].pc \in {"discard", "full"} => Head(lock') = p
    BY <1>1 DEF LockInOrder, Others, LockPCs
  <1>3. Closer # q
    BY ForwarderAssumption
  <1>4. closer \in {"closing", "done"} => FALSE
    BY DEF LockInOrder
  <1> QED
    BY <1>1, <1>2, <1>3, <1>4 DEF LockInOrder, CloseSame

-----------------------------------------------------------------------------
(* Who has which connection. *)
LEMMA HeldSame ==
    ASSUME \A p \in Queries : query'[p].conn = query[p].conn
    PROVE  Held' = Held
  BY DEF Held

(* A call without a connection gets one. *)
LEMMA HeldGain ==
    ASSUME NEW q \in Queries, NEW c \in Conns, query[q].conn = NoConn, query'[q].conn = c,
           Others(q)
    PROVE  Held' = Held \cup {c}
  BY ForwarderAssumption DEF Held, Others

(* A call gives its connection up, and nobody else has it. *)
LEMMA HeldLose ==
    ASSUME NEW q \in Queries, OneUser, query[q].conn # NoConn, query'[q].conn = NoConn, Others(q)
    PROVE  Held' = Held \ {query[q].conn} /\ query[q].conn \in Held
  BY DEF Held, Others, OneUser

(* What the next lemmas keep: the users of connections and what they carry.  *)
(* None of the steps they are about leaves a connection without a user.      *)
ConnInv == OneUser /\ NoLeakedConnection /\ (stopping \/ Owed)

(* Nothing about the connections changes. *)
LEMMA ConnsSame ==
    ASSUME ConnInv, UNCHANGED <<open, eof, wire, pool, to_close, stopping>>,
           \A p \in Queries : /\ query'[p].conn = query[p].conn
                              /\ query'[p].pc = "read" <=> query[p].pc = "read"
    PROVE  ConnInv' /\ UsersKept
  <1>1. Held' = Held
    BY HeldSame
  <1>2. OneUser'
    BY <1>1 DEF ConnInv, OneUser
  <1>3. NoLeakedConnection'
    BY <1>1 DEF ConnInv, NoLeakedConnection
  <1>4. (stopping \/ Owed)'
    BY DEF ConnInv, Owed, AtEof
  <1>5. UsersKept
    BY <1>1 DEF UsersKept, Users
  <1> QED
    BY <1>2, <1>3, <1>4, <1>5 DEF ConnInv

(* q takes the last connection of the pool and writes to it. *)
LEMMA Reuses ==
    ASSUME TypeOK, ConnInv, ConnOfCall, NEW q \in Queries, query[q].conn = NoConn, pool # <<>>,
           ~AtEof(Last(pool), wire), Send(q, Last(pool)), pool' = Popped,
           UNCHANGED <<open, eof>>, CloseSame
    PROVE  ConnInv' /\ UsersKept /\ pool' \in Seq(Conns)
  <1> DEFINE c == Last(pool)
  <1>1. c \in Range(pool) /\ c \in Conns
    BY SetProps DEF TypeOK
  <1>2. /\ pool' \in Seq(Conns)
        /\ IsInjective(pool')
        /\ Range(pool') = Range(pool) \ {c}
    BY FrontProps DEF TypeOK, ConnInv, OneUser, Popped
  <1>3. Others(q) /\ query'[q] = At("read", c, 0) /\ query'[q].conn = c /\ query'[q].pc = "read"
    BY DEF Others, Send, TypeOK, At
  <1>4. Held' = Held \cup {c}
    BY <1>1, <1>3, HeldGain
  <1>5. c \notin Held
    BY <1>1 DEF ConnInv, OneUser
  <1>6. OneUser'
    <2>1. \A p, r \in Queries :
            query'[p].conn = query'[r].conn /\ p # r => query'[p].conn = NoConn
      BY <1>3, <1>5 DEF ConnInv, OneUser, Others, Held
    <2> QED
      BY <2>1, <1>1, <1>2, <1>4, <1>5 DEF ConnInv, OneUser, CloseSame
  <1>7. NoLeakedConnection'
    BY <1>1, <1>2, <1>4 DEF ConnInv, NoLeakedConnection, CloseSame
  <1>8. ASSUME ~stopping' PROVE Owed'
    <2>1. Owed
      BY <1>8 DEF ConnInv, CloseSame
    <2>2. \A p \in Queries : query[p].conn # c
      BY <1>1, <1>5, ForwarderAssumption DEF Held
    <2>3. wire[c] = <<>>
      BY <1>1, <2>1, <2>2 DEF Owed
    <2>4. \A d \in Conns : wire'[d] = IF d = c THEN <<q>> ELSE wire[d]
      BY <1>1, <2>3 DEF Send, TypeOK, AtEof
    <2> HIDE DEF c
    <2> QED
      BY <1>1, <1>3, <2>1, <2>2, <2>4 DEF Owed, Others, ConnOfCall, AtEof
  <1>9. UsersKept
    BY <1>2, <1>4 DEF UsersKept, Users, CloseSame
  <1> QED
    BY <1>2, <1>6, <1>7, <1>8, <1>9 DEF ConnInv

(* The last connection of the pool is closed. *)
LEMMA Discards ==
    ASSUME TypeOK, ConnInv, ConnOfCall, NEW q \in Queries, pool # <<>>, query[q].conn = NoConn,
           query'[q].conn = NoConn, query'[q].pc # "read", query[q].pc # "read", Others(q),
           CloseWriter(Last(pool)), pool' = Popped, CloseSame
    PROVE  ConnInv' /\ UsersKept /\ pool' \in Seq(Conns)
  <1> DEFINE c == Last(pool)
  <1>1. c \in Range(pool) /\ c \in Conns
    BY SetProps DEF TypeOK
  <1>2. /\ pool' \in Seq(Conns)
        /\ IsInjective(pool')
        /\ Range(pool') = Range(pool) \ {c}
    BY FrontProps DEF TypeOK, ConnInv, OneUser, Popped
  <1>3. Held' = Held
    BY HeldSame DEF Others
  <1>4. c \notin Held /\ c \notin Range(to_close)
    BY <1>1 DEF ConnInv, OneUser
  <1>5. OneUser'
    <2>1. \A p, r \in Queries :
            query'[p].conn = query'[r].conn /\ p # r => query'[p].conn = NoConn
      BY DEF ConnInv, OneUser, Others
    <2> QED
      BY <2>1, <1>1, <1>2, <1>3, <1>4 DEF ConnInv, OneUser, CloseSame, CloseWriter
  <1>6. NoLeakedConnection'
    BY <1>1, <1>2, <1>3 DEF ConnInv, NoLeakedConnection, CloseSame, CloseWriter
  <1>7. ASSUME ~stopping' PROVE Owed'
    <2>1. Owed
      BY <1>7 DEF ConnInv, CloseSame
    <2>2. \A p \in Queries : query[p].conn # c
      BY <1>1, <1>4, ForwarderAssumption DEF Held
    <2>3. \A d \in Conns : wire'[d] = IF d = c THEN <<>> ELSE wire[d]
      BY <1>1 DEF CloseWriter, TypeOK
    <2>4. \A d \in Conns : d # c => (d \in eof' <=> d \in eof)
      BY DEF CloseWriter
    <2> HIDE DEF c
    <2> QED
      BY <1>1, <2>1, <2>2, <2>3, <2>4 DEF Owed, Others, AtEof
  <1>8. UsersKept
    BY <1>2, <1>3 DEF UsersKept, Users, CloseSame, CloseWriter
  <1> QED
    BY <1>2, <1>5, <1>6, <1>7, <1>8 DEF ConnInv

(* q opens a connection and writes to it. *)
LEMMA Connects ==
    ASSUME TypeOK, ConnInv, ConnOfCall, NEW q \in Queries, query[q].conn = NoConn,
           NEW c \in Conns \ open, open' = open \cup {c}, eof' = eof, Send(q, c), pool' = pool,
           CloseSame
    PROVE  ConnInv' /\ UsersKept
  <1>1. Others(q) /\ query'[q] = At("read", c, 0) /\ query'[q].conn = c /\ query'[q].pc = "read"
    BY DEF Others, Send, TypeOK, At
  <1>2. Held' = Held \cup {c}
    BY <1>1, HeldGain
  <1>3. c \notin Held /\ c \notin Range(pool) /\ c \notin Range(to_close)
    BY DEF ConnInv, OneUser
  <1>4. OneUser'
    <2>1. \A p, r \in Queries :
            query'[p].conn = query'[r].conn /\ p # r => query'[p].conn = NoConn
      BY <1>1, <1>3 DEF ConnInv, OneUser, Others, Held
    <2> QED
      BY <2>1, <1>2, <1>3 DEF ConnInv, OneUser, CloseSame
  <1>5. NoLeakedConnection'
    BY <1>2 DEF ConnInv, NoLeakedConnection, CloseSame
  <1>6. ASSUME ~stopping' PROVE Owed'
    <2>1. Owed
      BY <1>6 DEF ConnInv, CloseSame
    <2>2. \A p \in Queries : query[p].conn # c
      BY <1>3, ForwarderAssumption DEF Held
    <2>3. wire[c] = <<>>
      BY <2>1, <2>2 DEF Owed
    <2>4. \A d \in Conns : wire'[d] = IF d = c THEN <<q>> ELSE wire[d]
      BY <2>3 DEF Send, TypeOK
    <2> QED
      BY <1>1, <2>1, <2>2, <2>4 DEF Owed, Others, ConnOfCall, AtEof
  <1>7. UsersKept
    BY <1>2 DEF UsersKept, Users, CloseSame
  <1> QED
    BY <1>4, <1>5, <1>6, <1>7 DEF ConnInv

(* q closes its own connection. *)
LEMMA ClosesOwn ==
    ASSUME TypeOK, ConnInv, ConnOfCall, NEW q \in Queries, query[q].conn # NoConn,
           query'[q].conn = NoConn, query'[q].pc # "read", Others(q),
           CloseWriter(query[q].conn), pool' = pool, CloseSame
    PROVE  ConnInv' /\ UsersKept
  <1> DEFINE c == query[q].conn
  <1>1. Held' = Held \ {c} /\ c \in Held /\ c \in Conns
    BY HeldLose DEF ConnInv, TypeOK, Call
  <1>2. c \notin Range(pool) /\ c \notin Range(to_close)
    BY <1>1 DEF ConnInv, OneUser
  <1>3. OneUser'
    <2>1. \A p, r \in Queries :
            query'[p].conn = query'[r].conn /\ p # r => query'[p].conn = NoConn
      BY DEF ConnInv, OneUser, Others
    <2> QED
      BY <2>1, <1>1, <1>2 DEF ConnInv, OneUser, CloseSame, CloseWriter
  <1>4. NoLeakedConnection'
    BY <1>1 DEF ConnInv, NoLeakedConnection, CloseSame, CloseWriter
  <1>5. ASSUME ~stopping' PROVE Owed'
    <2>1. Owed
      BY <1>5 DEF ConnInv, CloseSame
    <2>2. \A p \in Queries \ {q} : query[p].conn # c
      BY <1>1, ForwarderAssumption DEF ConnInv, OneUser
    <2>3. \A d \in Conns : wire'[d] = IF d = c THEN <<>> ELSE wire[d]
      BY <1>1 DEF CloseWriter, TypeOK
    <2>4. \A d \in Conns : d # c => (d \in eof' <=> d \in eof)
      BY DEF CloseWriter
    <2> QED
      BY <1>1, <2>1, <2>2, <2>3, <2>4 DEF Owed, Others, AtEof
  <1>6. UsersKept
    BY <1>1 DEF UsersKept, Users, CloseSame, CloseWriter
  <1> QED
    BY <1>3, <1>4, <1>5, <1>6 DEF ConnInv

(* After the answer, or a cancellation, w is on the wires. *)
WireAfter(q, w) ==
    /\ w \in [Conns -> Seq(Queries)]
    /\ stopping \/ \A c \in Conns : w[c] = IF c = query[q].conn THEN <<>> ELSE wire[c]

(* q puts its connection into the pool. *)
LEMMA Returns ==
    ASSUME TypeOK, ConnInv, ConnOfCall, NEW q \in Queries, query[q].conn # NoConn,
           query'[q].conn = NoConn, query'[q].pc # "read", Others(q),
           pool' = Append(pool, query[q].conn), NEW w, WireAfter(q, w), wire' = w,
           UNCHANGED <<open, eof>>, CloseSame
    PROVE  ConnInv' /\ UsersKept /\ pool' \in Seq(Conns)
  <1> DEFINE c == query[q].conn
  <1>1. Held' = Held \ {c} /\ c \in Held /\ c \in Conns
    BY HeldLose DEF ConnInv, TypeOK, Call
  <1>2. c \notin Range(pool) /\ c \notin Range(to_close) /\ c \in open
    BY <1>1 DEF ConnInv, OneUser
  <1>3. /\ pool' \in Seq(Conns)
        /\ IsInjective(pool')
        /\ Range(pool') = Range(pool) \cup {c}
    BY <1>1, <1>2, AppendProps DEF TypeOK, ConnInv, OneUser
  <1>4. OneUser'
    <2>1. \A p, r \in Queries :
            query'[p].conn = query'[r].conn /\ p # r => query'[p].conn = NoConn
      BY DEF ConnInv, OneUser, Others
    <2> QED
      BY <2>1, <1>1, <1>2, <1>3 DEF ConnInv, OneUser, CloseSame
  <1>5. NoLeakedConnection'
    BY <1>1, <1>3 DEF ConnInv, NoLeakedConnection, CloseSame
  <1>6. ASSUME ~stopping' PROVE Owed'
    <2>1. Owed /\ \A d \in Conns : wire'[d] = IF d = c THEN <<>> ELSE wire[d]
      BY <1>6 DEF ConnInv, CloseSame, WireAfter
    <2>2. \A p \in Queries \ {q} : query[p].conn # c
      BY <1>1, ForwarderAssumption DEF ConnInv, OneUser
    <2> QED
      BY <1>1, <2>1, <2>2 DEF Owed, Others, AtEof
  <1>7. UsersKept
    BY <1>1, <1>3 DEF UsersKept, Users, CloseSame
  <1> QED
    BY <1>3, <1>4, <1>5, <1>6, <1>7 DEF ConnInv

(* q keeps its connection and queues up to put it back. *)
LEMMA Awaits ==
    ASSUME TypeOK, ConnInv, NEW q \in Queries, query[q].conn # NoConn,
           query'[q].conn = query[q].conn, query'[q].pc # "read", Others(q), pool' = pool,
           NEW w, WireAfter(q, w), wire' = w, UNCHANGED <<open, eof>>, CloseSame
    PROVE  ConnInv' /\ UsersKept
  <1>1. Held' = Held
    BY HeldSame DEF Others
  <1>2. OneUser'
    BY <1>1 DEF ConnInv, OneUser, CloseSame, Others
  <1>3. NoLeakedConnection'
    BY <1>1 DEF ConnInv, NoLeakedConnection, CloseSame
  <1>4. ASSUME ~stopping' PROVE Owed'
    <2>1. /\ Owed
          /\ \A d \in Conns : wire'[d] = IF d = query[q].conn THEN <<>> ELSE wire[d]
      BY <1>4 DEF ConnInv, CloseSame, WireAfter
    <2>2. \A p \in Queries \ {q} : query[p].conn # query[q].conn
      BY ForwarderAssumption DEF ConnInv, OneUser
    <2> QED
      BY <2>1, <2>2 DEF Owed, Others, AtEof
  <1>5. UsersKept
    BY <1>1 DEF UsersKept, Users, CloseSame
  <1> QED
    BY <1>2, <1>3, <1>4, <1>5 DEF ConnInv
=============================================================================
