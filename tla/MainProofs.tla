---------------------------- MODULE MainProofs ----------------------------
(***************************************************************************)
(* Proofs about the servers and the process for any number of requests and  *)
(* connections, any limit, with and without the metrics server, and for     *)
(* both behaviours of wait_closed.                                          *)
(***************************************************************************)
EXTENDS Main, FiniteSetTheorems, TLAPS

(* The time limits of the provers, in seconds. *)
USE ZenonT(5), SMTT(60)

(* The tasks a server has in flight are finitely many. *)
LEMMA InflightFinite ==
    ASSUME TypeOK, InflightRuns, NEW s \in Dns
    PROVE  /\ IsFiniteSet(inflight[s])
           /\ Cardinality(inflight[s]) \in Nat
  <1>1. inflight[s] \subseteq Datagrams \/ inflight[s] \subseteq Conns
    BY DEF InflightRuns, Tasks, Dns
  <1> QED
    BY <1>1, ServersAssumption, FS_Subset, FS_CardinalityType

(* The step forgets all tasks of s, or none, and changes no task otherwise   *)
(* than by moving it on.                                                     *)
LEMMA ForgetKeepsBound ==
    ASSUME TypeOK, InflightBound, InflightRuns, NEW s \in Dns,
           inflight' = [inflight EXCEPT ![s] = {}],
           run'[s] # "listening",
           \A u \in Dns \ {s} : run'[u] = run[u],
           \A r \in Requests : request'[r].pc = "free" <=> request[r].pc = "free"
    PROVE  InflightBound' /\ InflightRuns'
  <1>1. \A u \in Dns : inflight'[u] = IF u = s THEN {} ELSE inflight[u]
    BY DEF TypeOK
  <1>2. Cardinality({}) = 0
    BY FS_EmptySet
  <1>3. \A u \in Dns : Tasks(u) \subseteq Requests
    BY DEF Tasks, Requests, Dns
  <1>4. InflightRuns'
    BY <1>1, <1>3 DEF InflightRuns
  <1>5. \A u \in Dns : Cardinality(inflight'[u]) <= max_inflight
    BY <1>1, <1>2, ServersAssumption DEF InflightBound
  <1> QED
    BY <1>1, <1>3, <1>4, <1>5 DEF InflightBound

(* A step that creates and ends no task keeps the limit on tasks. *)
LEMMA SameTasksKeepBound ==
    ASSUME TypeOK, InflightBound, InflightRuns,
           inflight' = inflight,
           \A u \in Dns : run'[u] = "listening" => run[u] = "listening",
           \A r \in Requests : request'[r].pc = "free" <=> request[r].pc = "free"
    PROVE  InflightBound' /\ InflightRuns'
  <1>1. \A u \in Dns : Tasks(u) \subseteq Requests
    BY DEF Tasks, Requests, Dns
  <1> QED
    BY <1>1 DEF InflightBound, InflightRuns

(* A task is created only where there is room, so the limit holds. *)
LEMMA CreateKeepsBound ==
    ASSUME TypeOK, InflightBound, InflightRuns, NEW s \in Dns, NEW r \in Tasks(s),
           request[r].pc = "free", Room(s), Create(s, r), run' = run
    PROVE  InflightBound' /\ InflightRuns'
  <1>1. r \notin inflight[s]
    BY DEF InflightRuns
  <1>2. \A u \in Dns : inflight'[u] = IF u = s THEN inflight[s] \cup {r} ELSE inflight[u]
    BY DEF TypeOK, Create
  <1>3. \A u \in Dns : Tasks(u) \subseteq Requests
    BY DEF Tasks, Requests, Dns
  <1>4. \A q \in Requests : request'[q].pc = IF q = r THEN "created" ELSE request[q].pc
    BY <1>3 DEF TypeOK, Create, Request
  <1>5. \A u \in Dns : u # s => r \notin Tasks(u)
    <2>1. Datagrams \cap Conns = {}
      BY ServersAssumption
    <2> QED
      BY <2>1 DEF Tasks, Dns
  <1>6. Cardinality(inflight'[s]) = Cardinality(inflight[s]) + 1
    <2>1. IsFiniteSet(inflight[s]) /\ inflight'[s] = inflight[s] \cup {r}
      BY <1>2, InflightFinite
    <2> QED
      BY <2>1, <1>1, FS_AddElement, ZenonT(60)
  <1>7. \A u \in Dns : Cardinality(inflight'[u]) <= max_inflight
    BY <1>2, <1>6, InflightFinite, ServersAssumption DEF InflightBound, Room
  <1>8. InflightRuns'
    BY <1>2, <1>3, <1>4 DEF InflightRuns
  <1>9. \A u \in Dns : run[u] = "listening" =>
          inflight'[u] = {q \in Tasks(u) : request'[q].pc # "free"}
    <2>1. ASSUME NEW u \in Dns, run[u] = "listening"
          PROVE  inflight[u] = {q \in Tasks(u) : request[q].pc # "free"}
      BY <2>1 DEF InflightBound
    <2> QED
      BY <2>1, <1>2, <1>3, <1>4, <1>5
  <1> QED
    BY <1>7, <1>8, <1>9 DEF InflightBound

(* The done callback takes its task out, which keeps the limit. *)
LEMMA DoneKeepsBound ==
    ASSUME TypeOK, InflightBound, InflightRuns, NEW r \in Requests,
           inflight' = [s \in Dns |-> inflight[s] \ {r}],
           request' = [request EXCEPT ![r] = Free], run' = run
    PROVE  InflightBound' /\ InflightRuns'
  <1>1. \A u \in Dns : Tasks(u) \subseteq Requests
    BY DEF Tasks, Requests, Dns
  <1>2. \A q \in Requests : request'[q].pc = IF q = r THEN "free" ELSE request[q].pc
    BY DEF TypeOK, Free
  <1>3. \A u \in Dns : inflight'[u] = inflight[u] \ {r}
    OBVIOUS
  <1>4. \A u \in Dns : Cardinality(inflight'[u]) <= max_inflight
    <2> TAKE u \in Dns
    <2>1. Cardinality(inflight'[u]) <= Cardinality(inflight[u])
      BY <1>3, InflightFinite, FS_Subset
    <2>2. Cardinality(inflight'[u]) \in Nat
      BY <1>3, InflightFinite, FS_Subset, FS_CardinalityType
    <2> QED
      BY <2>1, <2>2, InflightFinite, ServersAssumption DEF InflightBound
  <1>5. InflightRuns'
    BY <1>1, <1>2, <1>3 DEF InflightRuns
  <1>6. \A u \in Dns : run[u] = "listening" =>
          inflight'[u] = {q \in Tasks(u) : request'[q].pc # "free"}
    <2>1. ASSUME NEW u \in Dns, run[u] = "listening"
          PROVE  inflight[u] = {q \in Tasks(u) : request[q].pc # "free"}
      BY <2>1 DEF InflightBound
    <2> QED
      BY <2>1, <1>1, <1>2, <1>3
  <1> QED
    BY <1>4, <1>5, <1>6 DEF InflightBound

-----------------------------------------------------------------------------
(* What the provers need to know of the parts of a task and of a flight. *)
LEMMA FreeTypes == Free \in Request /\ Free.pc = "free"
  BY DEF Free, Request
(* A flight that does not exist yet is of the type of flights. *)
LEMMA NoneYetType == NoneYet \in Flight /\ NoneYet.pc = "none"
  BY DEF NoneYet, Flight, NewRecord, Record, Sizes
(* A record fresh from the handler is of the type of records. *)
LEMMA NewRecordType ==
    ASSUME NEW size \in Sizes PROVE NewRecord(size) \in Record
  BY DEF NewRecord, Record

(* A task that replies, or drops its record, has left its flight. *)
LEMMA RepliedProps ==
    ASSUME TypeOK, NEW r \in Requests, NEW record \in Record, NEW left \in Record,
           Replied(r, record, left)
    PROVE  \E new \in Request :
             /\ new.pc \in {"done", "drain"}
             /\ new.flight = NoFlight
             /\ request' = [request EXCEPT ![r] = new]
  <1>1. request[r] \in Request
    BY DEF TypeOK
  <1>2. /\ Dropped(r) \in Request
        /\ Dropped(r).pc = "done"
        /\ Dropped(r).flight = NoFlight
    BY <1>1, ZenonT(60) DEF Dropped, Request
  <1>3. /\ Answered(r, left) \in Request
        /\ Answered(r, left).pc \in {"done", "drain"}
        /\ Answered(r, left).flight = NoFlight
    BY <1>1, ZenonT(60) DEF Answered, Request
  <1> QED
    BY <1>2, <1>3, ZenonT(60) DEF Replied

(* A step that does not move the UDP server, and after which a task that was *)
(* cancelled or over still is, unless it is none of that server.             *)
LEMMA KeepsCancelled ==
    ASSUME EndedHasCancelled, run'["udp"] = run["udp"],
           \A r \in Datagrams : CancelledOrOver(r) => CancelledOrOver(r)'
    PROVE  EndedHasCancelled'
  BY DEF EndedHasCancelled

(* What the steps of server s that end in Finally do to tasks and flights. *)
LEMMA CancelProps ==
    ASSUME TypeOK, WaitersAreAttached, NEW s \in Dns, cancel_tasks(s)
    PROVE  /\ request' \in [Requests -> Request]
           /\ flight' \in [Flights -> Flight]
           /\ inflight' = [inflight EXCEPT ![s] = {}]
           /\ inflight' \in [Dns -> SUBSET Requests]
           /\ \A r \in Requests : request'[r].pc = "free" <=> request[r].pc = "free"
           /\ WaitersAreAttached'
           /\ \A r \in Requests : CancelledOrOver(r) \/ r \in inflight[s] => CancelledOrOver(r)'
  <1>1. \A r \in Requests :
          /\ request[r] \in Request
          /\ request'[r] \in Request
          /\ \/ request'[r] = request[r]
             \/ request'[r].pc = "cancel" /\ request[r].pc \in {"created", "resume", "drain"}
          /\ r \in inflight[s] => request'[r].pc \notin {"created", "resume", "drain"}
    BY ZenonT(60) DEF TypeOK, cancel_tasks, Request
  <1>2. \A t \in Flights :
          /\ flight[t] \in Flight
          /\ flight'[t] \in Flight
          /\ flight'[t] = flight[t] \/ flight'[t].pc = "cancelling"
    BY ZenonT(60) DEF TypeOK, cancel_tasks, Flight
  <1>3. \A t \in Flights : flight'[t] # flight[t] => Running(t)
    <2> TAKE t \in Flights
    <2> HAVE flight'[t] # flight[t]
    <2>1. PICK r \in inflight[s] : request[r].pc = "wait" /\ request[r].flight = t
      BY ZenonT(60) DEF cancel_tasks
    <2>2. r \in Requests
      BY DEF TypeOK
    <2> QED
      BY <2>1, <2>2 DEF WaitersAreAttached
  <1>4. WaitersAreAttached'
    BY <1>1, <1>2, <1>3 DEF WaitersAreAttached, Running
  <1>5. request' \in [Requests -> Request] /\ flight' \in [Flights -> Flight]
    BY <1>1, <1>2, ZenonT(60) DEF cancel_tasks
  <1>6. \A r \in inflight[s] : request[r].pc = "wait" =>
          flight'[request[r].flight].pc = "cancelling"
    <2> TAKE r \in inflight[s]
    <2> HAVE request[r].pc = "wait"
    <2>1. r \in Requests
      BY DEF TypeOK
    <2>2. request[r].flight \in Flights /\ flight[request[r].flight] \in Flight
      BY <2>1 DEF WaitersAreAttached, TypeOK
    <2> QED
      BY <2>2, ZenonT(60) DEF cancel_tasks, Flight
  <1>7. \A r \in Requests : CancelledOrOver(r) \/ r \in inflight[s] => CancelledOrOver(r)'
    <2> TAKE r \in Requests
    <2>1. request[r].pc = "wait" => request'[r] = request[r] /\ request[r].flight \in Flights
      BY <1>1 DEF WaitersAreAttached
    <2>2. CASE CancelledOrOver(r)
      BY <1>1, <1>2, <2>1, <2>2 DEF CancelledOrOver
    <2>3. CASE r \in inflight[s]
      BY <1>1, <1>6, <2>1, <2>3 DEF CancelledOrOver, Request
    <2> QED
      BY <2>2, <2>3
  <1> QED
    BY <1>1, <1>4, <1>5, <1>7, ZenonT(60) DEF cancel_tasks, TypeOK

(* What Finally of server s does to the invariant of the servers. *)
LEMMA FinallyInv ==
    ASSUME ServersInv, NEW s \in Servers, NEW then \in {"closing", "cancelled"},
           run[s] \in {"starting", "listening"}, Finally(s, then),
           ready' \in SUBSET Servers, stop' = stop, conn' = conn
    PROVE  ServersInv'
  <1> USE DEF ServersInv
  <1>1. /\ run' \in [Servers -> {"none", "starting", "listening", "closing", "cancelled",
                                 "ended", "failed"}]
        /\ run'[s] \in {"closing", "cancelled", "ended"}
        /\ \A u \in Servers \ {s} : run'[u] = run[u]
    BY DEF Finally, TypeOK
  <1>2. Dns \subseteq Servers
    BY ServersAssumption DEF Dns
  <1>3. CASE s \in Dns
    <2>1. cancel_tasks(s)
      BY <1>3 DEF Finally
    <2>2. TypeOK'
      BY <1>1, <1>3, <2>1, CancelProps DEF TypeOK
    <2>3. \A r \in Requests : request'[r].pc = "free" <=> request[r].pc = "free"
      BY <1>3, <2>1, CancelProps
    <2>4. InflightBound' /\ InflightRuns'
      <3>1. inflight' = [inflight EXCEPT ![s] = {}]
        BY <2>1, ZenonT(60) DEF cancel_tasks
      <3> QED
        BY <1>1, <1>2, <1>3, <2>3, <3>1, ForgetKeepsBound, ZenonT(60)
    <2>5. EndedHasCancelled'
      <3>1. \A r \in Datagrams :
              r \in Requests /\ (CancelledOrOver(r) \/ r \in inflight[s] => CancelledOrOver(r)')
        BY <1>3, <2>1, CancelProps DEF Requests
      <3>2. CASE s = "udp"
        <4>1. run'["udp"] = "ended"
          BY <3>2 DEF Finally, TypeOK
        <4>2. \A r \in Datagrams : CancelledOrOver(r) \/ r \in inflight[s]
          BY <3>2 DEF InflightBound, NothingBeforeStart, Dns, Tasks, CancelledOrOver
        <4> QED
          BY <3>1, <4>1, <4>2 DEF EndedHasCancelled
      <3>3. CASE s # "udp"
        BY <1>1, <1>2, <3>1, <3>3, KeepsCancelled DEF Dns
      <3> QED
        BY <3>2, <3>3
    <2>6. ConnAwaitsItsTask'
      BY <2>3 DEF ConnAwaitsItsTask, Requests
    <2>7. NothingBeforeStart'
      BY <1>1, <1>2, <2>3 DEF NothingBeforeStart, Requests, Tasks, ConnsClosed
    <2> QED
      BY <1>3, <2>1, <2>2, <2>4, <2>5, <2>6, <2>7, CancelProps
  <1>4. CASE s \notin Dns
    <2>1. UNCHANGED <<request, flight, inflight>>
      BY <1>4 DEF Finally
    <2>2. TypeOK'
      BY <1>1, <2>1 DEF TypeOK
    <2>3. InflightBound' /\ InflightRuns'
      BY <1>1, <1>2, <1>4, <2>1, SameTasksKeepBound
    <2>4. ConnAwaitsItsTask' /\ WaitersAreAttached' /\ EndedHasCancelled'
      BY <1>1, <1>2, <1>4, <2>1
      DEF Dns, ConnAwaitsItsTask, WaitersAreAttached, Running, EndedHasCancelled, CancelledOrOver
    <2>5. NothingBeforeStart'
      BY <1>1, <1>2, <1>4, <2>1 DEF NothingBeforeStart, ConnsClosed
    <2> QED
      BY <2>2, <2>3, <2>4, <2>5
  <1> QED
    BY <1>3, <1>4

(* A step that only moves run of servers on, and from nowhere to listening   *)
(* but when there are no tasks.                                              *)
LEMMA RunInv ==
    ASSUME ServersInv, NEW s \in Servers,
           NEW then \in {"listening", "ended", "failed"}, run' = [run EXCEPT ![s] = then],
           run[s] \in {"starting", "closing", "cancelled"},
           then = "listening" \/ then = "failed" => run[s] = "starting",
           ready' \in SUBSET Servers,
           UNCHANGED <<stop, inflight, request, conn, flight>>
    PROVE  ServersInv'
  <1> USE DEF ServersInv
  <1>1. Dns \subseteq Servers
    BY ServersAssumption DEF Dns
  <1>2. TypeOK'
    BY DEF TypeOK
  <1>3. \A u \in Servers : run'[u] = IF u = s THEN then ELSE run[u]
    BY DEF TypeOK
  <1>4. ConnAwaitsItsTask' /\ WaitersAreAttached'
    BY DEF ConnAwaitsItsTask, WaitersAreAttached, Running
  <1>5. InflightRuns' /\ NothingBeforeStart'
    BY <1>1, <1>3 DEF InflightRuns, NothingBeforeStart, ConnsClosed
  <1>6. InflightBound'
    <2>1. \A u \in Dns : run[u] = "starting" =>
            inflight[u] = {r \in Tasks(u) : request[r].pc # "free"}
      BY DEF InflightRuns, NothingBeforeStart
    <2> QED
      BY <1>1, <1>3, <2>1 DEF InflightBound
  <1>7. EndedHasCancelled'
    <2>1. s = "udp" => \A r \in Datagrams : request[r].pc = "free"
      BY DEF EndedHasCancelled, NothingBeforeStart, Dns, Tasks
    <2> QED
      BY <1>1, <1>3, <2>1 DEF EndedHasCancelled, CancelledOrOver, Dns
  <1> QED
    BY <1>2, <1>4, <1>5, <1>6, <1>7

-----------------------------------------------------------------------------
(* One lemma for every step of a client. *)
LEMMA DatagramInv ==
    ASSUME ServersInv, datagram_received
    PROVE  ServersInv'
  <1> USE DEF ServersInv
  <1> DEFINE d == CHOOSE r \in Datagrams : Idle(r)
  <1>1. d \in Datagrams /\ request[d].pc = "free"
    BY DEF datagram_received, Idle
  <1> HIDE DEF d
  <1>2. d \in Requests /\ d \in Tasks("udp") /\ d \notin Conns
    BY <1>1, ServersAssumption DEF Requests, Tasks
  <1>3. Create("udp", d) /\ Room("udp") /\ Listening("udp")
    BY DEF datagram_received, d
  <1>4. /\ request' = [request EXCEPT ![d].pc = "created"]
        /\ UNCHANGED <<run, ready, stop, conn, flight>>
    BY <1>3, ZenonT(60) DEF Create, datagram_received
  <1>5. \A r \in Requests :
          /\ request'[r] = IF r = d THEN [request[d] EXCEPT !.pc = "created"] ELSE request[r]
          /\ request[r] \in Request
    BY <1>4 DEF TypeOK
  <1>6. request' \in [Requests -> Request]
    BY <1>4, <1>5, ZenonT(60) DEF TypeOK, Request
  <1>7. inflight' \in [Dns -> SUBSET Requests]
    BY <1>2, <1>3, ZenonT(60) DEF TypeOK, Create
  <1>8. TypeOK'
    BY <1>4, <1>6, <1>7 DEF TypeOK
  <1>9. InflightBound' /\ InflightRuns'
    BY <1>1, <1>2, <1>3, <1>4, CreateKeepsBound DEF Dns
  <1>10. \A r \in Requests :
           /\ request'[r].flight = request[r].flight
           /\ r # d => request'[r].pc = request[r].pc
    BY <1>5 DEF Request
  <1>11. request'[d].pc = "created"
    BY <1>2, <1>5 DEF Request
  <1>12. EndedHasCancelled'
    BY <1>3, <1>4 DEF EndedHasCancelled, Listening
  <1>13. ConnAwaitsItsTask'
    BY <1>2, <1>4, <1>10 DEF ConnAwaitsItsTask, Requests
  <1>14. NothingBeforeStart'
    BY <1>1, <1>2, <1>3, <1>4, <1>10
       DEF NothingBeforeStart, Listening, Requests, Tasks, Dns, ConnsClosed
  <1>15. WaitersAreAttached'
    BY <1>4, <1>10, <1>11 DEF WaitersAreAttached, Running
  <1> QED
    BY <1>8, <1>9, <1>12, <1>13, <1>14, <1>15

(* A TCP connection that reads a query keeps the servers' invariant. *)
LEMMA TcpRequestInv ==
    ASSUME ServersInv, NEW c \in Conns, tcp_request(c)
    PROVE  ServersInv'
  <1> USE DEF ServersInv
  <1>1. request[c].pc = "free"
    BY DEF tcp_request, ConnAwaitsItsTask
  <1>2. c \in Requests /\ c \in Tasks("tcp") /\ c \notin Datagrams
    BY ServersAssumption DEF Requests, Tasks
  <1>3. /\ request' = [request EXCEPT ![c].pc = "created"]
        /\ conn' = [conn EXCEPT ![c] = "busy"]
        /\ UNCHANGED <<run, ready, stop, flight>>
    BY DEF Create, tcp_request
  <1>4. \A r \in Requests :
          /\ request'[r] = IF r = c THEN [request[c] EXCEPT !.pc = "created"] ELSE request[r]
          /\ request[r] \in Request
    BY <1>3 DEF TypeOK
  <1>5. request' \in [Requests -> Request]
    BY <1>3, <1>4, ZenonT(60) DEF TypeOK, Request
  <1>6. inflight' \in [Dns -> SUBSET Requests]
    BY <1>2, ZenonT(60) DEF TypeOK, tcp_request, Create
  <1>7. TypeOK'
    BY <1>3, <1>5, <1>6 DEF TypeOK
  <1>8. InflightBound' /\ InflightRuns'
    BY <1>1, <1>2, <1>3, CreateKeepsBound DEF Dns, tcp_request
  <1>9. \A r \in Requests :
          /\ request'[r].flight = request[r].flight
          /\ request'[r].pc = IF r = c THEN "created" ELSE request[r].pc
    BY <1>4 DEF Request
  <1>10. EndedHasCancelled'
    BY <1>2, <1>3, <1>9 DEF EndedHasCancelled, CancelledOrOver, Requests
  <1>11. ConnAwaitsItsTask'
    BY <1>3, <1>9 DEF ConnAwaitsItsTask, Requests, TypeOK
  <1>12. run["tcp"] \notin {"none", "starting", "failed"}
    BY DEF NothingBeforeStart, tcp_request, Dns, ConnsClosed
  <1>13. NothingBeforeStart'
    BY <1>2, <1>3, <1>9, <1>12 DEF NothingBeforeStart, Requests, Tasks, Dns
  <1>14. WaitersAreAttached'
    BY <1>3, <1>9 DEF WaitersAreAttached, Running
  <1> QED
    BY <1>7, <1>8, <1>10, <1>11, <1>13, <1>14

(* The steps of a connection that has no task. *)
LEMMA ConnInv ==
    ASSUME ServersInv, NEW c \in Conns, tcp_accept(c) \/ tcp_hangup(c) \/ tcp_lost(c)
    PROVE  ServersInv'
  <1> USE DEF ServersInv
  <1>1. /\ UNCHANGED <<run, ready, stop, inflight, request, flight>>
        /\ conn[c] # "busy"
        /\ \E x \in {"reading", "closing", "closed"} : conn' = [conn EXCEPT ![c] = x]
    BY DEF tcp_accept, tcp_hangup, tcp_lost
  <1>2. TypeOK'
    BY <1>1 DEF TypeOK
  <1>3. InflightBound' /\ InflightRuns'
    BY <1>1 DEF InflightBound, InflightRuns
  <1>4. WaitersAreAttached' /\ EndedHasCancelled'
    BY <1>1 DEF WaitersAreAttached, Running, EndedHasCancelled, CancelledOrOver
  <1>5. ConnAwaitsItsTask'
    BY <1>1 DEF ConnAwaitsItsTask, TypeOK
  <1>6. run["tcp"] \notin {"none", "starting", "failed"}
    BY DEF NothingBeforeStart, tcp_accept, tcp_hangup, tcp_lost, Listening, Dns, ConnsClosed
  <1>7. NothingBeforeStart'
    BY <1>1, <1>6 DEF NothingBeforeStart
  <1> QED
    BY <1>2, <1>3, <1>4, <1>5, <1>7

-----------------------------------------------------------------------------
(* A task that is there moves on, and stays there. *)
LEMMA TaskInv ==
    ASSUME ServersInv, NEW r \in Requests, request[r].pc # "free",
           NEW new \in Request, new.pc # "free", request' = [request EXCEPT ![r] = new],
           request[r].pc \in {"created", "resume", "drain"},
           flight' \in [Flights -> Flight], WaitersAreAttached',
           \A q \in Requests \ {r} :
             request[q].pc = "wait" => flight'[request[q].flight] = flight[request[q].flight],
           UNCHANGED <<run, ready, stop, inflight, conn>>
    PROVE  ServersInv'
  <1> USE DEF ServersInv
  <1>1. \A q \in Requests : request'[q] = IF q = r THEN new ELSE request[q]
    BY DEF TypeOK
  <1>2. TypeOK'
    BY DEF TypeOK
  <1>3. InflightBound' /\ InflightRuns'
    BY <1>1, SameTasksKeepBound
  <1>4. EndedHasCancelled'
    <2>1. \A q \in Datagrams : CancelledOrOver(q) => CancelledOrOver(q)'
      BY <1>1 DEF CancelledOrOver, Requests
    <2> QED
      BY <2>1, KeepsCancelled
  <1>5. ConnAwaitsItsTask'
    BY <1>1 DEF ConnAwaitsItsTask, Requests
  <1>6. NothingBeforeStart'
    BY <1>1 DEF NothingBeforeStart, Requests, Tasks, ConnsClosed
  <1> QED
    BY <1>2, <1>3, <1>4, <1>5, <1>6

(* A request task's first step keeps the servers' invariant. *)
LEMMA StartTaskInv ==
    ASSUME ServersInv, NEW r \in Requests, request_start(r)
    PROVE  ServersInv'
  <1> USE DEF ServersInv
  <1>1. /\ request[r] \in Request
        /\ request[r].pc = "created"
        /\ UNCHANGED <<run, ready, stop, inflight, conn>>
        /\ flight \in [Flights -> Flight]
        /\ request \in [Requests -> Request]
    BY DEF request_start, TypeOK
  <1>2. ASSUME NEW new \in Request, new.pc \in {"done", "drain"}, UNCHANGED flight,
               request' = [request EXCEPT ![r] = new]
        PROVE  ServersInv'
    <2>1. WaitersAreAttached'
      BY <1>1, <1>2 DEF WaitersAreAttached, Running
    <2>2. flight' \in [Flights -> Flight] /\ new.pc # "free" /\ request[r].pc # "free"
      BY <1>1, <1>2
    <2> QED
      BY <1>1, <1>2, <2>1, <2>2, TaskInv, ZenonT(60)
  <1>3. CASE request' = [request EXCEPT ![r].pc = "done"] /\ UNCHANGED flight
    <2> DEFINE new == [request[r] EXCEPT !.pc = "done"]
    <2>1. new \in Request /\ new.pc = "done"
      BY <1>1 DEF Request
    <2>2. request' = [request EXCEPT ![r] = new]
      BY <1>3
    <2> HIDE DEF new
    <2> QED
      BY <1>2, <1>3, <2>1, <2>2
  <1>4. ASSUME NEW size \in Sizes, NEW left \in Record, UNCHANGED flight,
               Replied(r, NewRecord(size), left)
        PROVE  ServersInv'
    <2>1. NewRecord(size) \in Record
      BY NewRecordType
    <2>2. PICK new \in Request :
            new.pc \in {"done", "drain"} /\ request' = [request EXCEPT ![r] = new]
      BY <1>4, <2>1, RepliedProps, ZenonT(60)
    <2> QED
      BY <1>2, <1>4, <2>2
  <1>5. ASSUME NEW t \in Flights,
               \/ Running(t) /\ UNCHANGED flight
               \/ Unused(t) /\ flight' = [flight EXCEPT ![t] = [NoneYet EXCEPT !.pc = "running"]],
               request' = [request EXCEPT ![r].pc = "wait", ![r].flight = t]
        PROVE  ServersInv'
    <2> DEFINE new == [request[r] EXCEPT !.pc = "wait", !.flight = t]
    <2>1. new \in Request /\ new.pc = "wait" /\ new.flight = t
      BY <1>1, ZenonT(60) DEF Request
    <2>2. request' = [request EXCEPT ![r] = new]
      BY <1>1, <1>5, ZenonT(60)
    <2> HIDE DEF new
    <2>3. flight' \in [Flights -> Flight]
      BY <1>1, <1>5, NoneYetType DEF Flight
    <2>4. /\ flight'[t].pc \in {"running", "cancelling"}
          /\ \A u \in Flights \ {t} : flight'[u] = flight[u]
          /\ \A q \in Requests : request[q].flight = t => flight'[t] = flight[t]
      BY <1>1, <1>5, NoneYetType DEF Flight, Running, Unused
    <2>5. \A q \in Requests : request'[q] = IF q = r THEN new ELSE request[q]
      BY <1>1, <2>2
    <2>6. WaitersAreAttached'
      BY <2>1, <2>4, <2>5 DEF WaitersAreAttached, Running
    <2>7. \A q \in Requests \ {r} :
            request[q].pc = "wait" => flight'[request[q].flight] = flight[request[q].flight]
      BY <2>4 DEF WaitersAreAttached
    <2>8. new.pc # "free" /\ request[r].pc # "free"
      BY <1>1, <2>1
    <2> QED
      BY <1>1, <2>1, <2>2, <2>3, <2>6, <2>7, <2>8, TaskInv, ZenonT(60)
  <1> QED
    BY <1>3, <1>4, <1>5 DEF request_start

(* A task resumed by its flight keeps the servers' invariant. *)
LEMMA ResumedInv ==
    ASSUME ServersInv, NEW r \in Requests, request_resumed(r)
    PROVE  ServersInv'
  <1> USE DEF ServersInv
  <1> DEFINE t == request[r].flight
  <1>1. /\ request[r].pc = "resume"
        /\ t \in Flights
        /\ flight[t].pc \in {"done", "failed"}
        /\ UNCHANGED <<run, ready, stop, inflight, conn>>
        /\ flight \in [Flights -> Flight]
        /\ flight[t].record \in Record
        /\ request \in [Requests -> Request]
    BY DEF request_resumed, TypeOK, WaitersAreAttached, Flight
  <1>2. ASSUME NEW record \in Record, NEW reply \in Record, NEW left \in Record,
               Replied(r, record, reply),
               flight' = [flight EXCEPT ![t] = Left(t, r, left)]
        PROVE  ServersInv'
    <2>1. PICK new \in Request :
            /\ new.pc \in {"done", "drain"}
            /\ request' = [request EXCEPT ![r] = new]
      BY <1>2, RepliedProps, ZenonT(60)
    <2>2. /\ Left(t, r, left) \in Flight
          /\ \A q \in Requests \ {r} : request[q].flight = t => Left(t, r, left).pc = flight[t].pc
      BY <1>1, <1>2, NoneYetType DEF Left, Flight
    <2>3. flight' \in [Flights -> Flight]
      BY <1>1, <1>2, <2>2
    <2>4. \A q \in Requests : request'[q] = IF q = r THEN new ELSE request[q]
      BY <1>1, <2>1
    <2>5. \A q \in Requests \ {r} : request[q].flight \in Flights =>
            flight'[request[q].flight].pc = flight[request[q].flight].pc
      BY <1>1, <1>2, <2>2
    <2>6. WaitersAreAttached'
      BY <2>1, <2>4, <2>5 DEF WaitersAreAttached, Running
    <2>7. \A q \in Requests \ {r} :
            request[q].pc = "wait" => flight'[request[q].flight] = flight[request[q].flight]
      BY <1>1, <1>2 DEF WaitersAreAttached, Running
    <2>8. new.pc # "free" /\ request[r].pc # "free"
      BY <1>1, <2>1
    <2> QED
      BY <1>1, <2>1, <2>3, <2>6, <2>7, <2>8, TaskInv, ZenonT(60)
  <1>3. \/ \E left \in Record :
             /\ Replied(r, flight[t].record, left)
             /\ flight' = [flight EXCEPT ![t] = Left(t, r, left)]
        \/ /\ \E size \in Sizes, left \in Record : Replied(r, NewRecord(size), left)
           /\ flight' = [flight EXCEPT ![t] = Left(t, r, flight[t].record)]
    BY <1>1 DEF request_resumed
  <1> HIDE DEF t
  <1> QED
    BY <1>1, <1>2, <1>3, NewRecordType

(* A task whose reply is drained keeps the servers' invariant. *)
LEMMA DrainedInv ==
    ASSUME ServersInv, NEW r \in Requests, request_drained(r)
    PROVE  ServersInv'
  <1> USE DEF ServersInv
  <1> DEFINE new == [request[r] EXCEPT !.pc = "done"]
  <1>1. /\ request[r] \in Request
        /\ request[r].pc = "drain"
        /\ UNCHANGED <<run, ready, stop, inflight, conn, flight>>
        /\ flight \in [Flights -> Flight]
        /\ request \in [Requests -> Request]
    BY DEF request_drained, TypeOK
  <1>2. new \in Request /\ new.pc = "done"
    BY <1>1 DEF Request
  <1>3. request' = [request EXCEPT ![r] = new]
    BY DEF request_drained
  <1> HIDE DEF new
  <1>4. WaitersAreAttached'
    BY <1>1, <1>2, <1>3 DEF WaitersAreAttached, Running
  <1>5. flight' \in [Flights -> Flight] /\ new.pc # "free" /\ request[r].pc # "free"
    BY <1>1, <1>2
  <1> QED
    BY <1>1, <1>2, <1>3, <1>4, <1>5, TaskInv, ZenonT(60)

(* A task's done callback keeps the servers' invariant. *)
LEMMA DoneInv ==
    ASSUME ServersInv, NEW r \in Requests, request_done(r)
    PROVE  ServersInv'
  <1> USE DEF ServersInv
  <1>1. /\ request[r].pc \in {"done", "cancel"}
        /\ request' = [request EXCEPT ![r] = Free]
        /\ inflight' = [s \in Dns |-> inflight[s] \ {r}]
        /\ UNCHANGED <<run, ready, stop, flight>>
        /\ request \in [Requests -> Request]
    BY DEF request_done, TypeOK
  <1>2. \A q \in Requests : request'[q] = IF q = r THEN Free ELSE request[q]
    BY <1>1
  <1>3. \A c \in Conns : conn'[c] = IF c # r THEN conn[c]
                                    ELSE IF request[r].pc = "done" THEN "reading" ELSE "closing"
    BY DEF request_done
  <1>4. conn' \in [Conns -> {"closed", "reading", "busy", "closing"}]
    BY DEF request_done, TypeOK
  <1>5. request' \in [Requests -> Request]
    BY <1>1, FreeTypes
  <1>6. TypeOK'
    BY <1>1, <1>4, <1>5 DEF TypeOK
  <1>7. InflightBound' /\ InflightRuns'
    BY <1>1, DoneKeepsBound, ZenonT(60)
  <1>8. EndedHasCancelled'
    <2>1. \A q \in Datagrams : CancelledOrOver(q) => CancelledOrOver(q)'
      BY <1>1, <1>2, FreeTypes DEF CancelledOrOver, Requests
    <2> QED
      BY <1>1, <2>1, KeepsCancelled
  <1>9. ConnAwaitsItsTask'
    BY <1>2, <1>3, FreeTypes DEF ConnAwaitsItsTask, Requests
  <1>10. \A s \in Dns : run[s] \in {"none", "starting", "failed"} => r \notin Tasks(s)
    BY <1>1 DEF NothingBeforeStart
  <1>11. NothingBeforeStart'
    BY <1>1, <1>2, <1>3, <1>10, FreeTypes
       DEF NothingBeforeStart, Requests, Tasks, Dns, ConnsClosed
  <1>12. WaitersAreAttached'
    BY <1>1, <1>2, FreeTypes DEF WaitersAreAttached, Running
  <1> QED
    BY <1>6, <1>7, <1>8, <1>9, <1>11, <1>12

(* A flight ends and wakes those who wait for it. *)
LEMMA FlightInv ==
    ASSUME ServersInv, NEW t \in Flights, FlightStep(t)
    PROVE  ServersInv'
  <1> USE DEF ServersInv
  <1>1. /\ Running(t)
        /\ UNCHANGED <<run, ready, stop, inflight, conn>>
        /\ request \in [Requests -> Request]
        /\ flight \in [Flights -> Flight]
    BY DEF FlightStep, flight_return, flight_cancelled, Running, TypeOK
  <1>2. PICK pc \in {"resume", "cancel"}, new \in Flight :
          /\ Wake(t, pc)
          /\ flight' = [flight EXCEPT ![t] = new]
          /\ pc = "resume" => new.pc \in {"done", "failed"} /\ flight[t].pc = "running"
    <2>1. CASE flight_cancelled(t)
      BY <2>1, NoneYetType, ZenonT(60) DEF flight_cancelled
    <2>2. ASSUME NEW size \in Sizes,
                 flight' = [flight EXCEPT ![t] = [pc |-> "done", record |-> NewRecord(size)]]
          PROVE  \E new \in Flight :
                   flight' = [flight EXCEPT ![t] = new] /\ new.pc \in {"done", "failed"}
      <3> DEFINE new == [pc |-> "done", record |-> NewRecord(size)]
      <3>1. new \in Flight /\ new.pc = "done"
        BY NewRecordType DEF Flight
      <3> QED
        BY <2>2, <3>1, ZenonT(60)
    <2>3. ASSUME flight' = [flight EXCEPT ![t].pc = "failed"]
          PROVE  \E new \in Flight :
                   flight' = [flight EXCEPT ![t] = new] /\ new.pc \in {"done", "failed"}
      <3>1. [flight[t] EXCEPT !.pc = "failed"] \in Flight
        BY <1>1 DEF Flight
      <3>2. [flight[t] EXCEPT !.pc = "failed"].pc = "failed"
        BY <1>1 DEF Flight
      <3> QED
        BY <2>3, <3>1, <3>2, ZenonT(60)
    <2>4. CASE flight_return(t)
      BY <2>2, <2>3, <2>4 DEF flight_return
    <2> QED
      BY <2>1, <2>4 DEF FlightStep
  <1>3. \A r \in Requests :
          /\ request'[r] \in Request
          /\ IF request[r].pc = "wait" /\ request[r].flight = t
             THEN request'[r].pc = pc /\ (pc = "resume" => request'[r].flight = t)
             ELSE request'[r] = request[r]
    BY <1>1, <1>2, ZenonT(60) DEF Wake, Request
  <1>4. request' \in [Requests -> Request] /\ flight' \in [Flights -> Flight]
    BY <1>1, <1>2, <1>3, ZenonT(60) DEF Wake
  <1>5. TypeOK'
    BY <1>1, <1>4 DEF TypeOK
  <1>6. \A r \in Requests : request'[r].pc = "free" <=> request[r].pc = "free"
    BY <1>2, <1>3
  <1>7. InflightBound' /\ InflightRuns'
    BY <1>1, <1>6, SameTasksKeepBound
  <1>9. ConnAwaitsItsTask'
    BY <1>1, <1>6 DEF ConnAwaitsItsTask, Requests
  <1>10. NothingBeforeStart'
    BY <1>1, <1>6 DEF NothingBeforeStart, Requests, Tasks, ConnsClosed
  <1>11. \A u \in Flights : flight'[u] = IF u = t THEN new ELSE flight[u]
    BY <1>1, <1>2
  <1>12. WaitersAreAttached'
    BY <1>1, <1>2, <1>3, <1>11 DEF WaitersAreAttached, Running
  <1>13. EndedHasCancelled'
    <2>1. ASSUME NEW r \in Datagrams, CancelledOrOver(r)
          PROVE  CancelledOrOver(r)'
      <3>1. r \in Requests
        BY DEF Requests
      <3>2. CASE request[r].pc = "wait" /\ request[r].flight = t
        BY <1>2, <1>3, <2>1, <3>1, <3>2 DEF CancelledOrOver
      <3>3. CASE ~(request[r].pc = "wait" /\ request[r].flight = t)
        <4>1. request'[r] = request[r]
          BY <1>3, <3>1, <3>3
        <4>2. request[r].pc = "wait" => flight'[request[r].flight] = flight[request[r].flight]
          BY <1>11, <3>1, <3>3 DEF WaitersAreAttached
        <4> QED
          BY <2>1, <4>1, <4>2 DEF CancelledOrOver
      <3> QED
        BY <3>2, <3>3
    <2> QED
      BY <1>1, <2>1, KeepsCancelled
  <1> QED
    BY <1>5, <1>7, <1>9, <1>10, <1>12, <1>13

-----------------------------------------------------------------------------
(* The steps of run. *)
LEMMA ServerStepInv ==
    ASSUME ServersInv, NEW s \in Servers, ServerStep(s) \/ server_cancelled(s)
    PROVE  ServersInv'
  <1>1. ready \in SUBSET Servers
    BY DEF ServersInv, TypeOK
  <1>2. CASE server_start(s)
    <2>1. ready' \in SUBSET Servers
      BY <1>1, <1>2 DEF server_start
    <2>2. CASE s \in stop
      BY <1>2, <2>1, <2>2, FinallyInv DEF server_start
    <2>3. CASE s \notin stop
      BY <1>2, <2>1, <2>3, RunInv DEF server_start
    <2> QED
      BY <2>2, <2>3
  <1>3. CASE server_fail(s)
    BY <1>1, <1>3, RunInv, ZenonT(60) DEF server_fail
  <1>4. CASE server_stops(s)
    BY <1>1, <1>4, FinallyInv DEF server_stops
  <1>5. CASE server_closed(s)
    BY <1>1, <1>5, RunInv, ZenonT(60) DEF server_closed
  <1>6. CASE server_cancelled(s)
    <2>1. CASE run[s] = "listening"
      BY <1>1, <1>6, <2>1, FinallyInv DEF server_cancelled
    <2>2. CASE run[s] # "listening"
      BY <1>1, <1>6, <2>2, RunInv DEF server_cancelled
    <2> QED
      BY <2>1, <2>2
  <1> QED
    BY <1>2, <1>3, <1>4, <1>5, <1>6 DEF ServerStep

(* Every step of the servers keeps their invariant, whatever main does. *)
LEMMA ServersNextInv ==
    ASSUME ServersInv, ServersNext
    PROVE  ServersInv'
  BY ServerStepInv, StartTaskInv, ResumedInv, DrainedInv, DoneInv, FlightInv,
     DatagramInv, TcpRequestInv, ConnInv
     DEF ServersNext, RequestStep, ClientStep

(* A step that leaves the servers alone but for their stop events. *)
LEMMA StopInv ==
    ASSUME ServersInv, stop' \in SUBSET Servers,
           UNCHANGED <<run, ready, inflight, request, conn, flight>>
    PROVE  ServersInv'
  BY DEF ServersInv, TypeOK, InflightBound, InflightRuns, ConnAwaitsItsTask, NothingBeforeStart,
         ConnsClosed, WaitersAreAttached, Running, EndedHasCancelled, CancelledOrOver

(* Creating the server tasks keeps the servers' invariant. *)
LEMMA BuildInv ==
    ASSUME ServersInv, \A s \in Servers : run[s] = "none",
           run' = [s \in Servers |-> "starting"],
           UNCHANGED <<ready, stop, inflight, request, conn, flight>>
    PROVE  ServersInv'
  <1>1. Dns \subseteq Servers
    BY ServersAssumption DEF Dns
  <1>2. \A s \in Servers : run'[s] = "starting"
    OBVIOUS
  <1>3. InflightBound' /\ NothingBeforeStart'
    BY <1>1, <1>2 DEF ServersInv, InflightBound, NothingBeforeStart, ConnsClosed
  <1>4. TypeOK'
    BY DEF ServersInv, TypeOK
  <1>5. EndedHasCancelled'
    BY <1>1, <1>2 DEF EndedHasCancelled, Dns
  <1> QED
    BY <1>3, <1>4, <1>5, ZenonT(60)
    DEF ServersInv, InflightRuns, ConnAwaitsItsTask, WaitersAreAttached, Running

-----------------------------------------------------------------------------
(* What main may know of a step of the event loop: the servers that are over *)
(* stay over, none fails but while it starts, ready events stay set and are  *)
(* set when a server listens, and when tcp does not listen no connection     *)
(* comes back.                                                               *)
Moves ==
    /\ ready \subseteq ready'
    /\ \A s \in Servers :
         /\ Over(s) \/ run[s] = "none" => run'[s] = run[s]
         /\ run'[s] = run[s] \/ run'[s] \in {"listening", "closing", "ended"} \/ run'[s] = "failed"
         /\ run'[s] # run[s] /\ run'[s] \in {"listening", "closing", "ended"} => s \in ready'
    /\ run'["tcp"] = "ended" /\ run["tcp"] # "ended" /\ waits => ConnsClosed'
    /\ run["tcp"] = "ended" /\ ConnsClosed => ConnsClosed'
ReadyWhenListening ==
    \A s \in Servers : run[s] \in {"listening", "closing", "cancelled"} => s \in ready

(* A step of a server, as main sees it: what is over stays over. *)
LEMMA ServerStepMoves ==
    ASSUME ServersInv, ReadyWhenListening, NEW s \in Servers, ServerStep(s)
    PROVE  Moves
  <1>1. run \in [Servers -> {"none", "starting", "listening", "closing", "cancelled",
                             "ended", "failed"}]
    BY DEF ServersInv, TypeOK
  <1>2. "tcp" \in Servers
    BY ServersAssumption
  <1>3. conn' = conn
    BY DEF ServerStep, server_start, server_fail, server_stops, server_closed
  <1>4. PICK x \in {"listening", "closing", "ended", "failed"} :
          /\ run' = [run EXCEPT ![s] = x]
          /\ run[s] \in {"starting", "listening", "closing", "cancelled"}
          /\ ready \subseteq ready'
          /\ x # "failed" => s \in ready'
          /\ s = "tcp" /\ x = "ended" /\ waits => ConnsClosed
    BY DEF ServerStep, server_start, server_fail, server_stops, server_closed, Finally,
           ReadyWhenListening
  <1>5. \A u \in Servers : run'[u] = IF u = s THEN x ELSE run[u]
    BY <1>1, <1>4
  <1> QED
    BY <1>2, <1>3, <1>4, <1>5 DEF Moves, Over, ConnsClosed

(* Every step of the servers, as main sees it: what is over stays over. *)
LEMMA LoopMoves ==
    ASSUME ServersInv, ReadyWhenListening, ServersNext
    PROVE  Moves
  <1>1. "tcp" \in Servers
    BY ServersAssumption
  <1>2. ASSUME UNCHANGED <<run, ready>>,
               \A c \in Conns : conn[c] = "closed" /\ run["tcp"] = "ended" => conn'[c] = "closed"
        PROVE  Moves
    BY <1>1, <1>2 DEF Moves, ConnsClosed
  <1>3. ASSUME NEW s \in Servers, ServerStep(s)
        PROVE  Moves
    BY <1>3, ServerStepMoves
  <1>4. ASSUME NEW r \in Requests, RequestStep(r)
        PROVE  Moves
    <2>1. CASE request_done(r)
      BY <1>2, <2>1 DEF request_done, ServersInv, ConnAwaitsItsTask
    <2>2. CASE ~request_done(r)
      BY <1>2, <1>4, <2>2 DEF RequestStep, request_start, request_resumed, request_drained
    <2> QED
      BY <2>1, <2>2
  <1>5. ASSUME NEW t \in Flights, FlightStep(t)
        PROVE  Moves
    BY <1>2, <1>5 DEF FlightStep, flight_return, flight_cancelled
  <1>6. CASE datagram_received
    BY <1>2, <1>6 DEF datagram_received
  <1>7. ASSUME NEW c \in Conns, tcp_accept(c) \/ tcp_request(c) \/ tcp_hangup(c) \/ tcp_lost(c)
        PROVE  Moves
    <2>1. conn \in [Conns -> {"closed", "reading", "busy", "closing"}]
      BY DEF ServersInv, TypeOK
    <2> QED
      BY <1>2, <1>7, <2>1 DEF tcp_accept, tcp_request, tcp_hangup, tcp_lost, Listening
  <1> QED
    BY <1>3, <1>4, <1>5, <1>6, <1>7 DEF ServersNext, ClientStep

-----------------------------------------------------------------------------
(* The invariant holds when the process starts. *)
LEMMA InitInv == Init => IInv
  <1> SUFFICES ASSUME Init PROVE IInv
    OBVIOUS
  <1> USE DEF Init, ServersInit
  <1>1. Dns \subseteq Servers /\ "tcp" \in Servers
    BY ServersAssumption DEF Dns
  <1>2. TypeOK
    BY FreeTypes, NoneYetType DEF TypeOK
  <1>3. MainTypeOK
    BY <1>2, ZenonT(60) DEF MainTypeOK
  <1>4. \A s \in Dns : inflight[s] = {} /\ Tasks(s) \subseteq Requests
    BY DEF Tasks, Dns, Requests
  <1>5. \A r \in Requests : request[r] = Free
    OBVIOUS
  <1>6. Cardinality({}) = 0 /\ 0 <= max_inflight
    BY FS_EmptySet, ServersAssumption
  <1>7. InflightBound /\ InflightRuns
    BY <1>1, <1>4, <1>6 DEF InflightBound, InflightRuns
  <1>8. WaitersAreAttached /\ EndedHasCancelled
    BY <1>1, <1>5, FreeTypes DEF WaitersAreAttached, EndedHasCancelled, Dns
  <1>9. ConnAwaitsItsTask
    BY <1>5, FreeTypes DEF ConnAwaitsItsTask, Requests
  <1>10. NothingBeforeStart
    BY <1>4, <1>5, FreeTypes DEF NothingBeforeStart, ConnsClosed
  <1>11. ReadyBefore /\ NothingBuilt /\ TakenDown
    BY <1>1 DEF ReadyBefore, NothingBuilt, TakenDown
  <1>12. UpstreamClosedLast /\ ExitClosesUpstream
    BY DEF UpstreamClosedLast, ExitClosesUpstream
  <1> QED
    BY <1>2, <1>3, <1>7, <1>8, <1>9, <1>10, <1>11, <1>12 DEF IInv, ServersInv

(* A step of the event loop. *)
LEMMA LoopInv ==
    ASSUME IInv, LoopStep
    PROVE  IInv'
  <1> USE DEF IInv
  <1>1. main # "exit" /\ ServersNext /\ UNCHANGED mainVars
    BY DEF LoopStep
  <1>2. "tcp" \in Servers
    BY ServersAssumption
  <1>3. ServersInv'
    BY <1>1, ServersNextInv
  <1>4. MainTypeOK'
    BY <1>1, <1>3 DEF ServersInv, MainTypeOK, mainVars
  <1>5. Moves
    BY <1>1, LoopMoves DEF ReadyBefore, ReadyWhenListening
  <1>6. ready' \subseteq Servers
    BY <1>3 DEF ServersInv, TypeOK
  <1>7. ReadyBefore'
    BY <1>1, <1>5 DEF ReadyBefore, Moves, mainVars
  <1>8. NothingBuilt'
    BY <1>1, <1>5 DEF NothingBuilt, Moves, mainVars
  <1>9. \A s \in Servers : (Over(s) => Over(s)') /\ (run[s] = "failed" => run'[s] = "failed")
    BY <1>5 DEF Moves, Over
  <1>10. waits /\ run'["tcp"] = "ended" /\ (\A s \in Servers : run'[s] # "failed") => ConnsClosed'
    BY <1>2, <1>5, <1>9 DEF TakenDown, Moves
  <1>11. TakenDown'
    BY <1>1, <1>9, <1>10 DEF TakenDown, mainVars
  <1>12. UpstreamClosedLast'
    BY <1>1, <1>2, <1>5, <1>9, <1>10 DEF UpstreamClosedLast, mainVars, Moves, Over
  <1>13. ExitClosesUpstream'
    BY <1>1 DEF ExitClosesUpstream, mainVars
  <1> QED
    BY <1>3, <1>4, <1>7, <1>8, <1>11, <1>12, <1>13

(* The steps of main before there are servers. *)
LEMMA BeforeInv ==
    ASSUME IInv, main_config \/ main_check \/ main_build
    PROVE  IInv'
  <1> USE DEF IInv
  <1>1. "tcp" \in Servers
    BY ServersAssumption
  <1>2. main \in {"config", "check", "build"} /\ upstream = "none" /\ ~refresh
    BY DEF main_config, main_check, main_build, NothingBuilt, TakenDown
  <1>3. \A s \in Servers : run[s] = "none"
    BY <1>2 DEF NothingBuilt
  <1>4. ServersInv'
    <2>1. stop \in SUBSET Servers
      BY DEF ServersInv, TypeOK
    <2> QED
      BY <1>3, <2>1, StopInv, BuildInv DEF main_config, main_check, main_build, serverVars
  <1>5. \A s \in Servers : run'[s] \in {"none", "starting"}
    BY <1>3 DEF main_config, main_check, main_build, serverVars
  <1>6. /\ main' \in {"check", "build", "udp", "exit"}
        /\ main' \in {"check", "build"} => upstream' = "none" /\ UNCHANGED run
        /\ main' = "exit" => UNCHANGED run
        /\ upstream' \in {"none", "open"}
        /\ cfg' \in {cfg, NoConfig}
        /\ UNCHANGED <<ready, is_ready, refresh>>
    BY <1>2 DEF main_config, main_check, main_build, serverVars
  <1>7. MainTypeOK'
    BY <1>4, <1>6 DEF ServersInv, MainTypeOK
  <1>8. ReadyBefore'
    BY <1>5, <1>6 DEF ReadyBefore
  <1>9. NothingBuilt' /\ ExitClosesUpstream'
    BY <1>3, <1>6 DEF NothingBuilt, ExitClosesUpstream
  <1>10. TakenDown' /\ UpstreamClosedLast'
    BY <1>1, <1>2, <1>5, <1>6 DEF TakenDown, UpstreamClosedLast
  <1> QED
    BY <1>4, <1>7, <1>8, <1>9, <1>10

(* main learns that a server is ready, or that it is gone. *)
LEMMA WaitReadyInv ==
    ASSUME IInv, NEW s \in Servers, wait_ready(s)
    PROVE  IInv'
  <1> USE DEF IInv
  <1>1. /\ Servers \in {{"udp", "tcp"}, {"udp", "tcp", "metrics"}}
        /\ UNCHANGED <<run, ready, stop, inflight, request, conn, flight, cfg, upstream>>
        /\ main = s
        /\ s \in {"udp", "tcp", "metrics"}
    BY ServersAssumption DEF wait_ready, serverVars
  <1>2. stop' \in SUBSET Servers
    BY <1>1 DEF ServersInv, TypeOK
  <1>3. ServersInv'
    BY <1>1, <1>2, StopInv
  <1>4. /\ main' \in {"finally", "tcp", "metrics", "serving"}
        /\ main' = "finally" => run[s] = "failed"
        /\ main' # "finally" => run[s] # "failed" /\ main' = AfterReady(s)
        /\ is_ready' = (main' = "serving")
        /\ refresh' \in BOOLEAN
        /\ refresh' => main' = "serving"
    BY <1>1, MainAssumption, ZenonT(60) DEF wait_ready, AfterReady
  <1>5. main' # "finally" => s \in ready
    BY <1>1, <1>4 DEF wait_ready, Over, ReadyBefore
  <1>6. main' = "serving" => Servers \subseteq ready
    BY <1>1, <1>4, <1>5 DEF AfterReady, ReadyBefore
  <1>7. ReadyBefore'
    BY <1>1, <1>4, <1>5, <1>6 DEF ReadyBefore, AfterReady
  <1>8. upstream # "closed"
    BY <1>1 DEF TakenDown
  <1>9. TakenDown'
    BY <1>1, <1>4, <1>8 DEF TakenDown, Over, ConnsClosed
  <1>10. MainTypeOK'
    BY <1>1, <1>3, <1>4 DEF ServersInv, MainTypeOK
  <1>11. NothingBuilt' /\ UpstreamClosedLast' /\ ExitClosesUpstream'
    BY <1>1, <1>4, <1>8 DEF NothingBuilt, UpstreamClosedLast, ExitClosesUpstream
  <1> QED
    BY <1>3, <1>7, <1>9, <1>10, <1>11

(* The other steps of main that leave run alone. *)
LEMMA DownInv ==
    ASSUME IInv, main_gathered \/ main_finally \/ main_closes \/ main_exit \/ stop_signal
    PROVE  IInv'
  <1> USE DEF IInv
  <1>1. UNCHANGED <<run, ready, inflight, request, conn, flight, cfg, is_ready>>
    BY DEF main_gathered, main_finally, main_closes, main_exit, stop_signal, serverVars, mainVars
  <1>2. stop' \in SUBSET Servers
    BY DEF main_gathered, main_finally, main_closes, main_exit, stop_signal, serverVars,
           ServersInv, TypeOK
  <1>3. ServersInv'
    BY <1>1, <1>2, StopInv
  <1>4. MainTypeOK'
    BY <1>1, <1>3, ZenonT(60)
    DEF ServersInv, MainTypeOK, main_gathered, main_finally, main_closes, main_exit,
        stop_signal, mainVars
  <1>5. ReadyBefore'
    BY <1>1 DEF ReadyBefore, main_gathered, main_finally, main_closes, main_exit, stop_signal,
                mainVars
  <1>6. NothingBuilt' /\ ExitClosesUpstream'
    BY <1>1 DEF NothingBuilt, ExitClosesUpstream, TakenDown, main_gathered, main_finally,
                main_closes, main_exit, stop_signal, mainVars
  <1>7. TakenDown'
    BY <1>1 DEF TakenDown, Over, ConnsClosed, main_gathered, main_finally, main_closes,
                main_exit, stop_signal, mainVars
  <1>8. UpstreamClosedLast'
    <2>1. CASE main_closes
      <3>1. "tcp" \in Servers
        BY ServersAssumption
      <3> QED
        BY <1>1, <2>1, <3>1 DEF UpstreamClosedLast, TakenDown, Over, ConnsClosed, main_closes
    <2>2. CASE ~main_closes
      BY <1>1, <2>2 DEF UpstreamClosedLast, TakenDown, Over, ConnsClosed, main_gathered,
                        main_finally, main_exit, stop_signal, mainVars
    <2> QED
      BY <2>1, <2>2
  <1> QED
    BY <1>3, <1>4, <1>5, <1>6, <1>7, <1>8

(* main cancels servers that run only if one has failed, in which case no    *)
(* promise about connections is made.                                        *)
LEMMA CancelsInv ==
    ASSUME IInv, NEW s \in Servers, main_cancels(s)
    PROVE  IInv'
  <1> USE DEF IInv
  <1>1. main = "tasks" /\ server_cancelled(s) /\ UNCHANGED mainVars
    BY DEF main_cancels
  <1>2. ServersInv'
    BY <1>1, ServerStepInv
  <1>3. /\ run \in [Servers -> {"none", "starting", "listening", "closing", "cancelled",
                                "ended", "failed"}]
        /\ "tcp" \in Servers
    BY ServersAssumption DEF ServersInv, TypeOK
  <1>4. PICK x \in {"ended", "cancelled"} :
          /\ run' = [run EXCEPT ![s] = x]
          /\ run[s] \in {"starting", "listening", "closing"}
          /\ x = "cancelled" => run[s] = "listening"
          /\ UNCHANGED <<ready, stop, conn>>
    BY <1>1 DEF server_cancelled, Finally
  <1>5. \A u \in Servers : run'[u] = IF u = s THEN x ELSE run[u]
    BY <1>3, <1>4
  <1>6. \E u \in Servers : run[u] = "failed" /\ run'[u] = "failed"
    BY <1>1, <1>4, <1>5 DEF TakenDown, Over
  <1>7. MainTypeOK'
    BY <1>1, <1>2 DEF ServersInv, MainTypeOK, mainVars
  <1>8. ReadyBefore'
    BY <1>1, <1>4, <1>5 DEF ReadyBefore, mainVars
  <1>9. TakenDown'
    BY <1>1, <1>6 DEF TakenDown, mainVars
  <1>10. upstream # "closed"
    BY <1>1 DEF TakenDown
  <1>11. NothingBuilt' /\ UpstreamClosedLast' /\ ExitClosesUpstream'
    BY <1>1, <1>10 DEF NothingBuilt, UpstreamClosedLast, ExitClosesUpstream, mainVars
  <1> QED
    BY <1>2, <1>7, <1>8, <1>9, <1>11

-----------------------------------------------------------------------------
(* Every step of the process keeps the invariant. *)
LEMMA NextInv == IInv /\ [Next]_vars => IInv'
  <1> SUFFICES ASSUME IInv, [Next]_vars PROVE IInv'
    OBVIOUS
  <1>1. CASE UNCHANGED vars
    <2>1. UNCHANGED <<run, ready, stop, inflight, request, conn, flight, main, cfg, is_ready,
                      refresh, upstream>>
      BY <1>1 DEF vars, serverVars, mainVars
    <2>2. ServersInv'
      <3>1. stop' \in SUBSET Servers
        BY <2>1 DEF IInv, ServersInv, TypeOK
      <3> QED
        BY <2>1, <3>1, StopInv DEF IInv
    <2> QED
      BY <2>1, <2>2
      DEF IInv, ServersInv, MainTypeOK, ReadyBefore, NothingBuilt, TakenDown, Over, ConnsClosed,
          UpstreamClosedLast, ExitClosesUpstream
  <1>2. CASE Next
    BY <1>2, LoopInv, BeforeInv, WaitReadyInv, DownInv, CancelsInv DEF Next, MainStep
  <1> QED
    BY <1>1, <1>2

(* The inductive invariant holds throughout. *)
LEMMA Invariant == Spec => []IInv
  BY InitInv, NextInv, PTL DEF Spec

(* MainTypeOK: the state of servers and main is what the code declares, with *)
(* tasks, flights and connections only ever in the states named there.       *)
THEOREM TypeCorrect == Spec => []MainTypeOK
  <1>1. IInv => MainTypeOK
    BY DEF IInv
  <1> QED
    BY <1>1, Invariant, PTL

(* InflightBound: whatever the arrivals and callbacks, neither DNS server    *)
(* runs more tasks than max_inflight until it stops.                         *)
THEOREM ServersAreBounded == Spec => []InflightBound
  <1>1. IInv => InflightBound
    BY DEF IInv, ServersInv
  <1> QED
    BY <1>1, Invariant, PTL

(* WaitsAreBacked: a connection awaits a task that is there, and a task a    *)
(* flight that runs, also while one of the servers cancels its tasks.        *)
THEOREM NobodyIsForgotten == Spec => []WaitsAreBacked
  <1>1. IInv => WaitsAreBacked
    BY DEF IInv, ServersInv, WaitsAreBacked
  <1> QED
    BY <1>1, Invariant, PTL

(* ReadyOnlyAfterListeners: /readyz is 200 only after all servers listened. *)
THEOREM ReadyIsTrue == Spec => []ReadyOnlyAfterListeners
  <1>1. IInv => ReadyOnlyAfterListeners
    BY DEF IInv, ReadyBefore, ReadyOnlyAfterListeners, HttpStatus
  <1> QED
    BY <1>1, Invariant, PTL

(* UpstreamClosedLast: the upstream is closed when no server, no refresh     *)
(* task and, after a regular stop, no TCP connection is left to use it.      *)
THEOREM UpstreamOutlivesServers == Spec => []UpstreamClosedLast
  <1>1. IInv => UpstreamClosedLast
    BY DEF IInv
  <1> QED
    BY <1>1, Invariant, PTL

(* ExitClosesUpstream: once servers were started, the process does not exit  *)
(* with the upstream open, also when a server could not bind.                *)
THEOREM ExitIsClean == Spec => []ExitClosesUpstream
  <1>1. IInv => ExitClosesUpstream
    BY DEF IInv
  <1> QED
    BY <1>1, Invariant, PTL

(* NothingAsksTheClosed: when the upstream is closed, every query task that  *)
(* could still ask it has been cancelled, although no server awaits its own. *)
THEOREM NoQueryMeetsTheClosed == Spec => []NothingAsksTheClosed
  <1>1. ASSUME IInv PROVE NothingAsksTheClosed
    <2> SUFFICES ASSUME upstream = "closed", NEW r \in Requests,
                        r \in Datagrams \/ (waits /\ \A s \in Servers : run[s] # "failed")
                 PROVE  CancelledOrOver(r)
      BY DEF NothingAsksTheClosed
    <2> USE <1>1 DEF IInv, ServersInv
    <2>1. CASE r \in Datagrams
      <3>1. run["udp"] \in {"ended", "failed"}
        BY ServersAssumption DEF UpstreamClosedLast, Over
      <3>2. CASE run["udp"] = "ended"
        BY <2>1, <3>2 DEF EndedHasCancelled
      <3>3. CASE run["udp"] = "failed"
        BY <2>1, <3>3 DEF NothingBeforeStart, Dns, Tasks, CancelledOrOver
      <3> QED
        BY <3>1, <3>2, <3>3
    <2>2. CASE r \notin Datagrams
      <3>1. r \in Conns /\ ConnsClosed
        BY <2>2 DEF Requests, UpstreamClosedLast
      <3> QED
        BY <3>1 DEF ConnsClosed, ConnAwaitsItsTask, CancelledOrOver
    <2> QED
      BY <2>1, <2>2
  <1> QED
    BY <1>1, Invariant, PTL
=============================================================================
