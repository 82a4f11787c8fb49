----------------------------- MODULE DnsServers -----------------------------
(***************************************************************************)
(* The UDP and TCP DNS servers and the metrics server                       *)
(* (src/resilientdns/dns/server.py): one task per request, a limit on the   *)
(* tasks of each DNS server, and the end of run.                            *)
(*                                                                         *)
(* Of the handler, the servers see that handle answers at once with a       *)
(* record of its own, or waits for a flight whose record all who wait for   *)
(* it share (see DnsHandler and SingleFlight).  One key stands for all: two *)
(* requests of different keys share nothing.                                *)
(*                                                                         *)
(* A step is what the event loop runs between two suspensions.              *)
(***************************************************************************)
EXTENDS Naturals, FiniteSets

CONSTANTS
    Servers,    \* the servers main starts: "udp", "tcp" and maybe "metrics"
    Datagrams,  \* tasks of _handle_datagram
    Conns,      \* TCP connections of clients, each with its _handle_request
    Flights,    \* tasks of SingleFlight
    NoFlight, NoAnswer,
    max_inflight,
    waits       \* Server.wait_closed waits for connections (Python 3.12.1 on)

ASSUME ServersAssumption ==
    /\ Servers \in {{"udp", "tcp"}, {"udp", "tcp", "metrics"}}
    /\ IsFiniteSet(Datagrams) /\ IsFiniteSet(Conns)
    /\ Datagrams \cap Conns = {}
    /\ max_inflight \in Nat \ {0}
    /\ waits \in BOOLEAN
    /\ NoFlight \notin Flights

VARIABLES
    run,        \* per server: where its run is
    ready,      \* the servers whose ready event is set
    stop,       \* the servers whose _stop_event is set
    inflight,   \* _inflight of the two DNS servers
    request,    \* per task: where it is
    conn,       \* per TCP connection: where _handle_client is
    flight      \* per flight: where it is, and its record once it is done

serverVars == <<run, ready, stop, inflight, request, conn, flight>>

Dns == {"udp", "tcp"}

(* The tasks.  _handle_client awaits the task of a request before it reads   *)
(* the next one, so that the connection names it.                            *)
Requests == Datagrams \cup Conns
Tasks(s) == IF s = "udp" THEN Datagrams ELSE Conns

(* The size of a record: up to max_udp_payload; more, but not without its    *)
(* answers; or more even then, for its questions.  cut: it was truncated.    *)
Sizes == {"small", "big", "huge"}
Record == [size : Sizes, cut : BOOLEAN]

(* "cancel": CancelledError is about to be raised in the task. *)
Request ==
    [pc : {"free", "created", "wait", "resume", "drain", "cancel", "done"},
     flight : Flights \cup {NoFlight}, answer : Record \cup {NoAnswer}]
Flight == [pc : {"none", "running", "cancelling", "done", "failed"}, record : Record]
NewRecord(size) == [size |-> size, cut |-> FALSE]
Free == [pc |-> "free", flight |-> NoFlight, answer |-> NoAnswer]
NoneYet == [pc |-> "none", record |-> NewRecord("small")]

TypeOK ==
    /\ run \in [Servers ->
         {"none", "starting", "listening", "closing", "cancelled", "ended", "failed"}]
    /\ ready \in SUBSET Servers
    /\ stop \in SUBSET Servers
    /\ inflight \in [Dns -> SUBSET Requests]
    /\ request \in [Requests -> Request]
    /\ conn \in [Conns -> {"closed", "reading", "busy", "closing"}]
    /\ flight \in [Flights -> Flight]

ServersInit ==
    /\ run = [s \in Servers |-> "none"]
    /\ ready = {}
    /\ stop = {}
    /\ inflight = [s \in Dns |-> {}]
    /\ request = [r \in Requests |-> Free]
    /\ conn = [c \in Conns |-> "closed"]
    /\ flight = [t \in Flights |-> NoneYet]

-----------------------------------------------------------------------------
(* _cancel_tasks: a task that waits for a flight passes the cancellation on  *)
(* to it, and with it to all who wait for the flight.                        *)
ForgetTasks(s) == inflight' = [inflight EXCEPT ![s] = {}] /\ UNCHANGED <<request, flight>>
cancel_tasks(s) ==
    /\ request' = [r \in Requests |->
         IF r \in inflight[s] /\ request[r].pc \in {"created", "resume", "drain"}
         THEN [request[r] EXCEPT !.pc = "cancel", !.flight = NoFlight] ELSE request[r]]
    /\ flight' = [t \in Flights |->
         IF \E r \in inflight[s] : request[r].pc = "wait" /\ request[r].flight = t
         THEN [flight[t] EXCEPT !.pc = "cancelling"] ELSE flight[t]]
    /\ inflight' = [inflight EXCEPT ![s] = {}]

(* The finally of run: the servers with connections await wait_closed, here  *)
(* with the state then.                                                      *)
Finally(s, then) ==
    /\ run' = [run EXCEPT ![s] = IF s = "udp" THEN "ended" ELSE then]
    /\ IF s \in Dns THEN cancel_tasks(s) ELSE UNCHANGED <<request, flight, inflight>>

(* run has bound its socket.  When stop was called before, it does not even  *)
(* suspend in _stop_event.wait().                                            *)
server_start(s) ==
    /\ run[s] = "starting"
    /\ ready' = ready \cup {s}
    /\ \/ /\ s \in stop
          /\ Finally(s, "closing")
       \/ /\ s \notin stop
          /\ run' = [run EXCEPT ![s] = "listening"]
          /\ UNCHANGED <<request, flight, inflight>>
    /\ UNCHANGED <<stop, conn>>
server_fail(s) ==
    /\ run[s] = "starting"
    /\ run' = [run EXCEPT ![s] = "failed"]
    /\ UNCHANGED <<ready, stop, inflight, request, conn, flight>>

(* run sees the stop event. *)
server_stops(s) ==
    /\ run[s] = "listening"
    /\ s \in stop
    /\ Finally(s, "closing")
    /\ UNCHANGED <<ready, stop, conn>>

(* wait_closed ends.  The connections of the metrics server are not          *)
(* modelled: each ends within its timeout.                                   *)
ConnsClosed == \A c \in Conns : conn[c] = "closed"
server_closed(s) ==
    /\ run[s] \in {"closing", "cancelled"}
    /\ s = "tcp" /\ waits => ConnsClosed
    /\ run' = [run EXCEPT ![s] = "ended"]
    /\ UNCHANGED <<ready, stop, inflight, request, conn, flight>>

(* main cancels the task of run, once: in _stop_event.wait() it still goes   *)
(* through the finally, elsewhere it ends at once.                           *)
server_cancelled(s) ==
    /\ \/ /\ run[s] \in {"starting", "closing"}
          /\ run' = [run EXCEPT ![s] = "ended"]
          /\ UNCHANGED <<request, flight, inflight>>
       \/ run[s] = "listening" /\ Finally(s, "cancelled")
    /\ UNCHANGED <<ready, stop, conn>>

-----------------------------------------------------------------------------
(* The test of max_inflight and the creation of a task. *)
NoLimit(s) == TRUE
Room(s) == Cardinality(inflight[s]) < max_inflight
Create(s, r) ==
    /\ request' = [request EXCEPT ![r].pc = "created"]
    /\ inflight' = [inflight EXCEPT ![s] = @ \cup {r}]

(* A socket listens until stop closes it. *)
Listening(s) == run[s] = "listening" /\ s \notin stop

(* A datagram that finds no room is dropped: nothing changes.  The name of    *)
(* the new task, and that of a new flight below, is any that is not in use.   *)
Idle(r) == request[r].pc = "free"
datagram_received ==
    /\ Listening("udp")
    /\ Room("udp")
    /\ \E r \in Datagrams : Idle(r)
    /\ Create("udp", CHOOSE r \in Datagrams : Idle(r))
    /\ UNCHANGED <<run, ready, stop, conn, flight>>

(* _handle_client: a client connects; a whole request has been read, and     *)
(* there is room; or the loop ends, with a timeout, the end of the stream, a  *)
(* message too long or no room.  The connection is lost once what was written *)
(* is sent, which a client that does not read can delay for ever.             *)
tcp_accept(c) ==
    /\ Listening("tcp")
    /\ conn[c] = "closed"
    /\ conn' = [conn EXCEPT ![c] = "reading"]
    /\ UNCHANGED <<run, ready, stop, inflight, request, flight>>
tcp_request(c) ==
    /\ conn[c] = "reading"
    /\ Room("tcp")
    /\ Create("tcp", c)
    /\ conn' = [conn EXCEPT ![c] = "busy"]
    /\ UNCHANGED <<run, ready, stop, flight>>
tcp_hangup(c) ==
    /\ conn[c] = "reading"
    /\ conn' = [conn EXCEPT ![c] = "closing"]
    /\ UNCHANGED <<run, ready, stop, inflight, request, flight>>
tcp_lost(c) ==
    /\ conn[c] = "closing"
    /\ conn' = [conn EXCEPT ![c] = "closed"]
    /\ UNCHANGED <<run, ready, stop, inflight, request, flight>>

-----------------------------------------------------------------------------
(* What the server does with the record that handle returns: over UDP one    *)
(* that is too big is truncated in place, and dropped if it is still too big. *)
(* pack may raise and a record may be too long for TCP: then there is no      *)
(* answer either.  left is what becomes of the record.                        *)
Packed(r, record) == [record EXCEPT !.cut = @ \/ (r \in Datagrams /\ record.size # "small")]
Dropped(r) == [request[r] EXCEPT !.pc = "done", !.flight = NoFlight]
Answered(r, record) ==
    [request[r] EXCEPT !.pc = IF r \in Datagrams THEN "done" ELSE "drain",
                       !.flight = NoFlight, !.answer = record]
Replied(r, record, left) ==
    \/ /\ left \in {record, Packed(r, record)}
       /\ request' = [request EXCEPT ![r] = Dropped(r)]
    \/ /\ left = Packed(r, record)
       /\ r \in Datagrams => record.size # "huge"
       /\ request' = [request EXCEPT ![r] = Answered(r, left)]

(* The task starts: the message does not parse; or handle answers at once    *)
(* from the cache; or it joins the running flight, or creates one.           *)
Running(t) == flight[t].pc \in {"running", "cancelling"}
Unused(t) == ~Running(t) /\ \A r \in Requests : request[r].flight # t
request_start(r) ==
    /\ request[r].pc = "created"
    /\ \/ /\ request' = [request EXCEPT ![r].pc = "done"]
          /\ UNCHANGED flight
       \/ /\ \E size \in Sizes, left \in Record : Replied(r, NewRecord(size), left)
          /\ UNCHANGED flight
       \/ \E t \in Flights :
            /\ IF \E u \in Flights : Running(u)
               THEN Running(t) /\ UNCHANGED flight
               ELSE /\ Unused(t) /\ t = CHOOSE u \in Flights : Unused(u)
                    /\ flight' = [flight EXCEPT ![t] = [NoneYet EXCEPT !.pc = "running"]]
            /\ request' = [request EXCEPT ![r].pc = "wait", ![r].flight = t]
    /\ UNCHANGED <<run, ready, stop, inflight, conn>>

(* The task resumes with the record of its flight, shared with others; or    *)
(* with one of its own, SERVFAIL or a late stale answer, if the flight       *)
(* failed; or handle raises.  The record is gone with the last who refers    *)
(* to it.                                                                    *)
Left(t, r, record) ==
    IF \E u \in Requests \ {r} : request[u].flight = t
    THEN [flight[t] EXCEPT !.record = record] ELSE NoneYet
request_resumed(r) ==
    LET t == request[r].flight IN
    /\ request[r].pc = "resume"
    /\ \/ /\ flight[t].pc = "done"
          /\ \E left \in Record :
               /\ Replied(r, flight[t].record, left)
               /\ flight' = [flight EXCEPT ![t] = Left(t, r, left)]
       \/ /\ flight[t].pc = "failed"
          /\ \E size \in Sizes, left \in Record : Replied(r, NewRecord(size), left)
          /\ flight' = [flight EXCEPT ![t] = Left(t, r, @.record)]
    /\ UNCHANGED <<run, ready, stop, inflight, conn>>

(* writer.drain() ends. *)
request_drained(r) ==
    /\ request[r].pc = "drain"
    /\ request' = [request EXCEPT ![r].pc = "done"]
    /\ UNCHANGED <<run, ready, stop, inflight, conn, flight>>

(* The task is done, or CancelledError ends it; its callbacks take it out of *)
(* _inflight and wake _handle_client, which reads on, or closes when the     *)
(* task was cancelled.                                                       *)
request_done(r) ==
    /\ request[r].pc \in {"done", "cancel"}
    /\ request' = [request EXCEPT ![r] = Free]
    /\ inflight' = [s \in Dns |-> inflight[s] \ {r}]
    /\ conn' = [c \in Conns |-> IF c # r THEN conn[c]
                                ELSE IF request[r].pc = "done" THEN "reading" ELSE "closing"]
    /\ UNCHANGED <<run, ready, stop, flight>>

-----------------------------------------------------------------------------
(* The flight of t ends: with a response, without one, or with               *)
(* CancelledError.  All who wait for it are woken up.                        *)
Wake(t, pc) ==
    request' = [r \in Requests |->
      IF request[r].pc = "wait" /\ request[r].flight = t
      THEN [request[r] EXCEPT !.pc = pc, !.flight = IF pc = "cancel" THEN NoFlight ELSE t]
      ELSE request[r]]
flight_return(t) ==
    /\ flight[t].pc = "running"
    /\ \/ \E size \in Sizes :
            flight' = [flight EXCEPT ![t] = [pc |-> "done", record |-> NewRecord(size)]]
       \/ flight' = [flight EXCEPT ![t].pc = "failed"]
    /\ Wake(t, "resume")
    /\ UNCHANGED <<run, ready, stop, inflight, conn>>
CancelledUnheard(t) ==
    /\ flight[t].pc = "cancelling"
    /\ flight' = [flight EXCEPT ![t] = NoneYet]
    /\ UNCHANGED <<run, ready, stop, inflight, request, conn>>
flight_cancelled(t) ==
    /\ flight[t].pc = "cancelling"
    /\ flight' = [flight EXCEPT ![t] = NoneYet]
    /\ Wake(t, "cancel")
    /\ UNCHANGED <<run, ready, stop, inflight, conn>>

ServerStep(s) == server_start(s) \/ server_fail(s) \/ server_stops(s) \/ server_closed(s)
RequestStep(r) ==
    request_start(r) \/ request_resumed(r) \/ request_drained(r) \/ request_done(r)
FlightStep(t) == flight_return(t) \/ flight_cancelled(t)
ClientStep ==
    \/ datagram_received
    \/ \E c \in Conns :
         tcp_accept(c) \/ tcp_request(c) \/ tcp_hangup(c) \/ tcp_lost(c)

ServersNext ==
    \/ \E s \in Servers : ServerStep(s)
    \/ \E r \in Requests : RequestStep(r)
    \/ \E t \in Flights : FlightStep(t)
    \/ ClientStep

-----------------------------------------------------------------------------
(* max_inflight of a server bounds the tasks it runs: _inflight never grows  *)
(* beyond it, and until run ends in _cancel_tasks it holds every task of the *)
(* server, whatever the order of arrivals and done callbacks.                *)
InflightBound ==
    \A s \in Dns :
      /\ Cardinality(inflight[s]) <= max_inflight
      /\ run[s] = "listening" => inflight[s] = {r \in Tasks(s) : request[r].pc # "free"}

(* A TCP connection awaits a request exactly as long as its task is there:   *)
(* none waits for a task that is gone, and none reads the next query, or     *)
(* closes, while a task may still write to it.                               *)
ConnAwaitsItsTask == \A c \in Conns : conn[c] = "busy" <=> request[c].pc # "free"

(* Who waits for a flight waits for one that runs, and who resumes from one  *)
(* finds its result: a flight of the other server, cancelled when that       *)
(* server stops, takes its waiters with it.                                  *)
WaitersAreAttached ==
    \A r \in Requests :
      LET t == request[r].flight IN
      /\ request[r].pc = "wait" => t \in Flights /\ Running(t)
      /\ request[r].pc = "resume" => t \in Flights /\ flight[t].pc \in {"done", "failed"}

(* Nobody waits for what is gone: neither a connection for its task nor a    *)
(* task for its flight, whatever the servers have cancelled.                 *)
WaitsAreBacked == ConnAwaitsItsTask /\ WaitersAreAttached

(* An answer over TCP is never truncated: the tests expect it complete       *)
(* (tests/test_udp_server_truncation.py).  The record of a flight is shared, *)
(* and a UDP query that truncates it truncates it for all.                   *)
TcpAnswersAreComplete ==
    \A r \in Requests :
      request[r].answer # NoAnswer /\ r \in Conns => ~request[r].answer.cut

-----------------------------------------------------------------------------
(* What the properties rest on.  _inflight holds tasks that are there, a      *)
(* server that does not listen yet has neither tasks nor connections, and one *)
(* whose run has ended has cancelled its tasks: the UDP server gets no new    *)
(* ones after that.                                                          *)
InflightRuns ==
    \A s \in Dns : inflight[s] \subseteq {r \in Tasks(s) : request[r].pc # "free"}
NothingBeforeStart ==
    \A s \in Dns : run[s] \in {"none", "starting", "failed"} =>
      /\ \A r \in Tasks(s) : request[r].pc = "free"
      /\ s = "tcp" => ConnsClosed
CancelledOrOver(r) ==
    \/ request[r].pc \in {"free", "cancel", "done"}
    \/ request[r].pc = "wait" /\ flight[request[r].flight].pc = "cancelling"
EndedHasCancelled ==
    /\ run["udp"] \notin {"closing", "cancelled"}
    /\ run["udp"] = "ended" => \A r \in Datagrams : CancelledOrOver(r)
ServersInv ==
    /\ TypeOK
    /\ InflightBound /\ InflightRuns
    /\ ConnAwaitsItsTask /\ NothingBeforeStart
    /\ WaitersAreAttached
    /\ EndedHasCancelled
=============================================================================
