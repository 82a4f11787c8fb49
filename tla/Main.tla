-------------------------------- MODULE Main --------------------------------
(***************************************************************************)
(* The process (src/resilientdns/main.py): the configuration is validated,  *)
(* the relay may be checked, the upstream and the servers are created, main *)
(* waits until they are ready, serves until a signal, and takes everything  *)
(* down.  The servers are those of DnsServers.                              *)
(***************************************************************************)
EXTENDS DnsServers, Integers

CONSTANTS
    Args,               \* the command lines main may be started with
    NoConfig,
    refresh_enabled, refresh_warmup_enabled, relay_checked

ASSUME MainAssumption ==
    /\ {refresh_enabled, refresh_warmup_enabled, relay_checked} \subseteq BOOLEAN
    /\ refresh_warmup_enabled => refresh_enabled

(* The numbers of a configuration, by what validate_config asks of them. *)
NonNegative ==
    {"serve_stale_max_s", "negative_ttl_s", "cache_max_entries", "refresh_ahead_seconds",
     "refresh_popularity_threshold", "refresh_popularity_decay_seconds",
     "refresh_concurrency", "refresh_queue_max", "tcp_pool_max_conns"}
Positive ==
    {"upstream_timeout_s", "refresh_tick_ms", "refresh_batch_size", "max_inflight",
     "udp_max_workers", "tcp_pool_idle_timeout_s"}
RelayLimits ==
    {"relay_max_items", "relay_max_request_bytes", "relay_per_item_max_wire_bytes",
     "relay_max_response_bytes"}
Ports == {"listen_port", "upstream_port", "metrics_port"}
Numbers == NonNegative \cup Positive \cup RelayLimits \cup Ports
             \cup {"refresh_warmup_limit", "relay_api_version"}

(* build_config: four numbers have no option and keep their defaults.  The   *)
(* parser has choices for the transport and the startup check.               *)
Defaults ==
    [cache_max_entries |-> 0, tcp_pool_max_conns |-> 4, tcp_pool_idle_timeout_s |-> 30,
     udp_max_workers |-> 32]
Options == Numbers \ DOMAIN Defaults
build_config(a) ==
    [a EXCEPT !.num = [f \in Numbers |-> IF f \in Options THEN a.num[f] ELSE Defaults[f]]]
Configs == {build_config(a) : a \in Args}

(* upstream_timeout_s is a float, counted here in a unit in which it is      *)
(* whole: all that is asked of it is that it is positive.                    *)
ASSUME ArgsAssumption ==
    \A a \in Args :
      /\ "num" \in DOMAIN a /\ a.num \in [Options -> Int]
      /\ a.upstream_transport \in {"udp", "tcp", "relay"}
      /\ a.relay_startup_check \in {"require", "warn", "off"}

VARIABLES
    main,       \* where main is: config, check, build, the server it waits for, ...
    cfg,        \* the configuration, until it is validated
    is_ready,   \* the event of ReadyState
    refresh,    \* the refresh tasks run
    upstream    \* the upstream forwarder

mainVars == <<main, cfg, is_ready, refresh, upstream>>
vars == <<serverVars, mainVars>>

MainTypeOK ==
    /\ TypeOK
    /\ main \in {"config", "check", "build", "udp", "tcp", "metrics", "serving",
                 "finally", "tasks", "closing", "exit"}
    /\ cfg \in Configs \cup {NoConfig}
    /\ is_ready \in BOOLEAN
    /\ refresh \in BOOLEAN
    /\ upstream \in {"none", "open", "closed"}

Init ==
    /\ ServersInit
    /\ main = "config"
    /\ cfg \in Configs
    /\ is_ready = FALSE
    /\ refresh = FALSE
    /\ upstream = "none"

-----------------------------------------------------------------------------
(* validate_config.  Of a name or an address only matters whether it is well *)
(* formed.                                                                   *)
ValidRelay(c) ==
    /\ c.relay_base_url = "good"
    /\ c.relay_startup_check \in {"require", "warn", "off"}
    /\ \A f \in RelayLimits : c.num[f] > 0
ValidPorts(c) ==
    \A f \in Ports : c.num[f] \in 1 .. 65535 \/ (f = "metrics_port" /\ c.num[f] = 0)
ValidNumbers(c) ==
    (\A f \in NonNegative : c.num[f] >= 0) /\ (\A f \in Positive : c.num[f] > 0)
ValidRefresh(c) ==
    /\ c.refresh_enabled => c.num["refresh_concurrency"] > 0
    /\ c.refresh_warmup_enabled => c.refresh_enabled /\ c.refresh_warmup_file
                                   /\ c.num["refresh_warmup_limit"] > 0
validate_config(c) ==
    /\ c.hosts /\ ValidPorts(c) /\ ValidNumbers(c) /\ ValidRefresh(c)
    /\ c.upstream_transport \in {"udp", "tcp", "relay"}
    /\ c.relay_base_url # "none" => ValidRelay(c)
    /\ c.upstream_transport = "relay" => c.relay_base_url # "none"
                                         /\ c.num["relay_api_version"] >= 1

(* The constants of this module stand for a configuration that is valid. *)
main_config ==
    /\ main = "config"
    /\ main' = IF validate_config(cfg) THEN "check" ELSE "exit"
    /\ cfg' = NoConfig
    /\ UNCHANGED <<serverVars, is_ready, refresh, upstream>>

(* run_relay_startup_check, see RelayUpstreamForwarder, passes or exits. *)
main_check ==
    /\ main = "check"
    /\ \/ main' = "build"
       \/ relay_checked /\ main' = "exit"
    /\ UNCHANGED <<serverVars, cfg, is_ready, refresh, upstream>>

(* _run up to the first wait: a warmup file that cannot be loaded ends the   *)
(* process before the try that closes the upstream.                          *)
main_build ==
    /\ main = "build"
    /\ upstream' = "open"
    /\ \/ main' = "udp" /\ run' = [s \in Servers |-> "starting"]
       \/ refresh_warmup_enabled /\ main' = "exit" /\ UNCHANGED run
    /\ UNCHANGED <<ready, stop, inflight, request, conn, flight, cfg, is_ready, refresh>>

-----------------------------------------------------------------------------
Over(s) == run[s] \in {"ended", "failed"}

(* wait_ready(s): raises what the task of the server has raised. *)
AfterReadyUnlessTcp(s) == IF s = "udp" /\ "metrics" \in Servers THEN "metrics" ELSE "serving"
AfterReady(s) ==
    CASE s = "udp" -> "tcp"
      [] s = "tcp" -> IF "metrics" \in Servers THEN "metrics" ELSE "serving"
      [] s = "metrics" -> "serving"
WaitReadyOnly(s) ==
    LET next == IF run[s] = "failed" THEN "finally" ELSE AfterReady(s) IN
    /\ main = s
    /\ s \in ready
    /\ main' = next
    /\ is_ready' = (next = "serving")
    /\ refresh' = (next = "serving" /\ refresh_enabled)
    /\ UNCHANGED <<serverVars, cfg, upstream>>
WaitExiting(s) ==
    LET next == IF run[s] = "failed" THEN "exit" ELSE AfterReady(s) IN
    /\ main = s
    /\ s \in ready \/ Over(s)
    /\ main' = next
    /\ is_ready' = (next = "serving")
    /\ refresh' = (next = "serving" /\ refresh_enabled)
    /\ UNCHANGED <<serverVars, cfg, upstream>>
wait_ready(s) ==
    LET next == IF run[s] = "failed" THEN "finally" ELSE AfterReady(s) IN
    /\ main = s
    /\ s \in ready \/ Over(s)
    /\ main' = next
    /\ is_ready' = (next = "serving")
    /\ refresh' = (next = "serving" /\ refresh_enabled)
    /\ UNCHANGED <<serverVars, cfg, upstream>>

(* gather returns, or raises the exception of the first server that failed. *)
main_gathered ==
    /\ main = "serving"
    /\ (\A s \in Servers : Over(s)) \/ (\E s \in Servers : run[s] = "failed")
    /\ main' = "finally"
    /\ UNCHANGED <<serverVars, cfg, is_ready, refresh, upstream>>

(* The finally of _run: the reporter and the refresh tasks, the servers, the *)
(* upstream.                                                                 *)
main_finally ==
    /\ main = "finally"
    /\ refresh' = FALSE
    /\ stop' = Servers
    /\ main' = "tasks"
    /\ UNCHANGED <<run, ready, inflight, request, conn, flight, cfg, is_ready, upstream>>

(* The servers in the order in which main cancels and awaits them. *)
Before(s) == CASE s = "udp" -> {} [] s = "tcp" -> {"udp"} [] s = "metrics" -> {"udp", "tcp"}
main_cancels(s) ==
    /\ main = "tasks"
    /\ \A u \in Before(s) : Over(u)
    /\ server_cancelled(s)
    /\ UNCHANGED mainVars
ClosesAtOnce ==
    /\ main = "tasks"
    /\ upstream' = "closed"
    /\ main' = "closing"
    /\ UNCHANGED <<serverVars, cfg, is_ready, refresh>>
main_closes ==
    /\ main = "tasks"
    /\ \A s \in Servers : Over(s)
    /\ upstream' = "closed"
    /\ main' = "closing"
    /\ UNCHANGED <<serverVars, cfg, is_ready, refresh>>
main_exit ==
    /\ main = "closing"
    /\ main' = "exit"
    /\ UNCHANGED <<serverVars, cfg, is_ready, refresh, upstream>>

(* SIGINT or SIGTERM once the handlers are registered: stop_all. *)
StopUdpOnly ==
    /\ main \notin {"config", "check", "build", "exit"}
    /\ stop # Servers
    /\ stop' = stop \cup {"udp"}
    /\ UNCHANGED <<run, ready, inflight, request, conn, flight, mainVars>>
stop_signal ==
    /\ main \notin {"config", "check", "build", "exit"}
    /\ stop # Servers
    /\ stop' = Servers
    /\ UNCHANGED <<run, ready, inflight, request, conn, flight, mainVars>>

MainStep ==
    \/ main_config \/ main_check \/ main_build
    \/ \E s \in Servers : wait_ready(s) \/ main_cancels(s)
    \/ main_gathered \/ main_finally \/ main_closes \/ main_exit
LoopStep == main # "exit" /\ ServersNext /\ UNCHANGED mainVars
Next == MainStep \/ stop_signal \/ LoopStep
Spec == Init /\ [][Next]_vars

(* The event loop runs what is ready to run, an upstream answers or times    *)
(* out, and a client that is silent meets the idle timeout.  A client need   *)
(* not read what is sent to it: nothing is assumed of drain and tcp_lost.    *)
Alive(A) == main # "exit" /\ A /\ UNCHANGED mainVars
Fairness ==
    /\ WF_vars(MainStep)
    /\ \A s \in Servers : WF_vars(Alive(ServerStep(s)))
    /\ \A r \in Requests :
         WF_vars(Alive(request_start(r) \/ request_resumed(r) \/ request_done(r)))
    /\ \A t \in Flights : WF_vars(Alive(FlightStep(t)))
    /\ \A c \in Conns : WF_vars(Alive(tcp_hangup(c)))
FairSpec == Spec /\ Fairness
-----------------------------------------------------------------------------
(* The status that HttpMetricsServer answers a request with. *)
HttpStatus(method, path) ==
    CASE method # "GET" -> 404
      [] path \in {"/metrics", "/healthz", "/cache/stats"} -> 200
      [] path = "/readyz" -> IF is_ready THEN 200 ELSE 503
      [] OTHER -> 404

(* /readyz answers 200 only after every listener has been bound, also when   *)
(* a signal arrives or a server fails during the start.                      *)
ReadyOnlyAfterListeners == HttpStatus("GET", "/readyz") = 200 => Servers \subseteq ready

(* The upstream is closed last: when no server and no refresh task runs any  *)
(* more, and, where wait_closed waits for connections and all servers had    *)
(* started, when no TCP client is left that could still ask.                 *)
UpstreamClosedLast ==
    upstream = "closed" =>
      /\ \A s \in Servers : Over(s)
      /\ ~refresh
      /\ waits /\ (\A s \in Servers : run[s] # "failed") => ConnsClosed

(* Once servers have been started, no path through main, not even that of a  *)
(* server that cannot bind, ends the process with the upstream open.         *)
ExitClosesUpstream ==
    main = "exit" /\ (\E s \in Servers : run[s] # "none") => upstream = "closed"

(* No query asks an upstream that is closed: by then every task of the UDP   *)
(* server is over or about to be cancelled, itself or through its flight,    *)
(* although none of them was awaited and although flights are shared with    *)
(* TCP queries.  So is every task of the TCP server, where its connections   *)
(* are awaited.                                                              *)
NothingAsksTheClosed ==
    upstream = "closed" =>
      \A r \in Requests :
        r \in Datagrams \/ (waits /\ \A s \in Servers : run[s] # "failed") => CancelledOrOver(r)

(* A process that is started gets to serve, or to its shutdown, or exits:    *)
(* wait_ready never waits for a server that is gone.                         *)
StartupEnds == main = "config" ~> main \in {"serving", "finally", "exit"}

(* Every request ends: with an answer, dropped, or cancelled.  The exception *)
(* is a client that does not read its answer.                                *)
EveryRequestEnds ==
    \A r \in Requests :
      request[r].pc # "free" ~> request[r].pc \in {"free", "drain"} \/ main = "exit"

(* A signal ends the process, unless clients keep sending over connections   *)
(* they had opened before, or do not read what they were sent.               *)
Unread == (\E r \in Requests : request[r].pc = "drain") \/ (\E c \in Conns : conn[c] = "closing")
StopLeadsToExit ==
    \/ stop # {} ~> main = "exit"
    \/ []<><<\E c \in Conns : tcp_request(c)>>_vars
    \/ <>[]Unread

-----------------------------------------------------------------------------
(* What these rest on: where main is tells which servers have been ready,    *)
(* and main takes down servers that run only if one has failed.              *)
ReadyBefore ==
    /\ \A s \in Servers : run[s] \in {"listening", "closing", "cancelled"} => s \in ready
    /\ main \notin {"tasks", "closing", "exit"} =>
         \A s \in Servers : run[s] = "ended" => s \in ready
    /\ main \in {"tcp", "metrics"} => "udp" \in ready
    /\ main = "metrics" => "tcp" \in ready
    /\ main = "serving" \/ is_ready => Servers \subseteq ready
NothingBuilt ==
    main \in {"config", "check", "build"} =>
      upstream = "none" /\ \A s \in Servers : run[s] = "none"
TakenDown ==
    /\ main \in {"finally", "tasks", "closing"} =>
         (\A s \in Servers : Over(s)) \/ (\E s \in Servers : run[s] = "failed")
    /\ refresh => main \in {"serving", "finally"}
    /\ upstream = "closed" => main \in {"closing", "exit"}
    /\ main = "closing" => upstream = "closed"
    /\ waits /\ run["tcp"] = "ended" /\ (\A s \in Servers : run[s] # "failed") => ConnsClosed
IInv ==
    /\ MainTypeOK
    /\ ServersInv
    /\ ReadyBefore /\ NothingBuilt /\ TakenDown
    /\ UpstreamClosedLast /\ ExitClosesUpstream
=============================================================================
