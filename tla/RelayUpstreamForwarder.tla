----------------------- MODULE RelayUpstreamForwarder -----------------------
(***************************************************************************)
(* The relay as upstream: the check of the relay's /info when the process   *)
(* starts (src/resilientdns/relay_startup_check.py), the forwarder that     *)
(* posts each query to the relay (src/resilientdns/relay_forwarder.py), and *)
(* the parsing of its responses (src/resilientdns/relay_types.py).          *)
(*                                                                         *)
(* Of a reply only matters what the client tests of it: whether it arrives, *)
(* its status and length, and what there is to find in its text.            *)
(***************************************************************************)
EXTENDS Integers, FiniteSets, FiniteSetsExt

CONSTANTS
    Calls,          \* concurrent calls of query
    Infos, NoInfo,  \* the replies to GET /info
    Replies,        \* the replies to POST /dns
    WireSizes,      \* lengths of a DNS query
    Envelope,       \* length of the JSON around the base64 text
    client,         \* RelayLimits of the client
    NoLimits,
    api_version,
    MaxRequests     \* bound: posts that are counted

LimitNames == {"max_items", "max_request_bytes", "per_item_max_wire_bytes", "max_response_bytes"}
Limits == [LimitNames -> Nat]

ASSUME RelayAssumption ==
    /\ IsFiniteSet(Calls)
    /\ client \in Limits /\ client["max_items"] >= 1
    /\ WireSizes \subseteq Nat /\ Envelope \in Nat /\ MaxRequests \in Nat
    /\ NoLimits \notin Limits
    /\ \A i \in Infos : i.limits \in Limits
    /\ \A r \in Replies :
         /\ r.arrives \in {"yes", "timeout", "error"}
         /\ r.status \in Nat /\ r.bytes \in Nat
         /\ r.text \in {"undecodable", "garbage", "array", "object"}

VARIABLES
    phase,      \* of the process: check, serving, stopping, exit
    mode,       \* relay_startup_check
    info,       \* the reply to GET /info, until it is checked
    relay,      \* the limits the relay has advertised, if they were required to fit
    call,       \* per call: the length of the query posted, or -1
    closed,     \* _closed
    metric,     \* the counters upstream_relay_*_total
    fate        \* how the posts that have ended did end

vars == <<phase, mode, info, relay, call, closed, metric, fate>>

Counters == {"requests", "timeouts", "http_4xx", "http_5xx", "client_errors", "protocol_errors"}
Fates == {"answer", "item_error", "no_exchange", "bad_response", "undecoded", "cancelled"}
Posted == {i \in Calls : call[i] >= 0}

TypeOK ==
    /\ phase \in {"check", "serving", "stopping", "exit"}
    /\ mode \in {"require", "warn", "off"}
    /\ info \in Infos \cup {NoInfo}
    /\ relay \in Limits \cup {NoLimits}
    /\ call \in [Calls -> WireSizes \cup {-1}]
    /\ closed \in BOOLEAN
    /\ metric \in [Counters -> 0 .. MaxRequests]
    /\ fate \in [Fates -> 0 .. MaxRequests]

Init ==
    /\ phase = "check"
    /\ mode \in {"require", "warn", "off"}
    /\ info \in Infos
    /\ relay = NoLimits
    /\ call = [i \in Calls |-> -1]
    /\ closed = FALSE
    /\ metric = [k \in Counters |-> 0]
    /\ fate = [k \in Fates |-> 0]

-----------------------------------------------------------------------------
(* _parse_limits: all are given, as positive integers. *)
parse_limits(i) ==
    /\ i.given = LimitNames
    /\ i.integers = LimitNames
    /\ \A k \in LimitNames : i.limits[k] > 0

CompatibleInTotal(l) == client["max_request_bytes"] <= l["max_request_bytes"]
check_limit_compatibility(l) == \A k \in LimitNames : client[k] <= l[k]

(* check_relay_startup: how far the client gets to read the reply; what it   *)
(* cannot decode raises UnicodeDecodeError, which nobody catches.            *)
Received(i) ==
    i.arrives = "yes" /\ i.status = 200 /\ i.bytes <= client["max_response_bytes"]
Raises(i) == Received(i) /\ i.text = "undecodable"
check_relay_startup(i) ==
    /\ Received(i)
    /\ i.text = "object"
    /\ i.v_integer /\ i.v = api_version
    /\ i.limits_object /\ parse_limits(i)
    /\ check_limit_compatibility(i.limits)

(* run_relay_startup_check: after it the forwarder is created, or the        *)
(* process exits.                                                            *)
Continues(m, i) == m = "off" \/ check_relay_startup(i) \/ (m = "warn" /\ ~Raises(i))
startup_check ==
    /\ phase = "check"
    /\ phase' = IF Continues(mode, info) THEN "serving" ELSE "exit"
    /\ relay' = IF mode = "require" /\ phase' = "serving" THEN info.limits ELSE NoLimits
    /\ info' = NoInfo
    /\ UNCHANGED <<mode, call, closed, metric, fate>>

-----------------------------------------------------------------------------
(* The length of the body for a query of n bytes: one item, in base64. *)
Base64(n) == 4 * ((n + 2) \div 3)
Body(n) == Base64(n) + Envelope
Fits(n, l) ==
    /\ 1 <= l["max_items"]
    /\ n <= l["per_item_max_wire_bytes"]
    /\ Body(n) <= l["max_request_bytes"]

(* query posts a query that fits; any other is dropped, and nothing changes  *)
(* but the counters of drops.                                                *)
query_post(i, n) ==
    /\ phase \in {"serving", "stopping"}
    /\ call[i] = -1
    /\ ~closed
    /\ Fits(n, client)
    /\ metric["requests"] < MaxRequests
    /\ call' = [call EXCEPT ![i] = n]
    /\ metric' = [metric EXCEPT !["requests"] = @ + 1]
    /\ UNCHANGED <<phase, mode, info, relay, closed, fate>>

(* RelayDnsResponse.from_dict accepts it: one malformed item spoils all. *)
from_dict(r) == r.fields /\ \A k \in DOMAIN r.items : r.items[k].wellformed

(* The positions of the items with id "0", of which query takes the first. *)
ItemsFor(r) == {k \in DOMAIN r.items : r.items[k].id = "0"}
Item(r) == r.items[Min(ItemsFor(r))]

(* The counters that query increments for reply r, test by test. *)
CountedUntilJson(r) ==
    IF r.arrives # "yes" \/ r.status # 200 \/ r.bytes > client["max_response_bytes"]
    THEN {"client_errors"} ELSE {}
Counted(r) ==
    IF r.arrives = "timeout" THEN {"timeouts", "client_errors"}
    ELSE IF r.arrives = "error" THEN {"client_errors"}
    ELSE IF r.status # 200
    THEN {"client_errors"} \cup (IF r.status \in 400 .. 499 THEN {"http_4xx"} ELSE {})
                           \cup (IF r.status \in 500 .. 599 THEN {"http_5xx"} ELSE {})
    ELSE IF r.bytes > client["max_response_bytes"] THEN {"client_errors"}
    ELSE IF r.text = "undecodable" THEN {}
    ELSE IF r.text = "garbage" THEN {"client_errors"}
    ELSE IF r.text # "object" \/ ~from_dict(r) THEN {"protocol_errors"}
    ELSE IF r.v # 1 \/ ItemsFor(r) = {} THEN {"protocol_errors"}
    ELSE IF Item(r).ok /\ ~Item(r).base64 THEN {"protocol_errors"}
    ELSE {}

(* What reply r was.  docs/observability.md:69-75 draws the line between      *)
(* client and protocol errors here: a status of 200 and JSON that decodes.   *)
(* What raises UnicodeDecodeError is kept apart from the other failures.     *)
Exchanged(r) == Received(r) /\ r.text \in {"array", "object"}
Fate(r) ==
    CASE Raises(r) -> "undecoded"
      [] ~Raises(r) /\ ~Exchanged(r) -> "no_exchange"
      [] Exchanged(r) /\ r.text = "array" -> "bad_response"
      [] Exchanged(r) /\ r.text = "object" ->
           IF ~(from_dict(r) /\ r.v = 1 /\ ItemsFor(r) # {}) THEN "bad_response"
           ELSE IF ~Item(r).ok THEN "item_error"
           ELSE IF Item(r).base64 THEN "answer" ELSE "bad_response"

(* The reply to the post of call i; closing the session is an error for it. *)
Count(names) == metric' = [k \in Counters |-> metric[k] + (IF k \in names THEN 1 ELSE 0)]
query_reply(i, r) ==
    /\ i \in Posted
    /\ call' = [call EXCEPT ![i] = -1]
    /\ Count(Counted(r))
    /\ fate' = [fate EXCEPT ![Fate(r)] = @ + 1]
    /\ UNCHANGED <<phase, mode, info, relay, closed>>

(* Requests are cancelled when the servers stop: CancelledError is counted   *)
(* nowhere.                                                                  *)
query_cancelled(i) ==
    /\ phase = "stopping"
    /\ i \in Posted
    /\ call' = [call EXCEPT ![i] = -1]
    /\ fate' = [fate EXCEPT !["cancelled"] = @ + 1]
    /\ UNCHANGED <<phase, mode, info, relay, closed, metric>>

stop_signal ==
    /\ phase = "serving"
    /\ phase' = "stopping"
    /\ UNCHANGED <<mode, info, relay, call, closed, metric, fate>>
close ==
    /\ phase = "stopping"
    /\ ~closed
    /\ closed' = TRUE
    /\ UNCHANGED <<phase, mode, info, relay, call, metric, fate>>

Next ==
    \/ startup_check \/ stop_signal \/ close
    \/ \E i \in Calls, n \in WireSizes : query_post(i, n)
    \/ \E i \in Calls, r \in Replies : query_reply(i, r)
    \/ \E i \in Calls : query_cancelled(i)
Spec == Init /\ [][Next]_vars

-----------------------------------------------------------------------------
(* Every post is accounted for: it is in flight, was cancelled, gave an       *)
(* answer or the relay's error for the item, or exactly one of the two error  *)
(* counters has it, the one docs/observability.md names; a timeout or a bad   *)
(* status is a client error.  Only a response that is no UTF-8 may be missing *)
(* from the counters: see DecodeFailuresAreClientErrors.                      *)
EveryPostIsAccountedFor ==
    LET known == Cardinality(Posted) + fate["cancelled"] + fate["answer"] + fate["item_error"]
                   + metric["client_errors"] + metric["protocol_errors"] IN
    /\ known <= metric["requests"] /\ metric["requests"] <= known + fate["undecoded"]
    /\ fate["no_exchange"] <= metric["client_errors"]
    /\ metric["protocol_errors"] = fate["bad_response"]
    /\ metric["timeouts"] + metric["http_4xx"] + metric["http_5xx"] <= metric["client_errors"]

(* The client errors are all failures before a valid response is received,   *)
(* decode failures included, as docs/observability.md:69-73 says.            *)
DecodeFailuresAreClientErrors ==
    metric["client_errors"] = fate["no_exchange"] + fate["undecoded"]

(* If the startup check is required, everything ever posted is within the    *)
(* limits that the relay advertised.                                         *)
PostsFitTheRelay ==
    relay # NoLimits => \A i \in Posted : Fits(call[i], relay)
=============================================================================
