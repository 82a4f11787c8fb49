------------------------------ MODULE MCRelay ------------------------------
(* Small instances of RelayUpstreamForwarder. *)
EXTENDS RelayUpstreamForwarder, Sequences

(* Queries of 3 bytes make a body of 6: they fit, those of 4 and more do not. *)
MCClient == [[k \in LimitNames |-> 5] EXCEPT !["max_request_bytes"] = 9]

(* A relay just good enough, and relays and replies that deviate from it in  *)
(* one respect, or in two of the limits.                                     *)
Good ==
    [arrives |-> "yes", status |-> 200, bytes |-> 5, text |-> "object", v_integer |-> TRUE,
     v |-> 1, limits_object |-> TRUE, given |-> LimitNames, integers |-> LimitNames,
     limits |-> MCClient]
MCInfos ==
    {[Good EXCEPT !.arrives = a] : a \in {"yes", "timeout", "error"}}
    \cup {[Good EXCEPT !.status = c] : c \in {401, 404, 500}}
    \cup {[Good EXCEPT !.bytes = b, !.text = t] :
            b \in {5, 6}, t \in {"undecodable", "garbage", "array", "object"}}
    \cup {[Good EXCEPT !.v_integer = FALSE], [Good EXCEPT !.v = 2],
          [Good EXCEPT !.limits_object = FALSE]}
    \cup {[Good EXCEPT !.given = @ \ {k}] : k \in LimitNames}
    \cup {[Good EXCEPT !.integers = @ \ {k}] : k \in LimitNames}
    \cup {[Good EXCEPT !.limits[j] = m, !.limits[k] = n] :
            j \in LimitNames, k \in LimitNames, m \in {0, 2, 12}, n \in {0, 2, 12}}

Answer == [wellformed |-> TRUE, id |-> "0", ok |-> TRUE, base64 |-> TRUE]
GoodReply ==
    [arrives |-> "yes", status |-> 200, bytes |-> 5, text |-> "object", fields |-> TRUE,
     v |-> 1, items |-> <<Answer>>]
Items ==
    {Answer, [Answer EXCEPT !.wellformed = FALSE], [Answer EXCEPT !.id = "1"],
     [Answer EXCEPT !.ok = FALSE], [Answer EXCEPT !.base64 = FALSE]}
MCReplies ==
    {[GoodReply EXCEPT !.arrives = a] : a \in {"timeout", "error"}}
    \cup {[GoodReply EXCEPT !.status = c] : c \in {204, 399, 400, 499, 500, 599, 600}}
    \cup {[GoodReply EXCEPT !.bytes = b, !.text = t] :
            b \in {5, 6}, t \in {"undecodable", "garbage", "array", "object"}}
    \cup {[GoodReply EXCEPT !.fields = FALSE], [GoodReply EXCEPT !.v = 2]}
    \cup {[GoodReply EXCEPT !.items = s] :
            s \in {<<>>} \cup [1 .. 1 -> Items] \cup [1 .. 2 -> Items]}
=============================================================================
