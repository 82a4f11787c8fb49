-------------------- MODULE RelayUpstreamForwarderProofs --------------------
(* What the relay client guarantees for any number of calls, any relay and   *)
(* any replies.                                                              *)
EXTENDS RelayUpstreamForwarder, FiniteSetTheorems, TLAPS

(* The time limits of the provers, in seconds. *)
USE ZenonT(5), SMTT(60)

Types ==
    /\ phase \in {"check", "serving", "stopping", "exit"}
    /\ mode \in {"require", "warn", "off"}
    /\ info \in Infos \cup {NoInfo}
    /\ phase = "check" => info \in Infos
    /\ relay \in Limits \cup {NoLimits}
    /\ call \in [Calls -> WireSizes \cup {-1}]
    /\ closed \in BOOLEAN
    /\ metric \in [Counters -> Nat]
    /\ fate \in [Fates -> Nat]

(* Every post has one fate at most, and the two error counters follow it. *)
Total(f) ==
    f["answer"] + f["item_error"] + f["no_exchange"] + f["bad_response"] + f["undecoded"]
      + f["cancelled"]
Balance(posted, m, f) ==
    /\ m["requests"] = posted + Total(f)
    /\ m["requests"] <= MaxRequests
    /\ m["client_errors"] = f["no_exchange"]
    /\ m["protocol_errors"] = f["bad_response"]
    /\ m["timeouts"] + m["http_4xx"] + m["http_5xx"] <= m["client_errors"]
Balanced == Balance(Cardinality(Posted), metric, fate)

(* A relay whose check was required advertised no less than the client's     *)
(* limits; all that is posted is within these, and posted while serving.     *)
Compatible ==
    /\ relay # NoLimits => \A k \in LimitNames : client[k] <= relay[k]
    /\ \A i \in Posted : Fits(call[i], client)
    /\ phase \in {"check", "exit"} => Posted = {}

IInv == Types /\ Balanced /\ Compatible

-----------------------------------------------------------------------------
(* query increments one error counter for a post that failed, the one its    *)
(* fate calls for, and a detailed counter only along with client_errors.     *)
Matches(c, f) ==
    /\ c \subseteq Counters \ {"requests"}
    /\ f \in Fates \ {"cancelled"}
    /\ ("client_errors" \in c <=> f = "no_exchange")
    /\ ("protocol_errors" \in c <=> f = "bad_response")
    /\ \A a, b \in {"timeouts", "http_4xx", "http_5xx"} :
         a \in c => "client_errors" \in c /\ (b \in c => a = b)

(* The counters a reply moves are those of the fate it has. *)
LEMMA CountedByFate ==
    ASSUME NEW r \in Replies
    PROVE  Matches(Counted(r), Fate(r))
  <1>1. /\ r.arrives \in {"yes", "timeout", "error"}
        /\ r.status \in Nat /\ r.bytes \in Nat
        /\ r.text \in {"undecodable", "garbage", "array", "object"}
    BY RelayAssumption
  <1>2. client["max_response_bytes"] \in Nat
    BY RelayAssumption DEF Limits, LimitNames
  <1>3. CASE Raises(r)
    <2>1. Counted(r) = {} /\ Fate(r) = "undecoded"
      BY <1>1, <1>2, <1>3 DEF Counted, Received, Raises, Fate, Exchanged
    <2> QED
      BY <2>1 DEF Fates, Matches
  <1>4. CASE ~Raises(r) /\ ~Exchanged(r)
    <2>1. Fate(r) = "no_exchange"
      BY <1>4 DEF Fate
    <2>2. "client_errors" \in Counted(r) /\ "protocol_errors" \notin Counted(r)
      BY <1>1, <1>2, <1>4 DEF Counted, Exchanged, Received, Raises
    <2>3. /\ Counted(r) \subseteq Counters \ {"requests"}
          /\ ~("timeouts" \in Counted(r) /\ "http_4xx" \in Counted(r))
          /\ ~("timeouts" \in Counted(r) /\ "http_5xx" \in Counted(r))
          /\ ~("http_4xx" \in Counted(r) /\ "http_5xx" \in Counted(r))
      BY <1>1, <1>2, <1>4 DEF Counted, Exchanged, Received, Raises, Counters
    <2> QED
      BY <2>1, <2>2, <2>3 DEF Fates, Matches
  <1>5. CASE Exchanged(r)
    <2>1. ~Raises(r)
      BY <1>5 DEF Exchanged, Raises
    <2>2. CASE r.text = "array"
      <3>1. Counted(r) = {"protocol_errors"} /\ Fate(r) = "bad_response"
        BY <1>1, <1>2, <1>5, <2>1, <2>2 DEF Counted, Exchanged, Received, Fate
      <3> QED
        BY <3>1 DEF Fates, Counters, Matches
    <2>3. CASE r.text = "object"
      <3>1. Fate(r) = IF ~(from_dict(r) /\ r.v = 1 /\ ItemsFor(r) # {}) THEN "bad_response"
                      ELSE IF ~Item(r).ok THEN "item_error"
                      ELSE IF Item(r).base64 THEN "answer" ELSE "bad_response"
        BY <1>5, <2>1, <2>3 DEF Fate
      <3>2. Counted(r) = IF ~from_dict(r) THEN {"protocol_errors"}
                         ELSE IF r.v # 1 \/ ItemsFor(r) = {} THEN {"protocol_errors"}
                         ELSE IF Item(r).ok /\ ~Item(r).base64 THEN {"protocol_errors"}
                         ELSE {}
        BY <1>1, <1>2, <1>5, <2>3 DEF Counted, Exchanged, Received
      <3>3. \/ Counted(r) = {} /\ Fate(r) \in {"answer", "item_error"}
            \/ Counted(r) = {"protocol_errors"} /\ Fate(r) = "bad_response"
        BY <3>1, <3>2, Zenon
      <3> QED
        BY <3>3 DEF Fates, Counters, Matches
    <2> QED
      BY <1>5, <2>2, <2>3 DEF Exchanged
  <1> QED
    BY <1>3, <1>4, <1>5

(* The effect on counters and fates. *)
Counts(c, m, mm) == mm = [k \in Counters |-> m[k] + (IF k \in c THEN 1 ELSE 0)]
Ends(t, f, ff) == ff = [f EXCEPT ![t] = @ + 1]

(* A reply keeps the balance of a post that leaves the flight. *)
LEMMA ReplyBalances ==
    ASSUME NEW c, NEW t, Matches(c, t),
           NEW n \in Nat, NEW m \in [Counters -> Nat], NEW f \in [Fates -> Nat],
           Balance(n + 1, m, f),
           NEW mm, Counts(c, m, mm), NEW ff, Ends(t, f, ff)
    PROVE  Balance(n, mm, ff) /\ mm \in [Counters -> Nat] /\ ff \in [Fates -> Nat]
  <1> USE DEF Counts, Ends
  <1>1. mm \in [Counters -> Nat]
    <2>1. \A k \in Counters : m[k] + (IF k \in c THEN 1 ELSE 0) \in Nat
      OBVIOUS
    <2> QED
      BY <2>1
  <1>2. t \in Fates /\ f[t] + 1 \in Nat
    BY DEF Matches
  <1>3. ff \in [Fates -> Nat]
    BY <1>2
  <1>4. \A k \in Counters : m[k] \in Nat /\ mm[k] = IF k \in c THEN m[k] + 1 ELSE m[k]
    OBVIOUS
  <1>5. \A k \in Fates : f[k] \in Nat /\ ff[k] = IF k = t THEN f[k] + 1 ELSE f[k]
    BY DEF Matches
  <1>6. mm["requests"] = m["requests"]
    BY <1>4 DEF Counters, Matches
  <1>7. mm["client_errors"] = ff["no_exchange"] /\ mm["protocol_errors"] = ff["bad_response"]
    BY <1>4, <1>5 DEF Counters, Fates, Balance, Matches
  <1>8. mm["timeouts"] + mm["http_4xx"] + mm["http_5xx"] <= mm["client_errors"]
    <2>1. /\ m["timeouts"] \in Nat /\ m["http_4xx"] \in Nat /\ m["http_5xx"] \in Nat
          /\ m["client_errors"] \in Nat
          /\ m["timeouts"] + m["http_4xx"] + m["http_5xx"] <= m["client_errors"]
      BY <1>4 DEF Counters, Balance
    <2>2. /\ mm["timeouts"] = IF "timeouts" \in c THEN m["timeouts"] + 1 ELSE m["timeouts"]
          /\ mm["http_4xx"] = IF "http_4xx" \in c THEN m["http_4xx"] + 1 ELSE m["http_4xx"]
          /\ mm["http_5xx"] = IF "http_5xx" \in c THEN m["http_5xx"] + 1 ELSE m["http_5xx"]
          /\ mm["client_errors"] =
               IF "client_errors" \in c THEN m["client_errors"] + 1 ELSE m["client_errors"]
      BY <1>4 DEF Counters
    <2>3. /\ "timeouts" \in c => "http_4xx" \notin c /\ "http_5xx" \notin c
          /\ "http_4xx" \in c => "http_5xx" \notin c
          /\ "timeouts" \in c \/ "http_4xx" \in c \/ "http_5xx" \in c => "client_errors" \in c
      BY DEF Matches
    <2> QED
      BY <2>1, <2>2, <2>3
  <1>9. Total(ff) = Total(f) + 1
    <2>1. /\ f["answer"] \in Nat /\ f["item_error"] \in Nat /\ f["no_exchange"] \in Nat
          /\ f["bad_response"] \in Nat /\ f["undecoded"] \in Nat /\ f["cancelled"] \in Nat
      BY <1>5 DEF Fates
    <2>2. t \in {"answer", "item_error", "no_exchange", "bad_response", "undecoded"}
      BY DEF Matches, Fates
    <2>3. /\ ff["answer"] = IF t = "answer" THEN f["answer"] + 1 ELSE f["answer"]
          /\ ff["item_error"] = IF t = "item_error" THEN f["item_error"] + 1 ELSE f["item_error"]
          /\ ff["no_exchange"] = IF t = "no_exchange" THEN f["no_exchange"] + 1 ELSE f["no_exchange"]
          /\ ff["bad_response"] =
               IF t = "bad_response" THEN f["bad_response"] + 1 ELSE f["bad_response"]
          /\ ff["undecoded"] = IF t = "undecoded" THEN f["undecoded"] + 1 ELSE f["undecoded"]
          /\ ff["cancelled"] = f["cancelled"]
      BY <1>5, <2>2 DEF Fates
    <2> QED
      BY <2>1, <2>2, <2>3 DEF Total
  <1>10. Total(f) \in Nat /\ m["requests"] = n + 1 + Total(f) /\ m["requests"] <= MaxRequests
    BY <1>5 DEF Balance, Total, Fates
  <1>11. mm["requests"] = n + Total(ff)
    BY <1>6, <1>9, <1>10
  <1> QED
    BY <1>1, <1>3, <1>6, <1>7, <1>8, <1>10, <1>11 DEF Balance

(* A reply or a cancellation takes one call out of flight. *)
LEMMA CallEnds ==
    ASSUME Types, NEW i \in Posted, call' = [call EXCEPT ![i] = -1]
    PROVE  /\ Posted' = Posted \ {i} /\ \A j \in Posted' : call'[j] = call[j]
           /\ Cardinality(Posted') \in Nat /\ Cardinality(Posted) = Cardinality(Posted') + 1
           /\ call' \in [Calls -> WireSizes \cup {-1}]
  <1>1. i \in Calls /\ call \in [Calls -> WireSizes \cup {-1}]
    BY DEF Types, Posted
  <1>2. Posted' = Posted \ {i} /\ \A j \in Posted' : call'[j] = call[j]
    BY <1>1 DEF Posted
  <1>3. IsFiniteSet(Posted)
    <2>1. Posted \subseteq Calls /\ IsFiniteSet(Calls)
      BY RelayAssumption DEF Posted
    <2> QED
      BY <2>1, FS_Subset
  <1>4. /\ IsFiniteSet(Posted \ {i}) /\ Cardinality(Posted) \in Nat
        /\ Cardinality(Posted \ {i}) = Cardinality(Posted) - 1
    BY <1>3, FS_RemoveElement, FS_CardinalityType
  <1>5. Cardinality(Posted \ {i}) \in Nat
    BY <1>4, FS_CardinalityType
  <1> QED
    BY <1>1, <1>2, <1>4, <1>5

(* Posting a query keeps the invariant. *)
LEMMA PostKeeps ==
    ASSUME IInv, NEW i \in Calls, NEW n \in WireSizes, query_post(i, n)
    PROVE  IInv'
  <1>1. /\ n \in Nat /\ call \in [Calls -> WireSizes \cup {-1}] /\ call[i] = -1
        /\ call' = [call EXCEPT ![i] = n]
    BY RelayAssumption DEF IInv, Types, query_post
  <1>2. Posted' = Posted \cup {i} /\ i \notin Posted
    BY <1>1 DEF Posted
  <1>3. IsFiniteSet(Posted)
    <2>1. Posted \subseteq Calls /\ IsFiniteSet(Calls)
      BY RelayAssumption DEF Posted
    <2> QED
      BY <2>1, FS_Subset
  <1>4. Cardinality(Posted') = Cardinality(Posted) + 1 /\ Cardinality(Posted) \in Nat
    BY <1>2, <1>3, FS_AddElement, FS_CardinalityType
  <1>5. metric' \in [Counters -> Nat] /\ metric'["requests"] = metric["requests"] + 1
    BY DEF IInv, Types, query_post, Counters
  <1>6. \A k \in Counters \ {"requests"} : metric'[k] = metric[k]
    BY DEF IInv, Types, query_post
  <1>7. Types'
    BY <1>1, <1>5 DEF IInv, Types, query_post
  <1>8. Balanced'
    <2>1. metric["requests"] \in Nat /\ metric["requests"] < MaxRequests /\ MaxRequests \in Nat
      BY RelayAssumption DEF IInv, Types, Counters, query_post
    <2>2. Total(fate) \in Nat /\ fate' = fate
      BY DEF IInv, Types, Total, Fates, query_post
    <2>3. metric'["requests"] = Cardinality(Posted') + Total(fate)
      BY <1>4, <1>5, <2>2 DEF IInv, Balanced, Balance
    <2> QED
      BY <1>5, <1>6, <2>1, <2>2, <2>3 DEF IInv, Balanced, Balance, Counters
  <1>9. Compatible'
    BY <1>1, <1>2 DEF IInv, Compatible, query_post, Posted
  <1> QED
    BY <1>7, <1>8, <1>9 DEF IInv

(* A reply, or the lack of one, keeps the invariant. *)
LEMMA ReplyKeeps ==
    ASSUME IInv, NEW i \in Calls, NEW r \in Replies, query_reply(i, r)
    PROVE  IInv'
  <1>1. i \in Posted /\ call' = [call EXCEPT ![i] = -1] /\ Types
    BY DEF query_reply, IInv
  <1>2. /\ metric' = [k \in Counters |-> metric[k] + (IF k \in Counted(r) THEN 1 ELSE 0)]
        /\ fate' = [fate EXCEPT ![Fate(r)] = @ + 1]
    BY DEF query_reply, Count
  <1>3. Matches(Counted(r), Fate(r))
    BY CountedByFate
  <1>4. /\ metric \in [Counters -> Nat] /\ fate \in [Fates -> Nat]
        /\ Cardinality(Posted') \in Nat /\ Balance(Cardinality(Posted') + 1, metric, fate)
    BY <1>1, CallEnds, ZenonT(60) DEF IInv, Types, Balanced
  <1>5. /\ Balance(Cardinality(Posted'), metric', fate')
        /\ metric' \in [Counters -> Nat] /\ fate' \in [Fates -> Nat]
    <2>1. Counts(Counted(r), metric, metric') /\ Ends(Fate(r), fate, fate')
      BY <1>2 DEF Counts, Ends
    <2> QED
      BY <1>3, <1>4, <2>1, ReplyBalances
  <1>6. Types'
    BY <1>1, <1>5, CallEnds DEF Types, query_reply
  <1>7. Compatible'
    BY <1>1, CallEnds, ZenonT(60) DEF IInv, Compatible, query_reply
  <1> QED
    BY <1>5, <1>6, <1>7 DEF IInv, Balanced

(* Cancelling a posted query keeps the invariant. *)
LEMMA CancelKeeps ==
    ASSUME IInv, NEW i \in Calls, query_cancelled(i)
    PROVE  IInv'
  <1>1. i \in Posted /\ call' = [call EXCEPT ![i] = -1] /\ Types /\ metric' = metric
    BY DEF query_cancelled, IInv
  <1>2. \A k \in Fates : fate[k] \in Nat
    BY <1>1 DEF Types
  <1>3. /\ fate' \in [Fates -> Nat] /\ fate'["cancelled"] = fate["cancelled"] + 1
        /\ \A k \in Fates \ {"cancelled"} : fate'[k] = fate[k]
    BY <1>1, <1>2 DEF Types, query_cancelled, Fates
  <1>4. Total(fate) \in Nat /\ Total(fate') = Total(fate) + 1
    <2>1. /\ fate["answer"] \in Nat /\ fate["item_error"] \in Nat /\ fate["no_exchange"] \in Nat
          /\ fate["bad_response"] \in Nat /\ fate["undecoded"] \in Nat /\ fate["cancelled"] \in Nat
      BY <1>2 DEF Fates
    <2>2. /\ fate'["answer"] = fate["answer"] /\ fate'["item_error"] = fate["item_error"]
          /\ fate'["no_exchange"] = fate["no_exchange"]
          /\ fate'["bad_response"] = fate["bad_response"]
          /\ fate'["undecoded"] = fate["undecoded"]
      BY <1>3 DEF Fates
    <2> QED
      BY <1>3, <2>1, <2>2 DEF Total
  <1>5. Balanced'
    <2>1. metric["requests"] = Cardinality(Posted') + 1 + Total(fate)
      BY <1>1, CallEnds, ZenonT(60) DEF IInv, Balanced, Balance
    <2>2. Cardinality(Posted') \in Nat
      BY <1>1, CallEnds, ZenonT(60)
    <2>3. metric["requests"] = Cardinality(Posted') + Total(fate')
      BY <1>4, <2>1, <2>2
    <2> QED
      BY <1>1, <1>3, <2>3 DEF IInv, Balanced, Balance, Fates
  <1>6. Types'
    BY <1>1, <1>3, CallEnds DEF Types, query_cancelled
  <1>7. Compatible'
    BY <1>1, CallEnds, ZenonT(60) DEF IInv, Compatible, query_cancelled
  <1> QED
    BY <1>5, <1>6, <1>7 DEF IInv

(* The startup check, stop, and close leave calls and counters alone. *)
LEMMA ProcessKeeps ==
    ASSUME IInv, startup_check \/ stop_signal \/ close \/ UNCHANGED vars
    PROVE  IInv'
  <1>1. UNCHANGED <<call, metric, fate>>
    BY DEF startup_check, stop_signal, close, vars
  <1>2. Posted' = Posted
    BY <1>1 DEF Posted
  <1>3. Balanced'
    BY <1>1, <1>2 DEF IInv, Balanced
  <1>4. CASE startup_check
    <2>1. info \in Infos /\ info.limits \in Limits
      BY <1>4, RelayAssumption DEF IInv, Types, startup_check
    <2>2. Types'
      BY <1>4, <2>1 DEF IInv, Types, startup_check
    <2>3. relay' # NoLimits => relay' = info.limits /\ check_limit_compatibility(info.limits)
      BY <1>4 DEF startup_check, Continues, check_relay_startup
    <2>4. Compatible'
      BY <1>1, <1>2, <1>4, <2>3 DEF IInv, Compatible, check_limit_compatibility, startup_check
    <2> QED
      BY <1>3, <2>2, <2>4 DEF IInv
  <1>5. CASE stop_signal \/ close \/ UNCHANGED vars
    <2>1. Types'
      BY <1>5, ZenonT(60) DEF IInv, Types, stop_signal, close, vars
    <2>2. Compatible'
      BY <1>1, <1>2, <1>5 DEF IInv, Compatible, stop_signal, close, vars
    <2> QED
      BY <1>3, <2>1, <2>2 DEF IInv
  <1> QED
    BY <1>4, <1>5

(* The invariant holds before the first post. *)
LEMMA InitInv == Init => IInv
  <1> SUFFICES ASSUME Init PROVE IInv
    OBVIOUS
  <1>1. Posted = {} /\ Cardinality(Posted) = 0
    BY FS_EmptySet DEF Init, Posted
  <1>2. Types
    BY ZenonT(60) DEF Init, Types
  <1>3. Balanced
    BY <1>1, RelayAssumption DEF Init, Balanced, Balance, Total, Counters, Fates
  <1>4. Compatible
    BY <1>1 DEF Init, Compatible
  <1> QED
    BY <1>2, <1>3, <1>4 DEF IInv

(* The inductive invariant holds throughout. *)
LEMMA Inductive == Spec => []IInv
  <1>1. IInv /\ [Next]_vars => IInv'
    BY PostKeeps, ReplyKeeps, CancelKeeps, ProcessKeeps DEF Next
  <1> QED
    BY <1>1, InitInv, PTL DEF Spec

-----------------------------------------------------------------------------
(* The counters stay natural numbers within the number of posts, and the     *)
(* rest of the state keeps its type.                                         *)
THEOREM TypeCorrect == Spec => []TypeOK
  <1>1. ASSUME IInv PROVE TypeOK
    <2>1. /\ \A k \in Counters : metric[k] \in Nat
          /\ \A k \in Fates : fate[k] \in Nat
      BY <1>1 DEF IInv, Types
    <2>2. MaxRequests \in Nat /\ Cardinality(Posted) \in Nat
      <3>1. Posted \subseteq Calls /\ IsFiniteSet(Calls) /\ MaxRequests \in Nat
        BY RelayAssumption DEF Posted
      <3> QED
        BY <3>1, FS_Subset, FS_CardinalityType
    <2>3. \A k \in Fates : fate[k] <= Total(fate)
      BY <2>1 DEF Fates, Total
    <2>4. Total(fate) \in Nat /\ Total(fate) <= metric["requests"] /\ metric["requests"] <= MaxRequests
      BY <1>1, <2>1, <2>2 DEF IInv, Balanced, Balance, Total, Fates, Counters
    <2>5. \A k \in Fates : fate[k] \in 0 .. MaxRequests
      BY <2>1, <2>2, <2>3, <2>4 DEF Counters
    <2>6. \A k \in Counters : metric[k] <= MaxRequests
      BY <1>1, <2>1, <2>2, <2>4, <2>5 DEF IInv, Balanced, Balance, Counters, Fates
    <2>7. metric \in [Counters -> 0 .. MaxRequests] /\ fate \in [Fates -> 0 .. MaxRequests]
      BY <1>1, <2>1, <2>2, <2>5, <2>6 DEF IInv, Types
    <2> QED
      BY <1>1, <2>7 DEF IInv, Types, TypeOK
  <1> QED
    BY <1>1, Inductive, PTL

(* However many calls run at once and whatever the relay replies, every post *)
(* of query is in flight, answered, cancelled or under the error counter its *)
(* failure calls for; a response that is no UTF-8 alone may be under none.   *)
THEOREM PostsAreAccountedFor == Spec => []EveryPostIsAccountedFor
  <1>1. ASSUME IInv PROVE EveryPostIsAccountedFor
    <2>1. /\ fate["answer"] \in Nat /\ fate["item_error"] \in Nat /\ fate["no_exchange"] \in Nat
          /\ fate["bad_response"] \in Nat /\ fate["undecoded"] \in Nat /\ fate["cancelled"] \in Nat
      BY <1>1 DEF IInv, Types, Fates
    <2>2. Cardinality(Posted) \in Nat
      <3>1. Posted \subseteq Calls /\ IsFiniteSet(Calls)
        BY RelayAssumption DEF Posted
      <3> QED
        BY <3>1, FS_Subset, FS_CardinalityType
    <2> QED
      BY <1>1, <2>1, <2>2 DEF IInv, Balanced, Balance, Total, EveryPostIsAccountedFor
  <1> QED
    BY <1>1, Inductive, PTL

(* A startup check in mode "require" protects the relay: whatever limits it  *)
(* advertised, no query that exceeds them is ever posted.                    *)
THEOREM RequiredRelayFits == Spec => []PostsFitTheRelay
  <1>1. ASSUME IInv PROVE PostsFitTheRelay
    <2> SUFFICES ASSUME relay # NoLimits, NEW i \in Posted PROVE Fits(call[i], relay)
      BY DEF PostsFitTheRelay
    <2>1. /\ relay \in Limits /\ client \in Limits /\ Envelope \in Nat
          /\ \A k \in LimitNames : client[k] <= relay[k]
      BY <1>1, RelayAssumption DEF IInv, Types, Compatible
    <2>2. call[i] \in WireSizes /\ WireSizes \subseteq Nat
      BY <1>1, RelayAssumption DEF IInv, Types, Posted
    <2>3. call[i] \in Nat /\ Fits(call[i], client)
      BY <1>1, <2>2, ZenonT(60) DEF IInv, Compatible
    <2>4. Body(call[i]) \in Int
      BY <2>1, <2>3 DEF Body, Base64
    <2> QED
      BY <2>1, <2>3, <2>4 DEF Fits, Limits, LimitNames
  <1> QED
    BY <1>1, Inductive, PTL
=============================================================================
