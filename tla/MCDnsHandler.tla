---------------------------- MODULE MCDnsHandler ----------------------------
(* DnsHandler for TLC.                                                       *)
EXTENDS DnsHandler, WarmupFile, SequencesExt, TLC

(* An answer that lives for a second. *)
OneAnswer == {[rcode |-> 0, rr |-> {1}, soa |-> <<>>]}

(* An answer that lives for the second in which it is stored. *)
ShortAnswer == {[rcode |-> 0, rr |-> {0}, soa |-> <<>>]}

(* A file whose second job repeats the first one, and no file. *)
NoWarmup == <<>>
OneWarmup ==
    LET k == CHOOSE key \in Keys : TRUE
    IN enqueue_warmup_file(<<Blank, Job(k), Invalid, Job(k)>>, 2, refresh_queue_max)

(* What the handler assumes of its initial queue is what the startup makes   *)
(* of any file: distinct keys of jobs, within the limit and the bound of the *)
(* queue, and no key is lost while there is room.                            *)
ASSUME WarmupFileChecked ==
    \A n \in 0 .. 4, limit \in 0 .. 3, max \in 0 .. 2 :
    \A lines \in [1 .. n -> WarmupLine(1 .. 2)] :
        LET queue == enqueue_warmup_file(lines, limit, max)
            jobs == parse_warmup_source(lines)
            offered == {jobs[i] : i \in {j \in DOMAIN jobs : j <= limit}}
        IN /\ IsInjective(queue)
           /\ Len(queue) <= limit /\ (max > 0 => Len(queue) <= max)
           /\ {queue[i] : i \in DOMAIN queue} \subseteq offered
           /\ max = 0 \/ Len(queue) < max => offered = {queue[i] : i \in DOMAIN queue}

(* The behaviours in which a woken call of handle runs before anything else  *)
(* happens, as asyncio's ready queue makes it.                               *)
Woke == {c \in Clients : client[c].pc = "resume"}
PromptNext == Next /\ (Woke # {} => \E c \in Woke : client'[c].pc = "idle")
PromptSpec == Init /\ [][PromptNext]_vars

Symmetry == Permutations(Clients) \cup Permutations(Tasks) \cup Permutations(Workers)
=============================================================================
