----------------------------- MODULE WarmupFile -----------------------------
(***************************************************************************)
(* The warmup list (src/resilientdns/refresh_warmup.py): what the startup    *)
(* leaves in the empty refresh queue.  It runs before any other coroutine.   *)
(***************************************************************************)
EXTENDS Naturals, Sequences

(* What parsing tells apart: a blank line or a comment, a line that is not a *)
(* name and a known type, and a job.  Different spellings of a name are jobs *)
(* of the same key.                                                          *)
Blank == [kind |-> "blank"]
Invalid == [kind |-> "invalid"]
Job(k) == [kind |-> "job", key |-> k]
WarmupLine(keys) == {Blank, Invalid} \cup {Job(k) : k \in keys}

IsJob(line) == line.kind = "job"

(* items, after each line of the file *)
Parsed(lines) ==
    LET items[n \in 0 .. Len(lines)] ==
            IF n = 0 THEN <<>>
            ELSE IF IsJob(lines[n]) THEN Append(items[n - 1], lines[n].key)
            ELSE items[n - 1]
    IN items
parse_warmup_source(lines) == Parsed(lines)[Len(lines)]

(* enqueue_refresh drops a key that is queued already, and every key when    *)
(* the queue is full.                                                        *)
Enqueued(queue, k, queue_max) ==
    IF \/ \E i \in 1 .. Len(queue) : queue[i] = k
       \/ queue_max > 0 /\ Len(queue) >= queue_max
    THEN queue ELSE Append(queue, k)

(* The queue, after each of the first loaded items. *)
Queues(items, loaded, queue_max) ==
    LET queue[n \in 0 .. loaded] ==
            IF n = 0 THEN <<>> ELSE Enqueued(queue[n - 1], items[n], queue_max)
    IN queue

enqueue_warmup_file(lines, limit, queue_max) ==
    LET items == parse_warmup_source(lines)
        loaded == IF Len(items) < limit THEN Len(items) ELSE limit
    IN Queues(items, loaded, queue_max)[loaded]
=============================================================================
