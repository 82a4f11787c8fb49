---------------------------- MODULE SingleFlight ----------------------------
(***************************************************************************)
(* SingleFlight (src/resilientdns/dns/singleflight.py): concurrent work is  *)
(* deduplicated per key.  The first caller of get_or_create for a key       *)
(* creates a task, later callers join it while it is not done.              *)
(*                                                                         *)
(* The bodies of get_or_create and _cleanup hold an asyncio.Lock but do not *)
(* await while they hold it, so the lock is never contended and each body   *)
(* is one atomic step of the event loop.                                    *)
(*                                                                         *)
(* A task identifier stands for one asyncio.Task object.  It is taken from  *)
(* the finite pool Tasks, and goes back to it when its _cleanup has run.    *)
(***************************************************************************)

CONSTANTS
    SFKeys,     \* the keys work is deduplicated by
    Tasks,      \* identifiers of asyncio tasks
    NoTask,     \* "this key has no entry in _tasks"
    NoKey       \* "this identifier is not in use"

(* The two that mean "none" are not a task and not a key: what the users of  *)
(* this module assume of their constants.                                   *)
Sentinels == NoTask \notin Tasks /\ NoKey \notin SFKeys

VARIABLES
    tasks,      \* SingleFlight._tasks
    owner,      \* owner[t]: the key task t was created for
    done        \* the tasks t with t.done() whose _cleanup has not run yet

sfVars == <<tasks, owner, done>>

TypeOK ==
    /\ tasks \in [SFKeys -> Tasks \cup {NoTask}]
    /\ owner \in [Tasks -> SFKeys \cup {NoKey}]
    /\ done \in SUBSET Tasks

Init ==
    /\ tasks = [k \in SFKeys |-> NoTask]
    /\ owner = [t \in Tasks |-> NoKey]
    /\ done = {}

(* Task t exists and t.done() is false. *)
Running(t) == owner[t] # NoKey /\ t \notin done

-----------------------------------------------------------------------------
(* "existing is not None and not existing.done()" *)
ExistingIgnoringDone(k) == tasks[k] # NoTask
Existing(k) ==
    /\ tasks[k] # NoTask
    /\ tasks[k] \notin done

(* The caller creates task t and registers it. *)
Create(k, t) ==
    /\ ~Existing(k)
    /\ owner[t] = NoKey
    /\ tasks' = [tasks EXCEPT ![k] = t]
    /\ owner' = [owner EXCEPT ![t] = k]
    /\ done' = done

(* The caller joins the task that is already there. *)
Join(k, t) ==
    /\ Existing(k)
    /\ t = tasks[k]
    /\ UNCHANGED sfVars

(* get_or_create(key) returns t. *)
get_or_create(k, t) == Create(k, t) \/ Join(k, t)

(* Task t ends: with a result, an exception or a cancellation.  The done    *)
(* callback then schedules _cleanup.                                        *)
Finish(t) ==
    /\ Running(t)
    /\ done' = done \cup {t}
    /\ UNCHANGED <<tasks, owner>>

(* _cleanup(key, t): drops the entry of the key only if it is still t. *)
CleanupWithoutIdentityCheck(t) ==
    /\ t \in done
    /\ tasks' = [tasks EXCEPT ![owner[t]] = NoTask]
    /\ owner' = [owner EXCEPT ![t] = NoKey]
    /\ done' = done \ {t}
CleanupKeepingEntry(t) ==
    /\ t \in done
    /\ owner' = [owner EXCEPT ![t] = NoKey]
    /\ done' = done \ {t}
    /\ UNCHANGED tasks
cleanup(t) ==
    /\ t \in done
    /\ tasks' = [tasks EXCEPT ![owner[t]] = IF @ = t THEN NoTask ELSE @]
    /\ owner' = [owner EXCEPT ![t] = NoKey]
    /\ done' = done \ {t}

-----------------------------------------------------------------------------
Next ==
    \/ \E k \in SFKeys, t \in Tasks : get_or_create(k, t)
    \/ \E t \in Tasks : Finish(t)
    \/ \E t \in Tasks : cleanup(t)

Spec == Init /\ [][Next]_sfVars

-----------------------------------------------------------------------------
(* The promise of the class: two tasks that are running at the same time   *)
(* work for different keys.                                                *)
OneFlightPerKey ==
    \A t, u \in Tasks :
        Running(t) /\ Running(u) /\ owner[t] = owner[u] => t = u

(* Why it holds: a running task is always the registered one, so that the  *)
(* next caller finds it.  A late _cleanup of an earlier task of the same   *)
(* key must not drop it.                                                   *)
RunningRegistered ==
    \A t \in Tasks : Running(t) => tasks[owner[t]] = t

(* _tasks does not leak: an entry belongs to a task of that key that is    *)
(* running or whose _cleanup is still to come.                             *)
NoLeakedEntry ==
    \A k \in SFKeys : tasks[k] # NoTask => owner[tasks[k]] = k

(* "The task is removed when it completes (success, error, or cancel)"     *)
(* (singleflight.py:14): an entry of a finished task goes away, however    *)
(* many newer tasks of the key start and finish meanwhile, if the event    *)
(* loop runs every _cleanup that is scheduled.                             *)
FinishedIsRemoved ==
    \A t \in Tasks : t \in done ~> \A k \in SFKeys : tasks[k] # t

(* Only a task that was created can be done. *)
DoneOwned == \A t \in done : owner[t] # NoKey

IInv == TypeOK /\ RunningRegistered /\ NoLeakedEntry /\ DoneOwned
=============================================================================
