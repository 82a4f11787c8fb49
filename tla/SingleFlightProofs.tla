------------------------- MODULE SingleFlightProofs -------------------------
(***************************************************************************)
(* Proofs that SingleFlight deduplicates work for every set of keys and     *)
(* every number of tasks.                                                   *)
(***************************************************************************)
EXTENDS SingleFlight, TLAPS

(* The time limits of the provers, in seconds. *)
USE ZenonT(5), SMTT(60)

(* Each step of SingleFlight preserves the inductive invariant.  The       *)
(* composed specification of the handler uses the same facts.              *)
LEMMA CreateInv ==
    ASSUME Sentinels, IInv, NEW k \in SFKeys, NEW t \in Tasks, Create(k, t)
    PROVE  IInv'
  <1>1. TypeOK'
    BY DEF IInv, TypeOK, Create
  <1>2. RunningRegistered'
    BY DEF Sentinels, IInv, TypeOK, Create, Existing, RunningRegistered, NoLeakedEntry, DoneOwned, Running
  <1>3. NoLeakedEntry'
    BY DEF Sentinels, IInv, TypeOK, Create, NoLeakedEntry
  <1>4. DoneOwned'
    BY DEF Sentinels, IInv, TypeOK, Create, DoneOwned
  <1> QED
    BY <1>1, <1>2, <1>3, <1>4 DEF IInv

(* A task that ends stays registered until its _cleanup. *)
LEMMA FinishInv ==
    ASSUME IInv, NEW t \in Tasks, Finish(t)
    PROVE  IInv'
  BY DEF IInv, TypeOK, Finish, RunningRegistered, NoLeakedEntry, DoneOwned, Running

(* _cleanup drops the entry of its own task only. *)
LEMMA CleanupInv ==
    ASSUME Sentinels, IInv, NEW t \in Tasks, cleanup(t)
    PROVE  IInv'
  <1>1. owner[t] \in SFKeys
    BY DEF IInv, TypeOK, DoneOwned, cleanup
  <1>2. TypeOK'
    BY <1>1 DEF IInv, TypeOK, cleanup
  <1>3. RunningRegistered'
    BY <1>1
    DEF Sentinels, IInv, TypeOK, cleanup, RunningRegistered, DoneOwned, Running
  <1>4. NoLeakedEntry'
    BY <1>1 DEF Sentinels, IInv, TypeOK, cleanup, NoLeakedEntry
  <1>5. DoneOwned'
    BY DEF Sentinels, IInv, TypeOK, cleanup, DoneOwned
  <1> QED
    BY <1>2, <1>3, <1>4, <1>5 DEF IInv

(* A step that leaves SingleFlight alone preserves its invariant. *)
LEMMA StutterInv ==
    ASSUME IInv, UNCHANGED sfVars
    PROVE  IInv'
  BY DEF IInv, sfVars, TypeOK, RunningRegistered, NoLeakedEntry, DoneOwned, Running

(* A running task is the one registered for its key: the second of two     *)
(* running tasks of one key would be registered in the same place.         *)
LEMMA RegisteredImpliesOneFlight == IInv => OneFlightPerKey
  BY DEF IInv, RunningRegistered, OneFlightPerKey

(* The inductive invariant holds in every state. *)
LEMMA Inductive ==
    ASSUME Sentinels
    PROVE  Spec => []IInv
  <1>1. Init => IInv
    BY DEF Init, IInv, TypeOK, RunningRegistered, NoLeakedEntry, DoneOwned, Running
  <1>2. IInv /\ [Next]_sfVars => IInv'
    <2> SUFFICES ASSUME IInv, [Next]_sfVars PROVE IInv'
      OBVIOUS
    <2>1. ASSUME NEW k \in SFKeys, NEW t \in Tasks, get_or_create(k, t) PROVE IInv'
      BY <2>1, CreateInv, StutterInv DEF get_or_create, Join
    <2>2. ASSUME NEW t \in Tasks, Finish(t) PROVE IInv'
      BY <2>2, FinishInv
    <2>3. ASSUME NEW t \in Tasks, cleanup(t) PROVE IInv'
      BY <2>3, CleanupInv
    <2>4. CASE UNCHANGED sfVars
      BY <2>4, StutterInv
    <2> QED
      BY <2>1, <2>2, <2>3, <2>4 DEF Next
  <1> QED
    BY <1>1, <1>2, PTL DEF Spec

(* TypeOK: the state of SingleFlight keeps its shape. *)
THEOREM TypeCorrect ==
    ASSUME Sentinels
    PROVE  Spec => []TypeOK
  <1>1. IInv => TypeOK
    BY DEF IInv
  <1> QED
    BY <1>1, Inductive, PTL

(* get_or_create and _cleanup never let two tasks of one key run at the    *)
(* same time, whatever the order of completions and late cleanups.         *)
THEOREM Deduplicates ==
    ASSUME Sentinels
    PROVE  Spec => []OneFlightPerKey
  BY Inductive, RegisteredImpliesOneFlight, PTL

(* _cleanup leaves no entry of _tasks behind. *)
THEOREM EntriesDoNotLeak ==
    ASSUME Sentinels
    PROVE  Spec => []NoLeakedEntry
  <1>1. IInv => NoLeakedEntry
    BY DEF IInv
  <1> QED
    BY <1>1, Inductive, PTL
=============================================================================
