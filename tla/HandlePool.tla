----------------------------- MODULE HandlePool -----------------------------
(***************************************************************************)
(* HttpClient::HandlePool: at most MaxSize curl handles, created on        *)
(* demand, shared by the threads that send requests.  Acquire creates a    *)
(* handle outside the mutex; Release of one that could not be created only *)
(* lowers the count.                                                       *)
(***************************************************************************)
EXTENDS Integers, FiniteSets

CONSTANTS Threads,   \* the threads that send requests
          Handles,   \* the addresses curl_easy_init may return
          MaxSize,   \* max_size_
          None       \* nullptr

ASSUME HandlePoolAssumption ==
  /\ MaxSize \in Nat \ {0}
  /\ IsFiniteSet(Threads) /\ IsFiniteSet(Handles)
  /\ None \notin Handles

VARIABLES
  free,      \* free_handles_
  created,   \* created_
  at,        \* per thread: where it is with the pool
  hold,      \* per thread: the handle Acquire returned
  failed     \* curl_easy_init returned nullptr to somebody

poolVars == <<free, created, at, hold, failed>>

(* "out": outside; "init": between created_++ and the end of               *)
(* curl_easy_init; "wait": asleep in cv_.wait; "woken": notified;          *)
(* "have" and "null": returned from Acquire, not yet in Release.           *)
PoolTypeOK ==
  /\ free \subseteq Handles
  /\ created \in 0..MaxSize
  /\ at \in [Threads -> {"out", "init", "wait", "woken", "have", "null"}]
  /\ hold \in [Threads -> Handles \cup {None}]
  /\ failed \in BOOLEAN

PoolInit ==
  /\ free = {} /\ created = 0
  /\ at = [t \in Threads |-> "out"]
  /\ hold = [t \in Threads |-> None]
  /\ failed = FALSE

At(s) == {t \in Threads : at[t] = s}
Held == {hold[t] : t \in Threads} \ {None}

Take(t) ==
  \E h \in free :
    /\ free' = free \ {h}
    /\ hold' = [hold EXCEPT ![t] = h]
    /\ at' = [at EXCEPT ![t] = "have"]
    /\ UNCHANGED <<created, failed>>

AcquireFree(t) == at[t] = "out" /\ Take(t)

(* Mutant: the count is raised only when the handle exists.                *)
AcquireCountsLate(t) ==
  /\ at[t] = "out" /\ free = {}
  /\ created < MaxSize
  /\ at' = [at EXCEPT ![t] = "init"]
  /\ UNCHANGED <<free, created, hold, failed>>
AcquireNew(t) ==
  /\ at[t] = "out" /\ free = {}
  /\ created < MaxSize
  /\ created' = created + 1
  /\ at' = [at EXCEPT ![t] = "init"]
  /\ UNCHANGED <<free, hold, failed>>

InitReturns(t) ==
  /\ at[t] = "init"
  /\ \E h \in Handles \ (free \cup Held) : hold' = [hold EXCEPT ![t] = h]
  /\ at' = [at EXCEPT ![t] = "have"]
  /\ UNCHANGED <<free, created, failed>>

InitFails(t) ==
  /\ at[t] = "init"
  /\ at' = [at EXCEPT ![t] = "null"]
  /\ UNCHANGED <<free, created, hold, failed>>

FallAsleep(t) ==
  /\ at[t] = "out" /\ free = {} /\ created = MaxSize
  /\ at' = [at EXCEPT ![t] = "wait"]
  /\ UNCHANGED <<free, created, hold, failed>>

(* A notified thread tests the predicate again; another may have taken the *)
(* handle meanwhile.  A thread that wakes without a notification takes a   *)
(* handle at most as one that comes anew would, and is left out.           *)
WakeUp(t) ==
  /\ at[t] = "woken"
  /\ \/ Take(t)
     \/ /\ free = {}
        /\ at' = [at EXCEPT ![t] = "wait"]
        /\ UNCHANGED <<free, created, hold, failed>>

(* Mutant: the handle is back, nobody is told.                             *)
ReleaseSilently(t) ==
  /\ at[t] = "have"
  /\ free' = free \cup {hold[t]}
  /\ hold' = [hold EXCEPT ![t] = None]
  /\ at' = [at EXCEPT ![t] = "out"]
  /\ UNCHANGED <<created, failed>>
(* notify_one wakes one thread if any sleeps.                              *)
Release(t) ==
  /\ at[t] = "have"
  /\ free' = free \cup {hold[t]}
  /\ hold' = [hold EXCEPT ![t] = None]
  /\ \/ \E w \in At("wait") : at' = [at EXCEPT ![t] = "out", ![w] = "woken"]
     \/ At("wait") = {} /\ at' = [at EXCEPT ![t] = "out"]
  /\ UNCHANGED <<created, failed>>

ReleaseNull(t) ==
  /\ at[t] = "null"
  /\ created' = created - 1
  /\ at' = [at EXCEPT ![t] = "out"]
  /\ failed' = TRUE
  /\ UNCHANGED <<free, hold>>

AcquireStep(t) ==
  \/ AcquireFree(t) \/ AcquireNew(t) \/ InitReturns(t) \/ InitFails(t)
  \/ FallAsleep(t) \/ WakeUp(t)

PoolNext ==
  \E t \in Threads : AcquireStep(t) \/ Release(t) \/ ReleaseNull(t)

PoolSpec == PoolInit /\ [][PoolNext]_poolVars
-----------------------------------------------------------------------------
(* Every handle has one place: the free list or one thread, and created_   *)
(* counts them all, with those still being created: http_client.h:13 calls *)
(* pool_size the maximum of concurrent handles.                            *)
Busy == At("have") \cup At("init") \cup At("null")

HandlesAccounted ==
  /\ PoolTypeOK
  /\ \A t \in Threads : (hold[t] # None) <=> (at[t] = "have")
  /\ \A t \in At("have") : hold[t] \notin free
  /\ \A t, u \in At("have") : t # u => hold[t] # hold[u]
  /\ created = Cardinality(free) + Cardinality(Busy)
=============================================================================
