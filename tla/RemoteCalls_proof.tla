-------------------------- MODULE RemoteCalls_proof --------------------------
(***************************************************************************)
(* The pool of curl handles keeps its books, and a request leaves with its *)
(* own options, for any number of threads, handles, retries and calls.     *)
(***************************************************************************)
EXTENDS RemoteCalls, FiniteSetTheorems, TLAPS

(* The threads that hold or make a handle, and the free handles, can be    *)
(* counted.                                                                *)
LEMMA BusyFinite ==
  ASSUME HandlesAccounted
  PROVE  /\ IsFiniteSet(Busy) /\ IsFiniteSet(free)
         /\ Cardinality(Busy) \in Nat /\ Cardinality(free) \in Nat
<1>1. Busy \subseteq Threads /\ free \subseteq Handles
  BY DEF HandlesAccounted, PoolTypeOK, Busy, At
<1>2. IsFiniteSet(Busy) /\ IsFiniteSet(free)
  BY <1>1, HandlePoolAssumption, FS_Subset
<1> QED
  BY <1>2, FS_CardinalityType

(* Acquire hands out a free handle: one free handle less, one thread more  *)
(* that is busy.                                                           *)
LEMMA TakeStep ==
  ASSUME HandlesAccounted, NEW t \in Threads, at[t] \in {"out", "woken"}, Take(t)
  PROVE  HandlesAccounted'
<1>1. PICK h \in free : /\ free' = free \ {h}
                        /\ hold' = [hold EXCEPT ![t] = h]
                        /\ at' = [at EXCEPT ![t] = "have"]
                        /\ UNCHANGED <<created, failed>>
  BY DEF Take
<1>2. h \in Handles /\ h # None
  BY HandlePoolAssumption DEF HandlesAccounted, PoolTypeOK
<1>3. PoolTypeOK'
  BY <1>1, <1>2 DEF HandlesAccounted, PoolTypeOK
<1>4. \A u \in Threads : (hold'[u] # None) <=> (at'[u] = "have")
  BY <1>1, <1>2 DEF HandlesAccounted, PoolTypeOK
<1>5. \A u \in At("have")' : hold'[u] \notin free'
  BY <1>1 DEF HandlesAccounted, PoolTypeOK, At
<1>6. \A u, v \in At("have")' : u # v => hold'[u] # hold'[v]
  BY <1>1 DEF HandlesAccounted, PoolTypeOK, At
<1>7. Busy' = Busy \cup {t} /\ t \notin Busy
  BY <1>1 DEF HandlesAccounted, PoolTypeOK, Busy, At
<1>8. Cardinality(Busy') = Cardinality(Busy) + 1
  BY <1>7, BusyFinite, FS_AddElement
<1>9. Cardinality(free') = Cardinality(free) - 1
  BY <1>1, BusyFinite, FS_RemoveElement
<1>10. created' = Cardinality(free') + Cardinality(Busy')
  BY <1>1, <1>8, <1>9, BusyFinite DEF HandlesAccounted
<1> QED
  BY <1>3, <1>4, <1>5, <1>6, <1>10 DEF HandlesAccounted

(* created_++ before curl_easy_init: the thread counts while it makes the  *)
(* handle.                                                                 *)
LEMMA AcquireNewStep ==
  ASSUME HandlesAccounted, NEW t \in Threads, AcquireNew(t)
  PROVE  HandlesAccounted'
<1>1. PoolTypeOK'
  BY HandlePoolAssumption DEF AcquireNew, HandlesAccounted, PoolTypeOK
<1>2. Busy' = Busy \cup {t} /\ t \notin Busy
  BY DEF AcquireNew, HandlesAccounted, PoolTypeOK, Busy, At
<1>3. Cardinality(Busy') = Cardinality(Busy) + 1
  BY <1>2, BusyFinite, FS_AddElement
<1>4. created' = Cardinality(free') + Cardinality(Busy')
  BY <1>3, BusyFinite DEF AcquireNew, HandlesAccounted
<1> QED
  BY <1>1, <1>4 DEF AcquireNew, HandlesAccounted, PoolTypeOK, At

(* A fresh handle is nobody's and not on the free list.                    *)
LEMMA InitReturnsStep ==
  ASSUME HandlesAccounted, NEW t \in Threads, InitReturns(t)
  PROVE  HandlesAccounted'
<1>1. PICK h \in Handles \ (free \cup Held) : hold' = [hold EXCEPT ![t] = h]
  BY DEF InitReturns
<1>2. h # None /\ \A u \in At("have") : hold[u] # h
  BY HandlePoolAssumption DEF HandlesAccounted, At, Held
<1>3. Busy' = Busy
  BY DEF InitReturns, HandlesAccounted, PoolTypeOK, Busy, At
<1>4. created' = Cardinality(free') + Cardinality(Busy')
  BY <1>3 DEF InitReturns, HandlesAccounted
<1> QED
  BY <1>1, <1>2, <1>4 DEF InitReturns, HandlesAccounted, PoolTypeOK, At

(* Neither the failure of curl_easy_init nor a wait moves a handle.        *)
LEMMA QuietStep ==
  ASSUME HandlesAccounted, NEW t \in Threads,
         \/ InitFails(t) \/ FallAsleep(t)
         \/ at[t] = "woken" /\ at' = [at EXCEPT ![t] = "wait"]
              /\ UNCHANGED <<free, created, hold, failed>>
  PROVE  HandlesAccounted'
<1>1. Busy' = Busy
  BY DEF InitFails, FallAsleep, HandlesAccounted, PoolTypeOK, Busy, At
<1>2. created' = Cardinality(free') + Cardinality(Busy')
  BY <1>1 DEF InitFails, FallAsleep, HandlesAccounted
<1> QED
  BY <1>2 DEF InitFails, FallAsleep, HandlesAccounted, PoolTypeOK, At

LEMMA AcquireStepKeeps ==
  ASSUME HandlesAccounted, NEW t \in Threads, AcquireStep(t)
  PROVE  HandlesAccounted'
<1>1. CASE AcquireFree(t)
  BY <1>1, TakeStep DEF AcquireFree
<1>2. CASE WakeUp(t)
  BY <1>2, TakeStep, QuietStep DEF WakeUp
<1> QED
  BY <1>1, <1>2, AcquireNewStep, InitReturnsStep, QuietStep DEF AcquireStep

(* ~PooledHandle: the handle goes from the thread to the free list.        *)
LEMMA ReleaseStep ==
  ASSUME HandlesAccounted, NEW t \in Threads, Release(t)
  PROVE  HandlesAccounted'
<1> DEFINE h == hold[t]
<1>1. h \in Handles /\ h \notin free /\ h # None /\ t \in Busy
  BY DEF Release, HandlesAccounted, PoolTypeOK, At, Busy
<1>2. PICK w \in Threads \cup {None} :
        \/ w \in At("wait") /\ at' = [at EXCEPT ![t] = "out", ![w] = "woken"]
        \/ w = None /\ at' = [at EXCEPT ![t] = "out"]
  BY DEF Release, At
<1>3. at'[t] = "out" /\ \A u \in Threads \ {t} :
         at'[u] = at[u] \/ (at[u] = "wait" /\ at'[u] = "woken")
  BY <1>2 DEF Release, HandlesAccounted, PoolTypeOK, At
<1>4. PoolTypeOK'
  BY <1>1, <1>2 DEF Release, HandlesAccounted, PoolTypeOK
<1>5. Busy' = Busy \ {t}
  BY <1>3 DEF HandlesAccounted, PoolTypeOK, Busy, At
<1>6. Cardinality(Busy') = Cardinality(Busy) - 1
  BY <1>1, <1>5, BusyFinite, FS_RemoveElement
<1>7. Cardinality(free') = Cardinality(free) + 1
  BY <1>1, BusyFinite, FS_AddElement DEF Release
<1>8. created' = Cardinality(free') + Cardinality(Busy')
  BY <1>6, <1>7, BusyFinite DEF Release, HandlesAccounted
<1>9. \A u \in Threads : (hold'[u] # None) <=> (at'[u] = "have")
  BY <1>1, <1>3 DEF Release, HandlesAccounted, PoolTypeOK
<1>10. At("have")' = At("have") \ {t}
  BY <1>3 DEF At, Release
<1>11. /\ \A u \in At("have")' : hold'[u] \notin free'
       /\ \A u, v \in At("have")' : u # v => hold'[u] # hold'[v]
  BY <1>1, <1>10 DEF Release, HandlesAccounted, PoolTypeOK, At
<1> QED
  BY <1>4, <1>8, <1>9, <1>11 DEF HandlesAccounted

(* Release of a handle that could not be created lowers the count.         *)
LEMMA ReleaseNullStep ==
  ASSUME HandlesAccounted, NEW t \in Threads, ReleaseNull(t)
  PROVE  HandlesAccounted'
<1>1. Busy' = Busy \ {t} /\ t \in Busy
  BY DEF ReleaseNull, HandlesAccounted, PoolTypeOK, Busy, At
<1>2. Cardinality(Busy') = Cardinality(Busy) - 1
  BY <1>1, BusyFinite, FS_RemoveElement
<1>3. created' = Cardinality(free') + Cardinality(Busy')
  BY <1>2, BusyFinite DEF ReleaseNull, HandlesAccounted
<1>4. Cardinality(Busy) # 0
  BY <1>1, BusyFinite, FS_EmptySet
<1>5. PoolTypeOK'
  BY <1>4, BusyFinite, HandlePoolAssumption DEF ReleaseNull, HandlesAccounted,
     PoolTypeOK
<1> QED
  BY <1>3, <1>5 DEF ReleaseNull, HandlesAccounted, PoolTypeOK, At

(* Whatever a thread does to the pool keeps the pool's books.              *)
LEMMA PoolStep == ASSUME HandlesAccounted, [Next]_vars PROVE HandlesAccounted'
<1>1. ASSUME NEW t \in Threads, Thread(t) PROVE HandlesAccounted'
  <2>1. CASE AcquireStep(t) \/ Release(t) \/ ReleaseNull(t)
    BY <2>1, AcquireStepKeeps, ReleaseStep, ReleaseNullStep
  <2>2. CASE UNCHANGED poolVars
    BY <2>2 DEF poolVars, HandlesAccounted, PoolTypeOK, Busy, At
  <2> QED
    BY <1>1, <2>1, <2>2 DEF Thread, Acquire, NoHandle, Prepare, MimeFails, Perform,
       Answered, TransportFails, GiveBack, Sleep, TryAgain, Return
<1>2. CASE UNCHANGED poolVars
  BY <1>2 DEF poolVars, HandlesAccounted, PoolTypeOK, Busy, At
<1> QED
  BY <1>1, <1>2 DEF Next, StartCall, Serve, Finished, vars

(* An empty pool.                                                          *)
LEMMA PoolInitHolds == ASSUME PoolInit PROVE HandlesAccounted
<1>1. Busy = {} /\ free = {}
  BY DEF PoolInit, Busy, At
<1>2. Cardinality(Busy) = 0 /\ Cardinality(free) = 0
  BY <1>1, FS_EmptySet
<1>3. PoolTypeOK
  <2>1. MaxSize \in Nat
    BY HandlePoolAssumption
  <2>2. free \subseteq Handles /\ created \in 0..MaxSize
    BY <2>1 DEF PoolInit
  <2>3. at \in [Threads -> {"out", "init", "wait", "woken", "have", "null"}]
    BY DEF PoolInit
  <2>4. hold \in [Threads -> Handles \cup {None}]
    BY DEF PoolInit
  <2>5. failed \in BOOLEAN
    BY DEF PoolInit
  <2> QED
    BY <2>2, <2>3, <2>4, <2>5 DEF PoolTypeOK
<1> QED
  BY <1>2, <1>3 DEF PoolInit, HandlesAccounted, At

-----------------------------------------------------------------------------
(* The type invariant but for the bound of applied, and what of it depends *)
(* on where a thread is.                                                   *)
Shape ==
  /\ step \in [Threads -> {"idle", "acquire", "perform", "wait", "release", "decide", "sleep"}]
  /\ call \in [Threads -> Calls]
  /\ result \in [Threads -> Results]
  /\ opts \in [Handles -> SUBSET AllOptions]
  /\ net \subseteq Requests /\ IsFiniteSet(net)
  /\ replies \subseteq Replies
  /\ applied \in [CallIds -> Nat]
  /\ done \subseteq [id : CallIds, op : Ops, ok : BOOLEAN]
  /\ \A t \in Threads :
       /\ step[t] # "idle" => call[t].n > 0 /\ call[t].attempt > 0
       /\ call[t].op = "push" => call[t].attempt <= 1
       /\ step[t] = "sleep" => call[t].op # "push" /\ call[t].attempt <= MaxRetries
       /\ step[t] = "idle" => result[t] = "none"

(* A thread that is about to send has a handle, with its call's options.   *)
OptionsFit ==
  /\ \A t \in Threads : step[t] = "perform" =>
       at[t] = "have" /\ opts[hold[t]] = Options(call[t].op)
  /\ OwnOptions

(* Where a thread is bounds its call and attempt.                          *)
LEMMA ShapeStep ==
  ASSUME HandlesAccounted, Shape, OptionsFit, [Next]_vars
  PROVE  Shape'
<1> USE RemoteCallsAssumption DEF Shape, Calls, CallIds, Results, Statuses, Ops
<1>1. ASSUME NEW t \in Threads, StartCall(t) PROVE Shape'
  BY <1>1 DEF StartCall, Goto, poolVars, wire
<1>2. ASSUME NEW t \in Threads, Acquire(t) PROVE Shape'
  BY <1>2 DEF Acquire, wire
<1>3. ASSUME NEW t \in Threads, NoHandle(t) PROVE Shape'
  BY <1>3 DEF NoHandle, Goto, wire
<1>4. ASSUME NEW t \in Threads, Prepare(t) PROVE Shape'
  BY <1>4 DEF Prepare, Goto, wire, Options, AllOptions
<1>5. ASSUME NEW t \in Threads, MimeFails(t) PROVE Shape'
  BY <1>5 DEF MimeFails, Goto, wire
<1>6. ASSUME NEW t \in Threads, Perform(t) PROVE Shape'
  <2> DEFINE r == [id |-> Id(t), op |-> call[t].op, attempt |-> call[t].attempt,
                   opts |-> opts[hold[t]]]
  <2>1. r \in Requests
    BY <1>6 DEF Perform, Id, Requests, OptionsFit, HandlesAccounted, PoolTypeOK
  <2>2. net' \subseteq Requests /\ IsFiniteSet(net')
    BY <1>6, <2>1, FS_AddElement DEF Perform
  <2> QED
    BY <1>6, <2>2 DEF Perform, Goto
<1>7. ASSUME NEW t \in Threads, Answered(t) PROVE Shape'
  BY <1>7 DEF Answered, Goto, Replies
<1>8. ASSUME NEW t \in Threads, TransportFails(t) PROVE Shape'
  BY <1>8 DEF TransportFails, Goto
<1>9. ASSUME NEW t \in Threads, GiveBack(t) PROVE Shape'
  BY <1>9 DEF GiveBack, Goto, wire
<1>10. ASSUME NEW t \in Threads, Sleep(t) PROVE Shape'
  BY <1>10 DEF Sleep, Goto, Retryable, AttemptsLeft, wire
<1>11. ASSUME NEW t \in Threads, TryAgain(t) PROVE Shape'
  BY <1>11 DEF TryAgain, Goto, wire
<1>12. ASSUME NEW t \in Threads, Return(t) PROVE Shape'
  <2>1. Id(t) \in Threads \X (1..MaxCalls)
    BY <1>12 DEF Return, Id
  <2>2. Succeeded(t) \in BOOLEAN
    BY DEF Succeeded
  <2>3. done' \subseteq [id : CallIds, op : Ops, ok : BOOLEAN]
    BY <1>12, <2>1, <2>2 DEF Return
  <2> QED
    BY <1>12, <2>3 DEF Return, Goto, wire
<1>13. ASSUME NEW r \in net, Serve(r) PROVE Shape'
  <2>1. net' \subseteq Requests /\ IsFiniteSet(net')
    BY <1>13, FS_RemoveElement DEF Serve
  <2>2. replies' \subseteq Replies /\ applied' \in [CallIds -> Nat]
    BY <1>13 DEF Serve, Replies, Requests
  <2> QED
    BY <1>13, <2>1, <2>2 DEF Serve
<1>14. CASE UNCHANGED vars
  BY <1>14 DEF vars
<1> QED
  BY <1>1, <1>2, <1>3, <1>4, <1>5, <1>6, <1>7, <1>8, <1>9, <1>10, <1>11, <1>12,
     <1>13, <1>14 DEF Next, Thread, Finished

(* Between curl_easy_reset and the send only the handle's holder touches   *)
(* its options.                                                            *)
LEMMA OptionsStep ==
  ASSUME HandlesAccounted, Shape, OptionsFit, [Next]_vars
  PROVE  OptionsFit'
<1> USE DEF HandlesAccounted, PoolTypeOK, Shape, OptionsFit, OwnOptions, At
<1>1. ASSUME NEW t \in Threads, StartCall(t) PROVE OptionsFit'
  BY <1>1 DEF StartCall, Goto, poolVars, wire
<1>2. ASSUME NEW t \in Threads, Acquire(t) PROVE OptionsFit'
  <2>1. \A u \in Threads \ {t} : at'[u] = at[u] /\ hold'[u] = hold[u]
    BY <1>2 DEF Acquire, AcquireStep, AcquireFree, AcquireNew, InitReturns,
       InitFails,
       FallAsleep, WakeUp, Take
  <2> QED
    BY <1>2, <2>1 DEF Acquire, wire
<1>3. ASSUME NEW t \in Threads, NoHandle(t) PROVE OptionsFit'
  BY <1>3 DEF NoHandle, ReleaseNull, Goto, wire
<1>4. ASSUME NEW t \in Threads, Prepare(t) PROVE OptionsFit'
  BY <1>4 DEF Prepare, Goto, poolVars, wire
<1>5. ASSUME NEW t \in Threads, MimeFails(t) PROVE OptionsFit'
  BY <1>5 DEF MimeFails, Goto, poolVars, wire
<1>6. ASSUME NEW t \in Threads, Perform(t) PROVE OptionsFit'
  BY <1>6 DEF Perform, Goto, poolVars
<1>7. ASSUME NEW t \in Threads, Answered(t) PROVE OptionsFit'
  BY <1>7 DEF Answered, Goto, poolVars
<1>8. ASSUME NEW t \in Threads, TransportFails(t) PROVE OptionsFit'
  BY <1>8 DEF TransportFails, Goto, poolVars
<1>9. ASSUME NEW t \in Threads, GiveBack(t) PROVE OptionsFit'
  <2>1. \A u \in Threads \ {t} : at[u] = "have" => at'[u] = "have" /\ hold'[u] = hold[u]
    BY <1>9 DEF GiveBack, Release
  <2>2. \A u \in Threads : step'[u] = "perform" => u # t /\ step[u] = "perform"
    BY <1>9 DEF GiveBack, Goto
  <2>3. UNCHANGED <<call, opts, net>>
    BY <1>9 DEF GiveBack, wire
  <2> QED
    BY <2>1, <2>2, <2>3
<1>10. ASSUME NEW t \in Threads, Sleep(t) PROVE OptionsFit'
  BY <1>10 DEF Sleep, Goto, poolVars, wire
<1>11. ASSUME NEW t \in Threads, TryAgain(t) PROVE OptionsFit'
  BY <1>11 DEF TryAgain, Goto, poolVars, wire
<1>12. ASSUME NEW t \in Threads, Return(t) PROVE OptionsFit'
  BY <1>12 DEF Return, Goto, poolVars, wire
<1>13. ASSUME NEW r \in net, Serve(r) PROVE OptionsFit'
  BY <1>13 DEF Serve, poolVars
<1>14. CASE UNCHANGED vars
  BY <1>14 DEF vars, poolVars
<1> QED
  BY <1>1, <1>2, <1>3, <1>4, <1>5, <1>6, <1>7, <1>8, <1>9, <1>10, <1>11, <1>12,
     <1>13, <1>14 DEF Next, Thread, Finished

-----------------------------------------------------------------------------
(* How often a call can have been applied: once per attempt that left.     *)
Pending(c) == {r \in net : r.id = c}
weight == [c \in CallIds |-> applied[c] + Cardinality(Pending(c))]
sent   == [t \in Threads |-> IF step[t] \in {"acquire", "perform"}
                             THEN call[t].attempt - 1 ELSE call[t].attempt]

Bounded(t, n) ==
  /\ n > call[t].n => weight[<<t, n>>] = 0
  /\ n = call[t].n => weight[<<t, n>>] <= sent[t]
  /\ n < call[t].n => weight[<<t, n>>] <= MaxRetries + 1
Counted == \A t \in Threads : \A n \in 1..MaxCalls : Bounded(t, n)

(* Calls that returned are over: their thread is idle or in a later one.   *)
DoneOver ==
  \A d \in done :
    /\ d.id[2] <= call[d.id[1]].n
    /\ d.id[2] = call[d.id[1]].n => step[d.id[1]] = "idle"
    /\ d.op = "push" => weight[d.id] <= 1

(* Success is said only of what was applied, on its way to the caller.     *)
Good == {"ok", "ok_bad_body"}
Truthful ==
  /\ \A a \in replies : a.status \in Good => applied[a.id] > 0
  /\ \A t \in Threads : result[t] \in Good => applied[Id(t)] > 0
  /\ \A d \in done : d.ok => applied[d.id] > 0

(* The requests under way can be counted.                                  *)
LEMMA PendingFinite ==
  ASSUME Shape, NEW c
  PROVE  IsFiniteSet(Pending(c)) /\ Cardinality(Pending(c)) \in Nat
<1>1. Pending(c) \subseteq net
  BY DEF Pending
<1> QED
  BY <1>1, FS_Subset, FS_CardinalityType DEF Shape

(* Weights and attempts are integers.                                      *)
LEMMA WeightType ==
  ASSUME Shape PROVE weight \in [CallIds -> Nat] /\ sent \in [Threads -> Int]
BY PendingFinite, RemoteCallsAssumption DEF Shape, weight, sent, Calls

(* The same after a step.                                                  *)
LEMMA WeightTypeNext ==
  ASSUME Shape' PROVE weight' \in [CallIds -> Nat] /\ sent' \in [Threads -> Int]
<1>1. \A c : Pending(c)' \subseteq net'
  BY DEF Pending
<1>2. \A c : Cardinality(Pending(c)') \in Nat
  BY <1>1, FS_Subset, FS_CardinalityType DEF Shape
<1> QED
  BY <1>2, RemoteCallsAssumption DEF Shape, weight, sent, Calls

(* A weight is the sum of its two parts, before and after a step.          *)
LEMMA WeightParts ==
  ASSUME NEW c \in CallIds
  PROVE  /\ weight[c] = applied[c] + Cardinality(Pending(c))
         /\ weight'[c] = applied'[c] + Cardinality(Pending(c)')
BY DEF weight

(* The weights depend on the requests under way and what was applied.      *)
LEMMA SameWeight == ASSUME UNCHANGED <<net, applied>> PROVE weight' = weight
BY DEF weight, Pending

(* A request that leaves weighs at most one, and only on its call.         *)
LEMMA PerformWeight ==
  ASSUME Shape, NEW t \in Threads, Perform(t), NEW c \in CallIds
  PROVE  /\ c # Id(t) => weight'[c] = weight[c]
         /\ weight'[c] <= weight[c] + 1
<1> DEFINE r == [id |-> Id(t), op |-> call[t].op, attempt |-> call[t].attempt,
                 opts |-> opts[hold[t]]]
<1>1. net' = net \cup {r} /\ applied' = applied
  BY DEF Perform
<1>2. CASE c # Id(t)
  <2>1. Pending(c)' = Pending(c)
    BY <1>1, <1>2 DEF Pending
  <2> QED
    BY <1>1, <1>2, <2>1, PendingFinite DEF weight, Shape
<1>3. CASE c = Id(t)
  <2>1. Pending(c)' = Pending(c) \cup {r}
    BY <1>1, <1>3 DEF Pending
  <2> HIDE DEF r
  <2>2. Cardinality(Pending(c) \cup {r})
          \in {Cardinality(Pending(c)), Cardinality(Pending(c)) + 1}
    BY PendingFinite, FS_AddElement
  <2>3. Cardinality(Pending(c)') <= Cardinality(Pending(c)) + 1
    BY <2>1, <2>2, PendingFinite
  <2>4. Cardinality(Pending(c)') \in Nat
    BY <2>1, <2>2, PendingFinite
  <2>5. applied'[c] = applied[c] /\ applied[c] \in Nat
    BY <1>1 DEF Shape
  <2> QED
    BY <1>3, <2>3, <2>4, <2>5, PendingFinite, WeightParts
<1> QED
  BY <1>2, <1>3

(* The server moves a request's weight, and adds none.                     *)
LEMMA ServeWeight ==
  ASSUME Shape, NEW r \in net, Serve(r), NEW c \in CallIds
  PROVE  weight'[c] <= weight[c] /\ applied'[c] >= applied[c]
<1>1. net' = net \ {r} /\ r.id \in CallIds
       /\ applied' \in {applied, [applied EXCEPT ![r.id] = @ + 1]}
  BY DEF Serve, Shape, Requests
<1>2. applied'[c] >= applied[c] /\ applied'[c] \in Nat
  BY <1>1 DEF Shape
<1>3. CASE c # r.id
  <2>1. Pending(c)' = Pending(c) /\ applied'[c] = applied[c]
    BY <1>1, <1>3 DEF Pending, Shape
  <2> QED
    BY <1>2, <2>1, PendingFinite DEF weight
<1>4. CASE c = r.id
  <2>1. Pending(c)' = Pending(c) \ {r} /\ r \in Pending(c)
    BY <1>1, <1>4 DEF Pending
  <2>2. Cardinality(Pending(c) \ {r}) = Cardinality(Pending(c)) - 1
    BY <2>1, PendingFinite, FS_RemoveElement
  <2>3. applied'[c] <= applied[c] + 1
    BY <1>1, <1>4 DEF Shape
  <2>4. Cardinality(Pending(c)') = Cardinality(Pending(c)) - 1 /\ applied[c] \in Nat
    BY <2>1, <2>2 DEF Shape
  <2> QED
    BY <1>2, <2>3, <2>4, PendingFinite, WeightParts
<1> QED
  BY <1>3, <1>4, <1>2

(* A call weighs at most as many attempts as have left.                    *)
LEMMA CountedStep ==
  ASSUME Shape, Shape', Counted, [Next]_vars
  PROVE  Counted'
<1> SUFFICES ASSUME NEW u \in Threads, NEW n \in 1..MaxCalls PROVE Bounded(u, n)'
  BY DEF Counted
<1> USE RemoteCallsAssumption
<1>a. Bounded(u, n) /\ <<u, n>> \in CallIds
  BY DEF Counted, CallIds
<1>b. /\ weight[<<u, n>>] \in Nat /\ weight'[<<u, n>>] \in Nat
      /\ sent[u] \in Int /\ sent'[u] \in Int
      /\ call[u].n \in Int /\ call'[u].n \in Int
  BY <1>a, WeightType, WeightTypeNext DEF Shape, Calls
<1>1. ASSUME NEW t \in Threads, StartCall(t) PROVE Bounded(u, n)'
  <2>1. weight' = weight
    BY <1>1, SameWeight DEF StartCall, wire
  <2>2. u # t => call'[u] = call[u] /\ sent'[u] = sent[u]
    BY <1>1 DEF StartCall, Goto, sent, Shape
  <2>3. u = t => /\ call'[u].n = call[u].n + 1
                 /\ sent'[u] = 0 /\ sent[u] <= MaxRetries + 1
    BY <1>1 DEF StartCall, Goto, sent, Shape, Calls
  <2> QED
    BY <1>a, <1>b, <2>1, <2>2, <2>3 DEF Bounded
<1>2. ASSUME NEW t \in Threads, Perform(t) PROVE Bounded(u, n)'
  <2>1. <<u, n>> # Id(t) => weight'[<<u, n>>] = weight[<<u, n>>]
    BY <1>2, <1>a, PerformWeight
  <2>2. weight'[<<u, n>>] <= weight[<<u, n>>] + 1
    BY <1>2, <1>a, PerformWeight
  <2>3. u # t => sent'[u] = sent[u]
    BY <1>2 DEF Perform, Goto, sent, Shape
  <2>4. u = t => sent'[u] = sent[u] + 1
    BY <1>2 DEF Perform, Goto, sent, Shape, Calls
  <2>5. call' = call /\ Id(t) = <<t, call[t].n>>
    BY <1>2 DEF Perform, Id
  <2> QED
    BY <1>a, <1>b, <2>1, <2>2, <2>3, <2>4, <2>5 DEF Bounded
<1>3. ASSUME NEW t \in Threads,
             \/ Acquire(t) \/ NoHandle(t) \/ Prepare(t) \/ MimeFails(t) \/ Answered(t)
             \/ TransportFails(t) \/ GiveBack(t) \/ Sleep(t) \/ TryAgain(t) \/ Return(t)
      PROVE  Bounded(u, n)'
  <2>1. weight' = weight
    BY <1>3, SameWeight DEF Acquire, NoHandle, Prepare, MimeFails, Answered,
       TransportFails, GiveBack, Sleep, TryAgain, Return, wire
  <2>2. sent'[u] >= sent[u] /\ call'[u].n = call[u].n
    BY <1>3 DEF Acquire, NoHandle, Prepare, MimeFails, Answered, TransportFails,
       GiveBack, Sleep, TryAgain, Return, Goto, wire, sent, Shape, Calls
  <2> QED
    BY <1>a, <1>b, <2>1, <2>2 DEF Bounded
<1>4. ASSUME NEW r \in net, Serve(r) PROVE Bounded(u, n)'
  <2>1. weight'[<<u, n>>] <= weight[<<u, n>>]
    BY <1>4, <1>a, ServeWeight
  <2>2. UNCHANGED <<call, sent>>
    BY <1>4 DEF Serve, sent
  <2> QED
    BY <1>a, <1>b, <2>1, <2>2 DEF Bounded
<1>5. CASE UNCHANGED vars
  <2>1. weight' = weight /\ sent' = sent /\ call' = call
    BY <1>5, SameWeight DEF vars, sent
  <2> QED
    BY <1>a, <2>1 DEF Bounded
<1> QED
  BY <1>1, <1>2, <1>3, <1>4, <1>5 DEF Next, Thread, Finished

(* A call that returned gains no weight: its thread sends for later calls  *)
(* only.                                                                   *)
LEMMA DoneStep ==
  ASSUME Shape, Shape', Counted, DoneOver, [Next]_vars
  PROVE  DoneOver'
<1> USE RemoteCallsAssumption
<1> DEFINE Over(d) == /\ d.id[2] <= call[d.id[1]].n
                      /\ d.id[2] = call[d.id[1]].n => step[d.id[1]] = "idle"
                      /\ d.op = "push" => weight[d.id] <= 1
<1>a. ASSUME NEW d \in done
      PROVE  /\ Over(d) /\ d.id \in CallIds
             /\ d.id = <<d.id[1], d.id[2]>> /\ d.id[1] \in Threads /\ d.id[2] \in 1..MaxCalls
             /\ weight[d.id] \in Nat /\ weight'[d.id] \in Nat /\ call[d.id[1]].n \in Nat
  BY <1>a, WeightType, WeightTypeNext DEF DoneOver, Shape, CallIds, Calls
<1>b. ASSUME \A d \in done : Over(d)', done' = done PROVE DoneOver'
  BY <1>b DEF DoneOver
<1>1. ASSUME NEW t \in Threads, StartCall(t) PROVE DoneOver'
  <2>1. weight' = weight /\ done' = done
    BY <1>1, SameWeight DEF StartCall, wire
  <2>2. step' = [step EXCEPT ![t] = "acquire"] /\ step[t] = "idle"
         /\ call'[t].n = call[t].n + 1 /\ \A u \in Threads \ {t} : call'[u] = call[u]
    BY <1>1 DEF StartCall, Goto, Shape, Calls
  <2>3. ASSUME NEW d \in done PROVE Over(d)'
    BY <1>a, <2>1, <2>2, <2>3 DEF Shape
  <2> QED
    BY <1>b, <2>1, <2>3
<1>2. ASSUME NEW t \in Threads, Perform(t) PROVE DoneOver'
  <2>1. done' = done /\ call' = call /\ step' = [step EXCEPT ![t] = "wait"]
         /\ step[t] = "perform" /\ Id(t) = <<t, call[t].n>>
    BY <1>2 DEF Perform, Goto, Id
  <2>2. ASSUME NEW d \in done PROVE Over(d)'
    <3>1. d.id # Id(t)
      BY <1>a, <2>1
    <3>2. weight'[d.id] = weight[d.id]
      BY <1>2, <1>a, <3>1, PerformWeight
    <3> QED
      BY <1>a, <2>1, <3>2 DEF Shape
  <2> QED
    BY <1>b, <2>1, <2>2
<1>3. ASSUME NEW t \in Threads,
             \/ Acquire(t) \/ NoHandle(t) \/ Prepare(t) \/ MimeFails(t) \/ Answered(t)
             \/ TransportFails(t) \/ GiveBack(t) \/ Sleep(t) \/ TryAgain(t)
      PROVE  DoneOver'
  <2>1. weight' = weight /\ done' = done
    BY <1>3, SameWeight DEF Acquire, NoHandle, Prepare, MimeFails, Answered,
       TransportFails, GiveBack, Sleep, TryAgain, wire
  <2>2. \A u \in Threads : call'[u].n = call[u].n /\ (step[u] = "idle" => step'[u] = "idle")
    BY <1>3 DEF Acquire, NoHandle, Prepare, MimeFails, Answered, TransportFails,
       GiveBack, Sleep, TryAgain, Goto, wire, Shape, Calls
  <2>3. ASSUME NEW d \in done PROVE Over(d)'
    BY <1>a, <2>1, <2>2
  <2> QED
    BY <1>b, <2>1, <2>3
<1>4. ASSUME NEW t \in Threads, Return(t) PROVE DoneOver'
  <2>0. PICK e : e = [id |-> Id(t), op |-> call[t].op, ok |-> Succeeded(t)]
    OBVIOUS
  <2>1. weight' = weight /\ done' = done \cup {e} /\ call' = call
         /\ step' = [step EXCEPT ![t] = "idle"]
    BY <1>4, <2>0, SameWeight DEF Return, Goto, wire
  <2>2. Id(t) = <<t, call[t].n>> /\ call[t].n \in 1..MaxCalls /\ step[t] = "decide"
    BY <1>4 DEF Return, Id, Shape, Calls
  <2>3. weight[Id(t)] <= call[t].attempt
    BY <2>2 DEF Counted, Bounded, sent
  <2>4. call[t].op = "push" => weight[Id(t)] <= 1
    <3>1. Id(t) \in CallIds /\ weight[Id(t)] \in Nat /\ call[t].attempt \in Nat
      BY <2>2, WeightType DEF CallIds, Shape, Calls
    <3> QED
      BY <2>3, <3>1 DEF Shape
  <2>5. Over(e)'
    BY <2>0, <2>1, <2>2, <2>4 DEF Shape, Calls
  <2>6. ASSUME NEW d \in done PROVE Over(d)'
    BY <1>a, <2>1 DEF Shape
  <2> QED
    BY <2>1, <2>5, <2>6 DEF DoneOver
<1>5. ASSUME NEW r \in net, Serve(r) PROVE DoneOver'
  <2>1. UNCHANGED <<call, step, done>>
    BY <1>5 DEF Serve
  <2>2. ASSUME NEW d \in done PROVE Over(d)'
    <3>1. weight'[d.id] <= weight[d.id]
      BY <1>5, <1>a, ServeWeight
    <3> QED
      BY <1>a, <2>1, <3>1
  <2> QED
    BY <1>b, <2>1, <2>2
<1>6. CASE UNCHANGED vars
  <2>1. weight' = weight /\ UNCHANGED <<step, call, done>>
    BY <1>6, SameWeight DEF vars
  <2> QED
    BY <2>1 DEF DoneOver
<1> QED
  BY <1>1, <1>2, <1>3, <1>4, <1>5, <1>6 DEF Next, Thread, Finished

(* Success travels from the server's step to the caller and is never made  *)
(* up.                                                                     *)
LEMMA TruthStep ==
  ASSUME Shape, Truthful, [Next]_vars
  PROVE  Truthful'
<1> USE RemoteCallsAssumption
<1>1. ASSUME NEW t \in Threads,
             \/ StartCall(t) \/ NoHandle(t) \/ MimeFails(t) \/ TransportFails(t)
             \/ TryAgain(t)
      PROVE  Truthful'
  <2>1. applied' = applied /\ done' = done /\ replies' \subseteq replies
    BY <1>1 DEF StartCall, NoHandle, MimeFails, TransportFails, TryAgain, wire
  <2>2. \A u \in Threads : result'[u] \in Good =>
          result'[u] = result[u] /\ call'[u].n = call[u].n
    BY <1>1 DEF StartCall, NoHandle, MimeFails, TransportFails, TryAgain, Good,
       Shape, Calls
  <2> QED
    BY <2>1, <2>2 DEF Truthful, Id
<1>2. ASSUME NEW t \in Threads,
             \/ Acquire(t) \/ Prepare(t) \/ Perform(t) \/ GiveBack(t) \/ Sleep(t)
      PROVE  Truthful'
  <2>1. UNCHANGED <<call, result, replies, applied, done>>
    BY <1>2 DEF Acquire, Prepare, Perform, GiveBack, Sleep, wire
  <2> QED
    BY <2>1 DEF Truthful, Id
<1>3. ASSUME NEW t \in Threads, Answered(t) PROVE Truthful'
  <2>1. PICK a \in replies : /\ a.id = Id(t)
                             /\ result' = [result EXCEPT ![t] = a.status]
                             /\ replies' = replies \ {a}
    BY <1>3 DEF Answered
  <2>2. UNCHANGED <<call, applied, done>>
    BY <1>3 DEF Answered
  <2> QED
    BY <2>1, <2>2 DEF Truthful, Id, Shape
<1>4. ASSUME NEW t \in Threads, Return(t) PROVE Truthful'
  <2>1. done' = done \cup {[id |-> Id(t), op |-> call[t].op, ok |-> Succeeded(t)]}
         /\ UNCHANGED <<call, replies, applied>> /\ result' = [result EXCEPT ![t] = "none"]
    BY <1>4 DEF Return, wire
  <2>2. Succeeded(t) => applied[Id(t)] > 0
    BY DEF Succeeded, Truthful, Good
  <2>3. \A d \in done' : d.ok => applied[d.id] > 0
    BY <2>1, <2>2 DEF Truthful
  <2>4. \A u \in Threads : result'[u] \in Good => result[u] = result'[u]
    BY <2>1 DEF Good, Shape
  <2> QED
    BY <2>1, <2>3, <2>4 DEF Truthful, Id
<1>5. ASSUME NEW r \in net, Serve(r) PROVE Truthful'
  <2>1. UNCHANGED <<call, step, result, done>>
    BY <1>5 DEF Serve
  <2>2. PICK s \in Statuses :
          /\ applied' \in {applied, [applied EXCEPT ![r.id] = @ + 1]}
          /\ s \in Good => applied'[r.id] # applied[r.id]
          /\ \A a \in replies' \ replies : a.id = r.id /\ a.status = s
    BY <1>5 DEF Serve, Good
  <2>3. r.id \in CallIds /\ applied[r.id] \in Nat
    BY DEF Shape, Requests
  <2>4. \A c \in CallIds : applied'[c] >= applied[c] /\ applied[c] \in Nat /\ applied'[c] \in Nat
    BY <2>2, <2>3 DEF Shape
  <2>5. \A a \in replies' : a.status \in Good => applied'[a.id] > 0
    <3> SUFFICES ASSUME NEW a \in replies', a.status \in Good PROVE applied'[a.id] > 0
      OBVIOUS
    <3>1. CASE a \in replies
      BY <3>1, <2>4 DEF Truthful, Shape, Replies
    <3>2. CASE a \notin replies
      BY <3>2, <2>2, <2>3, <2>4
    <3> QED
      BY <3>1, <3>2
  <2>6. \A u \in Threads : result[u] \in Good => applied'[Id(u)] > 0
    <3> SUFFICES ASSUME NEW u \in Threads, result[u] \in Good PROVE applied'[Id(u)] > 0
      OBVIOUS
    <3>1. step[u] # "idle"
      BY DEF Shape, Good
    <3>2. Id(u) \in CallIds
      BY <3>1 DEF Shape, Calls, CallIds, Id
    <3> QED
      BY <2>4, <3>2 DEF Truthful
  <2>7. \A d \in done : d.ok => applied'[d.id] > 0
    BY <2>4 DEF Truthful, Shape
  <2> QED
    BY <2>1, <2>5, <2>6, <2>7 DEF Truthful, Id
<1>6. CASE UNCHANGED vars
  BY <1>6 DEF vars, Truthful, Id
<1> QED
  BY <1>1, <1>2, <1>3, <1>4, <1>5, <1>6 DEF Next, Thread, Finished

-----------------------------------------------------------------------------
IInv == HandlesAccounted /\ Shape /\ OptionsFit /\ Counted /\ DoneOver /\ Truthful

(* Nothing is sent and nothing applied at the start.                       *)
LEMMA InitHolds == ASSUME Init PROVE IInv
<1> USE RemoteCallsAssumption DEF Init
<1>1. Shape
  BY FS_EmptySet DEF Shape, Calls, CallIds, Ops, Results, Statuses
<1>2. \A c \in CallIds : weight[c] = 0
  BY FS_EmptySet DEF weight, Pending
<1>3. Counted
  BY <1>2 DEF Counted, Bounded, CallIds
<1>4. OptionsFit /\ DoneOver /\ Truthful
  BY DEF OptionsFit, OwnOptions, DoneOver, Truthful, Good
<1> QED
  BY <1>1, <1>3, <1>4, PoolInitHolds DEF IInv

(* The six parts hold one another up, whatever step is taken.              *)
THEOREM Inductive == Spec => []IInv
<1>1. Init => IInv
  BY InitHolds
<1>2. IInv /\ [Next]_vars => IInv'
  <2> SUFFICES ASSUME IInv, [Next]_vars PROVE IInv'
    OBVIOUS
  <2>1. HandlesAccounted'
    BY PoolStep DEF IInv
  <2>2. Shape'
    BY ShapeStep DEF IInv
  <2>3. OptionsFit'
    BY OptionsStep DEF IInv
  <2>4. Counted' /\ DoneOver'
    BY <2>2, CountedStep, DoneStep DEF IInv
  <2>5. Truthful'
    BY TruthStep DEF IInv
  <2> QED
    BY <2>1, <2>2, <2>3, <2>4, <2>5 DEF IInv
<1> QED
  BY <1>1, <1>2, PTL DEF Spec

(* HandlePool: every handle in one place and counted, for any number of    *)
(* threads, handles and handles the pool may create.                       *)
THEOREM HandlesCorrect == Spec => []HandlesAccounted
<1>1. IInv => HandlesAccounted
  BY DEF IInv
<1> QED
  BY <1>1, Inductive, PTL

(* HttpClient::Request and Upload: the pooled handle brings no option of   *)
(* its last request along.                                                 *)
THEOREM OwnOptionsCorrect == Spec => []OwnOptions
<1>1. IInv => OwnOptions
  BY DEF IInv, OptionsFit
<1> QED
  BY <1>1, Inductive, PTL

(* QdrantClient::Request and FaceServerClient::DoRequest: a success is the *)
(* server's, and a push is applied at most once, for any number of calls   *)
(* and retries, whatever the network loses or delays.                      *)
THEOREM HonestCorrect == Spec => []HonestResult
<1>1. IInv => HonestResult
  <2> SUFFICES ASSUME IInv PROVE HonestResult
    OBVIOUS
  <2> USE RemoteCallsAssumption DEF IInv
  <2>1. ASSUME NEW c \in CallIds PROVE applied[c] \in Nat /\ applied[c] <= weight[c]
    BY PendingFinite, WeightType DEF weight, Shape
  <2>2. ASSUME NEW t \in Threads, NEW n \in 1..MaxCalls
        PROVE  applied[<<t, n>>] \in 0..(MaxRetries + 1)
    <3>1. Bounded(t, n) /\ <<t, n>> \in CallIds
      BY DEF Counted, CallIds
    <3>2. weight[<<t, n>>] \in Nat /\ sent[t] <= MaxRetries + 1 /\ sent[t] \in Int
            /\ call[t].n \in Int
      BY <3>1, WeightType DEF sent, Shape, Calls
    <3> QED
      BY <2>1, <3>1, <3>2 DEF Bounded
  <2>3. applied \in [CallIds -> 0..(MaxRetries + 1)]
    BY <2>2 DEF Shape, CallIds
  <2>4. TypeOK
    BY <2>3 DEF TypeOK, Shape, HandlesAccounted
  <2>5. \A d \in done : d.op = "push" => applied[d.id] <= 1
    <3> SUFFICES ASSUME NEW d \in done, d.op = "push" PROVE applied[d.id] <= 1
      OBVIOUS
    <3>1. d.id \in CallIds /\ weight[d.id] <= 1
      BY DEF DoneOver, Shape
    <3> QED
      BY <2>1, <3>1, WeightType
  <2> QED
    BY <2>4, <2>5 DEF HonestResult, Truthful
<1> QED
  BY <1>1, Inductive, PTL
=============================================================================
