----------------------------- MODULE PluginHost -----------------------------
(***************************************************************************)
(* plugin/: asynchronous jobs of the business plugin and its unloading.    *)
(*                                                                         *)
(* The plugin (a shared library) hands closures to HostServices, which     *)
(* counts them per plugin in an InflightGate and queues them in a          *)
(* ThreadPool.  PluginManager unloads the plugin by waiting for the count  *)
(* to reach zero, then Shutdown, DestroyPlugin and dlclose; then           *)
(* HostServices::Shutdown stops the pool.  The host thread is the one that *)
(* runs the BusProcess node (its worker, then main in ~BusProcess), so its *)
(* OnFrame, SubmitAsync and Unload calls are sequential; only the pool     *)
(* threads run beside it.                                                  *)
(***************************************************************************)
EXTENDS Naturals, FiniteSets

CONSTANTS Jobs,       \* the closures the plugin may submit (bound of the model)
          NoJob,      \* no closure
          Workers,    \* the pool's threads
          MaxQueue    \* max_queue_

ASSUME PluginHostAssumption ==
  /\ IsFiniteSet(Jobs)
  /\ NoJob \notin Jobs
  /\ MaxQueue \in Nat \ {0}

VARIABLES
  host,       \* where the host thread is
  submitting, \* the job SubmitAsync is handling
  job,        \* what became of each closure
  count,      \* InflightGate::count
  mu,         \* InflightGate::mu: "free", or "host" while WaitQuiesce holds it
  worker,     \* where each pool thread is
  running,    \* the closure each pool thread took from the queue
  stop,       \* ThreadPool::stop_
  plugin,     \* the BusinessPlugin object has not been destroyed
  mapped      \* the shared library has not been closed

gateVars == <<count, mu>>
poolVars == <<worker, running, stop>>
libVars  == <<plugin, mapped>>
vars == <<host, submitting, job, gateVars, poolVars, libVars>>

HostPcs   == {"loaded", "submit", "refused", "check", "toSleep", "asleep",
              "shutdown", "destroy", "dlclose", "stopPool", "joinPool", "done"}
WorkerPcs == {"wait", "run", "notify", "drop", "exited"}
JobStates == {"new", "counted", "queued", "running", "threw", "refused", "done"}

TypeOK ==
  /\ host \in HostPcs
  /\ submitting \in Jobs \cup {NoJob}
  /\ job \in [Jobs -> JobStates]
  /\ count \in Nat
  /\ mu \in {"free", "host"}
  /\ worker \in [Workers -> WorkerPcs]
  /\ running \in [Workers -> Jobs \cup {NoJob}]
  /\ \A b \in {stop, plugin, mapped} : b \in BOOLEAN
  /\ host \in {"submit", "refused"} <=> submitting # NoJob
  /\ \A w \in Workers : worker[w] \in {"wait", "exited"} <=> running[w] = NoJob

InState(s) == {j \in Jobs : job[j] = s}

(* HostServices::Init and PluginManager::Load have succeeded.              *)
Init ==
  /\ host = "loaded" /\ submitting = NoJob
  /\ job = [j \in Jobs |-> "new"]
  /\ count = 0 /\ mu = "free"
  /\ worker = [w \in Workers |-> "wait"]
  /\ running = [w \in Workers |-> NoJob]
  /\ stop = FALSE
  /\ plugin = TRUE /\ mapped = TRUE

-----------------------------------------------------------------------------
(* HostServices::SubmitAsync, called by the plugin's Init or OnFrame.      *)

CountIn(j) ==
  /\ host = "loaded"
  /\ job[j] = "new"
  /\ job' = [job EXCEPT ![j] = "counted"]
  /\ submitting' = j
  /\ count' = count + 1
  /\ host' = "submit"
  /\ UNCHANGED <<mu, poolVars, libVars>>

(* ThreadPool::Submit, under the pool's mutex.                             *)
Submit ==
  /\ host = "submit"
  /\ IF stop \/ Cardinality(InState("queued")) >= MaxQueue
     THEN host' = "refused" /\ UNCHANGED <<submitting, job>>
     ELSE /\ job' = [job EXCEPT ![submitting] = "queued"]
          /\ submitting' = NoJob
          /\ host' = "loaded"
  /\ UNCHANGED <<gateVars, poolVars, libVars>>

(* Mutant: a refused closure stays counted.                                *)
KeepRefusedCounted ==
  /\ host = "refused"
  /\ job' = [job EXCEPT ![submitting] = "refused"]
  /\ submitting' = NoJob
  /\ host' = "loaded"
  /\ UNCHANGED <<gateVars, poolVars, libVars>>

(* The count is taken back; nobody can be waiting on the gate.             *)
CountRefused ==
  /\ host = "refused"
  /\ job' = [job EXCEPT ![submitting] = "refused"]
  /\ submitting' = NoJob
  /\ count' = count - 1
  /\ host' = "loaded"
  /\ UNCHANGED <<mu, poolVars, libVars>>

-----------------------------------------------------------------------------
(* PluginManager::Unload, or DestroyUnloaded after a failed Init.          *)

Unload ==
  /\ host = "loaded"
  /\ host' = "check"
  /\ UNCHANGED <<submitting, job, gateVars, poolVars, libVars>>

(* Mutant: a bounded wait whose result is not looked at.                   *)
CheckTimesOut ==
  /\ host = "check"
  /\ mu = "free"
  /\ host' = "shutdown"
  /\ UNCHANGED <<submitting, job, gateVars, poolVars, libVars>>

(* WaitQuiesce evaluates its predicate with the gate's mutex held ...      *)
Check ==
  /\ host = "check"
  /\ mu = "free"
  /\ IF count = 0 THEN host' = "shutdown" /\ UNCHANGED mu
                  ELSE host' = "toSleep" /\ mu' = "host"
  /\ UNCHANGED <<submitting, job, count, poolVars, libVars>>

(* ... and releases it on going to sleep.                                  *)
FallAsleep ==
  /\ host = "toSleep"
  /\ mu' = "free"
  /\ host' = "asleep"
  /\ UNCHANGED <<submitting, job, count, poolVars, libVars>>

(* A condition variable may wake without being notified.                   *)
SpuriousWake ==
  /\ host = "asleep"
  /\ host' = "check"
  /\ UNCHANGED <<submitting, job, gateVars, poolVars, libVars>>

ShutdownPlugin ==
  /\ host = "shutdown"
  /\ host' = "destroy"
  /\ UNCHANGED <<submitting, job, gateVars, poolVars, libVars>>

DestroyPlugin ==
  /\ host = "destroy"
  /\ plugin' = FALSE
  /\ host' = "dlclose"
  /\ UNCHANGED <<submitting, job, gateVars, poolVars, mapped>>

Dlclose ==
  /\ host = "dlclose"
  /\ mapped' = FALSE
  /\ host' = "stopPool"
  /\ UNCHANGED <<submitting, job, gateVars, poolVars, plugin>>

(* HostServices::Shutdown: ThreadPool::Shutdown sets the flag, then joins. *)
StopPool ==
  /\ host = "stopPool"
  /\ stop' = TRUE
  /\ host' = "joinPool"
  /\ UNCHANGED <<submitting, job, gateVars, worker, running, libVars>>

JoinPool ==
  /\ host = "joinPool"
  /\ \A w \in Workers : worker[w] = "exited"
  /\ host' = "done"
  /\ UNCHANGED <<submitting, job, gateVars, poolVars, libVars>>

-----------------------------------------------------------------------------
(* A pool thread: ThreadPool::WorkerLoop around the wrapper SubmitAsync    *)
(* queued.  Which queued closure is next is left open.                     *)

Take(w) ==
  /\ worker[w] = "wait"
  /\ \E j \in InState("queued") :
       /\ job' = [job EXCEPT ![j] = "running"]
       /\ running' = [running EXCEPT ![w] = j]
  /\ worker' = [worker EXCEPT ![w] = "run"]
  /\ UNCHANGED <<host, submitting, gateVars, stop, libVars>>

(* The plugin's job() returned: fetch_sub, without the gate's mutex.       *)
CountOut(w) ==
  /\ worker[w] = "run"
  /\ job' = [job EXCEPT ![running[w]] = "done"]
  /\ count' = count - 1
  /\ worker' = [worker EXCEPT ![w] = IF count = 1 THEN "notify" ELSE "drop"]
  /\ UNCHANGED <<host, submitting, mu, running, stop, libVars>>

(* The exception ends in the packaged_task and skips the fetch_sub.        *)
JobThrows(w) ==
  /\ worker[w] = "run"
  /\ job' = [job EXCEPT ![running[w]] = "threw"]
  /\ worker' = [worker EXCEPT ![w] = "drop"]
  /\ UNCHANGED <<host, submitting, gateVars, running, stop, libVars>>

(* Mutant: notify_all is called without taking the gate's mutex.           *)
NotifyWithoutMutex(w) ==
  /\ worker[w] = "notify"
  /\ host' = IF host = "asleep" THEN "check" ELSE host
  /\ worker' = [worker EXCEPT ![w] = "drop"]
  /\ UNCHANGED <<submitting, job, gateVars, running, stop, libVars>>

(* The last one out notifies, under the gate's mutex.                      *)
NotifyGate(w) ==
  /\ worker[w] = "notify"
  /\ mu = "free"
  /\ host' = IF host = "asleep" THEN "check" ELSE host
  /\ worker' = [worker EXCEPT ![w] = "drop"]
  /\ UNCHANGED <<submitting, job, gateVars, running, stop, libVars>>

(* WorkerLoop's local std::function goes out of scope, and with it the     *)
(* closure, whose destructor is code of the plugin's library.              *)
DropClosure(w) ==
  /\ worker[w] = "drop"
  /\ running' = [running EXCEPT ![w] = NoJob]
  /\ worker' = [worker EXCEPT ![w] = "wait"]
  /\ UNCHANGED <<host, submitting, job, gateVars, stop, libVars>>

WorkerExit(w) ==
  /\ worker[w] = "wait"
  /\ stop
  /\ InState("queued") = {}
  /\ worker' = [worker EXCEPT ![w] = "exited"]
  /\ UNCHANGED <<host, submitting, job, gateVars, running, stop, libVars>>

-----------------------------------------------------------------------------
SubmitAsync == Submit \/ CountRefused

Unloading == \/ Check \/ FallAsleep \/ ShutdownPlugin \/ DestroyPlugin
             \/ Dlclose \/ StopPool \/ JoinPool

PoolThread(w) == \/ Take(w) \/ CountOut(w) \/ JobThrows(w) \/ NotifyGate(w)
                 \/ DropClosure(w) \/ WorkerExit(w)

Next == \/ \E j \in Jobs : CountIn(j)
        \/ SubmitAsync \/ Unload \/ Unloading \/ SpuriousWake
        \/ \E w \in Workers : PoolThread(w)

Spec == Init /\ [][Next]_vars

(* Threads are scheduled, and a job ends: its HTTP requests time out.  The *)
(* gate's mutex, which the host holds for one predicate at a time, is      *)
(* obtained by a pool thread that keeps trying even if spurious wakeups    *)
(* let the host take it again and again.  Nothing makes the plugin submit, *)
(* be unloaded, or wake without cause.                                     *)
FairSpec ==
  /\ Spec
  /\ WF_vars(SubmitAsync)
  /\ WF_vars(Unloading)
  /\ \A w \in Workers : WF_vars(PoolThread(w)) /\ SF_vars(NotifyGate(w))

-----------------------------------------------------------------------------
(* Properties *)

(* The gate counts the closures counted in and not counted out: those      *)
(* queued or running, the one being submitted, and the ones that threw.    *)
Inflight == {j \in Jobs : job[j] \in {"counted", "queued", "running", "threw"}}

Unloaded == {"shutdown", "destroy", "dlclose", "stopPool", "joinPool", "done"}

(* Once WaitQuiesce returned no closure is queued or running, so Shutdown, *)
(* DestroyPlugin and dlclose run beside no job.  Inductive.                *)
GateInv ==
  /\ count = Cardinality(Inflight)
  /\ host \in {"submit", "refused"} => job[submitting] = "counted"
  /\ \A w \in Workers : worker[w] = "run" => job[running[w]] = "running"
  /\ \A v, w \in Workers :
       worker[v] = "run" /\ worker[w] = "run" /\ running[v] = running[w] => v = w
  /\ host \in Unloaded => Inflight = {}
  /\ stop <=> host \in {"joinPool", "done"}
  /\ plugin <=> host \notin {"dlclose", "stopPool", "joinPool", "done"}
  /\ mapped <=> host \notin {"stopPool", "joinPool", "done"}

(* The plugin object is destroyed once, when no job, which captures it, is *)
(* running, and no job starts afterwards.                                  *)
PluginLife == INSTANCE ObjectLifetime WITH
  Objects <- {"plugin"},
  Threads <- Workers,
  alive <- [o \in {"plugin"} |-> plugin],
  users <- [o \in {"plugin"} |-> {w \in Workers : worker[w] = "run"}]
PluginLifetime == PluginLife!LifeSpec

(* Does not hold: the same for the plugin's code, which a pool thread uses *)
(* as long as it holds a closure, whose destructor is plugin code.  The    *)
(* gate opens before the closure is destroyed (thread_pool.h).             *)
CodeUnused == ~mapped => \A w \in Workers : running[w] = NoJob

(* When no job throws, unloading ends: the wait for the gate misses no      *)
(* notification, and what it waits for never waits for the host.           *)
UnloadCompletes ==
  host = "check" ~> host = "done" \/ InState("threw") # {}

(* business_plugin.h without that condition: after a successful Init the   *)
(* host waits for the jobs to reach zero and then calls Shutdown.          *)
ShutdownAlwaysCalled == host = "check" ~> host = "shutdown"
=============================================================================
