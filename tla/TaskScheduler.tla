---------------------------- MODULE TaskScheduler ----------------------------
(***************************************************************************)
(* pipeline/: the scheduler, its task-node managers and their worker       *)
(* threads, driven by the main thread of apps/main_rtsp.cpp.               *)
(*                                                                         *)
(* The main thread creates one worker per node, waits for their Init(),    *)
(* sends kMsgAppStart to each, waits for the exit signal, and tears down:  *)
(* StopSources, TaskScheduler::Exit (mark, join, delete, null the slot),   *)
(* then the TaskNode objects.  A worker reaches its downstream manager     *)
(* through the raw pointers of thread_list_, in two steps: it loads the    *)
(* slot, then it calls PushMessage on what it loaded.  Init() reads slots  *)
(* in the same way: TaskNodeIdByName compares the name of each manager up  *)
(* to the one it looks for.                                                *)
(*                                                                         *)
(* Threads the nodes create themselves (the decoder callback) appear here  *)
(* only by the contract of TaskNode::StopSources: once it has returned     *)
(* they send nothing.  Pipeline replaces the contract by the code.         *)
(***************************************************************************)
EXTENDS Naturals, Sequences

CONSTANTS NumNodes,      \* nodes of thread_tbl, ids 1 .. NumNodes
          Capacity,      \* kMsgQueueSize
          Downstream,    \* next_thread_id_ of each node, 0 when it has none
          InitMayFail    \* the nodes whose Init() may return nonzero

Nodes    == 1 .. NumNodes
Slots    == 0 .. NumNodes          \* thread_list_: slot 0 is "main"
Source   == 1                      \* the node fed by the external thread
External == NumNodes + 1           \* that thread, beside workers 1..NumNodes
Threads  == Nodes \cup {External}

(* main_rtsp.cpp lists the nodes so that each one sends to a later one.    *)
ASSUME SchedulerAssumption ==
  /\ NumNodes \in Nat \ {0}
  /\ Capacity \in Nat \ {0}
  /\ InitMayFail \subseteq Nodes
  /\ Downstream \in [Nodes -> Slots]
  /\ \A i \in Nodes : Downstream[i] # 0 => Downstream[i] > i

VARIABLES
  mainPc,         \* where the main thread is
  k,              \* its loop index over the nodes
  waitEnd,        \* wait_end_
  mgr,            \* thread_list_[s]: "live", "freed" (deleted, still pointed to), "null"
  status,         \* TaskNodeMgr::status_
  node,           \* node[i]: the TaskNode object has not been deleted
  worker,         \* where worker thread i is; "none" before CreateThread
  handling,       \* the message Process() of node i is handling
  probe,          \* the slot TaskNodeIdByName of worker i has loaded
  queue,          \* msg_queue_
  ext,            \* the external thread: outside ("idle") or inside SendMessage
  sourcesStopped  \* every StopSources() has returned

mainVars   == <<mainPc, k>>
objectVars == <<mgr, node>>
workerVars == <<worker, handling, probe>>
sourceVars == <<ext, sourcesStopped>>
vars == <<mainVars, waitEnd, objectVars, status, workerVars, queue, sourceVars>>

MainPcs   == {"create", "waitInit", "sendStart", "wait", "stopSources", "mark",
              "join", "clear", "releaseMain", "deleteNodes", "done"}
WorkerPcs == {"none", "init", "lookup", "found", "poll", "process", "push", "done"}
Messages  == {"start", "data"}     \* kMsgAppStart, the input id of the stage
Statuses  == {"Ready", "Running", "Exiting", "Exited", "Error"}

TypeOK ==
  /\ mainPc \in MainPcs
  /\ k \in Nodes
  /\ waitEnd \in BOOLEAN
  /\ mgr \in [Slots -> {"live", "freed", "null"}]
  /\ status \in [Slots -> Statuses]
  /\ node \in [Nodes -> BOOLEAN]
  /\ worker \in [Nodes -> WorkerPcs]
  /\ \A i \in Nodes : worker[i] = "push" => Downstream[i] \in Nodes
  /\ handling \in [Nodes -> Messages \cup {"none"}]
  /\ probe \in [Nodes -> Slots]
  /\ queue \in [Nodes -> Seq(Messages)]
  /\ \A i \in Nodes : Len(queue[i]) <= Capacity
  /\ ext \in {"idle", "push"}
  /\ sourcesStopped \in BOOLEAN

(* TaskScheduler::Init made slot 0; Start made every other manager before  *)
(* it created the first thread.                                            *)
Init ==
  /\ mainPc = "create" /\ k = 1
  /\ waitEnd = FALSE
  /\ mgr = [s \in Slots |-> "live"]
  /\ status = [s \in Slots |-> IF s = 0 THEN "Running" ELSE "Ready"]
  /\ node = [i \in Nodes |-> TRUE]
  /\ worker = [i \in Nodes |-> "none"]
  /\ handling = [i \in Nodes |-> "none"]
  /\ probe = [i \in Nodes |-> 0]
  /\ queue = [i \in Nodes |-> <<>>]
  /\ ext = "idle"
  /\ sourcesStopped = FALSE

-----------------------------------------------------------------------------
(* PushMessage on manager i: rejected unless it runs, dropped when full.   *)
Push(i, m) ==
  queue' = IF status[i] = "Running" /\ Len(queue[i]) < Capacity
           THEN [queue EXCEPT ![i] = Append(@, m)]
           ELSE queue

(* One iteration of a loop of the main thread over the nodes.              *)
Iterate(loop, next) ==
  IF k < NumNodes THEN mainPc' = loop /\ k' = k + 1
                  ELSE mainPc' = next /\ k' = 1

-----------------------------------------------------------------------------
(* The main thread *)

CreateThread ==
  /\ mainPc = "create"
  /\ worker' = [worker EXCEPT ![k] = "init"]
  /\ Iterate("create", "waitInit")
  /\ UNCHANGED <<waitEnd, objectVars, status, handling, probe, queue, sourceVars>>

(* Mutant: the wait only ends when the node runs, not when it failed.      *)
WaitThreadInitEndIgnoresError ==
  /\ mainPc = "waitInit"
  /\ status[k] = "Running"
  /\ Iterate("waitInit", "sendStart")
  /\ UNCHANGED <<waitEnd, objectVars, status, workerVars, queue, sourceVars>>

WaitThreadInitEnd ==
  /\ mainPc = "waitInit"
  /\ status[k] # "Ready"
  /\ IF status[k] = "Running"
     THEN Iterate("waitInit", "sendStart")
     ELSE mainPc' = "stopSources" /\ k' = 1      \* Start() returns the error
  /\ UNCHANGED <<waitEnd, objectVars, status, workerVars, queue, sourceVars>>

SendAppStart ==
  /\ mainPc = "sendStart"
  /\ Push(k, "start")
  /\ Iterate("sendStart", "wait")
  /\ UNCHANGED <<waitEnd, objectVars, status, workerVars, sourceVars>>

(* SignalHandler: SIGINT or SIGTERM at any moment after it was installed.  *)
Signal ==
  /\ ~waitEnd
  /\ waitEnd' = TRUE
  /\ UNCHANGED <<mainVars, objectVars, status, workerVars, queue, sourceVars>>

(* Mutant: the nodes are deleted before StopSources and Exit().            *)
WaitReturnsToDelete ==
  /\ mainPc = "wait"
  /\ waitEnd
  /\ mainPc' = "deleteNodes"
  /\ status' = [status EXCEPT ![0] = "Exited"]
  /\ UNCHANGED <<k, waitEnd, objectVars, workerVars, queue, sourceVars>>

(* Wait(callback) leaves its loop; no code sends to slot 0.                *)
WaitReturns ==
  /\ mainPc = "wait"
  /\ waitEnd
  /\ mainPc' = "stopSources"
  /\ status' = [status EXCEPT ![0] = "Exited"]
  /\ UNCHANGED <<k, waitEnd, objectVars, workerVars, queue, sourceVars>>

(* Mutant: StopSources returns without joining the external thread.        *)
StopSourcesNoJoin ==
  /\ mainPc = "stopSources"
  /\ sourcesStopped' = TRUE
  /\ mainPc' = "mark"
  /\ UNCHANGED <<k, waitEnd, objectVars, status, workerVars, queue, ext>>

(* The contract of task_node.h: StopSources returns when the threads it    *)
(* manages are joined.                                                     *)
StopSources ==
  /\ mainPc = "stopSources"
  /\ ext = "idle"
  /\ sourcesStopped' = TRUE
  /\ mainPc' = "mark"
  /\ UNCHANGED <<k, waitEnd, objectVars, status, workerVars, queue, ext>>

(* Mutant: every node is marked, one that is still in Init included.       *)
MarkExitingAlways ==
  /\ mainPc = "mark"
  /\ status' = [status EXCEPT ![0] = "Exited", ![k] = "Exiting"]
  /\ Iterate("mark", "join")
  /\ UNCHANGED <<waitEnd, objectVars, workerVars, queue, sourceVars>>

(* ReleaseThreads, first loop: only a running node is asked to exit.       *)
MarkExiting ==
  /\ mainPc = "mark"
  /\ status' = [status EXCEPT ![0] = "Exited",
                              ![k] = IF @ = "Running" THEN "Exiting" ELSE @]
  /\ Iterate("mark", "join")
  /\ UNCHANGED <<waitEnd, objectVars, workerVars, queue, sourceVars>>

(* Mutant: the worker is detached instead of joined.                       *)
DetachAndDelete ==
  /\ mainPc = "join"
  /\ mgr' = [mgr EXCEPT ![k] = "freed"]
  /\ queue' = [queue EXCEPT ![k] = <<>>]
  /\ mainPc' = "clear"
  /\ UNCHANGED <<k, waitEnd, node, status, workerVars, sourceVars>>

(* Second loop: join the worker, then delete its manager with its queue.   *)
JoinAndDelete ==
  /\ mainPc = "join"
  /\ worker[k] \in {"none", "done"}
  /\ mgr' = [mgr EXCEPT ![k] = "freed"]
  /\ queue' = [queue EXCEPT ![k] = <<>>]
  /\ mainPc' = "clear"
  /\ UNCHANGED <<k, waitEnd, node, status, workerVars, sourceVars>>

ClearSlot ==
  /\ mainPc = "clear"
  /\ mgr' = [mgr EXCEPT ![k] = "null"]
  /\ Iterate("join", "releaseMain")
  /\ UNCHANGED <<waitEnd, node, status, workerVars, queue, sourceVars>>

ReleaseMain ==
  /\ mainPc = "releaseMain"
  /\ mgr' = [mgr EXCEPT ![0] = "null"]
  /\ mainPc' = "deleteNodes"
  /\ UNCHANGED <<k, waitEnd, node, status, workerVars, queue, sourceVars>>

(* ExitPipeline, after Exit(): the TaskNode objects go in table order.     *)
DeleteNode ==
  /\ mainPc = "deleteNodes"
  /\ node' = [node EXCEPT ![k] = FALSE]
  /\ Iterate("deleteNodes", "done")
  /\ UNCHANGED <<waitEnd, mgr, status, workerVars, queue, sourceVars>>

-----------------------------------------------------------------------------
(* Worker thread i: TaskNodeMgr::ThreadEntry *)

(* TaskNodeIdByName, the first thing Init() does in two of the stages and  *)
(* the last in PreProcess: slot 0 is loaded.                               *)
StartLookup(i) ==
  /\ worker[i] = "init"
  /\ Downstream[i] # 0
  /\ worker' = [worker EXCEPT ![i] = "lookup"]
  /\ UNCHANGED <<mainVars, waitEnd, objectVars, status, handling, probe, queue, sourceVars>>

(* NodeName() of the loaded manager is compared; the next slot is loaded   *)
(* until the name is that of the downstream node.                          *)
CompareName(i) ==
  /\ worker[i] = "lookup"
  /\ IF probe[i] < Downstream[i]
     THEN /\ probe' = [probe EXCEPT ![i] = @ + 1]
          /\ UNCHANGED worker
     ELSE /\ probe' = [probe EXCEPT ![i] = 0]
          /\ worker' = [worker EXCEPT ![i] = "found"]
  /\ UNCHANGED <<mainVars, waitEnd, objectVars, status, handling, queue, sourceVars>>

(* What else a stage sets up may fail before its lookup or after it.       *)
InitFails(i) ==
  /\ i \in InitMayFail
  /\ worker[i] \in {"init", "found"}
  /\ status' = [status EXCEPT ![i] = "Error"]
  /\ worker' = [worker EXCEPT ![i] = "done"]
  /\ UNCHANGED <<mainVars, waitEnd, objectVars, handling, probe, queue, sourceVars>>

InitReturns(i) ==
  /\ worker[i] = IF Downstream[i] = 0 THEN "init" ELSE "found"
  /\ status' = [status EXCEPT ![i] = "Running"]
  /\ worker' = [worker EXCEPT ![i] = "poll"]
  /\ UNCHANGED <<mainVars, waitEnd, objectVars, handling, probe, queue, sourceVars>>

WorkerInit(i) == StartLookup(i) \/ CompareName(i) \/ InitFails(i) \/ InitReturns(i)

(* The loop test and PopMessage; an empty queue only sleeps.               *)
WorkerPop(i) ==
  /\ worker[i] = "poll"
  /\ status[i] = "Running"
  /\ queue[i] # <<>>
  /\ handling' = [handling EXCEPT ![i] = Head(queue[i])]
  /\ queue' = [queue EXCEPT ![i] = Tail(@)]
  /\ worker' = [worker EXCEPT ![i] = "process"]
  /\ UNCHANGED <<mainVars, waitEnd, objectVars, status, probe, sourceVars>>

(* Process() returns, with or without an error, and sends nothing (more).  *)
ProcessReturns(i) ==
  /\ worker[i] = "process"
  /\ worker' = [worker EXCEPT ![i] = "poll"]
  /\ handling' = [handling EXCEPT ![i] = "none"]
  /\ UNCHANGED <<mainVars, waitEnd, objectVars, status, probe, queue, sourceVars>>

(* Process() calls SendMessage(next_thread_id_, ..), which loads the slot: *)
(* null is refused (kDestInvalid), anything else is dereferenced next.     *)
WorkerSend(i) ==
  /\ worker[i] = "process"
  /\ handling[i] = "data"
  /\ Downstream[i] # 0
  /\ IF mgr[Downstream[i]] = "null"
     THEN /\ worker' = [worker EXCEPT ![i] = "poll"]
          /\ handling' = [handling EXCEPT ![i] = "none"]
     ELSE /\ worker' = [worker EXCEPT ![i] = "push"]
          /\ UNCHANGED handling
  /\ UNCHANGED <<mainVars, waitEnd, objectVars, status, probe, queue, sourceVars>>

WorkerPush(i) ==
  /\ worker[i] = "push"
  /\ Push(Downstream[i], "data")
  /\ worker' = [worker EXCEPT ![i] = "poll"]
  /\ handling' = [handling EXCEPT ![i] = "none"]
  /\ UNCHANGED <<mainVars, waitEnd, objectVars, status, probe, sourceVars>>

WorkerExit(i) ==
  /\ worker[i] = "poll"
  /\ status[i] # "Running"
  /\ status' = [status EXCEPT ![i] = "Exited"]
  /\ worker' = [worker EXCEPT ![i] = "done"]
  /\ UNCHANGED <<mainVars, waitEnd, objectVars, handling, probe, queue, sourceVars>>

-----------------------------------------------------------------------------
(* The external thread: the decoder callback sends to its own node.        *)

ExternalSend ==
  /\ ext = "idle"
  /\ ~sourcesStopped
  /\ ext' = IF mgr[Source] = "null" THEN "idle" ELSE "push"
  /\ UNCHANGED <<mainVars, waitEnd, objectVars, status, workerVars, queue, sourcesStopped>>

ExternalPush ==
  /\ ext = "push"
  /\ Push(Source, "data")
  /\ ext' = "idle"
  /\ UNCHANGED <<mainVars, waitEnd, objectVars, status, workerVars, sourcesStopped>>

-----------------------------------------------------------------------------
Worker(i) == \/ WorkerInit(i) \/ WorkerPop(i) \/ ProcessReturns(i)
             \/ WorkerSend(i) \/ WorkerPush(i) \/ WorkerExit(i)

Main == \/ CreateThread \/ WaitThreadInitEnd \/ SendAppStart \/ WaitReturns
        \/ StopSources \/ MarkExiting \/ JoinAndDelete \/ ClearSlot
        \/ ReleaseMain \/ DeleteNode

Next == \/ Main \/ Signal \/ ExternalSend \/ ExternalPush
        \/ \E i \in Nodes : Worker(i)

Spec == Init /\ [][Next]_vars

-----------------------------------------------------------------------------
(* Properties *)

(* A worker thread is inside ThreadEntry, where it dereferences both its   *)
(* manager and its TaskNode.                                               *)
InThreadEntry(i) == worker[i] \notin {"none", "done"}

InInit(i) == worker[i] \in {"init", "lookup", "found"}

(* Start has returned and left worker t in Init: it gives up at the first  *)
(* node that failed, and ExitPipeline releases managers meanwhile.         *)
LeftInInit(t) == InInit(t) /\ mainPc \notin {"create", "waitInit"}

(* The threads that hold a pointer to manager i: its worker, whoever       *)
(* loaded slot i and has not come back from PushMessage, and whoever       *)
(* loaded it to compare its name, unless Start left that one behind.       *)
UsesMgr(t, i) ==
  \/ t = i /\ InThreadEntry(i)
  \/ t \in Nodes /\ worker[t] = "push" /\ Downstream[t] = i
  \/ t \in Nodes /\ worker[t] = "lookup" /\ probe[t] = i /\ ~LeftInInit(t)
  \/ t = External /\ i = Source /\ ext = "push"

MgrUsers(i) == {t \in Threads : UsesMgr(t, i)}

(* TaskNodeMgr objects and TaskNode objects obey the lifetime discipline:  *)
(* ReleaseThreads deletes a manager, and ExitPipeline a node, when no      *)
(* worker, no sender and no lookup is inside it, and nobody enters it      *)
(* afterwards.  The lookups of a worker that a failed Start left in Init   *)
(* are the one exception: InitLookupSafe is about them.                    *)
MgrLife == INSTANCE ObjectLifetime WITH
  Objects <- Nodes,
  alive <- [i \in Nodes |-> mgr[i] = "live"],
  users <- [i \in Nodes |-> MgrUsers(i)]
MgrLifetime == MgrLife!LifeSpec

NodeLife == INSTANCE ObjectLifetime WITH
  Objects <- Nodes,
  alive <- node,
  users <- [i \in Nodes |-> {j \in Nodes : j = i /\ InThreadEntry(j)}]
NodeLifetime == NodeLife!LifeSpec

(* No call to PushMessage runs on a manager that ReleaseThreads deleted:   *)
(* releasing in table order, after a synchronous StopSources, is enough.   *)
NoPushToFreedMgr ==
  /\ \A i \in Nodes : worker[i] = "push" => mgr[Downstream[i]] = "live"
  /\ ext = "push" => mgr[Source] = "live"

(* SendMessage's null-slot branch, which its comment calls a safety net    *)
(* for unmanaged threads, is never what rejects a frame at shutdown.       *)
NeverNodeReleased ==
  \A i \in Nodes :
    worker[i] = "process" /\ Downstream[i] # 0 => mgr[Downstream[i]] # "null"

(* A node that left kRunning never runs again: neither the worker that     *)
(* finishes Init nor ReleaseThreads writes an earlier status.              *)
NeverRunsAgain ==
  [][\A i \in Nodes : status[i] \in {"Exiting", "Exited", "Error"} =>
                        status'[i] \notin {"Ready", "Running"}]_vars

(* Does not hold once an Init may fail: that TaskNodeIdByName only reads   *)
(* names of managers that exist.  Start's error path releases them while   *)
(* later nodes are still in Init.                                          *)
InitLookupSafe ==
  \A i \in Nodes : worker[i] = "lookup" => mgr[probe[i]] = "live"
=============================================================================
