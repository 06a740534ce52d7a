--------------------------- MODULE Pipeline_proof ---------------------------
(***************************************************************************)
(* What TaskScheduler guarantees for every number of nodes, every queue    *)
(* capacity, every table in topological order and every set of nodes whose *)
(* Init may fail; and that the pipeline implements it: when the exit       *)
(* signal comes after PreProcess::Start, StopSources keeps the contract of *)
(* task_node.h, so that all of it is true of the pipeline too.             *)
(***************************************************************************)
EXTENDS Pipeline, TLAPS

-----------------------------------------------------------------------------
(* The scheduler by itself: theorems about Spec of TaskScheduler.          *)

(* Every node has a slot of its own beside slot 0, "main".                 *)
LEMMA NodesAreSlots == Nodes \subseteq Slots /\ 0 \notin Nodes
  BY SchedulerAssumption DEF Nodes, Slots

LEMMA NodesAreThreads == /\ Nodes \subseteq Threads /\ External \in Threads
                         /\ External \notin Nodes /\ Source \in Nodes
BY SchedulerAssumption DEF Threads, External, Nodes, Source

(* Downstream neighbours come later in the table and are real nodes.       *)
LEMMA DownstreamLater ==
  ASSUME NEW i \in Nodes, Downstream[i] # 0
  PROVE  Downstream[i] \in Nodes /\ Downstream[i] > i
BY SchedulerAssumption DEF Nodes, Slots

(* Iterate keeps the loop index inside the table.                          *)
LEMMA IterateType ==
  ASSUME NEW loop \in MainPcs, NEW next \in MainPcs, k \in Nodes, Iterate(loop, next)
  PROVE  k' \in Nodes /\ mainPc' \in {loop, next}
BY SchedulerAssumption DEF Iterate, Nodes

(* Push keeps queues typed and bounded.                                    *)
LEMMA PushType ==
  ASSUME NEW i \in Nodes, NEW m \in Messages, Push(i, m),
         queue \in [Nodes -> Seq(Messages)],
         \A j \in Nodes : Len(queue[j]) <= Capacity
  PROVE  /\ queue' \in [Nodes -> Seq(Messages)]
         /\ \A j \in Nodes : Len(queue'[j]) <= Capacity
<1>1. CASE status[i] = "Running" /\ Len(queue[i]) < Capacity
  <2>1. queue' = [queue EXCEPT ![i] = Append(queue[i], m)]
    BY <1>1 DEF Push
  <2>2. Append(queue[i], m) \in Seq(Messages) /\ Len(Append(queue[i], m)) = Len(queue[i]) + 1
    OBVIOUS
  <2>3. Len(queue[i]) \in Nat
    OBVIOUS
  <2>4. Len(queue[i]) + 1 <= Capacity
    BY <1>1, <2>3, SchedulerAssumption
  <2> QED
    BY <2>1, <2>2, <2>4
<1>2. CASE ~(status[i] = "Running" /\ Len(queue[i]) < Capacity)
  BY <1>2 DEF Push
<1> QED
  BY <1>1, <1>2

-----------------------------------------------------------------------------
(* The types hold at first and every step keeps them.                      *)
LEMMA TypeInductive == (Init => TypeOK) /\ (TypeOK /\ [Next]_vars => TypeOK')
<1>1. Init => TypeOK
  <2> SUFFICES ASSUME Init PROVE TypeOK
    OBVIOUS
  <2>1. 1 \in Nodes
    BY SchedulerAssumption DEF Nodes
  <2>2. queue = [i \in Nodes |-> <<>>] /\ <<>> \in Seq(Messages) /\ Len(<<>>) = 0
    BY DEF Init
  <2>3. queue \in [Nodes -> Seq(Messages)] /\ \A i \in Nodes : Len(queue[i]) <= Capacity
    BY <2>2, SchedulerAssumption
  <2>4. probe \in [Nodes -> Slots]
    <3>1. 0 \in Slots
      BY SchedulerAssumption DEF Slots
    <3> QED BY <3>1 DEF Init
  <2>5. \A i \in Nodes : worker[i] # "push"
    BY DEF Init
  <2>6. mgr \in [Slots -> {"live", "freed", "null"}] /\ status \in [Slots -> Statuses]
    BY DEF Init, Statuses
  <2> QED
    BY <2>1, <2>3, <2>4, <2>5, <2>6 DEF Init, TypeOK, MainPcs, Statuses, WorkerPcs
<1>2. TypeOK /\ [Next]_vars => TypeOK'
  <2> SUFFICES ASSUME TypeOK, [Next]_vars PROVE TypeOK'
    OBVIOUS
  <2> USE DEF TypeOK
  <2> USE DEF mainVars, objectVars, workerVars, sourceVars
  <2>1. CASE CreateThread
    <3>1. k' \in Nodes /\ mainPc' \in MainPcs
      BY <2>1, IterateType DEF CreateThread, MainPcs
    <3> QED BY <2>1, <3>1 DEF CreateThread, WorkerPcs
  <2>2. CASE WaitThreadInitEnd
    <3>1. k' \in Nodes /\ mainPc' \in MainPcs
      BY <2>2, IterateType, SchedulerAssumption DEF WaitThreadInitEnd, MainPcs, Nodes
    <3> QED BY <2>2, <3>1 DEF WaitThreadInitEnd
  <2>3. CASE SendAppStart
    <3>1. k' \in Nodes /\ mainPc' \in MainPcs
      BY <2>3, IterateType DEF SendAppStart, MainPcs
    <3>2. queue' \in [Nodes -> Seq(Messages)] /\ \A j \in Nodes : Len(queue'[j]) <= Capacity
      BY <2>3, PushType DEF SendAppStart, Messages
    <3> QED BY <2>3, <3>1, <3>2 DEF SendAppStart
  <2>4. CASE Signal
    BY <2>4 DEF Signal
  <2>5. CASE WaitReturns
    BY <2>5 DEF WaitReturns, MainPcs, Statuses
  <2>6. CASE StopSources
    BY <2>6 DEF StopSources, MainPcs
  <2>7. CASE MarkExiting
    <3>1. k' \in Nodes /\ mainPc' \in MainPcs
      BY <2>7, IterateType DEF MarkExiting, MainPcs
    <3> QED BY <2>7, <3>1 DEF MarkExiting, Statuses
  <2>8. CASE JoinAndDelete
    <3>1. queue' \in [Nodes -> Seq(Messages)] /\ \A j \in Nodes : Len(queue'[j]) <= Capacity
      BY <2>8, SchedulerAssumption DEF JoinAndDelete
    <3> QED BY <2>8, <3>1 DEF JoinAndDelete, MainPcs
  <2>9. CASE ClearSlot
    <3>1. k' \in Nodes /\ mainPc' \in MainPcs
      BY <2>9, IterateType DEF ClearSlot, MainPcs
    <3> QED BY <2>9, <3>1 DEF ClearSlot
  <2>10. CASE ReleaseMain
    BY <2>10 DEF ReleaseMain, MainPcs
  <2>11. CASE DeleteNode
    <3>1. k' \in Nodes /\ mainPc' \in MainPcs
      BY <2>11, IterateType DEF DeleteNode, MainPcs
    <3> QED BY <2>11, <3>1 DEF DeleteNode
  <2>12. CASE ExternalSend
    BY <2>12 DEF ExternalSend
  <2>13. CASE ExternalPush
    <3>1. queue' \in [Nodes -> Seq(Messages)] /\ \A j \in Nodes : Len(queue'[j]) <= Capacity
      <4>1. Source \in Nodes
        BY SchedulerAssumption DEF Source, Nodes
      <4> QED BY <2>13, <4>1, PushType DEF ExternalPush, Messages
    <3> QED BY <2>13, <3>1 DEF ExternalPush
  <2>14. ASSUME NEW i \in Nodes, Worker(i) PROVE TypeOK'
    <3>1. CASE WorkerInit(i)
      <4>1. CASE StartLookup(i)
        BY <4>1 DEF StartLookup, WorkerPcs
      <4>2. CASE CompareName(i)
        <5>1. probe[i] < Downstream[i] => probe[i] + 1 \in Slots
          BY SchedulerAssumption DEF Slots
        <5>2. 0 \in Slots
          BY SchedulerAssumption DEF Slots
        <5> QED BY <4>2, <5>1, <5>2 DEF CompareName, WorkerPcs
      <4>3. CASE InitFails(i)
        BY <4>3 DEF InitFails, WorkerPcs, Statuses
      <4>4. CASE InitReturns(i)
        BY <4>4 DEF InitReturns, WorkerPcs, Statuses
      <4> QED BY <3>1, <4>1, <4>2, <4>3, <4>4 DEF WorkerInit
    <3>2. CASE WorkerPop(i)
      <4>1. Head(queue[i]) \in Messages /\ Tail(queue[i]) \in Seq(Messages)
        BY <3>2 DEF WorkerPop
      <4>2. Len(Tail(queue[i])) <= Capacity
        BY <3>2, SchedulerAssumption DEF WorkerPop
      <4>3. queue' \in [Nodes -> Seq(Messages)] /\ \A j \in Nodes : Len(queue'[j]) <= Capacity
        BY <3>2, <4>1, <4>2 DEF WorkerPop
      <4> QED BY <3>2, <4>1, <4>3 DEF WorkerPop, WorkerPcs
    <3>3. CASE ProcessReturns(i)
      BY <3>3 DEF ProcessReturns, WorkerPcs
    <3>4. CASE WorkerSend(i)
      BY <3>4, DownstreamLater DEF WorkerSend, WorkerPcs
    <3>5. CASE WorkerPush(i)
      <4>1. queue' \in [Nodes -> Seq(Messages)] /\ \A j \in Nodes : Len(queue'[j]) <= Capacity
        BY <3>5, PushType DEF WorkerPush, Messages
      <4> QED BY <3>5, <4>1 DEF WorkerPush, WorkerPcs
    <3>6. CASE WorkerExit(i)
      BY <3>6 DEF WorkerExit, WorkerPcs, Statuses
    <3> QED BY <2>14, <3>1, <3>2, <3>3, <3>4, <3>5, <3>6 DEF Worker
  <2>15. CASE UNCHANGED vars
    BY <2>15 DEF vars
  <2> QED
    BY <2>1, <2>2, <2>3, <2>4, <2>5, <2>6, <2>7, <2>8, <2>9, <2>10, <2>11, <2>12,
       <2>13, <2>14, <2>15 DEF Next, Main
<1> QED
  BY <1>1, <1>2

(* Type correctness: the variables keep their types and no queue grows     *)
(* beyond its capacity, whatever the interleaving.                         *)
THEOREM TypeCorrect == Spec => []TypeOK
BY TypeInductive, PTL DEF Spec

-----------------------------------------------------------------------------
(* The inductive invariant behind the safety of TaskScheduler.  Managers   *)
(* go from live to null strictly in table order, none of them before       *)
(* ReleaseThreads runs and none while its own worker is in ThreadEntry; by *)
(* then the sources are quiet; a worker that has not finished Init has not *)
(* left kReady; and nodes are deleted, in order, after every manager.      *)
Releasing == {"mark", "join", "clear", "releaseMain", "deleteNodes", "done"}

TeardownInv ==
  /\ mainPc = "create" => \A i \in Nodes : i >= k => worker[i] = "none"
  /\ mainPc \notin Releasing \ {"mark"} => \A i \in Nodes : mgr[i] = "live"
  /\ mainPc \in {"join", "clear"} =>
       \A i \in Nodes : /\ i < k => mgr[i] = "null"
                        /\ i > k => mgr[i] = "live"
  /\ mainPc = "join" => mgr[k] = "live"
  /\ mainPc = "clear" => mgr[k] = "freed"
  /\ mainPc \in {"releaseMain", "deleteNodes", "done"} =>
       \A i \in Nodes : mgr[i] = "null"
  /\ \A i \in Nodes : mgr[i] # "live" => ~InThreadEntry(i)
  /\ \A i \in Nodes : worker[i] = "none" \/ InInit(i) => status[i] = "Ready"
  /\ mainPc \in Releasing => sourcesStopped
  /\ sourcesStopped => ext = "idle"
  /\ mainPc \notin {"deleteNodes", "done"} => \A i \in Nodes : node[i]
  /\ mainPc = "deleteNodes" => \A i \in Nodes : i >= k => node[i]

(* Any step of a worker that is in ThreadEntry touches no object, no main  *)
(* variable and no source; whatever status it writes, the teardown         *)
(* invariant stands.                                                       *)
LEMMA WorkerStepKeeps ==
  ASSUME TypeOK, TeardownInv,
         NEW i \in Nodes, NEW pc \in WorkerPcs \ {"none", "init"}, NEW s \in Statuses,
         InThreadEntry(i), pc \in {"lookup", "found"} => s = "Ready",
         worker' = [worker EXCEPT ![i] = pc],
         status' = [status EXCEPT ![i] = s],
         UNCHANGED <<mainVars, objectVars, sourceVars>>
  PROVE  TeardownInv'
<1>1. mgr[i] = "live"
  BY DEF TeardownInv
<1>2. mainPc # "create" \/ i < k
  BY SchedulerAssumption DEF TeardownInv, InThreadEntry, TypeOK, Nodes
<1>3. /\ mainPc' = mainPc /\ k' = k /\ mgr' = mgr /\ node' = node
      /\ ext' = ext /\ sourcesStopped' = sourcesStopped
  BY DEF mainVars, objectVars, sourceVars
<1>4. \A j \in Nodes : j # i => worker'[j] = worker[j] /\ status'[j] = status[j]
  BY DEF TypeOK, Slots, Nodes
<1>5. worker'[i] = pc
  BY DEF TypeOK
<1>6. \A j \in Nodes : mgr'[j] # "live" => ~InThreadEntry(j)'
  BY <1>1, <1>3, <1>4 DEF TeardownInv, InThreadEntry
<1>7. \A j \in Nodes : worker'[j] = "none" \/ InInit(j)' => status'[j] = "Ready"
  <2>1. status'[i] = s
    BY NodesAreSlots DEF TypeOK
  <2> QED
    BY <1>4, <1>5, <2>1 DEF TeardownInv, InInit
<1>8. mainPc' = "create" => \A j \in Nodes : j >= k' => worker'[j] = "none"
  BY <1>2, <1>3, <1>4 DEF TeardownInv, TypeOK, Nodes
<1> QED
  BY <1>3, <1>6, <1>7, <1>8 DEF TeardownInv

(* The teardown invariant: together with the types it is inductive.        *)
THEOREM TeardownCorrect == Spec => []TeardownInv
<1>1. Init => TeardownInv
  <2>1. \A i \in Nodes : i \in Slots /\ i # 0
    BY SchedulerAssumption DEF Nodes, Slots
  <2> QED
    BY <2>1 DEF Init, TeardownInv, Releasing, InThreadEntry, InInit
<1>2. TypeOK /\ TeardownInv /\ [Next]_vars => TeardownInv'
  <2> SUFFICES ASSUME TypeOK, TeardownInv, [Next]_vars PROVE TeardownInv'
    OBVIOUS
  <2>1. CASE CreateThread
    <3>1. UNCHANGED <<mgr, node, status, ext, sourcesStopped>> /\ mainPc = "create"
      BY <2>1 DEF CreateThread, objectVars, sourceVars
    <3>2. \A i \in Nodes : worker'[i] = IF i = k THEN "init" ELSE worker[i]
      BY <2>1 DEF CreateThread, TypeOK
    <3>3. \A i \in Nodes : mgr[i] = "live" /\ node[i] /\ mgr'[i] = "live"
      BY <3>1 DEF TeardownInv, Releasing
    <3>4. status[k] = "Ready"
      BY <3>1 DEF TeardownInv, TypeOK, Nodes
    <3>5. \A i \in Nodes : worker'[i] = "none" \/ InInit(i)' => status'[i] = "Ready"
      BY <3>1, <3>2, <3>4 DEF TeardownInv, InInit
    <3>6. (mainPc' = "create" /\ k' = k + 1) \/ mainPc' = "waitInit"
      BY <2>1 DEF CreateThread, Iterate
    <3>7. mainPc' = "create" => \A i \in Nodes : i >= k' => worker'[i] = "none"
      BY <3>1, <3>2, <3>6 DEF TeardownInv, TypeOK, Nodes
    <3> QED
      BY <3>1, <3>3, <3>5, <3>6, <3>7 DEF TeardownInv, Releasing
  <2>2. CASE WaitThreadInitEnd
    BY <2>2, SchedulerAssumption DEF WaitThreadInitEnd, TypeOK, TeardownInv,
       Releasing, InThreadEntry, InInit, Iterate,
         Nodes, Slots, mainVars, objectVars, workerVars, sourceVars
  <2>3. CASE SendAppStart
    BY <2>3, SchedulerAssumption DEF SendAppStart, TypeOK, TeardownInv,
       Releasing, InThreadEntry, InInit, Iterate,
         Nodes, Slots, mainVars, objectVars, workerVars, sourceVars
  <2>4. CASE Signal
    BY <2>4, SchedulerAssumption DEF Signal, TypeOK, TeardownInv, Releasing,
       InThreadEntry, InInit, Iterate,
         Nodes, Slots, mainVars, objectVars, workerVars, sourceVars
  <2>5. CASE WaitReturns
    BY <2>5, SchedulerAssumption DEF WaitReturns, TypeOK, TeardownInv,
       Releasing, InThreadEntry, InInit, Iterate,
         Nodes, Slots, mainVars, objectVars, workerVars, sourceVars
  <2>6. CASE StopSources
    BY <2>6, SchedulerAssumption DEF StopSources, TypeOK, TeardownInv,
       Releasing, InThreadEntry, InInit, Iterate,
         Nodes, Slots, mainVars, objectVars, workerVars, sourceVars
  <2>7. CASE MarkExiting
    <3>1. UNCHANGED <<mgr, node, worker, ext, sourcesStopped>>
      BY <2>7 DEF MarkExiting, objectVars, workerVars, sourceVars
    <3>2. \A i \in Nodes : status[i] = "Ready" => status'[i] = "Ready"
      BY <2>7, NodesAreSlots DEF MarkExiting, TypeOK
    <3>3. \A i \in Nodes : worker'[i] = "none" \/ InInit(i)' => status'[i] = "Ready"
      BY <3>1, <3>2 DEF TeardownInv, InInit
    <3>4. mainPc' = "mark" \/ (mainPc' = "join" /\ k' = 1)
      BY <2>7 DEF MarkExiting, Iterate
    <3>5. \A i \in Nodes : mgr[i] = "live" /\ node[i]
      BY <2>7 DEF MarkExiting, TeardownInv
    <3>6. sourcesStopped /\ k' \in Nodes
      BY <2>7, <3>4, SchedulerAssumption DEF MarkExiting, TeardownInv, Releasing, Iterate,
         TypeOK, Nodes
    <3> QED
      BY <3>1, <3>3, <3>4, <3>5, <3>6 DEF TeardownInv, Releasing, Nodes
  <2>8. CASE JoinAndDelete
    BY <2>8, SchedulerAssumption DEF JoinAndDelete, TypeOK, TeardownInv,
       Releasing, InThreadEntry, InInit, Iterate,
         Nodes, Slots, mainVars, objectVars, workerVars, sourceVars
  <2>9. CASE ClearSlot
    <3>1. UNCHANGED <<node, worker, status, ext, sourcesStopped>>
      BY <2>9 DEF ClearSlot, workerVars, sourceVars
    <3>2. \A i \in Nodes : mgr'[i] = IF i = k THEN "null" ELSE mgr[i]
      BY <2>9, NodesAreSlots DEF ClearSlot, TypeOK
    <3>3. \A i \in Nodes : mgr'[i] # "live" => ~InThreadEntry(i)'
      BY <2>9, <3>1, <3>2 DEF ClearSlot, TeardownInv, InThreadEntry
    <3>4. \A i \in Nodes : worker'[i] = "none" \/ InInit(i)' => status'[i] = "Ready"
      BY <3>1 DEF TeardownInv, InInit
    <3>5. CASE k < NumNodes
      <4>1. mainPc' = "join" /\ k' = k + 1
        BY <2>9, <3>5 DEF ClearSlot, Iterate
      <4> QED
        BY <2>9, <3>1, <3>2, <3>3, <3>4, <3>5, <4>1, SchedulerAssumption
           DEF ClearSlot, TeardownInv, TypeOK, Releasing, Nodes
    <3>6. CASE ~(k < NumNodes)
      <4>1. mainPc' = "releaseMain" /\ k' = 1
        BY <2>9, <3>6 DEF ClearSlot, Iterate
      <4> QED
        BY <2>9, <3>1, <3>2, <3>3, <3>4, <3>6, <4>1, SchedulerAssumption
           DEF ClearSlot, TeardownInv, TypeOK, Releasing, Nodes
    <3> QED
      BY <3>5, <3>6
  <2>10. CASE ReleaseMain
    BY <2>10, SchedulerAssumption DEF ReleaseMain, TypeOK, TeardownInv,
       Releasing, InThreadEntry, InInit, Iterate,
         Nodes, Slots, mainVars, objectVars, workerVars, sourceVars
  <2>11. CASE DeleteNode
    BY <2>11, SchedulerAssumption DEF DeleteNode, TypeOK, TeardownInv,
       Releasing, InThreadEntry, InInit, Iterate,
         Nodes, Slots, mainVars, objectVars, workerVars, sourceVars
  <2>12. CASE ExternalSend
    BY <2>12, SchedulerAssumption DEF ExternalSend, TypeOK, TeardownInv,
       Releasing, InThreadEntry, InInit, Iterate,
         Nodes, Slots, mainVars, objectVars, workerVars, sourceVars
  <2>13. CASE ExternalPush
    BY <2>13, SchedulerAssumption DEF ExternalPush, TypeOK, TeardownInv,
       Releasing, InThreadEntry, InInit, Iterate,
         Nodes, Slots, mainVars, objectVars, workerVars, sourceVars
  <2>14. ASSUME NEW i \in Nodes, Worker(i) PROVE TeardownInv'
    <3> DEFINE Step(pc, s) == /\ worker' = [worker EXCEPT ![i] = pc]
                              /\ status' = [status EXCEPT ![i] = s]
    <3>0. InThreadEntry(i) /\ UNCHANGED <<mainVars, objectVars, sourceVars>>
      BY <2>14 DEF Worker, WorkerInit, StartLookup, CompareName, InitFails, InitReturns,
         WorkerPop, ProcessReturns, WorkerSend, WorkerPush, WorkerExit, InThreadEntry
    <3>1. \E pc \in WorkerPcs \ {"none", "init"}, s \in Statuses :
            Step(pc, s) /\ (pc \in {"lookup", "found"} => s = "Ready")
      <4>1. status = [status EXCEPT ![i] = status[i]] /\ status[i] \in Statuses
        BY NodesAreSlots DEF TypeOK
      <4>2. CASE StartLookup(i) \/ CompareName(i)
        <5>1. status[i] = "Ready" /\ UNCHANGED status
          BY <4>2 DEF StartLookup, CompareName, TeardownInv, InInit
        <5>2. worker = [worker EXCEPT ![i] = worker[i]]
          BY DEF TypeOK
        <5> QED
          BY <4>1, <4>2, <5>1, <5>2 DEF StartLookup, CompareName, WorkerPcs
      <4>3. CASE ~(StartLookup(i) \/ CompareName(i))
        BY <2>14, <4>1, <4>3 DEF Worker, WorkerInit, InitFails, InitReturns, WorkerPop,
           ProcessReturns, WorkerSend, WorkerPush, WorkerExit, WorkerPcs, Statuses
      <4> QED
        BY <4>2, <4>3
    <3> QED
      BY <3>0, <3>1, WorkerStepKeeps
  <2>15. CASE UNCHANGED vars
    BY <2>15 DEF vars, TeardownInv, InThreadEntry, InInit, mainVars, objectVars,
       workerVars, sourceVars
  <2> QED
    BY <2>1, <2>2, <2>3, <2>4, <2>5, <2>6, <2>7, <2>8, <2>9, <2>10, <2>11, <2>12,
       <2>13, <2>14, <2>15 DEF Next, Main
<1> QED
  BY <1>1, <1>2, TypeCorrect, PTL DEF Spec

-----------------------------------------------------------------------------
(* A node that a worker in ThreadEntry sends to still has its manager: it   *)
(* comes later in the table, and managers go in table order.               *)
LEMMA DownstreamLive ==
  ASSUME TypeOK, TeardownInv, NEW i \in Nodes, InThreadEntry(i), Downstream[i] # 0
  PROVE  mgr[Downstream[i]] = "live"
<1>1. mgr[i] = "live"
  BY DEF TeardownInv
<1>2. Downstream[i] \in Nodes /\ Downstream[i] > i
  BY DownstreamLater
<1>3. CASE mainPc \notin Releasing \ {"mark"}
  BY <1>2, <1>3 DEF TeardownInv
<1>4. CASE mainPc \in {"join", "clear"}
  <2>1. i >= k
    BY <1>1, <1>4 DEF TeardownInv, TypeOK, Nodes
  <2>2. Downstream[i] > k
    BY <1>2, <2>1 DEF TypeOK, Nodes
  <2> QED
    BY <1>2, <1>4, <2>2 DEF TeardownInv
<1>5. CASE mainPc \in {"releaseMain", "deleteNodes", "done"}
  BY <1>1, <1>5 DEF TeardownInv
<1> QED
  BY <1>3, <1>4, <1>5 DEF Releasing

(* PushMessage never runs on a manager that ReleaseThreads has deleted,    *)
(* from a worker or from the decoder callback.                             *)
THEOREM PushSafe == Spec => []NoPushToFreedMgr
<1>1. TypeOK /\ TeardownInv => NoPushToFreedMgr
  <2> SUFFICES ASSUME TypeOK, TeardownInv PROVE NoPushToFreedMgr
    OBVIOUS
  <2>1. \A i \in Nodes : worker[i] = "push" => mgr[Downstream[i]] = "live"
    <3>1. \A i \in Nodes : worker[i] = "push" => InThreadEntry(i) /\ Downstream[i] # 0
      BY DEF InThreadEntry, TypeOK, Nodes
    <3> QED BY <3>1, DownstreamLive
  <2>2. ext = "push" => mgr[Source] = "live"
    BY SchedulerAssumption DEF TeardownInv, Source, Nodes, Releasing
  <2> QED BY <2>1, <2>2 DEF NoPushToFreedMgr
<1> QED
  BY <1>1, TypeCorrect, TeardownCorrect, PTL

(* SendMessage's "node released" branch is dead code for the workers.      *)
THEOREM ReleasedBranchDead == Spec => []NeverNodeReleased
<1>1. TypeOK /\ TeardownInv => NeverNodeReleased
  BY DownstreamLive DEF NeverNodeReleased, InThreadEntry
<1> QED
  BY <1>1, TypeCorrect, TeardownCorrect, PTL

(* No node that was asked to exit, or failed, ever runs again.             *)
THEOREM NoRestart == Spec => NeverRunsAgain
<1>1. ASSUME TypeOK, TeardownInv, [Next]_vars, NEW i \in Nodes,
             status[i] \in {"Exiting", "Exited", "Error"}
      PROVE  status'[i] \notin {"Ready", "Running"}
  <2>1. CASE MarkExiting
    BY <1>1, <2>1 DEF MarkExiting, TypeOK, Nodes, Slots
  <2>2. CASE WaitReturns
    BY <1>1, <2>2 DEF WaitReturns, TypeOK, Nodes, Slots
  <2>3. ASSUME NEW j \in Nodes, Worker(j) PROVE status'[i] \notin {"Ready", "Running"}
    <3>1. CASE WorkerInit(j)
      <4>1. status[j] = "Ready"
        BY <1>1, <3>1 DEF WorkerInit, StartLookup, CompareName, InitFails, InitReturns,
           TeardownInv, InInit
      <4>2. status'[i] = status[i]
        <5>1. i # j
          BY <1>1, <4>1
        <5>2. UNCHANGED status \/ \E s \in Statuses : status' = [status EXCEPT ![j] = s]
          BY <3>1 DEF WorkerInit, StartLookup, CompareName, InitFails, InitReturns, Statuses
        <5> QED BY <5>1, <5>2, <1>1, NodesAreSlots DEF TypeOK
      <4> QED BY <1>1, <4>2
    <3>2. CASE WorkerExit(j)
      BY <1>1, <3>2 DEF WorkerExit, TypeOK, Nodes, Slots
    <3>3. CASE WorkerPop(j) \/ ProcessReturns(j) \/ WorkerSend(j) \/ WorkerPush(j)
      BY <1>1, <3>3 DEF WorkerPop, ProcessReturns, WorkerSend, WorkerPush
    <3> QED BY <2>3, <3>1, <3>2, <3>3 DEF Worker
  <2>4. CASE UNCHANGED status
    BY <1>1, <2>4
  <2> QED
    BY <1>1, <2>1, <2>2, <2>3, <2>4 DEF Next, Main, vars, CreateThread,
       WaitThreadInitEnd,
       SendAppStart, Signal, StopSources, JoinAndDelete, ClearSlot, ReleaseMain, DeleteNode,
       ExternalSend, ExternalPush
<1>2. TypeOK /\ TeardownInv /\ [Next]_vars =>
        [\A i \in Nodes : status[i] \in {"Exiting", "Exited", "Error"} =>
                            status'[i] \notin {"Ready", "Running"}]_vars
  BY <1>1
<1> QED
  BY <1>2, TypeCorrect, TeardownCorrect, PTL DEF Spec, NeverRunsAgain

-----------------------------------------------------------------------------
(* The manager objects obey ObjectLifetime: ReleaseThreads deletes each    *)
(* one once, when neither its worker nor a sender is inside it, and nobody *)
(* enters it afterwards.                                                   *)

MgrAlive   == [i \in Nodes |-> mgr[i] = "live"]
MgrUsersOf == [i \in Nodes |-> MgrUsers(i)]

(* A worker step starts inside ThreadEntry; it touches neither managers,   *)
(* nor nodes, nor the other workers, nor the main and the external thread. *)
LEMMA WorkerIsolated ==
  ASSUME TypeOK, NEW i \in Nodes, Worker(i)
  PROVE  /\ InThreadEntry(i) /\ worker'[i] # "none"
         /\ UNCHANGED <<mainPc, k, mgr, node, ext>>
         /\ \A j \in Nodes : j # i => worker'[j] = worker[j] /\ probe'[j] = probe[j]
BY DEF Worker, WorkerInit, StartLookup, CompareName, InitFails, InitReturns, WorkerPop,
   ProcessReturns, WorkerSend, WorkerPush, WorkerExit, InThreadEntry, TypeOK, mainVars,
   objectVars, sourceVars

(* Whoever uses a manager after a step on which it was not alive before    *)
(* the step was using it already: no way into a deleted manager is left.   *)
LEMMA NobodyEnters ==
  ASSUME TypeOK, TeardownInv, [Next]_vars, NEW o \in Nodes, mgr[o] # "live",
         NEW t \in Threads, UsesMgr(t, o)'
  PROVE  UsesMgr(t, o)
<1>1. /\ ~InThreadEntry(o)
      /\ mainPc \notin {"create", "waitInit", "sendStart", "wait", "stopSources", "mark"}
  BY DEF TeardownInv, Releasing
<1>2. ~CreateThread
  BY <1>1 DEF CreateThread
<1>3. UNCHANGED worker \/ \E i \in Nodes : Worker(i)
  BY <1>2 DEF Next, Main, vars, workerVars, WaitThreadInitEnd, SendAppStart, WaitReturns,
     StopSources, MarkExiting, JoinAndDelete, ClearSlot, ReleaseMain, DeleteNode, Signal,
     ExternalSend, ExternalPush
<1>4. CASE t = o /\ InThreadEntry(o)'
  BY <1>1, <1>3, <1>4, WorkerIsolated DEF InThreadEntry
<1>5. CASE t \in Nodes /\ worker'[t] = "push" /\ Downstream[t] = o
  <2>1. CASE worker[t] = "push"
    BY <1>5, <2>1 DEF UsesMgr
  <2>2. CASE worker[t] # "push"
    <3>1. Worker(t)
      BY <1>3, <1>5, <2>2, WorkerIsolated
    <3>2. Downstream[t] # 0
      BY <1>5, NodesAreSlots
    <3> QED
      BY <1>5, <3>1, <3>2, WorkerIsolated, DownstreamLive
  <2> QED
    BY <2>1, <2>2
<1>6. ~(InInit(t)' /\ ~LeftInInit(t)')
  <2>1. mainPc' \notin {"create", "waitInit"}
    BY <1>1, WorkerIsolated DEF Next, Main, vars, mainVars, CreateThread, WaitThreadInitEnd,
       SendAppStart, WaitReturns, StopSources, MarkExiting, JoinAndDelete, ClearSlot,
       ReleaseMain, DeleteNode, Signal, ExternalSend, ExternalPush, Iterate
  <2> QED
    BY <2>1 DEF LeftInInit
<1>7. CASE t = External /\ o = Source /\ ext' = "push"
  <2>1. ~ExternalSend
    BY <1>1, <1>7 DEF ExternalSend, TeardownInv, Releasing, TypeOK, MainPcs
  <2>2. ext = "push"
    BY <1>7, <2>1, WorkerIsolated DEF Next, Main, vars, sourceVars, CreateThread,
       WaitThreadInitEnd, SendAppStart, WaitReturns, StopSources, MarkExiting,
       JoinAndDelete, ClearSlot, ReleaseMain, DeleteNode, Signal, ExternalPush
  <2> QED
    BY <1>7, <2>2 DEF UsesMgr
<1> QED
  BY <1>4, <1>5, <1>6, <1>7 DEF UsesMgr, InInit

(* ReleaseThreads deletes manager k beside none of its users: its worker   *)
(* was joined, those who send to it come before it and were joined before  *)
(* it, and the lookups that count are over.                                *)
LEMMA NoUserAtDelete ==
  ASSUME TypeOK, TeardownInv, JoinAndDelete
  PROVE  /\ k \in Nodes /\ mgr[k] = "live"
         /\ MgrUsers(k) = {} /\ MgrUsers(k)' = {}
<1>1. mgr[k] = "live" /\ k \in Nodes /\ ext = "idle" /\ ext' = ext /\ worker' = worker
  BY DEF JoinAndDelete, TeardownInv, TypeOK, Releasing, workerVars, sourceVars
<1>2. ASSUME NEW t \in Nodes, worker[t] = "push" PROVE Downstream[t] # k
  <2>1. mgr[t] = "live" /\ t # k /\ Downstream[t] \in Nodes
    BY <1>2 DEF JoinAndDelete, TeardownInv, InThreadEntry, TypeOK
  <2>2. t > k
    BY <1>1, <2>1 DEF JoinAndDelete, TeardownInv, Nodes
  <2>3. Downstream[t] > t
    BY <2>1, DownstreamLater DEF Nodes
  <2> QED
    BY <1>1, <2>1, <2>2, <2>3 DEF Nodes
<1>3. ASSUME NEW t \in Nodes PROVE /\ worker[t] = "lookup" => LeftInInit(t)
                                   /\ worker[t] = "lookup" => LeftInInit(t)'
  BY <1>1 DEF JoinAndDelete, LeftInInit, InInit
<1>4. ~InThreadEntry(k)
  BY DEF JoinAndDelete, InThreadEntry
<1>5. ~InThreadEntry(k)' /\ k' = k
  BY <1>1, <1>4 DEF JoinAndDelete, InThreadEntry
<1>6. ASSUME NEW t \in Threads PROVE ~UsesMgr(t, k) /\ ~UsesMgr(t, k)'
  <2>1. CASE t \in Nodes
    <3>1. t # External
      BY <2>1, NodesAreThreads
    <3> QED
      BY <1>1, <1>2, <1>3, <1>4, <1>5, <2>1, <3>1 DEF UsesMgr
  <2>2. CASE t \notin Nodes
    BY <1>1, <1>5, <2>2 DEF UsesMgr
  <2> QED
    BY <2>1, <2>2
<1> QED
  BY <1>1, <1>5, <1>6 DEF MgrUsers

(* Every step lets threads come and go as ObjectLifetime allows, or        *)
(* destroys one manager nobody is using.                                   *)
LEMMA MgrLifeStep ==
  ASSUME TypeOK, TeardownInv, [Next]_vars
  PROVE  \/ /\ UNCHANGED MgrAlive
            /\ MgrUsersOf' \in [Nodes -> SUBSET Threads]
            /\ \A o \in Nodes : MgrAlive[o] \/ MgrUsersOf'[o] \subseteq MgrUsersOf[o]
         \/ \E o \in Nodes :
              /\ MgrAlive[o] /\ MgrUsersOf[o] = {} /\ UNCHANGED MgrUsersOf
              /\ MgrAlive' = [MgrAlive EXCEPT ![o] = FALSE]
<1>1. CASE ~JoinAndDelete
  <2>1. \A i \in Nodes : mgr'[i] = "live" <=> mgr[i] = "live"
    <3>1. CASE ClearSlot \/ ReleaseMain
      BY <3>1, NodesAreSlots DEF ClearSlot, ReleaseMain, TeardownInv, TypeOK, Releasing
    <3>2. CASE UNCHANGED mgr
      BY <3>2
    <3> QED
      BY <1>1, <3>1, <3>2, WorkerIsolated DEF Next, Main, vars, objectVars, CreateThread,
         WaitThreadInitEnd, SendAppStart, WaitReturns, StopSources, MarkExiting,
         DeleteNode, Signal, ExternalSend, ExternalPush
  <2>2. UNCHANGED MgrAlive
    BY <2>1, Zenon DEF MgrAlive
  <2>3. MgrUsersOf' \in [Nodes -> SUBSET Threads]
    BY DEF MgrUsersOf, MgrUsers
  <2>4. ASSUME NEW o \in Nodes, ~MgrAlive[o] PROVE MgrUsersOf'[o] \subseteq MgrUsersOf[o]
    <3>1. mgr[o] # "live"
      BY <2>4 DEF MgrAlive
    <3>2. \A t \in Threads : UsesMgr(t, o)' => UsesMgr(t, o)
      BY <3>1, NobodyEnters
    <3> QED
      BY <3>2 DEF MgrUsersOf, MgrUsers
  <2> QED
    BY <2>2, <2>3, <2>4
<1>2. CASE JoinAndDelete
  <2>1. /\ k \in Nodes /\ mgr[k] = "live"
        /\ MgrUsers(k) = {} /\ MgrUsers(k)' = {}
    BY <1>2, NoUserAtDelete
  <2>2. ASSUME NEW o \in Nodes PROVE MgrUsers(o)' = MgrUsers(o)
    <3>1. /\ worker' = worker /\ probe' = probe /\ ext' = ext
          /\ mainPc \notin {"create", "waitInit"} /\ mainPc' \notin {"create", "waitInit"}
      BY <1>2 DEF JoinAndDelete, workerVars, sourceVars
    <3>2. \A t \in Threads : UsesMgr(t, o)' <=> UsesMgr(t, o)
      BY <3>1 DEF UsesMgr, InThreadEntry, LeftInInit, InInit
    <3> QED
      BY <3>2 DEF MgrUsers
  <2>3. MgrAlive[k] /\ MgrUsersOf[k] = {} /\ UNCHANGED MgrUsersOf
    BY <2>1, <2>2 DEF MgrAlive, MgrUsersOf
  <2>4. MgrAlive' = [MgrAlive EXCEPT ![k] = FALSE]
    <3>1. mgr' = [mgr EXCEPT ![k] = "freed"] /\ mgr \in [Slots -> {"live", "freed", "null"}]
      BY <1>2 DEF JoinAndDelete, TypeOK
    <3>2. \A i \in Nodes : mgr'[i] = IF i = k THEN "freed" ELSE mgr[i]
      BY <3>1, NodesAreSlots
    <3>3. MgrAlive' = [i \in Nodes |-> IF i = k THEN FALSE ELSE mgr[i] = "live"]
      BY <3>2, Zenon DEF MgrAlive
    <3>4. [MgrAlive EXCEPT ![k] = FALSE] = [i \in Nodes |-> IF i = k THEN FALSE ELSE mgr[i] = "live"]
      BY <2>1, Zenon DEF MgrAlive
    <3> QED
      BY <2>1, <3>3, <3>4, Zenon DEF MgrAlive
  <2> QED
    BY <2>1, <2>3, <2>4
<1> QED
  BY <1>1, <1>2

(* TaskScheduler implements ObjectLifetime for its managers: no schedule,  *)
(* startup failure or table size makes ReleaseThreads delete a manager     *)
(* somebody is still using.                                                *)
THEOREM ManagersOutliveUsers == Spec => MgrLifetime
<1>1. Init => MgrLife!LifeInit
  <2> SUFFICES ASSUME Init PROVE MgrLife!LifeInit
    OBVIOUS
  <2>1. [i \in Nodes |-> mgr[i] = "live"] = [o \in Nodes |-> TRUE]
    <3>1. \A i \in Nodes : mgr[i] = "live"
      BY NodesAreSlots DEF Init
    <3> QED
      BY <3>1, Zenon
  <2>2. \A i \in Nodes : MgrUsers(i) = {}
    BY DEF Init, MgrUsers, UsesMgr, InThreadEntry
  <2> QED
    BY <2>1, <2>2 DEF MgrLife!LifeInit
<1>2. TypeOK /\ TeardownInv /\ [Next]_vars => [MgrLife!LifeNext]_(MgrLife!lifeVars)
  <2> SUFFICES ASSUME TypeOK, TeardownInv, [Next]_vars
               PROVE  [MgrLife!LifeNext]_(MgrLife!lifeVars)
    OBVIOUS
  <2> QED
    BY MgrLifeStep DEF MgrLife!LifeNext, MgrLife!lifeVars, MgrLife!Use,
       MgrLife!Destroy, MgrAlive, MgrUsersOf
<1> QED
  BY <1>1, <1>2, TypeCorrect, TeardownCorrect, PTL DEF Spec, MgrLifetime,
     MgrLife!LifeSpec

-----------------------------------------------------------------------------
(* The TaskNode objects obey ObjectLifetime too: ExitPipeline deletes each *)
(* one once, when its worker has left ThreadEntry for good.                *)

NodeUsers == [i \in Nodes |-> {j \in Nodes : j = i /\ InThreadEntry(j)}]

(* Every step lets workers into and out of ThreadEntry, none of them on a  *)
(* deleted node, or it deletes one node nobody runs.                       *)
LEMMA NodeLifeStep ==
  ASSUME TypeOK, TeardownInv, [Next]_vars
  PROVE  \/ /\ UNCHANGED node
            /\ NodeUsers' \in [Nodes -> SUBSET Threads]
            /\ \A o \in Nodes : node[o] \/ NodeUsers'[o] \subseteq NodeUsers[o]
         \/ \E o \in Nodes :
              /\ node[o] /\ NodeUsers[o] = {} /\ UNCHANGED NodeUsers
              /\ node' = [node EXCEPT ![o] = FALSE]
<1>1. CASE DeleteNode
  <2>1. k \in Nodes /\ node[k] /\ mgr[k] = "null"
    BY <1>1 DEF DeleteNode, TeardownInv, TypeOK, Nodes
  <2>2. ~InThreadEntry(k)
    BY <2>1 DEF TeardownInv
  <2>3. NodeUsers[k] = {}
    BY <2>1, <2>2 DEF NodeUsers
  <2>4. UNCHANGED NodeUsers
    BY <1>1 DEF DeleteNode, workerVars, NodeUsers, InThreadEntry
  <2> QED
    BY <1>1, <2>1, <2>3, <2>4 DEF DeleteNode
<1>2. CASE ~DeleteNode
  <2>1. UNCHANGED node
    BY <1>2, WorkerIsolated DEF Next, Main, vars, objectVars, CreateThread,
       WaitThreadInitEnd, SendAppStart, WaitReturns, StopSources, MarkExiting,
       JoinAndDelete, ClearSlot, ReleaseMain, Signal, ExternalSend, ExternalPush
  <2>2. NodeUsers' \in [Nodes -> SUBSET Threads]
    BY NodesAreThreads DEF NodeUsers
  <2>3. ASSUME NEW o \in Nodes, ~node[o], InThreadEntry(o)' PROVE InThreadEntry(o)
    <3>1. ~CreateThread
      BY <2>3 DEF CreateThread, TeardownInv
    <3>2. CASE UNCHANGED worker
      BY <2>3, <3>2 DEF InThreadEntry
    <3>3. CASE \E i \in Nodes : Worker(i)
      BY <2>3, <3>3, WorkerIsolated DEF InThreadEntry
    <3> QED
      BY <3>1, <3>2, <3>3 DEF Next, Main, vars, workerVars, WaitThreadInitEnd, SendAppStart,
         WaitReturns, StopSources, MarkExiting, JoinAndDelete, ClearSlot, ReleaseMain,
         DeleteNode, Signal, ExternalSend, ExternalPush
  <2>4. \A o \in Nodes : node[o] \/ NodeUsers'[o] \subseteq NodeUsers[o]
    BY <2>3 DEF NodeUsers
  <2> QED
    BY <2>1, <2>2, <2>4
<1> QED
  BY <1>1, <1>2

(* TaskScheduler implements ObjectLifetime for its TaskNode objects: the   *)
(* nodes are deleted after every worker has left ThreadEntry.              *)
THEOREM NodesOutliveWorkers == Spec => NodeLifetime
<1>1. Init => NodeLife!LifeInit
  <2> SUFFICES ASSUME Init PROVE NodeLife!LifeInit
    OBVIOUS
  <2>1. \A i \in Nodes : {j \in Nodes : j = i /\ InThreadEntry(j)} = {}
    BY DEF Init, InThreadEntry
  <2> QED
    BY <2>1 DEF Init, NodeLife!LifeInit
<1>2. TypeOK /\ TeardownInv /\ [Next]_vars => [NodeLife!LifeNext]_(NodeLife!lifeVars)
  <2> SUFFICES ASSUME TypeOK, TeardownInv, [Next]_vars
               PROVE  [NodeLife!LifeNext]_(NodeLife!lifeVars)
    OBVIOUS
  <2> QED
    BY NodeLifeStep DEF NodeLife!LifeNext, NodeLife!lifeVars, NodeLife!Use,
       NodeLife!Destroy, NodeUsers
<1> QED
  BY <1>1, <1>2, TypeCorrect, TeardownCorrect, PTL DEF Spec, NodeLifetime,
     NodeLife!LifeSpec

-----------------------------------------------------------------------------
(* The pipeline: the sources of node 1 and the scheduler together.         *)

(* Nothing of PreProcess::Start has run and node 1 has no message.         *)
Unstarted ==
  /\ startPc = "decode" /\ vdec = "none" /\ ff = "none"
  /\ ~recvStarted /\ ~ffStarted
  /\ queue[Source] = <<>> /\ handling[Source] = "none"

StartIsOver == startPc = "end"
Starting    == mainPc \in {"create", "waitInit"}
Stopping    == mainPc = "stopSources" \/ mainPc \in Releasing

(* When Start may run: not before kMsgAppStart is sent, not once main is   *)
(* in StopSources.                                                         *)
StartWindow ==
  /\ Starting => Unstarted
  /\ waitEnd => StartIsOver \/ Stopping
  /\ Stopping => Unstarted \/ StartIsOver

(* A thread that runs was created, and its flag says so once Start is past *)
(* the line that sets it.                                                  *)
ThreadsMarked ==
  /\ startPc \in {"decode", "clearStop", "createRecv"} =>
       vdec \in {"none", "ready"} /\ ~recvStarted
  /\ startPc \in {"decode", "clearStop", "createRecv", "markRecv", "createFf"}
       => ff = "none" /\ ~ffStarted
  /\ startPc # "markRecv" /\ ~recvStarted => vdec \in {"none", "ready", "done"}
  /\ startPc # "markFf" /\ ~ffStarted => ff \in {"none", "done"}
  /\ ext = "push" => vdec = "frame"

(* What StopSources has joined is gone, and it starts from the top.        *)
JoinOrder ==
  /\ stopPc # "ffStop" => Stopping
  /\ stopPc \in {"joinFf", "end"} => vdec \in {"none", "ready", "done"}
  /\ stopPc = "end" => ff \in {"none", "done"}
  /\ sourcesStopped => stopPc = "end"

SourceInv == StartWindow /\ ThreadsMarked /\ JoinOrder
PipeInv   == PipelineTypeOK /\ SourceInv

(* None of this is promised once a signal came too early.                  *)
LateInv == PipelineTypeOK /\ (~early => SourceInv)

-----------------------------------------------------------------------------
(* While Start is under way the program is between SendAppStart and the    *)
(* signal: main is not in StopSources, nor in the loops before it.         *)
LEMMA StartUnderWay ==
  ASSUME PipeInv, NEW pc \in StartPcs, InStart(pc), pc # "end"
  PROVE  ~Starting /\ ~Stopping /\ ~waitEnd /\ stopPc = "ffStop" /\ ~sourcesStopped
BY DEF PipeInv, SourceInv, StartWindow, JoinOrder, Unstarted, StartIsOver, InStart

(* Every step of the pipeline is a step of TaskScheduler, or changes none  *)
(* of its variables; the last join of StopSources is its StopSources, and  *)
(* at that point the decoder callback is not inside SendMessage.           *)
LEMMA PipelineStep ==
  ASSUME PipeInv, [PipelineNext]_allVars
  PROVE  [Next]_vars
<1>1. CASE PipelineMain
  <2>1. CASE SchedulerMain
    BY <2>1 DEF SchedulerMain, Next, Main
  <2>2. CASE StopFf \/ WriteEof \/ StopVdec \/ JoinRecvThread
    BY <2>2 DEF StopFf, WriteEof, StopVdec, JoinRecvThread
  <2>3. CASE JoinFfThread
    <3>1. ext = "idle"
      BY <2>3 DEF JoinFfThread, InStop, PipeInv, PipelineTypeOK, TypeOK, SourceInv,
                  ThreadsMarked, JoinOrder
    <3>2. StopSources
      BY <2>3, <3>1 DEF JoinFfThread, InStop, StopSources
    <3> QED
      BY <3>2 DEF Next, Main
  <2> QED
    BY <1>1, <2>1, <2>2, <2>3 DEF PipelineMain, Stop, FairStop
<1>2. CASE PipelineSignal
  BY <1>2 DEF PipelineSignal, Next
<1>3. CASE Start
  BY <1>3 DEF Start, StartRecvStream, ClearIsStop, CreateRecvThread, MarkRecvStarted,
              CreateFfThread, MarkFfStarted, InStart
<1>4. CASE VdecThread
  <2>1. CASE VdecGetFrame \/ VdecExit
    BY <2>1 DEF VdecGetFrame, VdecExit
  <2>2. CASE VdecSend
    <3>1. ~sourcesStopped
      BY <2>2 DEF VdecSend, PipeInv, SourceInv, JoinOrder
    <3>2. ext' = IF mgr[Source] = "null" THEN "idle" ELSE "push"
      BY <2>2 DEF VdecSend
    <3>3. ExternalSend
      BY <2>2, <3>1, <3>2 DEF VdecSend, ExternalSend
    <3> QED
      BY <3>3 DEF Next
  <2>3. CASE VdecPush
    BY <2>3 DEF VdecPush, Next
  <2> QED
    BY <1>4, <2>1, <2>2, <2>3 DEF VdecThread
<1>5. CASE FfThread
  BY <1>5 DEF FfThread, FfOpen, FfWrite, FfWrote, FfExit, FfStep
<1>6. CASE \E i \in Nodes : PipelineWorker(i)
  BY <1>6 DEF PipelineWorker, Next, Worker
<1>7. CASE UNCHANGED allVars
  BY <1>7 DEF allVars
<1> QED
  BY <1>1, <1>2, <1>3, <1>4, <1>5, <1>6, <1>7 DEF PipelineNext

-----------------------------------------------------------------------------
(* The types of the decoder variables.                                     *)
LEMMA PipelineTypeStep ==
  ASSUME PipelineTypeOK, [PipelineNext]_allVars
  PROVE  PipelineTypeOK'
<1> USE DEF PipelineTypeOK, StartPcs, StopPcs
<1>1. CASE Stop
  <2>1. CASE JoinFfThread
    <3>1. TypeOK'
      BY <2>1 DEF JoinFfThread, TypeOK, MainPcs, objectVars, workerVars
    <3> QED
      BY <2>1, <3>1 DEF JoinFfThread, InStop
  <2>2. CASE StopFf \/ WriteEof \/ StopVdec \/ JoinRecvThread
    <3>1. TypeOK'
      BY <2>2, TypeInductive DEF StopFf, WriteEof, StopVdec, JoinRecvThread
    <3> QED
      BY <2>2, <3>1 DEF StopFf, WriteEof, decoderVars, StopVdec, JoinRecvThread, InStop
  <2> QED
    BY <1>1, <2>1, <2>2 DEF Stop, FairStop
<1>2. CASE Start
  <2>1. TypeOK'
    BY <1>2, TypeInductive DEF Start, StartRecvStream, ClearIsStop, CreateRecvThread,
       MarkRecvStarted, CreateFfThread, MarkFfStarted, InStart
  <2> QED
    BY <1>2, <2>1 DEF Start, StartRecvStream, ClearIsStop, CreateRecvThread,
       MarkRecvStarted, CreateFfThread, MarkFfStarted, InStart, decoderVars
<1>3. CASE VdecThread
  <2>1. CASE VdecSend
    <3>1. TypeOK'
      BY <2>1 DEF VdecSend, TypeOK, mainVars, objectVars, workerVars
    <3> QED
      BY <1>3, <2>1, <3>1 DEF VdecSend, VdecThread
  <2>2. CASE VdecGetFrame \/ VdecExit \/ VdecPush
    <3>1. TypeOK'
      BY <2>2, TypeInductive DEF VdecGetFrame, VdecExit, VdecPush, Next
    <3> QED
      BY <1>3, <2>2, <3>1 DEF VdecGetFrame, VdecExit, VdecPush, VdecThread
  <2> QED
    BY <1>3, <2>1, <2>2 DEF VdecThread
<1>4. CASE FfThread
  <2>1. TypeOK'
    BY <1>4, TypeInductive DEF FfThread, FfOpen, FfWrite, FfWrote, FfExit, FfStep
  <2> QED
    BY <1>4, <2>1 DEF FfThread, FfOpen, FfWrite, FfWrote, FfExit, FfStep
<1>5. CASE SchedulerMain \/ PipelineSignal \/ (\E i \in Nodes : PipelineWorker(i))
           \/ UNCHANGED allVars
  <2>1. TypeOK'
    BY <1>5, TypeInductive DEF SchedulerMain, PipelineSignal, PipelineWorker, Next, Main,
       Worker, allVars
  <2>2. UNCHANGED <<startPc, stopPc, decoderVars>> /\ early' \in BOOLEAN
    BY <1>5 DEF SchedulerMain, PipelineSignal, PipelineWorker, allVars, pipeVars
  <2> QED
    BY <2>1, <2>2 DEF decoderVars
<1> QED
  BY <1>1, <1>2, <1>3, <1>4, <1>5 DEF PipelineNext, PipelineMain

(* StopSources keeps the invariant: what it joins is over.                 *)
LEMMA StopKeeps ==
  ASSUME PipeInv, Stop
  PROVE  SourceInv'
<1> USE DEF PipeInv, PipelineTypeOK, SourceInv, StartWindow, ThreadsMarked, JoinOrder,
            Unstarted, StartIsOver, Starting, Stopping, Releasing, InStop, StopPcs
<1>1. CASE StopFf
  BY <1>1 DEF StopFf, vars, mainVars, workerVars, sourceVars
<1>2. CASE WriteEof \/ StopVdec
  BY <1>2 DEF WriteEof, StopVdec, vars, mainVars, workerVars, sourceVars, decoderVars
<1>3. CASE JoinRecvThread
  BY <1>3 DEF JoinRecvThread, vars, mainVars, workerVars, sourceVars
<1>4. CASE JoinFfThread
  BY <1>4 DEF JoinFfThread, workerVars
<1> QED
  BY <1>1, <1>2, <1>3, <1>4 DEF Stop, FairStop

(* Start keeps it: main is in neither phase the invariant restricts.       *)
LEMMA StartKeeps ==
  ASSUME PipeInv, Start
  PROVE  SourceInv'
<1>1. ~Starting /\ ~Stopping /\ ~waitEnd /\ stopPc = "ffStop" /\ ~sourcesStopped
  BY StartUnderWay DEF Start, StartRecvStream, ClearIsStop, CreateRecvThread,
     MarkRecvStarted, CreateFfThread, MarkFfStarted, StartPcs
<1>2. UNCHANGED <<vars, stopPc>>
  BY DEF Start, StartRecvStream, ClearIsStop, CreateRecvThread, MarkRecvStarted,
         CreateFfThread, MarkFfStarted, InStart
<1>3. (StartWindow /\ JoinOrder)'
  BY <1>1, <1>2 DEF StartWindow, JoinOrder, Starting, Stopping, vars, mainVars,
     sourceVars
<1>4. ThreadsMarked'
  <2>1. ext' = ext
    BY <1>2 DEF vars, sourceVars
  <2> QED
    BY <2>1 DEF Start, StartRecvStream, ClearIsStop, CreateRecvThread,
       MarkRecvStarted,
       CreateFfThread, MarkFfStarted, InStart, PipeInv, SourceInv, ThreadsMarked,
       decoderVars
<1> QED
  BY <1>3, <1>4 DEF SourceInv

(* The decoder threads keep it: a thread that exists is marked, one that   *)
(* is joined takes no step.                                                *)
LEMMA DecoderKeeps ==
  ASSUME PipeInv, VdecThread \/ FfThread
  PROVE  SourceInv'
<1> USE DEF PipeInv, PipelineTypeOK, TypeOK, SourceInv, StartWindow, ThreadsMarked,
            JoinOrder, Unstarted, StartIsOver, Starting, Stopping, StopPcs
<1>1. CASE VdecGetFrame \/ VdecExit
  BY <1>1 DEF VdecGetFrame, VdecExit, vars, mainVars, workerVars, sourceVars
<1>2. CASE VdecSend
  BY <1>2 DEF VdecSend, mainVars, workerVars
<1>3. CASE VdecPush
  BY <1>3 DEF VdecPush, ExternalPush, mainVars, workerVars
<1>4. CASE FfThread
  BY <1>4 DEF FfThread, FfOpen, FfWrite, FfWrote, FfExit, FfStep, vars, mainVars,
     workerVars, sourceVars
<1> QED
  BY <1>1, <1>2, <1>3, <1>4 DEF VdecThread

(* A step of main or of a worker gives node 1 no message before the start  *)
(* messages are sent: only later nodes are sent to by the workers.  The    *)
(* signal comes when Start is over, or main is in StopSources already.     *)
LEMMA SchedulerKeeps ==
  ASSUME PipeInv, ~early',
         SchedulerMain \/ PipelineSignal \/ \E i \in Nodes : PipelineWorker(i)
  PROVE  SourceInv'
<1>0. UNCHANGED <<startPc, stopPc, decoderVars>>
  BY DEF SchedulerMain, PipelineSignal, PipelineWorker, pipeVars
<1>1. CASE SchedulerMain
  <2>1. UNCHANGED <<waitEnd, handling, ext, sourcesStopped>>
    BY <1>1 DEF SchedulerMain, CreateThread, WaitThreadInitEnd, SendAppStart,
       WaitReturns,
       MarkExiting, JoinAndDelete, ClearSlot, ReleaseMain, DeleteNode, workerVars, sourceVars
  <2>2. ThreadsMarked'
    BY <1>0, <2>1 DEF PipeInv, SourceInv, ThreadsMarked, decoderVars
  <2>3. Stopping => Stopping'
    BY <1>1 DEF SchedulerMain, CreateThread, WaitThreadInitEnd, SendAppStart,
       WaitReturns,
       MarkExiting, JoinAndDelete, ClearSlot, ReleaseMain, DeleteNode, Iterate, Stopping,
       Releasing
  <2>4. Stopping' => Stopping \/ Starting \/ waitEnd
    BY <1>1 DEF SchedulerMain, CreateThread, WaitThreadInitEnd, SendAppStart,
       WaitReturns,
       MarkExiting, JoinAndDelete, ClearSlot, ReleaseMain, DeleteNode, Iterate, Stopping,
       Starting, Releasing
  <2>5. Starting' => Starting
    BY <1>1 DEF SchedulerMain, CreateThread, WaitThreadInitEnd, SendAppStart,
       WaitReturns,
       MarkExiting, JoinAndDelete, ClearSlot, ReleaseMain, DeleteNode, Iterate, Starting
  <2>6. Unstarted /\ (Starting \/ Stopping) => Unstarted'
    <3>1. Starting \/ Stopping => ~SendAppStart
      BY DEF Starting, Stopping, Releasing, SendAppStart
    <3>2. ~SendAppStart => queue' = queue \/ queue' = [queue EXCEPT ![k] = <<>>]
      BY <1>1 DEF SchedulerMain, CreateThread, WaitThreadInitEnd, WaitReturns,
         MarkExiting, JoinAndDelete, ClearSlot, ReleaseMain, DeleteNode
    <3>3. queue[Source] = <<>> /\ ~SendAppStart => queue'[Source] = <<>>
      BY <3>2, NodesAreThreads DEF PipeInv, PipelineTypeOK, TypeOK
    <3> QED
      BY <1>0, <2>1, <3>1, <3>3 DEF Unstarted, decoderVars
  <2>7. StartWindow'
    BY <1>0, <2>1, <2>3, <2>4, <2>5, <2>6 DEF PipeInv, SourceInv, StartWindow, StartIsOver
  <2>8. JoinOrder'
    BY <1>0, <2>1, <2>3 DEF PipeInv, SourceInv, JoinOrder, decoderVars
  <2> QED
    BY <2>2, <2>7, <2>8 DEF SourceInv
<1>2. CASE PipelineSignal
  <2>1. startPc = "end" \/ Stopping
    BY <1>2 DEF PipelineSignal, StartAhead, PipeInv, PipelineTypeOK, TypeOK, MainPcs,
       Stopping, Releasing
  <2>2. UNCHANGED <<mainPc, queue, handling, ext, sourcesStopped>>
    BY <1>2 DEF PipelineSignal, Signal, mainVars, workerVars, sourceVars
  <2> QED
    BY <1>0, <2>1, <2>2 DEF PipeInv, SourceInv, StartWindow, ThreadsMarked,
       JoinOrder,
       Unstarted, StartIsOver, Starting, Stopping, decoderVars
<1>3. ASSUME NEW i \in Nodes, PipelineWorker(i) PROVE SourceInv'
  <2>1. Worker(i)
    BY <1>3 DEF PipelineWorker, Worker
  <2>2. UNCHANGED <<mainPc, waitEnd, ext, sourcesStopped>>
    BY <2>1 DEF Worker, WorkerInit, StartLookup, CompareName, InitFails, InitReturns,
       WorkerPop, ProcessReturns, WorkerSend, WorkerPush, WorkerExit, mainVars, sourceVars
  <2>3. Unstarted => Unstarted'
    <3> SUFFICES ASSUME queue[Source] = <<>>, handling[Source] = "none"
                 PROVE  queue'[Source] = <<>> /\ handling'[Source] = "none"
      BY <1>0 DEF Unstarted, decoderVars
    <3> USE NodesAreThreads DEF PipeInv, PipelineTypeOK, TypeOK
    <3>1. CASE WorkerPop(i)
      BY <3>1 DEF WorkerPop
    <3>2. CASE ProcessReturns(i) \/ WorkerSend(i)
      BY <3>2 DEF ProcessReturns, WorkerSend
    <3>3. CASE WorkerPush(i)
      <4>1. Downstream[i] \in Nodes /\ Downstream[i] # Source
        <5>1. Downstream[i] \in Nodes /\ Downstream[i] # 0
          BY <3>3, SchedulerAssumption DEF WorkerPush, Nodes
        <5> QED
          BY <5>1, DownstreamLater DEF Source, Nodes
      <4>2. queue'[Source] = queue[Source]
        BY <3>3, <4>1 DEF WorkerPush, Push
      <4> QED
        BY <3>3, <4>2 DEF WorkerPush
    <3>4. CASE WorkerInit(i) \/ WorkerExit(i)
      BY <3>4 DEF WorkerInit, StartLookup, CompareName, InitFails, InitReturns, WorkerExit
    <3> QED
      BY <2>1, <3>1, <3>2, <3>3, <3>4 DEF Worker
  <2> QED
    BY <1>0, <2>2, <2>3 DEF PipeInv, SourceInv, StartWindow, ThreadsMarked,
       JoinOrder,
       StartIsOver, Starting, Stopping, decoderVars
<1> QED
  BY <1>1, <1>2, <1>3

-----------------------------------------------------------------------------
(* The invariant of the sources is inductive until a signal comes early.   *)
THEOREM PipeInductive == PipelineSpec => []LateInv
<1>1. PipelineInit => LateInv
  <2> SUFFICES ASSUME PipelineInit PROVE PipeInv
    BY DEF LateInv, PipeInv
  <2>1. TypeOK
    BY TypeInductive DEF PipelineInit
  <2>2. queue[Source] = <<>> /\ handling[Source] = "none"
    BY NodesAreThreads DEF PipelineInit, Init
  <2> QED
    BY <2>1, <2>2 DEF PipelineInit, Init, PipeInv, PipelineTypeOK, SourceInv,
       StartWindow,
       ThreadsMarked, JoinOrder, Unstarted, Starting, Stopping, Releasing, StartPcs, StopPcs
<1>2. LateInv /\ [PipelineNext]_allVars => LateInv'
  <2> SUFFICES ASSUME LateInv, [PipelineNext]_allVars, ~early' PROVE SourceInv'
    BY PipelineTypeStep DEF LateInv
  <2>1. ~early
    BY DEF PipelineNext, PipelineMain, SchedulerMain, Stop, FairStop, StopFf, WriteEof,
       StopVdec, JoinRecvThread, JoinFfThread, InStop, PipelineSignal, Start,
       StartRecvStream, ClearIsStop, CreateRecvThread, MarkRecvStarted, CreateFfThread,
       MarkFfStarted, InStart, VdecThread, FfThread, PipelineWorker, allVars, pipeVars
  <2>2. PipeInv
    BY <2>1 DEF LateInv, PipeInv
  <2>3. CASE UNCHANGED allVars
    BY <2>2, <2>3 DEF PipeInv, SourceInv, StartWindow, ThreadsMarked, JoinOrder, Unstarted,
       StartIsOver, Starting, Stopping, allVars, vars, mainVars, workerVars, sourceVars,
       pipeVars, decoderVars
  <2> QED
    BY <2>2, <2>3, StopKeeps, StartKeeps, DecoderKeeps, SchedulerKeeps DEF PipelineNext,
       PipelineMain
<1> QED
  BY <1>1, <1>2, PTL DEF PipelineSpec

(* After StopSources the VDEC receive thread and the FFmpeg thread are     *)
(* gone, provided that no signal came before PreProcess::Start was over.   *)
THEOREM SourcesCorrect == PipelineSpec => []SourcesJoined
<1>1. LateInv => SourcesJoined
  BY DEF LateInv, SourceInv, JoinOrder, SourcesJoined, SourcesGone
<1> QED
  BY <1>1, PipeInductive, PTL

(* Until a signal comes early the pipeline implements TaskScheduler:       *)
(* nobody outside the workers sends once StopSources has returned.         *)
THEOREM ContractKept == PipelineSpec => KeepsSourceContract
<1>1. PipelineInit => Init
  BY DEF PipelineInit
<1>2. LateInv /\ [PipelineNext]_allVars => [early \/ Next]_vars
  BY PipelineStep DEF LateInv, PipeInv
<1> QED
  BY <1>1, <1>2, PipeInductive, PTL DEF PipelineSpec, KeepsSourceContract

(* What TaskScheduler promises is therefore true of the pipeline with its  *)
(* real source threads, whenever the signal is not early: no frame is      *)
(* pushed into a deleted manager, and managers and nodes outlive their     *)
(* users.                                                                  *)
THEOREM PipelineSafe ==
  PipelineSpec /\ []~early => []NoPushToFreedMgr /\ MgrLifetime /\ NodeLifetime
<1>1. [early \/ Next]_vars /\ ~early => [Next]_vars
  OBVIOUS
<1>2. PipelineSpec /\ []~early => Spec
  BY <1>1, ContractKept, PTL DEF KeepsSourceContract, Spec
<1> QED
  BY <1>2, PushSafe, ManagersOutliveUsers, NodesOutliveWorkers
=============================================================================
