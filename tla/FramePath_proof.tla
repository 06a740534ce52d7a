--------------------------- MODULE FramePath_proof ---------------------------
(***************************************************************************)
(* Mappings are undone, failures accounted for, no frame is lost without   *)
(* being counted, and the VDEC group is idle when it is destroyed, for any *)
(* number of frames and any capacity.                                      *)
(***************************************************************************)
EXTENDS FramePath, FiniteSetTheorems, TLAPS

Pcs == {"idle", "ivps", "copy", "infer", "map", "runtime", "blind", "send", "write",
        "exited"}
Mains == {"run", "eof", "stop", "mark", "join", "destroy", "done"}

(* The type invariant without the queues' bound and the counters of frames.*)
Shape ==
  /\ queue \in [Nodes -> Seq(Frames)]
  /\ hand \in [Threads -> 0..MaxFrames]
  /\ pc \in [Threads -> Pcs]
  /\ maps \in [Frames -> SUBSET Planes]
  /\ dest \in [live : BOOLEAN, maps : SUBSET Planes]
  /\ failed \in [Nodes -> Nat]
  /\ streak \in [now : Nat, told : Nat]
  /\ episode \in [Stages -> [failures : Nat, code : Codes \cup {0}, changes : Nat]]
  /\ told \in [Stages -> Nat] /\ happened \in [Stages -> Nat]
  /\ got \in 0..MaxFrames
  /\ main \in Mains /\ k \in 0..Enc
  /\ main = "join" => k \in Nodes

(* A thread holds a frame exactly inside its handler.                      *)
InHandler == \A t \in Threads : pc[t] \in {"idle", "exited"} <=> hand[t] = 0

(* PreProcess's IVPS frame is mapped wholly or not at all.                 *)
DestWhole ==
  /\ dest.maps \in {{}, Planes}
  /\ pc[Pre] = "copy" => dest.live

(* Frames are fetched until StopSources; a node that ExitPipeline is done  *)
(* with runs no more and keeps nothing.                                    *)
Joined(n) == main \in {"destroy", "done"} \/ (main = "join" /\ n < k)
Left ==
  /\ main \in {"run", "eof", "stop"} \/ pc[Vdec] = "exited"
  /\ \A n \in Nodes : Joined(n) => pc[n] = "exited" /\ queue[n] = <<>>

IInv == Shape /\ InHandler /\ DestWhole /\ MappedOnlyForRuntime /\ Left
          /\ EpisodesAccounted
-----------------------------------------------------------------------------
(* Queues lose their head, grow at the end or are emptied.                 *)
LEMMA QueueOps ==
  ASSUME NEW q \in Seq(Frames), NEW f \in Frames
  PROVE  /\ Append(q, f) \in Seq(Frames)
         /\ q # <<>> => Head(q) \in Frames /\ Tail(q) \in Seq(Frames)
         /\ <<>> \in Seq(Frames)
OBVIOUS

(* The end of a handler drops its frame and, in PreProcess, the IVPS frame *)
(* with its mapping.                                                       *)
LEMMA EndKeeps ==
  ASSUME IInv, NEW t \in Threads, pc[t] \notin {"idle", "exited"},
         NEW STATE q, q \in [Nodes -> Seq(Frames)], End(t, q)
  PROVE  /\ hand' = [hand EXCEPT ![t] = 0] /\ pc' = [pc EXCEPT ![t] = "idle"]
         /\ queue' = q /\ UNCHANGED got
         /\ maps' \in [Frames -> SUBSET Planes]
         /\ \A f \in Frames : maps[f] = {} => maps'[f] = {}
         /\ dest' \in [live : BOOLEAN, maps : SUBSET Planes]
         /\ DestWhole'
         /\ t # Bus \/ pc[t] # "runtime" => MappedOnlyForRuntime'
<1> USE DEF Threads, Nodes, Vdec, Pre, Inf, Bus, Enc, IInv
<1>1. hand' = [hand EXCEPT ![t] = 0] /\ pc' = [pc EXCEPT ![t] = "idle"]
       /\ queue' = q /\ UNCHANGED got
  BY DEF End, Goto, Hold
<1>2. /\ maps' \in [Frames -> SUBSET Planes]
      /\ \A f \in Frames : maps[f] = {} => maps'[f] = {}
  BY DEF End, Hold, Munmapped, Shape
<1>3. dest' \in [live : BOOLEAN, maps : SUBSET Planes] /\ DestWhole'
       /\ (~dest'.live => dest'.maps = {})
  <2>1. CASE t = Pre
    <3>1. Munmapped(dest.maps) = {}
      BY DEF Munmapped, DestWhole
    <3>2. dest' = [live |-> FALSE, maps |-> {}]
      BY <2>1, <3>1 DEF End
    <3> QED
      BY <1>1, <2>1, <3>2 DEF DestWhole, Shape
  <2>2. CASE t # Pre
    <3>1. dest' = dest /\ pc'[Pre] = pc[Pre]
      BY <1>1, <2>2 DEF End, Shape
    <3> QED
      BY <3>1 DEF DestWhole, Shape, MappedOnlyForRuntime
  <2> QED
    BY <2>1, <2>2
<1>4. ASSUME t # Bus \/ pc[t] # "runtime" PROVE MappedOnlyForRuntime'
  <2>1. ASSUME NEW f \in Frames, maps'[f] # {}
        PROVE  hand'[Bus] = f /\ pc'[Bus] = "runtime"
    <3>1. hand[Bus] = f /\ pc[Bus] = "runtime"
      BY <1>2, <2>1 DEF MappedOnlyForRuntime
    <3>2. t # Bus
      BY <1>4, <3>1
    <3> QED
      BY <1>1, <3>1, <3>2 DEF Shape
  <2> QED
    BY <1>3, <2>1 DEF MappedOnlyForRuntime
<1> QED
  BY <1>1, <1>2, <1>3, <1>4

(* The five threads and the four nodes among them.                         *)
LEMMA NodesAreThreads ==
  /\ Nodes \subseteq Threads /\ Vdec \in Threads /\ Vdec \notin Nodes
  /\ {Pre, Inf, Bus, Enc} \subseteq Nodes
  /\ Pre # Inf /\ Pre # Bus /\ Pre # Enc /\ Inf # Bus /\ Inf # Enc /\ Bus # Enc
BY DEF Nodes, Threads, Vdec, Pre, Inf, Bus, Enc

(* What the end of a handler keeps, its books apart.                       *)
Frame == /\ queue \in [Nodes -> Seq(Frames)]
         /\ hand \in [Threads -> 0..MaxFrames]
         /\ pc \in [Threads -> Pcs]
         /\ maps \in [Frames -> SUBSET Planes]
         /\ dest \in [live : BOOLEAN, maps : SUBSET Planes]
         /\ got \in 0..MaxFrames
Paths == Frame /\ InHandler /\ DestWhole /\ MappedOnlyForRuntime /\ Left
Books == /\ failed \in [Nodes -> Nat]
         /\ streak \in [now : Nat, told : Nat]
         /\ episode \in [Stages -> [failures : Nat, code : Codes \cup {0}, changes : Nat]]
         /\ told \in [Stages -> Nat] /\ happened \in [Stages -> Nat]
         /\ EpisodesAccounted
Mainline == main \in Mains /\ k \in 0..Enc /\ (main = "join" => k \in Nodes)

(* The end of a handler keeps what is said of frames and mappings,         *)
(* whatever queues it leaves behind.                                       *)
LEMMA EndPaths ==
  ASSUME IInv, NEW t \in Threads, pc[t] \notin {"idle", "exited"},
         t # Bus \/ pc[t] # "runtime",
         NEW STATE q, q \in [Nodes -> Seq(Frames)],
         \A n \in Nodes : Joined(n) => q[n] = <<>>,
         End(t, q), UNCHANGED exit
  PROVE  Paths'
<1>1. /\ hand' = [hand EXCEPT ![t] = 0] /\ pc' = [pc EXCEPT ![t] = "idle"]
      /\ queue' = q /\ UNCHANGED got
      /\ maps' \in [Frames -> SUBSET Planes]
      /\ dest' \in [live : BOOLEAN, maps : SUBSET Planes]
      /\ DestWhole' /\ MappedOnlyForRuntime'
  BY EndKeeps
<1>2. Frame'
  BY <1>1, FramePathAssumption DEF Frame, Shape, IInv, Pcs
<1>3. InHandler'
  BY <1>1 DEF InHandler, Shape, IInv
<1>4. Left'
  <2>1. UNCHANGED <<main, k>>
    BY DEF exit
  <2>2. \A n \in Nodes : pc[n] = "exited" => pc'[n] = "exited"
    BY <1>1, NodesAreThreads DEF Shape, IInv
  <2>3. pc[Vdec] = "exited" => pc'[Vdec] = "exited"
    BY <1>1 DEF Shape, IInv, Vdec, Threads, Enc
  <2> QED
    BY <1>1, <2>1, <2>2, <2>3 DEF Left, Joined, IInv
<1> QED
  BY <1>1, <1>2, <1>3, <1>4 DEF Paths

(* A handler moves on, holding what it held; the mappings and the IVPS     *)
(* frame are the action's business.                                        *)
LEMMA GotoPaths ==
  ASSUME IInv, NEW t \in Threads, pc[t] \notin {"idle", "exited"},
         NEW s \in Pcs \ {"idle", "exited"}, Goto(t, s),
         UNCHANGED <<got, queue, hand, exit>>
  PROVE  /\ pc' = [pc EXCEPT ![t] = s]
         /\ queue' \in [Nodes -> Seq(Frames)] /\ hand' \in [Threads -> 0..MaxFrames]
         /\ pc' \in [Threads -> Pcs] /\ got' \in 0..MaxFrames
         /\ InHandler' /\ Left'
<1>1. pc' = [pc EXCEPT ![t] = s]
  BY DEF Goto
<1>2. InHandler'
  BY <1>1 DEF InHandler, Shape, IInv
<1>3. Left'
  <2>1. UNCHANGED <<main, k>>
    BY DEF exit
  <2>2. \A n \in Nodes : pc[n] = "exited" => pc'[n] = "exited"
    BY <1>1, NodesAreThreads DEF Shape, IInv
  <2>3. pc[Vdec] = "exited" => pc'[Vdec] = "exited"
    BY <1>1 DEF Shape, IInv, Vdec, Threads, Enc
  <2> QED
    BY <2>1, <2>2, <2>3 DEF Left, Joined, IInv
<1> QED
  BY <1>1, <1>2, <1>3 DEF Shape, IInv

(* TaskNodeMgr::PushMessage puts nothing into the queue of a node that     *)
(* left.                                                                   *)
LEMMA SendStep ==
  ASSUME IInv, NEW t \in Threads, NEW n \in Nodes, Send(t, n)
  PROVE  IInv'
<1>1. PICK q \in {queue, [queue EXCEPT ![n] = Append(@, hand[t])]} :
        End(t, q) /\ (q # queue => ~Exiting(n))
  BY DEF Send
<1>2. pc[t] = "send" /\ hand[t] \in Frames
  <2>1. pc[t] = "send"
    BY DEF Send
  <2>2. hand[t] \in 0..MaxFrames /\ hand[t] # 0
    BY <2>1 DEF IInv, Shape, InHandler
  <2> QED
    BY <2>1, <2>2, FramePathAssumption DEF Frames
<1>3. q \in [Nodes -> Seq(Frames)]
  <2>1. queue \in [Nodes -> Seq(Frames)]
    BY DEF IInv, Shape
  <2>2. Append(queue[n], hand[t]) \in Seq(Frames)
    BY <1>2, <2>1, QueueOps
  <2> QED
    BY <1>1, <2>1, <2>2
<1>4. \A m \in Nodes : Joined(m) => q[m] = <<>>
  <2>1. Joined(n) => Exiting(n)
    BY DEF Joined, Exiting
  <2> QED
    BY <1>1, <2>1 DEF IInv, Left, Shape
<1>5. UNCHANGED <<failed, streak, limits, exit>>
  BY DEF Send
<1>6. Paths'
  BY <1>1, <1>2, <1>3, <1>4, <1>5, EndPaths
<1>7. Books' /\ Mainline'
  BY <1>5 DEF Books, Mainline, IInv, Shape, limits, exit, EpisodesAccounted
<1> QED
  BY <1>6, <1>7 DEF IInv, Shape, Paths, Frame, Books, Mainline

(* A step that leaves the books and ExitPipeline alone.                    *)
LEMMA SameBooks ==
  ASSUME IInv, UNCHANGED <<failed, streak, limits, exit>>
  PROVE  Books' /\ Mainline'
BY DEF Books, Mainline, IInv, Shape, limits, exit, EpisodesAccounted

(* The parts make up the invariant.                                        *)
LEMMA PartsNext == ASSUME Paths', Books', Mainline' PROVE IInv'
BY DEF IInv, Shape, Paths, Frame, Books, Mainline

(* TaskNodeMgr's loop takes a message only while the node runs.            *)
LEMMA PopStep ==
  ASSUME IInv, NEW n \in Nodes, NEW s \in Pcs \ {"idle", "exited"}, Pop(n, s),
         n = Pre => s = "ivps", n = Bus => s = "map"
  PROVE  IInv'
<1> USE NodesAreThreads DEF IInv
<1>1. /\ hand' = [hand EXCEPT ![n] = Head(queue[n])]
      /\ queue' = [queue EXCEPT ![n] = Tail(@)]
      /\ pc' = [pc EXCEPT ![n] = s]
      /\ pc[n] = "idle" /\ queue[n] # <<>> /\ ~Exiting(n)
      /\ UNCHANGED <<got, dest, books, exit>>
  BY DEF Pop, Hold, Goto
<1>2. Head(queue[n]) \in Frames /\ Tail(queue[n]) \in Seq(Frames)
  BY <1>1, QueueOps DEF Shape
<1>3. /\ maps' \in [Frames -> SUBSET Planes]
      /\ \A f \in Frames : maps[f] = {} => maps'[f] = {}
  BY DEF Pop, Hold, Munmapped, Shape
<1>4. Frame'
  <2>0. Head(queue[n]) \in 0..MaxFrames
    BY <1>2, FramePathAssumption DEF Frames
  <2>1. hand' \in [Threads -> 0..MaxFrames]
    BY <1>1, <2>0 DEF Shape
  <2>2. queue' \in [Nodes -> Seq(Frames)]
    BY <1>1, <1>2 DEF Shape
  <2> QED
    BY <1>1, <1>3, <2>1, <2>2 DEF Frame, Shape
<1>5. InHandler'
  <2>1. Head(queue[n]) # 0 /\ s \notin {"idle", "exited"}
    BY <1>2, FramePathAssumption DEF Frames
  <2>2. \A t \in Threads : /\ hand'[t] = IF t = n THEN Head(queue[n]) ELSE hand[t]
                          /\ pc'[t] = IF t = n THEN s ELSE pc[t]
    BY <1>1 DEF Shape
  <2> QED
    BY <2>1, <2>2 DEF InHandler
<1>6. DestWhole'
  BY <1>1 DEF DestWhole, Shape
<1>7. MappedOnlyForRuntime'
  <2>1. ASSUME NEW f \in Frames, maps'[f] # {}
        PROVE  hand'[Bus] = f /\ pc'[Bus] = "runtime"
    <3>1. hand[Bus] = f /\ pc[Bus] = "runtime"
      BY <1>3, <2>1 DEF MappedOnlyForRuntime
    <3> QED
      BY <1>1, <3>1 DEF Shape
  <2> QED
    BY <1>1, <2>1 DEF MappedOnlyForRuntime
<1>8. Left'
  <2>1. UNCHANGED <<main, k>> /\ ~Joined(n)
    BY <1>1 DEF exit, Joined, Exiting
  <2>2. \A m \in Nodes \ {n} : pc'[m] = pc[m] /\ queue'[m] = queue[m]
    BY <1>1 DEF Shape
  <2>3. pc'[Vdec] = pc[Vdec]
    BY <1>1 DEF Shape
  <2> QED
    BY <2>1, <2>2, <2>3 DEF Left, Joined
<1> QED
  BY <1>1, <1>4, <1>5, <1>6, <1>7, <1>8, SameBooks, PartsNext DEF Paths, books

(* VdecHelper's receive thread takes a fresh frame, which nothing maps.    *)
LEMMA GetFrameStep == ASSUME IInv, GetFrame PROVE IInv'
<1> USE NodesAreThreads DEF IInv
<1>1. /\ hand' = [hand EXCEPT ![Vdec] = got + 1]
      /\ queue' = queue /\ got' = got + 1 /\ got < MaxFrames
      /\ pc' = [pc EXCEPT ![Vdec] = "send"]
      /\ pc[Vdec] = "idle" /\ main \in {"run", "eof"}
      /\ UNCHANGED <<dest, books, exit>>
  BY DEF GetFrame, Hold, Goto
<1>2. got + 1 \in 0..MaxFrames /\ got + 1 # 0
  BY <1>1, FramePathAssumption DEF Shape
<1>3. /\ maps' \in [Frames -> SUBSET Planes]
      /\ \A f \in Frames : maps[f] = {} => maps'[f] = {}
  BY DEF GetFrame, Hold, Munmapped, Shape
<1>4. Frame'
  BY <1>1, <1>2, <1>3 DEF Frame, Shape, Pcs
<1>5. InHandler'
  BY <1>1, <1>2 DEF InHandler, Shape
<1>6. DestWhole'
  BY <1>1 DEF DestWhole, Shape
<1>7. MappedOnlyForRuntime'
  <2>1. ASSUME NEW f \in Frames, maps'[f] # {}
        PROVE  hand'[Bus] = f /\ pc'[Bus] = "runtime"
    <3>1. hand[Bus] = f /\ pc[Bus] = "runtime"
      BY <1>3, <2>1 DEF MappedOnlyForRuntime
    <3> QED
      BY <1>1, <3>1 DEF Shape
  <2> QED
    BY <1>1, <2>1 DEF MappedOnlyForRuntime
<1>8. Left'
  BY <1>1 DEF Left, Joined, exit, Shape
<1> QED
  BY <1>1, <1>4, <1>5, <1>6, <1>7, <1>8, SameBooks, PartsNext DEF Paths, books

(* The receive thread ends between two frames.                             *)
LEMMA RecvEndsStep == ASSUME IInv, RecvEnds PROVE IInv'
<1> USE NodesAreThreads DEF IInv
<1>1. pc' = [pc EXCEPT ![Vdec] = "exited"] /\ pc[Vdec] = "idle"
       /\ UNCHANGED <<frame, dest, books, exit>>
  BY DEF RecvEnds, Goto
<1>2. Frame' /\ InHandler' /\ DestWhole' /\ MappedOnlyForRuntime' /\ Left'
  BY <1>1 DEF Frame, InHandler, DestWhole, MappedOnlyForRuntime, Left, Joined, Shape,
     Pcs, frame, exit
<1> QED
  BY <1>1, <1>2, SameBooks, PartsNext DEF Paths, books

(* A handler that fails ends like any other and is counted.                *)
LEMMA FailPaths ==
  ASSUME IInv, NEW n \in {Pre, Inf}, pc[n] \notin {"idle", "exited"}, Fail(n), UNCHANGED exit
  PROVE  Paths' /\ failed' = [failed EXCEPT ![n] = @ + 1]
<1>1. End(n, queue)
  BY DEF Fail
<1>2. queue \in [Nodes -> Seq(Frames)] /\ \A m \in Nodes : Joined(m) => queue[m] = <<>>
  BY DEF IInv, Shape, Left
<1>3. n \in Threads /\ n # Bus
  BY NodesAreThreads
<1>4. Paths'
  BY <1>1, <1>2, <1>3, EndPaths
<1> QED
  BY <1>4 DEF Fail

(* PreProcess::Process: the IVPS frame lives from "copy" to the end.       *)
LEMMA PreProcessStep == ASSUME IInv, IvpsProcess \/ Copy2Host PROVE IInv'
<1> USE NodesAreThreads DEF IInv
<1>1. CASE (pc[Pre] = "ivps" \/ pc[Pre] = "copy") /\ Fail(Pre)
            /\ UNCHANGED <<streak, limits, exit>>
  <2>1. Paths' /\ failed' = [failed EXCEPT ![Pre] = @ + 1]
    BY <1>1, FailPaths
  <2>2. failed'[Inf] = failed[Inf] /\ failed' \in [Nodes -> Nat]
    <3>1. failed \in [Nodes -> Nat]
      BY DEF Shape
    <3> QED BY <2>1, <3>1
  <2>3. Books' /\ Mainline'
    BY <1>1, <2>2 DEF Books, Mainline, Shape, limits, exit, EpisodesAccounted
  <2> QED
    BY <2>1, <2>3, PartsNext
<1>2. CASE pc[Pre] = "ivps" /\ dest' = [live |-> TRUE, maps |-> {}] /\ Goto(Pre, "copy")
            /\ UNCHANGED <<frame, failed, streak, limits, exit>>
  <2>1. /\ pc' = [pc EXCEPT ![Pre] = "copy"]
        /\ queue' \in [Nodes -> Seq(Frames)] /\ hand' \in [Threads -> 0..MaxFrames]
        /\ pc' \in [Threads -> Pcs] /\ got' \in 0..MaxFrames
        /\ InHandler' /\ Left'
    BY <1>2, GotoPaths DEF frame, Pcs
  <2>2. Frame' /\ DestWhole' /\ MappedOnlyForRuntime'
    BY <1>2, <2>1 DEF Frame, DestWhole, MappedOnlyForRuntime, Shape, frame
  <2> QED
    BY <1>2, <2>1, <2>2, SameBooks, PartsNext DEF Paths
<1>3. CASE pc[Pre] = "copy" /\ dest' = [dest EXCEPT !.maps = Planes] /\ Goto(Pre, "send")
            /\ UNCHANGED <<frame, failed, streak, limits, exit>>
  <2>1. /\ pc' = [pc EXCEPT ![Pre] = "send"]
        /\ queue' \in [Nodes -> Seq(Frames)] /\ hand' \in [Threads -> 0..MaxFrames]
        /\ pc' \in [Threads -> Pcs] /\ got' \in 0..MaxFrames
        /\ InHandler' /\ Left'
    BY <1>3, GotoPaths DEF frame, Pcs
  <2>2. dest' = [live |-> TRUE, maps |-> Planes]
    BY <1>3 DEF DestWhole, Shape
  <2>3. Frame' /\ DestWhole' /\ MappedOnlyForRuntime'
    BY <1>3, <2>1, <2>2 DEF Frame, DestWhole, MappedOnlyForRuntime, Shape, frame
  <2> QED
    BY <1>3, <2>1, <2>3, SameBooks, PartsNext DEF Paths
<1> QED
  BY <1>1, <1>2, <1>3 DEF IvpsProcess, Copy2Host

(* InfProcess::Process: the streak and the failures grow together.         *)
LEMMA InferStep == ASSUME IInv, InferFails \/ Infer PROVE IInv'
<1> USE NodesAreThreads DEF IInv
<1>1. CASE InferFails
  <2>1. Paths' /\ failed' = [failed EXCEPT ![Inf] = @ + 1]
    BY <1>1, FailPaths DEF InferFails
  <2>2. failed'[Inf] = failed[Inf] + 1 /\ failed' \in [Nodes -> Nat]
         /\ streak' = [streak EXCEPT !.now = @ + 1] /\ UNCHANGED <<limits, exit>>
    <3>1. failed \in [Nodes -> Nat]
      BY DEF Shape
    <3>2. failed'[Inf] = failed[Inf] + 1 /\ failed' \in [Nodes -> Nat]
      BY <2>1, <3>1
    <3> QED BY <1>1, <3>2 DEF InferFails
  <2>3. /\ streak' \in [now : Nat, told : Nat]
        /\ streak'.now = streak.now + 1 /\ streak'.told = streak.told
    <3>1. streak \in [now : Nat, told : Nat]
      BY DEF Shape
    <3> QED
      BY <2>2, <3>1
  <2>4. EpisodesAccounted'
    <3>1. failed'[Inf] = streak'.told + streak'.now
      BY <2>2, <2>3 DEF EpisodesAccounted, Shape
    <3> QED
      BY <2>2, <3>1 DEF EpisodesAccounted, limits
  <2>5. Books' /\ Mainline'
    BY <2>2, <2>3, <2>4 DEF Books, Mainline, Shape, limits, exit
  <2> QED
    BY <2>1, <2>5, PartsNext
<1>2. CASE Infer
  <2>1. /\ pc' = [pc EXCEPT ![Inf] = "send"]
        /\ queue' \in [Nodes -> Seq(Frames)] /\ hand' \in [Threads -> 0..MaxFrames]
        /\ pc' \in [Threads -> Pcs] /\ got' \in 0..MaxFrames
        /\ InHandler' /\ Left'
    BY <1>2, GotoPaths DEF Infer, frame, Pcs
  <2>2. Frame' /\ DestWhole' /\ MappedOnlyForRuntime'
    BY <1>2, <2>1 DEF Infer, Frame, DestWhole, MappedOnlyForRuntime, Shape, frame
  <2>3. Books' /\ Mainline'
    <3>1. /\ UNCHANGED <<failed, limits, exit>>
          /\ streak' = [now |-> 0, told |-> streak.told + streak.now]
      BY <1>2 DEF Infer
    <3>2. streak \in [now : Nat, told : Nat] /\ failed[Inf] = streak.told + streak.now
      BY DEF Shape, EpisodesAccounted
    <3>3. /\ streak' \in [now : Nat, told : Nat]
          /\ failed'[Inf] = streak'.told + streak'.now
      BY <3>1, <3>2
    <3>4. Mainline'
      BY <3>1 DEF Mainline, Shape, exit
    <3> QED
      BY <3>1, <3>3, <3>4 DEF Books, Shape, limits, EpisodesAccounted
  <2> QED
    BY <2>1, <2>2, <2>3, PartsNext DEF Paths
<1> QED
  BY <1>1, <1>2

(* BusProcess::Process maps its frame, which nobody else had mapped.       *)
LEMMA MapStep == ASSUME IInv, MapFrame \/ SkipRuntime PROVE IInv'
<1> USE NodesAreThreads DEF IInv
<1>1. CASE MapFrame
  <2>1. PICK m \in MapResults :
          /\ maps' = [maps EXCEPT ![hand[Bus]] = m]
          /\ Goto(Bus, IF m = Planes THEN "runtime" ELSE "blind")
    BY <1>1 DEF MapFrame
  <2> DEFINE s == IF m = Planes THEN "runtime" ELSE "blind"
  <2>2. /\ pc' = [pc EXCEPT ![Bus] = s]
        /\ queue' \in [Nodes -> Seq(Frames)] /\ hand' \in [Threads -> 0..MaxFrames]
        /\ pc' \in [Threads -> Pcs] /\ got' \in 0..MaxFrames
        /\ InHandler' /\ Left'
    BY <1>1, <2>1, GotoPaths DEF MapFrame, Pcs
  <2>3. hand[Bus] \in Frames /\ m \subseteq Planes /\ (m # Planes => m = {})
    <3>1. hand[Bus] \in 0..MaxFrames /\ hand[Bus] # 0
      BY <1>1 DEF MapFrame, InHandler, Shape
    <3> QED
      BY <3>1, FramePathAssumption DEF Frames, MapResults
  <2>4. Frame' /\ DestWhole'
    BY <1>1, <2>1, <2>2, <2>3 DEF MapFrame, Frame, DestWhole, Shape
  <2>5. MappedOnlyForRuntime'
    <3>1. \A f \in Frames : maps[f] = {}
      BY <1>1 DEF MapFrame, MappedOnlyForRuntime
    <3>2. \A f \in Frames : maps'[f] # {} => f = hand[Bus] /\ m = Planes
      BY <2>1, <2>3, <3>1 DEF Shape
    <3> QED
      BY <1>1, <2>2, <3>2 DEF MapFrame, MappedOnlyForRuntime, Shape
  <2>6. Books' /\ Mainline'
    BY <1>1, SameBooks DEF MapFrame
  <2> QED
    BY <2>2, <2>4, <2>5, <2>6, PartsNext DEF Paths
<1>2. CASE SkipRuntime
  <2>1. /\ pc' = [pc EXCEPT ![Bus] = "send"]
        /\ queue' \in [Nodes -> Seq(Frames)] /\ hand' \in [Threads -> 0..MaxFrames]
        /\ pc' \in [Threads -> Pcs] /\ got' \in 0..MaxFrames
        /\ InHandler' /\ Left'
    BY <1>2, GotoPaths DEF SkipRuntime, frame, Pcs
  <2>2. Frame' /\ DestWhole' /\ MappedOnlyForRuntime'
    BY <1>2, <2>1 DEF SkipRuntime, Frame, DestWhole, MappedOnlyForRuntime,
       Shape, frame
  <2>3. Books' /\ Mainline'
    BY <1>2, SameBooks DEF SkipRuntime, books
  <2> QED
    BY <2>1, <2>2, <2>3, PartsNext DEF Paths
<1> QED
  BY <1>1, <1>2

(* A report moves an episode's failures to told or adds one to both sides. *)
LEMMA ReportBooks ==
  ASSUME IInv, NEW F \in SUBSET Stages, NEW R \in SUBSET Stages,
         F \cap R = {}, NEW c, c \in Codes \/ F = {}, Report(F, R, c),
         UNCHANGED <<failed, streak, exit>>
  PROVE  Books' /\ Mainline'
<1> USE DEF IInv
<1>1. Mainline'
  BY DEF Mainline, Shape, exit
<1>2. ASSUME NEW s \in Stages
      PROVE  /\ episode'[s] \in [failures : Nat, code : Codes \cup {0}, changes : Nat]
             /\ told'[s] \in Nat /\ happened'[s] \in Nat
             /\ happened'[s] = told'[s] + episode'[s].failures
             /\ episode'[s].failures = 0 => episode'[s] = NoFailures
  <2> DEFINE e == episode[s]
  <2>0. /\ e \in [failures : Nat, code : Codes \cup {0}, changes : Nat]
        /\ told[s] \in Nat /\ happened[s] \in Nat
        /\ happened[s] = told[s] + e.failures
        /\ e.failures = 0 => e = NoFailures
    BY DEF Shape, EpisodesAccounted
  <2>1. CASE s \in F
    <3>1. episode'[s] = Failure(e, c) /\ happened'[s] = happened[s] + 1
      BY <2>1 DEF Report, Shape
    <3>2. told'[s] = IF s \in R THEN told[s] + e.failures ELSE told[s]
      BY DEF Report, Shape
    <3> QED
      BY <2>0, <2>1, <3>1, <3>2 DEF Failure
  <2>2. CASE s \notin F /\ s \in R
    <3>1. /\ episode'[s] = NoFailures /\ happened'[s] = happened[s]
          /\ told'[s] = told[s] + e.failures
      BY <2>2 DEF Report, RecoveryResets, Shape
    <3> QED
      BY <2>0, <3>1 DEF NoFailures
  <2>3. CASE s \notin F /\ s \notin R
    <3>1. episode'[s] = e /\ happened'[s] = happened[s] /\ told'[s] = told[s]
      BY <2>3 DEF Report, Shape
    <3> QED
      BY <2>0, <3>1
  <2> QED
    BY <2>1, <2>2, <2>3
<1>3. EpisodesAccounted'
  BY <1>2 DEF EpisodesAccounted
<1>4. /\ episode' \in [Stages -> [failures : Nat, code : Codes \cup {0}, changes : Nat]]
      /\ told' \in [Stages -> Nat] /\ happened' \in [Stages -> Nat]
  BY <1>2 DEF Report
<1> QED
  BY <1>1, <1>3, <1>4 DEF Books, Shape

(* The scene runtime, its report, and Unmap.                               *)
LEMMA RuntimeStep == ASSUME IInv, Runtime PROVE IInv'
<1> USE NodesAreThreads DEF IInv
<1>1. PICK F \in SUBSET Stages, R \in SUBSET Stages, c \in Codes \cup {0} :
        /\ F \cap R = {} /\ (c \in Codes \/ F = {})
        /\ Report(F, R, c)
  <2>1. CASE Report({}, Stages, 0)
    BY <2>1
  <2>2. CASE \E c \in Codes : Report({"postprocessor"}, {}, c)
    <3>1. {"postprocessor"} \in SUBSET Stages /\ {} \in SUBSET Stages
           /\ {"postprocessor"} \cap {} = {}
      BY DEF Stages
    <3> QED
      BY <2>2, <3>1
  <2>3. CASE \E c \in Codes : Report({"business"}, {"postprocessor"}, c)
    <3>1. {"business"} \in SUBSET Stages /\ {"postprocessor"} \in SUBSET Stages
           /\ {"business"} \cap {"postprocessor"} = {}
      BY DEF Stages
    <3> QED
      BY <2>3, <3>1
  <2> QED
    BY <2>1, <2>2, <2>3 DEF Runtime
<1>2. Books' /\ Mainline'
  BY <1>1, ReportBooks DEF Runtime
<1>3. /\ pc' = [pc EXCEPT ![Bus] = "send"]
      /\ queue' \in [Nodes -> Seq(Frames)] /\ hand' \in [Threads -> 0..MaxFrames]
      /\ pc' \in [Threads -> Pcs] /\ got' \in 0..MaxFrames
      /\ InHandler' /\ Left'
  BY GotoPaths DEF Runtime, Pcs
<1>4. Frame' /\ DestWhole'
  BY <1>3 DEF Runtime, Frame, DestWhole, Shape
<1>5. MappedOnlyForRuntime'
  <2>1. \A f \in Frames : maps'[f] = {}
    BY DEF Runtime, MappedOnlyForRuntime, Shape
  <2> QED
    BY <2>1 DEF Runtime, MappedOnlyForRuntime
<1> QED
  BY <1>2, <1>3, <1>4, <1>5, PartsNext DEF Paths

(* EncProcess::Process ends with the frame written or refused.             *)
LEMMA WriteStep == ASSUME IInv, WriteVenc PROVE IInv'
<1> USE NodesAreThreads DEF IInv
<1>1. queue \in [Nodes -> Seq(Frames)] /\ \A m \in Nodes : Joined(m) => queue[m] = <<>>
  BY DEF Shape, Left
<1>2. Paths'
  BY <1>1, EndPaths DEF WriteVenc
<1> QED
  BY <1>2, SameBooks, PartsNext DEF WriteVenc

(* A node's thread leaves its loop between two messages.                   *)
LEMMA LeaveStep == ASSUME IInv, NEW n \in Nodes, Leave(n) PROVE IInv'
<1> USE NodesAreThreads DEF IInv
<1>1. pc' = [pc EXCEPT ![n] = "exited"] /\ pc[n] = "idle"
       /\ UNCHANGED <<frame, dest, books, exit>>
  BY DEF Leave, Goto
<1>2. Frame' /\ InHandler' /\ DestWhole' /\ MappedOnlyForRuntime' /\ Left'
  BY <1>1 DEF Frame, InHandler, DestWhole, MappedOnlyForRuntime, Left, Joined, Shape,
     Pcs, frame, exit
<1> QED
  BY <1>1, <1>2, SameBooks, PartsNext DEF Paths, books

(* ExitPipeline: a manager that is deleted leaves no message behind.       *)
LEMMA ExitStep == ASSUME IInv, Signal \/ SendEof \/ Exit \/ UNCHANGED vars PROVE IInv'
<1> USE NodesAreThreads DEF IInv
<1>1. ASSUME UNCHANGED <<frame, pc, dest>> PROVE Frame' /\ InHandler' /\ DestWhole'
                                                /\ MappedOnlyForRuntime'
  BY <1>1 DEF frame, Frame, InHandler, DestWhole, MappedOnlyForRuntime, Shape
<1>2. ASSUME UNCHANGED books, Mainline' PROVE Books' /\ Mainline'
  BY <1>2 DEF books, limits, Books, Shape, EpisodesAccounted
<1>3. CASE Signal
  <2>1. Left' /\ Mainline'
    BY <1>3 DEF Signal, Left, Joined, Mainline, Mains, Shape, frame
  <2> QED
    BY <1>1, <1>2, <1>3, <2>1, PartsNext DEF Signal, Paths
<1>9. CASE SendEof
  <2>1. Left' /\ Mainline'
    BY <1>9 DEF SendEof, Left, Joined, Mainline, Mains, Shape, frame
  <2> QED
    BY <1>1, <1>2, <1>9, <2>1, PartsNext DEF SendEof, Paths
<1>4. CASE StopSources
  <2>1. Left' /\ Mainline'
    BY <1>4 DEF StopSources, Left, Joined, Mainline, Mains, Shape, frame, Pre, Enc
  <2> QED
    BY <1>1, <1>2, <1>4, <2>1, PartsNext DEF StopSources, Paths
<1>5. CASE Mark
  <2>1. Mainline'
    <3>1. k \in 0..Enc
      BY DEF Shape
    <3>2. (main' = "mark" /\ k < Enc /\ k' = k + 1) \/ (main' = "join" /\ k' = Pre)
      BY <1>5 DEF Mark
    <3> QED
      BY <3>1, <3>2 DEF Mainline, Mains, Nodes, Pre, Enc
  <2>2. \A n \in Nodes : ~Joined(n)'
    BY <1>5 DEF Mark, Joined, Nodes, Pre, Enc
  <2>3. Left'
    BY <1>5, <2>2 DEF Mark, Left, frame
  <2> QED
    BY <1>1, <1>2, <1>5, <2>1, <2>3, PartsNext DEF Mark, Paths
<1>6. CASE Join
  <2>1. /\ hand' = hand /\ queue' = [queue EXCEPT ![k] = <<>>]
        /\ UNCHANGED <<got, pc, dest, books>>
        /\ main = "join" /\ k \in Nodes /\ pc[k] = "exited"
        /\ IF k < Enc THEN k' = k + 1 /\ main' = main ELSE k' = k /\ main' = "destroy"
    BY <1>6 DEF Join, Hold, Shape
  <2>2. /\ maps' \in [Frames -> SUBSET Planes]
        /\ \A f \in Frames : maps[f] = {} => maps'[f] = {}
    BY <1>6 DEF Join, Hold, Munmapped, Shape
  <2>3. Frame' /\ InHandler' /\ DestWhole'
    BY <2>1, <2>2 DEF Frame, InHandler, DestWhole, Shape
  <2>4. MappedOnlyForRuntime'
    BY <2>1, <2>2 DEF MappedOnlyForRuntime
  <2>5. Mainline'
    BY <2>1 DEF Mainline, Mains, Nodes, Pre, Enc
  <2>6. Left'
    <3>1. \A n \in Nodes : Joined(n)' => Joined(n) \/ n = k
      BY <2>1 DEF Joined, Nodes, Pre, Enc
    <3>2. queue'[k] = <<>> /\ \A n \in Nodes \ {k} : queue'[n] = queue[n]
      BY <2>1 DEF Shape
    <3>3. pc[Vdec] = "exited"
      BY <2>1 DEF Left
    <3> QED
      BY <2>1, <3>1, <3>2, <3>3 DEF Left
  <2> QED
    BY <1>2, <2>1, <2>3, <2>4, <2>5, <2>6, PartsNext DEF Paths
<1>7. CASE DestroyGrp
  <2>1. Left' /\ Mainline'
    BY <1>7 DEF DestroyGrp, Left, Joined, Mainline, Mains, Shape, frame
  <2> QED
    BY <1>1, <1>2, <1>7, <2>1, PartsNext DEF DestroyGrp, Paths
<1>8. CASE UNCHANGED vars
  <2>1. Left' /\ Mainline'
    BY <1>8 DEF Left, Joined, Mainline, Shape, vars, frame, exit
  <2> QED
    BY <1>1, <1>2, <1>8, <2>1, PartsNext DEF vars, Paths
<1> QED
  BY <1>3, <1>4, <1>5, <1>6, <1>7, <1>8, <1>9 DEF Exit

(* Nothing is held, mapped or counted at the start.                        *)
LEMMA InitHolds == ASSUME Init PROVE IInv
<1> USE NodesAreThreads, FramePathAssumption DEF Init
<1>1. Shape
  BY DEF Shape, Pcs, Mains, NoDest, NoFailures, Enc
<1>2. InHandler /\ DestWhole /\ MappedOnlyForRuntime /\ Left
  BY DEF InHandler, DestWhole, NoDest, MappedOnlyForRuntime, Left, Joined
<1>3. EpisodesAccounted
  BY DEF EpisodesAccounted, NoFailures
<1> QED
  BY <1>1, <1>2, <1>3 DEF IInv

(* The invariant holds whatever step is taken: a handler's end and         *)
(* ExitPipeline's Join are where frames and mappings go.                   *)
THEOREM Inductive == Spec => []IInv
<1>1. Init => IInv
  BY InitHolds
<1>2. IInv /\ [Next]_vars => IInv'
  <2> SUFFICES ASSUME IInv, [Next]_vars PROVE IInv'
    OBVIOUS
  <2>1. ASSUME NEW n \in Nodes, Worker(n) PROVE IInv'
    <3>1. {"ivps", "infer", "map", "write"} \subseteq Pcs \ {"idle", "exited"}
           /\ "ivps" # "map"
      BY DEF Pcs
    <3>2. ASSUME NEW s \in {"ivps", "infer", "map", "write"}, Pop(n, s),
                 n = Pre => s = "ivps", n = Bus => s = "map"
          PROVE  IInv'
      BY <3>1, <3>2, PopStep
    <3> QED
      BY <2>1, <3>2, NodesAreThreads, SendStep, PreProcessStep, InferStep, MapStep,
         RuntimeStep, WriteStep, LeaveStep DEF Worker
  <2>2. CASE Send(Vdec, Pre)
    BY <2>2, NodesAreThreads, SendStep
  <2>3. CASE UNCHANGED vars
    BY <2>3, ExitStep
  <2> QED
    BY <2>1, <2>2, <2>3, GetFrameStep, RecvEndsStep, ExitStep DEF Next, Wait
<1> QED
  BY <1>1, <1>2, PTL DEF Spec

(* FrameData::EnsureMapped, Unmap and ~FrameData: a frame is mapped while  *)
(* SceneRuntime looks at it and never otherwise, whatever fails.           *)
THEOREM MappingsCorrect == Spec => []MappedOnlyForRuntime
<1>1. IInv => MappedOnlyForRuntime
  BY DEF IInv
<1> QED
  BY <1>1, Inductive, PTL

(* ~PreProcess, VdecHelper::Destory: every holder is gone by then, in      *)
(* whatever handler or queue the frames were when the exit began.          *)
THEOREM GroupIdleCorrect == Spec => []GroupIdleAtDestroy
<1>1. IInv => GroupIdleAtDestroy
  <2> SUFFICES ASSUME IInv, main \in {"destroy", "done"} PROVE lent = {}
    BY DEF GroupIdleAtDestroy
  <2> USE DEF IInv
  <2>1. pc[Vdec] = "exited" /\ \A n \in Nodes : pc[n] = "exited" /\ queue[n] = <<>>
    BY DEF Left, Joined
  <2>2. \A t \in Threads : hand[t] = 0
    BY <2>1 DEF InHandler, Threads, Nodes, Vdec, Pre, Enc
  <2>3. ASSUME NEW f \in Frames PROVE ~Held(f, hand, queue)
    <3>1. f # 0
      BY FramePathAssumption DEF Frames
    <3>2. f \notin Range(hand)
      BY <2>2, <3>1 DEF Range, Shape
    <3>3. \A n \in Nodes : f \notin Range(queue[n])
      BY <2>1 DEF Range
    <3> QED
      BY <3>2, <3>3 DEF Held
  <2> QED
    BY <2>3 DEF lent
<1> QED
  BY <1>1, Inductive, PTL

(* BusProcess::ReportResult, InfProcess::ReportFailure: no failure is      *)
(* lost between the counters and the reports of recovery.                  *)
THEOREM EpisodesCorrect == Spec => []EpisodesAccounted
<1>1. IInv => EpisodesAccounted
  BY DEF IInv
<1> QED
  BY <1>1, Inductive, PTL
-----------------------------------------------------------------------------
(* A frame is in one place: one handler's hand, or one position of one     *)
(* queue.                                                                  *)
Once ==
  /\ \A t, u \in Threads : hand[t] = hand[u] /\ hand[t] # 0 => t = u
  /\ \A t \in Threads : \A n \in Nodes : \A i \in 1..Len(queue[n]) : queue[n][i] # hand[t]
  /\ \A n, m \in Nodes : \A i \in 1..Len(queue[n]) : \A j \in 1..Len(queue[m]) :
       queue[n][i] = queue[m][j] => n = m /\ i = j

(* The decoder has not delivered a frame before its number came up.        *)
Known == \A f \in lent : f <= got

Missing == Drops + Errors + refused
Balanced == got = Cardinality(lent) + Len(written) + Missing
Tally == main = "run" => Once /\ Known /\ Balanced

Sizes ==
  /\ seq \in Nat /\ written \in Seq(Frames) /\ refused \in Nat
  /\ dropped \in [Nodes -> Nat]
  /\ \A n \in Nodes : Len(queue[n]) <= Capacity

(* The frames lent can be counted.                                         *)
LEMMA LentFinite == IsFiniteSet(lent) /\ Cardinality(lent) \in Nat
<1>1. IsFiniteSet(Frames)
  BY FramePathAssumption, FS_Interval DEF Frames
<1>2. lent \in SUBSET Frames
  BY DEF lent
<1> QED
  BY <1>1, <1>2, FS_Subset, FS_CardinalityType

(* Who holds a frame, spelled out.                                         *)
LEMMA HeldIff ==
  \A h \in [Threads -> 0..MaxFrames], q \in [Nodes -> Seq(Frames)] : \A f \in Frames :
    Held(f, h, q) <=> \/ \E t \in Threads : h[t] = f
                      \/ \E n \in Nodes : \E i \in 1..Len(q[n]) : q[n][i] = f
<1> TAKE h \in [Threads -> 0..MaxFrames], q \in [Nodes -> Seq(Frames)]
<1> TAKE f \in Frames
<1>1. f \in Range(h) <=> \E t \in Threads : h[t] = f
  BY DEF Range
<1>2. ASSUME NEW n \in Nodes
      PROVE  f \in Range(q[n]) <=> \E i \in 1..Len(q[n]) : q[n][i] = f
  <2>1. q[n] \in Seq(Frames)
    OBVIOUS
  <2>2. DOMAIN q[n] = 1..Len(q[n])
    BY <2>1
  <2> QED
    BY <2>2 DEF Range
<1> QED
  BY <1>1, <1>2 DEF Held

Holders(f) == \/ \E t \in Threads : hand[t] = f
              \/ \E n \in Nodes : \E i \in 1..Len(queue[n]) : queue[n][i] = f

(* The frames lent are those with a holder, before a step and after it.    *)
LEMMA LentIff ==
  ASSUME IInv, IInv', NEW f \in Frames
  PROVE  (f \in lent <=> Holders(f)) /\ (f \in lent' <=> Holders(f)')
<1>1. /\ hand \in [Threads -> 0..MaxFrames] /\ queue \in [Nodes -> Seq(Frames)]
      /\ hand' \in [Threads -> 0..MaxFrames] /\ queue' \in [Nodes -> Seq(Frames)]
  BY DEF IInv, Shape
<1>2. (f \in lent <=> Held(f, hand, queue)) /\ (f \in lent' <=> Held(f, hand', queue'))
  BY DEF lent
<1>3. Held(f, hand, queue) <=> Holders(f)
  BY <1>1, HeldIff DEF Holders
<1>4. Held(f, hand', queue') <=> Holders(f)'
  BY <1>1, HeldIff DEF Holders
<1> QED
  BY <1>2, <1>3, <1>4

(* A handler ends and its frame with it: it was the only holder.           *)
LEMMA LetGo ==
  ASSUME IInv, IInv', Once, NEW t \in Threads, hand[t] \in Frames,
         hand' = [hand EXCEPT ![t] = 0], queue' = queue
  PROVE  /\ Once' /\ lent' = lent \ {hand[t]}
         /\ Cardinality(lent') = Cardinality(lent) - 1
<1>1. \A u \in Threads : hand'[u] = IF u = t THEN 0 ELSE hand[u]
  BY DEF IInv, Shape
<1>2. \A n \in Nodes : \A i \in 1..Len(queue[n]) : queue[n][i] # 0
  <2> SUFFICES ASSUME NEW n \in Nodes, NEW i \in 1..Len(queue[n]) PROVE queue[n][i] # 0
    OBVIOUS
  <2>1. queue[n] \in Seq(Frames)
    BY DEF IInv, Shape
  <2>2. queue[n][i] \in Frames
    BY <2>1
  <2> QED
    BY <2>2, FramePathAssumption DEF Frames
<1>3. Once'
  BY <1>1, <1>2 DEF Once
<1>4. ASSUME NEW f \in Frames PROVE f \in lent' <=> f \in lent /\ f # hand[t]
  <2>0. f # 0
    BY FramePathAssumption DEF Frames
  <2>1. (f \in lent <=> Holders(f)) /\ (f \in lent' <=> Holders(f)')
    BY LentIff
  <2>2. (\E u \in Threads : hand'[u] = f)
          <=> (\E u \in Threads : hand[u] = f /\ u # t)
    BY <1>1, <2>0
  <2>3. CASE f = hand[t]
    <3>1. ~(\E u \in Threads : hand[u] = f /\ u # t)
      BY <2>0, <2>3 DEF Once
    <3>2. ~(\E n \in Nodes : \E i \in 1..Len(queue[n]) : queue[n][i] = f)
      BY <2>3 DEF Once
    <3> QED
      BY <2>1, <2>2, <2>3, <3>1, <3>2 DEF Holders
  <2>4. CASE f # hand[t]
    <3>1. (\E u \in Threads : hand[u] = f) <=> (\E u \in Threads : hand[u] = f /\ u # t)
      BY <2>4
    <3> QED
      BY <2>1, <2>2, <2>4, <3>1 DEF Holders
  <2> QED
    BY <2>3, <2>4
<1>5. lent \subseteq Frames /\ lent' \subseteq Frames
  BY DEF lent
<1>6. lent' = lent \ {hand[t]}
  BY <1>4, <1>5
<1>7. hand[t] \in lent
  BY LentIff DEF Holders
<1> QED
  BY <1>3, <1>6, <1>7, LentFinite, FS_RemoveElement

(* A message put into a queue by the handler that held its frame.          *)
LEMMA PassOn ==
  ASSUME IInv, IInv', Once, NEW t \in Threads, NEW n \in Nodes, hand[t] \in Frames,
         hand' = [hand EXCEPT ![t] = 0],
         queue' = [queue EXCEPT ![n] = Append(@, hand[t])]
  PROVE  Once' /\ lent' = lent
<1> DEFINE f == hand[t]
<1>1. \A u \in Threads : hand'[u] = IF u = t THEN 0 ELSE hand[u]
  BY DEF IInv, Shape
<1>2. \A m \in Nodes : m # n => queue'[m] = queue[m]
  BY DEF IInv, Shape
<1>3. /\ Len(queue'[n]) = Len(queue[n]) + 1 /\ Len(queue[n]) \in Nat
      /\ \A i \in 1..Len(queue[n]) : queue'[n][i] = queue[n][i]
      /\ queue'[n][Len(queue[n]) + 1] = f
  <2>1. queue[n] \in Seq(Frames) /\ queue'[n] = Append(queue[n], f)
    BY DEF IInv, Shape
  <2> QED
    BY <2>1
<1>4. ASSUME NEW m \in Nodes, NEW i \in 1..Len(queue'[m])
      PROVE  /\ queue'[m][i] \in Frames /\ queue'[m][i] # 0
             /\ \/ m = n /\ i = Len(queue[n]) + 1 /\ queue'[m][i] = f
                \/ /\ i \in 1..Len(queue[m]) /\ queue'[m][i] = queue[m][i]
                   /\ queue'[m][i] # f
  <2>1. queue'[m] \in Seq(Frames)
    BY DEF IInv, Shape
  <2>2. queue'[m][i] \in Frames
    BY <2>1
  <2>3. queue'[m][i] # 0
    BY <2>2, FramePathAssumption DEF Frames
  <2>4. CASE m = n
    BY <1>3, <2>2, <2>3, <2>4 DEF Once
  <2>5. CASE m # n
    BY <1>2, <2>2, <2>3, <2>5 DEF Once
  <2> QED
    BY <2>4, <2>5
<1>5. Once'
  <2>1. ASSUME NEW u \in Threads, NEW v \in Threads, hand'[u] = hand'[v], hand'[u] # 0
        PROVE  u = v
    BY <1>1, <2>1 DEF Once
  <2>2. ASSUME NEW u \in Threads, NEW m \in Nodes, NEW i \in 1..Len(queue'[m])
        PROVE  queue'[m][i] # hand'[u]
    <3>1. CASE u = t
      BY <1>1, <1>4, <3>1
    <3>2. CASE u # t
      <4>1. hand'[u] = hand[u] /\ hand[u] # f
        BY <1>1, <3>2, FramePathAssumption DEF Once, Frames
      <4> QED
        BY <1>4, <4>1 DEF Once
    <3> QED
      BY <3>1, <3>2
  <2>3. ASSUME NEW l \in Nodes, NEW m \in Nodes, NEW i \in 1..Len(queue'[l]),
               NEW j \in 1..Len(queue'[m]), queue'[l][i] = queue'[m][j]
        PROVE  l = m /\ i = j
    BY <1>4, <2>3 DEF Once
  <2> QED
    BY <2>1, <2>2, <2>3 DEF Once
<1>6. ASSUME NEW g \in Frames PROVE g \in lent' <=> g \in lent
  <2>0. g # 0
    BY FramePathAssumption DEF Frames
  <2>1. (g \in lent <=> Holders(g)) /\ (g \in lent' <=> Holders(g)')
    BY LentIff
  <2>2. CASE g = f
    <3>1. Len(queue[n]) + 1 \in 1..Len(queue'[n])
      BY <1>3
    <3> QED
      BY <1>3, <2>1, <2>2, <3>1 DEF Holders
  <2>3. ASSUME g # f, Holders(g) PROVE Holders(g)'
    <3>1. CASE \E u \in Threads : hand[u] = g
      BY <1>1, <2>3, <3>1 DEF Holders
    <3>2. ASSUME NEW m \in Nodes, NEW i \in 1..Len(queue[m]), queue[m][i] = g
          PROVE  i \in 1..Len(queue'[m]) /\ queue'[m][i] = g
      BY <1>2, <1>3, <3>2
    <3> QED
      BY <2>3, <3>1, <3>2 DEF Holders
  <2>4. ASSUME g # f, Holders(g)' PROVE Holders(g)
    BY <1>1, <1>4, <2>0, <2>4 DEF Holders
  <2> QED
    BY <2>1, <2>2, <2>3, <2>4
<1>7. lent \subseteq Frames /\ lent' \subseteq Frames
  BY DEF lent
<1> QED
  BY <1>5, <1>6, <1>7

(* A node takes the first message of its queue.                            *)
LEMMA TakeUp ==
  ASSUME IInv, IInv', Once, NEW n \in Nodes, hand[n] = 0, queue[n] # <<>>,
         hand' = [hand EXCEPT ![n] = Head(queue[n])],
         queue' = [queue EXCEPT ![n] = Tail(@)]
  PROVE  Once' /\ lent' = lent
<1> DEFINE f == queue[n][1]
<1>0. n \in Threads
  BY NodesAreThreads
<1>1. queue[n] \in Seq(Frames) /\ Len(queue[n]) \in Nat /\ Len(queue[n]) >= 1
  BY DEF IInv, Shape
<1>2. \A u \in Threads : hand'[u] = IF u = n THEN f ELSE hand[u]
  BY <1>0, <1>1 DEF IInv, Shape
<1>3. \A m \in Nodes : m # n => queue'[m] = queue[m]
  BY DEF IInv, Shape
<1>4. /\ Len(queue'[n]) = Len(queue[n]) - 1
      /\ \A i \in 1..Len(queue'[n]) : queue'[n][i] = queue[n][i + 1]
  <2>1. queue'[n] = Tail(queue[n])
    BY DEF IInv, Shape
  <2>2. /\ Len(Tail(queue[n])) = Len(queue[n]) - 1
        /\ \A i \in 1..Len(Tail(queue[n])) : Tail(queue[n])[i] = queue[n][i + 1]
    BY <1>1
  <2> QED
    BY <2>1, <2>2
<1>5. f \in Frames /\ f # 0 /\ 1 \in 1..Len(queue[n])
  BY <1>1, FramePathAssumption DEF Frames
<1> DEFINE old(m, i) == IF m = n THEN i + 1 ELSE i
<1>6. ASSUME NEW m \in Nodes, NEW i \in 1..Len(queue'[m])
      PROVE  /\ old(m, i) \in 1..Len(queue[m])
             /\ queue'[m][i] = queue[m][old(m, i)]
             /\ m = n => old(m, i) # 1
  <2>1. CASE m = n
    BY <1>1, <1>4, <2>1
  <2>2. CASE m # n
    BY <1>3, <2>2
  <2> QED
    BY <2>1, <2>2
<1>7. Once'
  <2>1. ASSUME NEW u \in Threads, NEW v \in Threads, hand'[u] = hand'[v], hand'[u] # 0
        PROVE  u = v
    BY <1>2, <1>5, <2>1 DEF Once
  <2>2. ASSUME NEW u \in Threads, NEW m \in Nodes, NEW i \in 1..Len(queue'[m])
        PROVE  queue'[m][i] # hand'[u]
    <3>1. CASE u = n
      <4>1. hand'[u] = f
        BY <1>2, <3>1
      <4> QED
        BY <1>5, <1>6, <4>1 DEF Once
    <3>2. CASE u # n
      BY <1>2, <1>6, <3>2 DEF Once
    <3> QED
      BY <3>1, <3>2
  <2>3. ASSUME NEW l \in Nodes, NEW m \in Nodes, NEW i \in 1..Len(queue'[l]),
               NEW j \in 1..Len(queue'[m]), queue'[l][i] = queue'[m][j]
        PROVE  l = m /\ i = j
    <3>1. l = m /\ old(l, i) = old(m, j)
      BY <1>6, <2>3 DEF Once
    <3> QED
      BY <3>1
  <2> QED
    BY <2>1, <2>2, <2>3 DEF Once
<1>8. ASSUME NEW g \in Frames PROVE g \in lent' <=> g \in lent
  <2>0. g # 0
    BY FramePathAssumption DEF Frames
  <2>1. (g \in lent <=> Holders(g)) /\ (g \in lent' <=> Holders(g)')
    BY LentIff
  <2>2. CASE g = f
    BY <1>0, <1>2, <1>5, <2>1, <2>2 DEF Holders
  <2>3. ASSUME g # f, Holders(g) PROVE Holders(g)'
    <3>1. CASE \E u \in Threads : hand[u] = g
      BY <1>2, <2>0, <3>1 DEF Holders
    <3>2. ASSUME NEW m \in Nodes, NEW i \in 1..Len(queue[m]), queue[m][i] = g
          PROVE  \E j \in 1..Len(queue'[m]) : queue'[m][j] = g
      <4>1. CASE m # n
        BY <1>3, <3>2, <4>1
      <4>2. CASE m = n
        <5>1. i - 1 \in 1..Len(queue'[n])
          BY <1>1, <1>4, <2>3, <3>2, <4>2
        <5>2. queue'[n][i - 1] = queue[n][(i - 1) + 1]
          BY <1>4, <5>1
        <5>3. (i - 1) + 1 = i
          BY <1>1, <4>2
        <5> QED
          BY <3>2, <4>2, <5>1, <5>2, <5>3
      <4> QED
        BY <4>1, <4>2
    <3> QED
      BY <2>3, <3>1, <3>2 DEF Holders
  <2>4. ASSUME g # f, Holders(g)' PROVE Holders(g)
    <3>1. CASE \E u \in Threads : hand'[u] = g
      BY <1>2, <2>4, <3>1 DEF Holders
    <3>2. ASSUME NEW m \in Nodes, NEW i \in 1..Len(queue'[m]), queue'[m][i] = g
          PROVE  Holders(g)
      BY <1>6, <3>2 DEF Holders
    <3> QED
      BY <2>4, <3>1, <3>2 DEF Holders
  <2> QED
    BY <2>1, <2>2, <2>3, <2>4
<1>9. lent \subseteq Frames /\ lent' \subseteq Frames
  BY DEF lent
<1> QED
  BY <1>7, <1>8, <1>9

Kept == Sizes /\ Tally

(* The sums of the counters.                                               *)
LEMMA SumsNat ==
  ASSUME dropped \in [Nodes -> Nat], failed \in [Nodes -> Nat]
  PROVE  Drops \in Nat /\ Errors \in Nat
<1>1. /\ dropped[Pre] \in Nat /\ dropped[Inf] \in Nat /\ dropped[Bus] \in Nat
      /\ dropped[Enc] \in Nat /\ failed[Pre] \in Nat /\ failed[Inf] \in Nat
      /\ failed[Enc] \in Nat
  BY NodesAreThreads
<1> QED
  BY <1>1 DEF Drops, Errors

LEMMA SumsNatNext ==
  ASSUME dropped' \in [Nodes -> Nat], failed' \in [Nodes -> Nat], refused' \in Nat
  PROVE  Missing' \in Nat
<1>1. /\ dropped'[Pre] \in Nat /\ dropped'[Inf] \in Nat /\ dropped'[Bus] \in Nat
      /\ dropped'[Enc] \in Nat /\ failed'[Pre] \in Nat /\ failed'[Inf] \in Nat
      /\ failed'[Enc] \in Nat
  BY NodesAreThreads
<1>2. Drops' \in Nat /\ Errors' \in Nat
  BY <1>1 DEF Drops, Errors
<1> QED
  BY <1>1, SMTT(20) DEF Missing, Drops, Errors

(* A frame the encoder refuses is one more that is missing.                *)
LEMMA OneRefused ==
  ASSUME dropped \in [Nodes -> Nat], failed \in [Nodes -> Nat], refused \in Nat,
         UNCHANGED <<dropped, failed>>, refused' = refused + 1
  PROVE  Missing' = Missing + 1
<1>1. Drops' = Drops /\ Errors' = Errors
  BY DEF Drops, Errors
<1> QED
  BY <1>1, SumsNat DEF Missing

(* An error returned by PreProcess or InfProcess is one error more.        *)
LEMMA OneError ==
  ASSUME NEW n \in {Pre, Inf}, failed \in [Nodes -> Nat],
         failed' = [failed EXCEPT ![n] = @ + 1]
  PROVE  Errors' = Errors + 1
<1>1. failed[Pre] \in Nat /\ failed[Inf] \in Nat /\ failed[Enc] \in Nat
  BY NodesAreThreads
<1>2. /\ failed'[Pre] = IF n = Pre THEN failed[Pre] + 1 ELSE failed[Pre]
      /\ failed'[Inf] = IF n = Inf THEN failed[Inf] + 1 ELSE failed[Inf]
      /\ failed'[Enc] = failed[Enc]
  BY NodesAreThreads
<1>3. CASE n = Pre
  BY <1>1, <1>2, <1>3, NodesAreThreads DEF Errors
<1>4. CASE n = Inf
  BY <1>1, <1>2, <1>4, NodesAreThreads DEF Errors
<1> QED
  BY <1>3, <1>4

LEMMA MissingNat == ASSUME IInv, Sizes PROVE Missing \in Nat /\ Len(written) \in Nat
<1>1. /\ dropped \in [Nodes -> Nat] /\ failed \in [Nodes -> Nat] /\ written \in Seq(Frames)
      /\ refused \in Nat
  BY DEF IInv, Shape, Sizes
<1>2. Drops \in Nat /\ Errors \in Nat
  BY <1>1, SumsNat
<1> QED
  BY <1>1, <1>2 DEF Missing

(* A step that moves no frame and counts none.                             *)
LEMMA Still ==
  ASSUME IInv, Kept, UNCHANGED <<got, hand, queue, written, refused, dropped, failed>>,
         seq' \in Nat, main' = main \/ main' # "run"
  PROVE  Kept'
<1>1. Sizes'
  BY DEF Kept, Sizes
<1>2. lent' = lent
  BY DEF lent
<1>3. ASSUME main' = "run" PROVE Once' /\ Known' /\ Balanced'
  <2>1. Once /\ Known /\ Balanced
    BY <1>3 DEF Kept, Tally
  <2> QED
    BY <1>2, <2>1 DEF Once, Known, Balanced, Missing, Drops, Errors
<1> QED
  BY <1>1, <1>3 DEF Kept, Tally

(* A handler holds a frame.                                                *)
LEMMA InHand ==
  ASSUME IInv, NEW t \in Threads, pc[t] \notin {"idle", "exited"}
  PROVE  hand[t] \in Frames
<1>1. hand[t] \in 0..MaxFrames /\ hand[t] # 0
  BY DEF IInv, Shape, InHandler
<1> QED
  BY <1>1, FramePathAssumption DEF Frames

(* A frame goes for good, and one counter or the encoder has it.           *)
LEMMA FrameEnds ==
  ASSUME IInv, IInv', Kept, NEW t \in Threads, pc[t] \notin {"idle", "exited"},
         End(t, queue), main' = main, seq' = seq,
         written' \in Seq(Frames), refused' \in Nat, dropped' \in [Nodes -> Nat],
         main = "run" => Len(written') + Missing' = Len(written) + Missing + 1
  PROVE  Kept'
<1>1. hand' = [hand EXCEPT ![t] = 0] /\ queue' = queue /\ got' = got
  BY DEF End, Hold
<1>2. hand[t] \in Frames
  BY InHand
<1>3. Sizes'
  BY <1>1 DEF Kept, Sizes
<1>4. ASSUME main' = "run" PROVE Once' /\ Known' /\ Balanced'
  <2>1. main = "run" /\ Once /\ Known /\ Balanced
    BY <1>4 DEF Kept, Tally
  <2>2. /\ Once' /\ lent' = lent \ {hand[t]}
        /\ Cardinality(lent') = Cardinality(lent) - 1
    BY <1>1, <1>2, <2>1, LetGo
  <2>3. Known'
    BY <1>1, <2>1, <2>2 DEF Known
  <2>4. /\ Missing \in Nat /\ Len(written) \in Nat
        /\ Missing' \in Nat /\ Len(written') \in Nat
        /\ Cardinality(lent) \in Nat
    <3>1. Missing \in Nat /\ Len(written) \in Nat
      BY MissingNat DEF Kept
    <3>2. Missing' \in Nat /\ Len(written') \in Nat
      <4>1. /\ dropped' \in [Nodes -> Nat] /\ failed' \in [Nodes -> Nat]
            /\ written' \in Seq(Frames) /\ refused' \in Nat
        BY DEF IInv, Shape
      <4> QED
        BY <4>1, SumsNatNext
    <3> QED
      BY <3>1, <3>2, LentFinite
  <2>5. Len(written') + Missing' = Len(written) + Missing + 1
    BY <2>1
  <2>6. got' = Cardinality(lent') + Len(written') + Missing'
    <3>1. got = Cardinality(lent) + Len(written) + Missing
      BY <2>1 DEF Balanced
    <3>2. Cardinality(lent') + Len(written') + Missing'
            = (Cardinality(lent) - 1) + (Len(written) + Missing + 1)
      BY <2>2, <2>4, <2>5
    <3> QED
      BY <1>1, <2>4, <3>1, <3>2
  <2> QED
    BY <2>2, <2>3, <2>6 DEF Balanced
<1> QED
  BY <1>3, <1>4 DEF Kept, Tally

(* One more drop, at whichever queue, is one more frame missing.           *)
LEMMA OneMore ==
  ASSUME NEW n \in Nodes, dropped \in [Nodes -> Nat],
         dropped' = [dropped EXCEPT ![n] = @ + 1]
  PROVE  Drops' = Drops + 1
<1>1. /\ dropped[Pre] \in Nat /\ dropped[Inf] \in Nat /\ dropped[Bus] \in Nat
      /\ dropped[Enc] \in Nat
  BY NodesAreThreads
<1>2. /\ dropped'[Pre] = IF n = Pre THEN dropped[Pre] + 1 ELSE dropped[Pre]
      /\ dropped'[Inf] = IF n = Inf THEN dropped[Inf] + 1 ELSE dropped[Inf]
      /\ dropped'[Bus] = IF n = Bus THEN dropped[Bus] + 1 ELSE dropped[Bus]
      /\ dropped'[Enc] = IF n = Enc THEN dropped[Enc] + 1 ELSE dropped[Enc]
  BY NodesAreThreads
<1>3. CASE n = Pre
  BY <1>1, <1>2, <1>3, NodesAreThreads DEF Drops
<1>4. CASE n = Inf
  BY <1>1, <1>2, <1>4, NodesAreThreads DEF Drops
<1>5. CASE n = Bus
  BY <1>1, <1>2, <1>5, NodesAreThreads DEF Drops
<1>6. CASE n = Enc
  BY <1>1, <1>2, <1>6, NodesAreThreads DEF Drops
<1> QED
  BY <1>3, <1>4, <1>5, <1>6 DEF Nodes, Pre, Inf, Bus, Enc

(* PushMessage: the frame goes on to the next queue, or is counted there.  *)
LEMMA SendKept ==
  ASSUME IInv, IInv', Kept, NEW t \in Threads, NEW n \in Nodes, Send(t, n)
  PROVE  Kept'
<1>1. /\ pc[t] = "send" /\ hand[t] \in Frames
      /\ UNCHANGED <<seq, written, refused, failed, main, k>>
  BY InHand DEF Send, exit
<1>2. /\ dropped \in [Nodes -> Nat] /\ written \in Seq(Frames)
      /\ failed \in [Nodes -> Nat] /\ refused \in Nat
  BY DEF Kept, Sizes, IInv, Shape
<1>3. CASE Exiting(n) /\ End(t, queue) /\ UNCHANGED dropped
  <2>1. main # "run"
    BY <1>3 DEF Exiting
  <2> QED
    BY <1>1, <1>2, <1>3, <2>1, FrameEnds
<1>4. CASE ~Full(n) /\ UNCHANGED dropped
            /\ End(t, [queue EXCEPT ![n] = Append(@, hand[t])])
  <2>1. /\ hand' = [hand EXCEPT ![t] = 0] /\ got' = got
        /\ queue' = [queue EXCEPT ![n] = Append(@, hand[t])]
    BY <1>4 DEF End, Hold
  <2>2. ASSUME NEW m \in Nodes PROVE Len(queue'[m]) <= Capacity
    <3>1. CASE m = n
      <4>1. queue[n] \in Seq(Frames) /\ queue'[n] = Append(queue[n], hand[t])
        BY <2>1 DEF IInv, Shape
      <4>2. Len(queue'[n]) = Len(queue[n]) + 1 /\ Len(queue[n]) \in Nat
        BY <4>1
      <4> QED
        BY <1>4, <3>1, <4>2, FramePathAssumption DEF Full, Kept, Sizes
    <3>2. CASE m # n
      BY <2>1, <3>2 DEF IInv, Shape, Kept, Sizes
    <3> QED
      BY <3>1, <3>2
  <2>3. Sizes'
    BY <1>1, <1>4, <2>2 DEF Kept, Sizes
  <2>4. ASSUME main' = "run" PROVE Once' /\ Known' /\ Balanced'
    <3>1. Once /\ Known /\ Balanced
      BY <1>1, <2>4 DEF Kept, Tally
    <3>2. Once' /\ lent' = lent
      BY <1>1, <2>1, <3>1, PassOn
    <3> QED
      BY <1>1, <1>4, <2>1, <3>1, <3>2 DEF Known, Balanced, Missing, Drops, Errors
  <2> QED
    BY <2>3, <2>4 DEF Kept, Tally
<1>5. CASE End(t, queue) /\ dropped' = [dropped EXCEPT ![n] = @ + 1]
  <2>1. dropped' \in [Nodes -> Nat]
    BY <1>2, <1>5
  <2>2. Missing' = Missing + 1
    <3>1. Drops' = Drops + 1 /\ Errors' = Errors /\ refused' = refused
      BY <1>1, <1>2, <1>5, OneMore DEF Errors
    <3> QED
      BY <1>2, <3>1, SumsNat DEF Missing
  <2>3. Len(written') + Missing' = Len(written) + Missing + 1
    BY <1>1, <2>2, MissingNat DEF Kept
  <2> QED
    BY <1>1, <1>2, <1>5, <2>1, <2>3, FrameEnds
<1> QED
  BY <1>3, <1>4, <1>5 DEF Send

(* A message is taken up, or a frame fetched from the decoder.             *)
LEMMA TakeKept ==
  ASSUME IInv, IInv', Kept,
         GetFrame \/ \E n \in Nodes, s \in Pcs : Pop(n, s)
  PROVE  Kept'
<1>1. CASE \E n \in Nodes, s \in Pcs : Pop(n, s)
  <2>1. PICK n \in Nodes : /\ hand' = [hand EXCEPT ![n] = Head(queue[n])]
                           /\ queue' = [queue EXCEPT ![n] = Tail(@)]
                           /\ pc[n] = "idle" /\ queue[n] # <<>>
                           /\ UNCHANGED <<got, dest, books, exit>>
    BY <1>1 DEF Pop, Hold
  <2>2. UNCHANGED <<seq, written, refused, dropped, failed, main>>
    BY <2>1 DEF books, exit
  <2>3. hand[n] = 0
    BY <2>1, NodesAreThreads DEF IInv, InHandler
  <2>4. ASSUME NEW m \in Nodes PROVE Len(queue'[m]) <= Capacity
    <3>1. CASE m = n
      <4>1. queue[n] \in Seq(Frames) /\ queue'[n] = Tail(queue[n])
        BY <2>1 DEF IInv, Shape
      <4>2. Len(Tail(queue[n])) = Len(queue[n]) - 1 /\ Len(queue[n]) \in Nat
        BY <2>1, <4>1
      <4> QED
        BY <3>1, <4>1, <4>2, FramePathAssumption DEF Kept, Sizes
    <3>2. CASE m # n
      BY <2>1, <3>2 DEF IInv, Shape, Kept, Sizes
    <3> QED
      BY <3>1, <3>2
  <2>5. Sizes'
    BY <2>2, <2>4 DEF Kept, Sizes
  <2>6. ASSUME main' = "run" PROVE Once' /\ Known' /\ Balanced'
    <3>1. Once /\ Known /\ Balanced
      BY <2>2, <2>6 DEF Kept, Tally
    <3>2. Once' /\ lent' = lent
      BY <2>1, <2>3, <3>1, TakeUp
    <3> QED
      BY <2>1, <2>2, <3>1, <3>2 DEF Known, Balanced, Missing, Drops, Errors
  <2> QED
    BY <2>5, <2>6 DEF Kept, Tally
<1>2. CASE GetFrame
  <2>1. /\ hand' = [hand EXCEPT ![Vdec] = got + 1] /\ queue' = queue
        /\ got' = got + 1 /\ got < MaxFrames /\ pc[Vdec] = "idle"
        /\ UNCHANGED <<seq, written, refused, dropped, failed, main>>
    BY <1>2 DEF GetFrame, Hold, books, exit
  <2>2. got \in Nat /\ got + 1 \in Frames
    BY <2>1, FramePathAssumption DEF IInv, Shape, Frames
  <2>3. Sizes'
    BY <2>1 DEF Kept, Sizes
  <2>4. ASSUME main' = "run" PROVE Once' /\ Known' /\ Balanced'
    <3>1. Once /\ Known /\ Balanced
      BY <2>1, <2>4 DEF Kept, Tally
    <3>2. got + 1 \notin lent
      BY <2>2, <3>1 DEF Known
    <3>3. ~Holders(got + 1)
      BY <2>2, <3>2, LentIff
    <3>4. \A u \in Threads : hand'[u] = IF u = Vdec THEN got + 1 ELSE hand[u]
      BY <2>1 DEF IInv, Shape
    <3>5. hand[Vdec] = 0
      BY <2>1, NodesAreThreads DEF IInv, InHandler
    <3>6. Once'
      BY <2>1, <3>1, <3>3, <3>4 DEF Once, Holders
    <3>7. ASSUME NEW g \in Frames PROVE g \in lent' <=> g \in lent \/ g = got + 1
      <4>0. g # 0
        BY FramePathAssumption DEF Frames
      <4> QED
        BY <2>1, <3>4, <3>5, <4>0, LentIff, NodesAreThreads DEF Holders
    <3>8. lent' = lent \cup {got + 1}
      BY <2>2, <3>7 DEF lent
    <3>9. Cardinality(lent') = Cardinality(lent) + 1
      BY <3>2, <3>8, LentFinite, FS_AddElement
    <3>10. Known'
      <4> SUFFICES ASSUME NEW f \in lent' PROVE f <= got + 1
        BY <2>1 DEF Known
      <4>1. f \in Frames
        BY DEF lent
      <4> QED
        BY <2>2, <3>1, <3>8, <4>1, FramePathAssumption DEF Known, Frames
    <3>11. got + 1 = (Cardinality(lent) + 1) + Len(written) + Missing
      BY <2>2, <3>1, LentFinite, MissingNat DEF Balanced, Kept
    <3>12. Balanced'
      BY <2>1, <3>9, <3>11 DEF Balanced, Missing, Drops, Errors
    <3> QED
      BY <3>6, <3>10, <3>12
  <2> QED
    BY <2>3, <2>4 DEF Kept, Tally
<1> QED
  BY <1>1, <1>2

(* A handler fails, or the encoder has its frame.                          *)
LEMMA EndKept ==
  ASSUME IInv, IInv', Kept, UNCHANGED <<seq, dropped, main>>,
         \/ /\ \E n \in {Pre, Inf} : pc[n] \notin {"idle", "exited"} /\ Fail(n)
            /\ UNCHANGED <<written, refused>>
         \/ WriteVenc
  PROVE  Kept'
<1>1. /\ dropped \in [Nodes -> Nat] /\ written \in Seq(Frames)
      /\ failed \in [Nodes -> Nat] /\ refused \in Nat
  BY DEF Kept, Sizes, IInv, Shape
<1>2. Missing \in Nat /\ Len(written) \in Nat
  BY MissingNat DEF Kept
<1>3. ASSUME NEW n \in {Pre, Inf}, pc[n] \notin {"idle", "exited"}, Fail(n),
             UNCHANGED <<written, refused>>
      PROVE  Kept'
  <2>1. End(n, queue) /\ failed' = [failed EXCEPT ![n] = @ + 1]
    BY <1>3 DEF Fail
  <2>2. Missing' = Missing + 1
    <3>1. Errors' = Errors + 1 /\ Drops' = Drops /\ refused' = refused
      BY <1>1, <1>3, <2>1, OneError DEF Drops
    <3> QED
      BY <1>1, <3>1, SumsNat DEF Missing
  <2>3. Len(written') + Missing' = Len(written) + Missing + 1
    BY <1>2, <1>3, <2>2
  <2>4. n \in Threads
    BY NodesAreThreads
  <2> QED
    BY <1>1, <1>3, <2>1, <2>3, <2>4, FrameEnds
<1>4. CASE WriteVenc
  <2>1. /\ pc[Enc] = "write" /\ End(Enc, queue) /\ UNCHANGED failed
        /\ \/ written' = Append(written, hand[Enc]) /\ refused' = refused
           \/ refused' = refused + 1 /\ written' = written
    BY <1>4 DEF WriteVenc
  <2>2. hand[Enc] \in Frames
    BY <2>1, InHand, NodesAreThreads
  <2>3. CASE written' = Append(written, hand[Enc]) /\ refused' = refused
    <3>1. written' \in Seq(Frames) /\ Len(written') = Len(written) + 1 /\ refused' \in Nat
      BY <1>1, <2>2, <2>3
    <3>2. Missing' = Missing
      BY <2>1, <2>3 DEF Missing, Drops, Errors
    <3>3. Len(written') + Missing' = Len(written) + Missing + 1
      BY <1>2, <3>1, <3>2
    <3> QED
      BY <1>1, <2>1, <3>1, <3>3, FrameEnds, NodesAreThreads
  <2>4. CASE refused' = refused + 1 /\ written' = written
    <3>1. Missing' = Missing + 1
      BY <1>1, <2>1, <2>4, OneRefused
    <3>2. Len(written') + Missing' = Len(written) + Missing + 1
      BY <1>2, <2>4, <3>1
    <3> QED
      BY <1>1, <2>1, <2>4, <3>2, FrameEnds, NodesAreThreads
  <2> QED
    BY <2>1, <2>3, <2>4
<1> QED
  BY <1>3, <1>4

(* The invariant that leaves no frame uncounted is inductive.              *)
LEMMA KeptStep == ASSUME IInv, IInv', Kept, [Next]_vars PROVE Kept'
<1> USE DEF books, exit, frame, limits
<1>0. seq \in Nat /\ \A s \in {"ivps", "infer", "map", "write"} : s \in Pcs
  BY DEF Kept, Sizes, Pcs
<1>1. ASSUME NEW n \in Nodes, Worker(n) PROVE Kept'
  <2>1. CASE \E s \in {"ivps", "infer", "map", "write"} : Pop(n, s)
    BY <1>0, <2>1, TakeKept
  <2>2. CASE \E m \in Nodes : Send(n, m)
    BY <2>2, SendKept, NodesAreThreads
  <2>3. CASE IvpsProcess \/ Copy2Host
    <3>1. CASE Fail(Pre)
      BY <2>3, <3>1, EndKept DEF IvpsProcess, Copy2Host
    <3>2. CASE UNCHANGED <<frame, failed>>
      BY <1>0, <2>3, <3>2, Still DEF IvpsProcess, Copy2Host
    <3> QED
      BY <2>3, <3>1, <3>2 DEF IvpsProcess, Copy2Host
  <2>4. CASE InferFails
    BY <2>4, EndKept DEF InferFails
  <2>5. CASE Infer
    BY <1>0, <2>5, Still DEF Infer
  <2>6. CASE MapFrame
    <3>1. seq' \in Nat
      BY <1>0, <2>6 DEF MapFrame
    <3> QED
      BY <2>6, <3>1, Still DEF MapFrame
  <2>7. CASE SkipRuntime \/ Runtime
    BY <1>0, <2>7, Still DEF SkipRuntime, Runtime
  <2>8. CASE WriteVenc
    BY <2>8, EndKept DEF WriteVenc
  <2>9. CASE Leave(n)
    BY <1>0, <2>9, Still DEF Leave
  <2> QED
    BY <1>1, <2>1, <2>2, <2>3, <2>4, <2>5, <2>6, <2>7, <2>8, <2>9, NodesAreThreads
       DEF Worker
<1>2. CASE GetFrame \/ RecvEnds
  BY <1>0, <1>2, TakeKept, Still DEF RecvEnds
<1>3. CASE Send(Vdec, Pre)
  BY <1>3, SendKept, NodesAreThreads
<1>4. CASE Join
  <2>1. /\ queue' = [queue EXCEPT ![k] = <<>>] /\ main' # "run"
        /\ UNCHANGED <<seq, written, refused, dropped>>
    BY <1>4 DEF Join, Hold
  <2>2. ASSUME NEW m \in Nodes PROVE Len(queue'[m]) <= Capacity
    <3>1. queue'[m] = IF m = k THEN <<>> ELSE queue[m]
      BY <2>1 DEF IInv, Shape
    <3> QED
      BY <3>1, FramePathAssumption DEF Kept, Sizes
  <2> QED
    BY <2>1, <2>2 DEF Kept, Sizes, Tally
<1>5. CASE Signal \/ SendEof \/ StopSources \/ Mark \/ DestroyGrp
  BY <1>0, <1>5, Still DEF Signal, SendEof, StopSources, Mark, DestroyGrp
<1>6. CASE UNCHANGED vars
  BY <1>0, <1>6, Still DEF vars
<1> QED
  BY <1>1, <1>2, <1>3, <1>4, <1>5, <1>6 DEF Next, Exit, Wait

(* TaskNodeMgr::PushMessage's dropped_total_ and "process function return  *)
(* error": until the exit a frame is missing without either only if        *)
(* AX_VENC_SendFrame refused it.                                           *)
THEOREM LostOnlyAtEncoderCorrect == Spec => []LostOnlyAtEncoder
<1>1. Init => Kept
  <2> SUFFICES ASSUME Init PROVE Kept
    OBVIOUS
  <2>1. IInv
    BY InitHolds
  <2>2. lent = {}
    <3>1. \A f \in Frames : f # 0
      BY FramePathAssumption DEF Frames
    <3>2. ASSUME NEW f \in Frames PROVE ~Held(f, hand, queue)
      <4>1. \A t \in Threads : hand[t] # f
        BY <3>1 DEF Init
      <4>2. \A n \in Nodes : queue[n] = <<>>
        BY DEF Init
      <4>3. hand \in [Threads -> 0..MaxFrames] /\ queue \in [Nodes -> Seq(Frames)]
        BY <2>1 DEF IInv, Shape
      <4>4. \A n \in Nodes : ~ \E i \in 1..Len(queue[n]) : queue[n][i] = f
        BY <4>2
      <4> QED
        BY <4>1, <4>3, <4>4, HeldIff
    <3> QED
      BY <3>2 DEF lent
  <2>3. Cardinality(lent) = 0
    BY <2>2, FS_EmptySet
  <2>4. Balanced
    BY <2>3, NodesAreThreads DEF Init, Balanced, Missing, Drops, Errors
  <2>5. Once /\ Known
    BY <2>2 DEF Init, Once, Known
  <2>6. Sizes
    BY FramePathAssumption DEF Init, Sizes
  <2> QED
    BY <2>4, <2>5, <2>6 DEF Kept, Tally
<1>2. IInv /\ IInv' /\ Kept /\ [Next]_vars => Kept'
  BY KeptStep
<1>3. IInv /\ Kept => LostOnlyAtEncoder
  <2> SUFFICES ASSUME IInv, Kept PROVE LostOnlyAtEncoder
    OBVIOUS
  <2>1. TypeOK
    BY DEF TypeOK, IInv, Shape, Kept, Sizes, Limiters, Pcs, Mains
  <2>2. ASSUME main = "run" PROVE got = Cardinality(lent) + Counted + refused
    <3>1. got = Cardinality(lent) + Len(written) + Missing
      BY <2>2 DEF Kept, Tally, Balanced
    <3>2. Drops \in Nat /\ Errors \in Nat /\ refused \in Nat
      BY SumsNat DEF IInv, Shape, Kept, Sizes
    <3>3. Cardinality(lent) \in Nat /\ Len(written) \in Nat
      BY LentFinite, MissingNat DEF Kept
    <3> QED
      BY <3>1, <3>2, <3>3 DEF Counted, Missing
  <2> QED
    BY <2>1, <2>2 DEF LostOnlyAtEncoder
<1> QED
  BY <1>1, <1>2, <1>3, Inductive, PTL DEF Spec
=============================================================================
