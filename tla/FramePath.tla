----------------------------- MODULE FramePath -----------------------------
(***************************************************************************)
(* What happens to a frame: VDEC lends it, PreProcess, InfProcess,         *)
(* BusProcess and EncProcess hand it on through their queues, each step    *)
(* may fail, and the last shared_ptr gives it back to the VDEC group,      *)
(* which cannot be destroyed before.  The nodes' lifetimes are the         *)
(* business of TaskScheduler; here the frames, their mappings and the      *)
(* books kept of them.  A handler's last step drops its references.        *)
(***************************************************************************)
EXTENDS Integers, Sequences, FiniteSets, SequencesExt, FiniteSetsExt

CONSTANTS MaxFrames,   \* bound: frames the decoder delivers
          Capacity,    \* kMsgQueueSize
          Bufs,        \* u32FrameBufCnt, the frames of the VDEC group
          Codes        \* error codes of a post-processor or plugin

ASSUME FramePathAssumption ==
  /\ MaxFrames \in Nat /\ Capacity \in Nat \ {0} /\ Bufs \in Nat \ {0}
  /\ 0 \notin Codes /\ Codes # {}

Vdec == 0  Pre == 1  Inf == 2  Bus == 3  Enc == 4
Nodes   == Pre..Enc
Threads == Vdec..Enc
Frames  == 1..MaxFrames
Planes  == {0, 1}
Stages  == {"postprocessor", "business"}

VARIABLES
  got,      \* frames taken from the decoder, numbered in that order
  queue,    \* per node: msg_queue_
  hand,     \* per thread: the frame its handler holds, 0 for none
  pc,       \* per thread: where the handler is
  maps,     \* per frame: the planes mapped into the process
  dest,     \* PreProcess's IVPS frame: alive, and the planes mapped
  seq,      \* BusProcess::frame_seq_
  written,  \* frames the encoder took from VencHelper::Write, in order
  refused,  \* those it refused
  dropped,  \* per node: dropped_total_
  failed,   \* per node: frames ended by "process function return error"
  streak,   \* InfProcess: fail_streak_, and the failures reported
  episode,  \* per stage: the FailureRateLimiter
  told,     \* per stage: failures that recovery reports told of
  happened, \* per stage: failures that happened
  main,     \* ExitPipeline
  k         \* the node ExitPipeline has come to

limits == <<episode, told, happened>>
books  == <<seq, written, refused, dropped, failed, streak, limits>>
exit   == <<main, k>>
frame  == <<got, queue, hand, maps>>
vars   == <<frame, pc, dest, books, exit>>

Limiters == [failures : Nat, code : Codes \cup {0}, changes : Nat]

TypeOK ==
  /\ got \in 0..MaxFrames
  /\ queue \in [Nodes -> Seq(Frames)]
  /\ \A n \in Nodes : Len(queue[n]) <= Capacity
  /\ hand \in [Threads -> 0..MaxFrames]
  /\ pc \in [Threads -> {"idle", "ivps", "copy", "infer", "map", "runtime",
                         "blind", "send", "write", "exited"}]
  /\ maps \in [Frames -> SUBSET Planes]
  /\ dest \in [live : BOOLEAN, maps : SUBSET Planes]
  /\ seq \in Nat /\ written \in Seq(Frames) /\ refused \in Nat
  /\ dropped \in [Nodes -> Nat] /\ failed \in [Nodes -> Nat]
  /\ streak \in [now : Nat, told : Nat]
  /\ episode \in [Stages -> Limiters]
  /\ told \in [Stages -> Nat] /\ happened \in [Stages -> Nat]
  /\ main \in {"run", "eof", "stop", "mark", "join", "destroy", "done"}
  /\ k \in 0..Enc

NoFailures == [failures |-> 0, code |-> 0, changes |-> 0]
NoDest     == [live |-> FALSE, maps |-> {}]

Init ==
  /\ got = 0 /\ seq = 0 /\ written = <<>> /\ refused = 0
  /\ queue = [n \in Nodes |-> <<>>]
  /\ hand = [t \in Threads |-> 0] /\ pc = [t \in Threads |-> "idle"]
  /\ maps = [f \in Frames |-> {}] /\ dest = NoDest
  /\ dropped = [n \in Nodes |-> 0] /\ failed = [n \in Nodes |-> 0]
  /\ streak = [now |-> 0, told |-> 0]
  /\ episode = [s \in Stages |-> NoFailures]
  /\ told = [s \in Stages |-> 0] /\ happened = [s \in Stages |-> 0]
  /\ main = "run" /\ k = 0

-----------------------------------------------------------------------------
(* FrameData: the holders of its shared_ptr are handlers and queues.       *)
Held(f, h, q) == f \in Range(h) \/ \E n \in Nodes : f \in Range(q[n])

(* Those not given back with AX_VDEC_ReleaseChnFrame.                      *)
lent == {f \in Frames : Held(f, hand, queue)}

(* FrameData::Destroy unmaps only if both planes are mapped.               *)
Munmapped(planes) == IF planes = Planes THEN {} ELSE planes

(* The holders change to h and q, the mappings to m: ~FrameData for the    *)
(* frames without a holder, which unmaps them and gives them back.         *)
Hold(h, q, m) ==
  /\ hand' = h /\ queue' = q
  /\ maps' = [f \in Frames |-> IF Held(f, h, q) THEN m[f] ELSE Munmapped(m[f])]

Goto(t, s) == pc' = [pc EXCEPT ![t] = s]

(* The handler of t ends, with the queues q; PreProcess's IVPS frame goes. *)
End(t, q) ==
  /\ Goto(t, "idle")
  /\ Hold([hand EXCEPT ![t] = 0], q, maps)
  /\ dest' = IF t = Pre THEN [live |-> FALSE, maps |-> Munmapped(dest.maps)] ELSE dest
  /\ UNCHANGED got

(* Mutant: a plane that cannot be mapped leaves the one before it mapped.  *)
MapResultsNoRollback == {{}, {0}, Planes}
(* EnsureMapped: all planes, or none.                                      *)
MapResults == {{}, Planes}

Exiting(n) == main \in {"join", "destroy", "done"} \/ (main = "mark" /\ n < k)

Full(n) == Len(queue[n]) = Capacity

(* Mutant: a full queue refuses the message and nobody counts it.          *)
SendUncounted(t, n) ==
  /\ pc[t] = "send"
  /\ End(t, IF Exiting(n) \/ Full(n)
              THEN queue ELSE [queue EXCEPT ![n] = Append(@, hand[t])])
  /\ UNCHANGED <<books, exit>>
(* PushMessage: not to a node that is not running, dropped if it is full.  *)
Send(t, n) ==
  /\ pc[t] = "send"
  /\ \/ Exiting(n) /\ End(t, queue) /\ UNCHANGED dropped
     \/ /\ ~Exiting(n) /\ ~Full(n)
        /\ End(t, [queue EXCEPT ![n] = Append(@, hand[t])])
        /\ UNCHANGED dropped
     \/ /\ ~Exiting(n) /\ Full(n)
        /\ End(t, queue)
        /\ dropped' = [dropped EXCEPT ![n] = @ + 1]
  /\ UNCHANGED <<seq, written, refused, failed, streak, limits, exit>>

Pop(n, s) ==
  /\ pc[n] = "idle" /\ ~Exiting(n) /\ queue[n] # <<>>
  /\ Hold([hand EXCEPT ![n] = Head(queue[n])], [queue EXCEPT ![n] = Tail(@)], maps)
  /\ Goto(n, s)
  /\ UNCHANGED <<got, dest, books, exit>>

(* Process returns an error: logged, the message goes.                     *)
Fail(n) ==
  /\ End(n, queue)
  /\ failed' = [failed EXCEPT ![n] = @ + 1]

-----------------------------------------------------------------------------
(* VdecHelper::RecvStreamFunc: a frame comes if the group has one to lend. *)
GetFrame ==
  /\ pc[Vdec] = "idle" /\ main \in {"run", "eof"}
  /\ got < MaxFrames /\ Cardinality(lent) < Bufs
  /\ got' = got + 1
  /\ Hold([hand EXCEPT ![Vdec] = got + 1], queue, maps)
  /\ Goto(Vdec, "send")
  /\ UNCHANGED <<dest, books, exit>>

(* It ends when StopDecode has set its flag, or at any time, when          *)
(* GetChnFrame answers FLOW_END or an unknown code.                        *)
RecvEnds ==
  /\ pc[Vdec] = "idle" /\ Goto(Vdec, "exited")
  /\ UNCHANGED <<frame, dest, books, exit>>

IvpsProcess ==
  /\ pc[Pre] = "ivps"
  /\ \/ /\ dest' = [live |-> TRUE, maps |-> {}] /\ Goto(Pre, "copy")
        /\ UNCHANGED <<frame, failed>>
     \/ Fail(Pre)
  /\ UNCHANGED <<seq, written, refused, dropped, streak, limits, exit>>

(* The IVPS frame is mapped and copied; it is unmapped when it goes.       *)
Copy2Host ==
  /\ pc[Pre] = "copy"
  /\ \/ /\ Planes \in MapResults /\ dest' = [dest EXCEPT !.maps = Planes]
        /\ Goto(Pre, "send")
        /\ UNCHANGED <<frame, failed>>
     \/ Fail(Pre)
  /\ UNCHANGED <<seq, written, refused, dropped, streak, limits, exit>>

(* Engine::Process, Postprocess; ReportFailure and ReportRecovered.        *)
InferFails ==
  /\ pc[Inf] = "infer" /\ Fail(Inf)
  /\ streak' = [streak EXCEPT !.now = @ + 1]
  /\ UNCHANGED <<seq, written, refused, dropped, limits, exit>>

Infer ==
  /\ pc[Inf] = "infer" /\ Goto(Inf, "send")
  /\ streak' = [now |-> 0, told |-> streak.told + streak.now]
  /\ UNCHANGED <<frame, dest, seq, written, refused, dropped, failed, limits, exit>>

MapFrame ==
  /\ pc[Bus] = "map"
  /\ \E m \in MapResults :
       /\ maps' = [maps EXCEPT ![hand[Bus]] = m]
       /\ Goto(Bus, IF m = Planes THEN "runtime" ELSE "blind")
  /\ seq' = seq + 1
  /\ UNCHANGED <<got, queue, hand, dest, written, refused, dropped, failed, streak, limits,
                 exit>>

(* FailureRateLimiter::OnFailure, per stage; when a summary of the episode *)
(* is due is a matter of the clock.                                        *)
Failure(e, c) ==
  [failures |-> e.failures + 1, code |-> c,
   changes |-> IF e.failures > 0 /\ e.code # c THEN e.changes + 1 ELSE e.changes]

(* Mutant: the report of a recovery does not end the episode.              *)
RecoveryKeepsCount(e) == e
RecoveryResets(e) == NoFailures

(* ReportResult: the stages in F fail with code c, those in R recover.     *)
Report(F, R, c) ==
  /\ episode' = [s \in Stages |-> IF s \in F THEN Failure(episode[s], c)
                                  ELSE IF s \in R THEN RecoveryResets(episode[s])
                                  ELSE episode[s]]
  /\ told' = [s \in Stages |-> IF s \in R THEN told[s] + episode[s].failures ELSE told[s]]
  /\ happened' = [s \in Stages |-> IF s \in F THEN happened[s] + 1 ELSE happened[s]]

(* SceneRuntime::Process, ReportResult, Unmap: a failed post-processor     *)
(* ends the frame's processing, a failed plugin shows that it recovered.   *)
Runtime ==
  /\ pc[Bus] = "runtime" /\ Goto(Bus, "send")
  /\ \/ Report({}, Stages, 0)
     \/ \E c \in Codes : Report({"postprocessor"}, {}, c)
     \/ \E c \in Codes : Report({"business"}, {"postprocessor"}, c)
  /\ maps' = [maps EXCEPT ![hand[Bus]] = {}]
  /\ UNCHANGED <<got, queue, hand, dest, seq, written, refused, dropped, failed, streak,
                 exit>>

SkipRuntime ==
  /\ pc[Bus] = "blind" /\ Goto(Bus, "send")
  /\ UNCHANGED <<frame, dest, books, exit>>

(* VencHelper::Write does not wait: the encoder takes the frame or refuses *)
(* it, and EncProcess::Process returns 0 all the same.                     *)
WriteVenc ==
  /\ pc[Enc] = "write" /\ End(Enc, queue)
  /\ \/ written' = Append(written, hand[Enc]) /\ UNCHANGED refused
     \/ refused' = refused + 1 /\ UNCHANGED written
  /\ UNCHANGED <<seq, dropped, failed, streak, limits, exit>>

(* Mutant: a node that is to exit waits for a queue nobody empties.        *)
LeaveWhenDrained(n) ==
  /\ pc[n] = "idle" /\ Exiting(n) /\ queue[n] = <<>>
  /\ Goto(n, "exited")
  /\ UNCHANGED <<frame, dest, books, exit>>
Leave(n) ==
  /\ pc[n] = "idle" /\ Exiting(n)
  /\ Goto(n, "exited")
  /\ UNCHANGED <<frame, dest, books, exit>>

Worker(n) ==
  \/ n = Pre /\ (Pop(n, "ivps") \/ IvpsProcess \/ Copy2Host \/ Send(n, Inf))
  \/ n = Inf /\ (Pop(n, "infer") \/ InferFails \/ Infer \/ Send(n, Bus))
  \/ n = Bus /\ (Pop(n, "map") \/ MapFrame \/ SkipRuntime \/ Runtime \/ Send(n, Enc))
  \/ n = Enc /\ (Pop(n, "write") \/ WriteVenc)
  \/ Leave(n)

-----------------------------------------------------------------------------
(* ExitPipeline, as far as the frames are concerned.                       *)
Signal ==
  /\ main = "run" /\ main' = "eof"
  /\ UNCHANGED <<frame, pc, dest, books, k>>

(* StopDecode hands the decoder the end-of-stream packet, however long it  *)
(* takes, and then sets is_stop_, which counts from the receive thread's   *)
(* next look at it.                                                        *)
SendEof ==
  /\ main = "eof" /\ main' = "stop"
  /\ UNCHANGED <<frame, pc, dest, books, k>>

(* The decoder needs room for the packet: somebody who takes its frames,   *)
(* and frames given back.                                                  *)
EofMayBlock == pc[Vdec] = "exited" \/ Cardinality(lent) = Bufs

(* StopSources joins the receive thread.                                   *)
StopSources ==
  /\ main = "stop" /\ pc[Vdec] = "exited"
  /\ main' = "mark" /\ k' = Pre
  /\ UNCHANGED <<frame, pc, dest, books>>

Mark ==
  /\ main = "mark"
  /\ IF k < Enc THEN k' = k + 1 /\ UNCHANGED main ELSE k' = Pre /\ main' = "join"
  /\ UNCHANGED <<frame, pc, dest, books>>

(* Mutant: the manager is deleted with its messages still in the queue.    *)
JoinKeepsQueue ==
  /\ main = "join" /\ pc[k] = "exited"
  /\ IF k < Enc THEN k' = k + 1 /\ UNCHANGED main ELSE k' = k /\ main' = "destroy"
  /\ UNCHANGED <<frame, pc, dest, books>>
(* ~TaskNodeMgr joins the worker and empties the queue.                    *)
Join ==
  /\ main = "join" /\ pc[k] = "exited"
  /\ Hold(hand, [queue EXCEPT ![k] = <<>>], maps)
  /\ IF k < Enc THEN k' = k + 1 /\ UNCHANGED main ELSE k' = k /\ main' = "destroy"
  /\ UNCHANGED <<got, pc, dest, books>>

(* ~PreProcess, VdecHelper::Destory: again while the SDK says BUSY.        *)
DestroyGrp ==
  /\ main = "destroy" /\ lent = {}
  /\ main' = "done"
  /\ UNCHANGED <<frame, pc, dest, books, k>>

Exit == StopSources \/ Mark \/ Join \/ DestroyGrp

(* ExitPipeline sleeps, in a join or in Destory's loop, or is over; that   *)
(* it gets on is what ExitDone says.                                       *)
Wait == main # "run" /\ UNCHANGED vars

Next == \/ GetFrame \/ RecvEnds \/ Send(Vdec, Pre) \/ (\E n \in Nodes : Worker(n))
        \/ Signal \/ SendEof \/ Exit \/ Wait

(* Threads run, and the stages' computations and SDK calls return: the one *)
(* without a timeout if the decoder finds room again and again.  Neither a *)
(* frame nor the signal need come; the receive thread heeds its flag.      *)
Fairness ==
  /\ WF_vars(Send(Vdec, Pre))
  /\ WF_vars(main = "stop" /\ RecvEnds)
  /\ \A n \in Nodes : WF_vars(Worker(n))
  /\ SF_vars(SendEof /\ ~EofMayBlock)
  /\ WF_vars(Exit)

Spec == Init /\ [][Next]_vars
FairSpec == Spec /\ Fairness
-----------------------------------------------------------------------------
(* A frame is mapped exactly while SceneRuntime looks at it, and the IVPS  *)
(* frame leaves no mapping behind: EnsureMapped, Unmap and ~FrameData      *)
(* together leak nothing, whichever plane or stage fails.                  *)
MappedOnlyForRuntime ==
  /\ \A f \in Frames : maps[f] # {} => hand[Bus] = f /\ pc[Bus] = "runtime"
  /\ ~dest.live => dest.maps = {}

(* When ~PreProcess destroys the VDEC group no frame of it is alive, in    *)
(* whatever queue the exit found it: AX_VDEC_DestroyGrp is never BUSY.     *)
GroupIdleAtDestroy == main \in {"destroy", "done"} => lent = {}

Drops   == dropped[Pre] + dropped[Inf] + dropped[Bus] + dropped[Enc]
Errors  == failed[Pre] + failed[Inf] + failed[Enc]
Counted == Len(written) + Drops + Errors

(* Until the exit, a frame taken from the decoder is on its way, was taken *)
(* by the encoder, is counted (dropped_total_ of the queues, the errors    *)
(* returned by the stages), or is one the encoder refused: no other way to *)
(* lose a frame is left, whatever is full and whatever fails.              *)
LostOnlyAtEncoder ==
  /\ TypeOK
  /\ main = "run" => got = Cardinality(lent) + Counted + refused

(* Does not hold: that every frame that is missing is counted.             *)
NothingLostSilently == main = "run" => got = Cardinality(lent) + Counted

(* Every failure is in the open episode or was told of by one recovery     *)
(* report: BusProcess's limiters and InfProcess's streak lose none.        *)
EpisodesAccounted ==
  /\ \A s \in Stages : happened[s] = told[s] + episode[s].failures
  /\ \A s \in Stages : episode[s].failures = 0 => episode[s] = NoFailures
  /\ failed[Inf] = streak.told + streak.now

(* ExitPipeline ends.  It stops the source first, so that the workers give *)
(* frames back while SendEof waits for room, and the receive thread can    *)
(* always end its round; then each worker ends without emptying its queue. *)
(* Only a receive thread that ended too early can keep it in SendEof.      *)
ExitDone ==
  (main = "eof") ~> (main = "done" \/ [](main = "eof" /\ pc[Vdec] = "exited"))
=============================================================================
