------------------------------ MODULE Pipeline ------------------------------
(***************************************************************************)
(* The video pipeline of apps/main_rtsp.cpp: TaskScheduler with the        *)
(* external threads of its first node as the code manages them.            *)
(*                                                                         *)
(* PreProcess::Start, run by worker 1 when it handles kMsgAppStart, starts *)
(* the VDEC receive thread (whose callback sends each decoded frame to     *)
(* node 1) and the FFmpeg thread (which writes packets into the decoder).  *)
(* PreProcess::StopSources, run by the main thread, stops and joins them.  *)
(* No lock orders the two: what follows decides whether the contract that  *)
(* TaskScheduler assumes of StopSources is kept.                           *)
(***************************************************************************)
EXTENDS TaskScheduler

VARIABLES
  startPc,      \* worker 1 in PreProcess::Start
  stopPc,       \* the main thread in PreProcess::StopSources
  vdec,         \* the VDEC receive thread (RecvStreamFunc); "ready": the
                \* decoder receives, the thread does not exist (yet)
  fed,          \* the decoder has taken a packet from Write
  ff,           \* the FFmpeg thread (FFmpegDecoder::Decode)
  vdecStop,     \* VdecHelper::is_stop_
  recvStarted,  \* VdecHelper::recv_started_
  ffStop,       \* FFmpegDecoder::is_stop_
  ffStarted,    \* PreProcess::ffmpeg_started_
  early         \* history: the exit signal came before Start was over

decoderVars == <<vdec, fed, ff, vdecStop, recvStarted, ffStop, ffStarted>>
pipeVars    == <<startPc, stopPc, decoderVars, early>>
allVars     == <<vars, pipeVars>>

StartPcs == {"decode", "clearStop", "createRecv", "markRecv", "createFf",
             "markFf", "end"}
StopPcs  == {"ffStop", "writeEof", "vdecStop", "joinRecv", "joinFf", "end"}

PipelineTypeOK ==
  /\ TypeOK
  /\ startPc \in StartPcs
  /\ stopPc \in StopPcs
  /\ vdec \in {"none", "ready", "loop", "frame", "done"}
  /\ ff \in {"none", "open", "read", "write", "done"}
  /\ \A b \in {fed, vdecStop, recvStarted, ffStop, ffStarted, early} : b \in BOOLEAN

PipelineInit ==
  /\ Init
  /\ startPc = "decode" /\ stopPc = "ffStop"
  /\ vdec = "none" /\ fed = FALSE /\ ff = "none"
  /\ vdecStop = FALSE /\ recvStarted = FALSE
  /\ ffStop = FALSE /\ ffStarted = FALSE
  /\ early = FALSE

-----------------------------------------------------------------------------
(* PreProcess::Start and, inside it, VdecHelper::Decode, by worker 1.      *)

InStart(pc) ==
  /\ worker[Source] = "process" /\ handling[Source] = "start"
  /\ startPc = pc
  /\ UNCHANGED <<vars, stopPc, early>>

StartRecvStream ==
  /\ InStart("decode")
  /\ \/ vdec' = "ready" /\ startPc' = "clearStop"
     \/ vdec' = vdec /\ startPc' = "createFf"             \* the SDK refuses
  /\ UNCHANGED <<fed, ff, vdecStop, recvStarted, ffStop, ffStarted>>

ClearIsStop ==
  /\ InStart("clearStop")
  /\ vdecStop' = FALSE
  /\ startPc' = "createRecv"
  /\ UNCHANGED <<vdec, fed, ff, recvStarted, ffStop, ffStarted>>

CreateRecvThread ==
  /\ InStart("createRecv")
  /\ \/ vdec' = "loop" /\ startPc' = "markRecv"
     \/ vdec' = vdec /\ startPc' = "createFf"             \* pthread_create fails
  /\ UNCHANGED <<fed, ff, vdecStop, recvStarted, ffStop, ffStarted>>

(* Mutant: recv_started_ is never set, so StopDecode has nothing to join.  *)
ForgetRecvStarted ==
  /\ InStart("markRecv")
  /\ recvStarted' = FALSE
  /\ startPc' = "createFf"
  /\ UNCHANGED <<vdec, fed, ff, vdecStop, ffStop, ffStarted>>

MarkRecvStarted ==
  /\ InStart("markRecv")
  /\ recvStarted' = TRUE
  /\ startPc' = "createFf"
  /\ UNCHANGED <<vdec, fed, ff, vdecStop, ffStop, ffStarted>>

CreateFfThread ==
  /\ InStart("createFf")
  /\ \/ ff' = "open" /\ startPc' = "markFf"
     \/ ff' = ff /\ startPc' = "end"                      \* pthread_create fails
  /\ UNCHANGED <<vdec, fed, vdecStop, recvStarted, ffStop, ffStarted>>

MarkFfStarted ==
  /\ InStart("markFf")
  /\ ffStarted' = TRUE
  /\ startPc' = "end"
  /\ UNCHANGED <<vdec, fed, ff, vdecStop, recvStarted, ffStop>>

Start == \/ StartRecvStream \/ ClearIsStop \/ CreateRecvThread
         \/ MarkRecvStarted \/ CreateFfThread \/ MarkFfStarted

-----------------------------------------------------------------------------
(* PreProcess::StopSources and, inside it, VdecHelper::StopDecode, by the  *)
(* main thread.  The exchange on sources_stopped_ lets it run once: the    *)
(* call in ~PreProcess returns at once and is part of DeleteNode.          *)

InStop(pc) ==
  /\ mainPc = "stopSources"
  /\ stopPc = pc
  /\ UNCHANGED <<startPc, early>>

StopFf ==
  /\ InStop("ffStop")
  /\ ffStop' = TRUE
  /\ stopPc' = "writeEof"
  /\ UNCHANGED <<vars, vdec, fed, ff, vdecStop, recvStarted, ffStarted>>

(* StopDecode sends the end-of-stream packet first, without a timeout.     *)
WriteEof ==
  /\ InStop("writeEof")
  /\ stopPc' = "vdecStop"
  /\ UNCHANGED <<vars, decoderVars>>

(* A decoder that was fed and whose frames nobody takes may have no room   *)
(* left for the packet: then SendStream(.., -1) need not return.           *)
EofMayBlock == fed /\ vdec \in {"ready", "done"}

(* Mutant: StopDecode relies on FLOW_END alone to end the receive thread.  *)
StopVdecKeepsFlag ==
  /\ InStop("vdecStop")
  /\ stopPc' = "joinRecv"
  /\ UNCHANGED <<vars, vdec, fed, ff, vdecStop, recvStarted, ffStop, ffStarted>>

StopVdec ==
  /\ InStop("vdecStop")
  /\ vdecStop' = TRUE
  /\ stopPc' = "joinRecv"
  /\ UNCHANGED <<vars, vdec, fed, ff, recvStarted, ffStop, ffStarted>>

(* Mutant: StopDecode returns on an SDK error before its pthread_join.     *)
SkipJoinRecvThread ==
  /\ InStop("joinRecv")
  /\ recvStarted' = FALSE
  /\ stopPc' = "joinFf"
  /\ UNCHANGED <<vars, vdec, fed, ff, vdecStop, ffStop, ffStarted>>

JoinRecvThread ==
  /\ InStop("joinRecv")
  /\ recvStarted => vdec = "done"
  /\ recvStarted' = FALSE
  /\ stopPc' = "joinFf"
  /\ UNCHANGED <<vars, vdec, fed, ff, vdecStop, ffStop, ffStarted>>

(* The last statement of StopSources; the other nodes' StopSources are the *)
(* empty default, so ExitPipeline goes on to app.Exit().                   *)
JoinFfThread ==
  /\ InStop("joinFf")
  /\ ffStarted => ff = "done"
  /\ ffStarted' = FALSE
  /\ stopPc' = "end"
  /\ sourcesStopped' = TRUE
  /\ mainPc' = "mark"
  /\ UNCHANGED <<k, waitEnd, objectVars, status, workerVars, queue, ext,
                 vdec, fed, ff, vdecStop, recvStarted, ffStop>>

FairStop == \/ StopFf \/ StopVdec \/ JoinRecvThread \/ JoinFfThread
            \/ WriteEof /\ ~EofMayBlock

Stop == FairStop \/ WriteEof

-----------------------------------------------------------------------------
(* The VDEC receive thread: RecvStreamFunc and VdecProcessCallbackFunc     *)

(* The loop test, then GetChnFrame delivers a frame; a timeout or a        *)
(* recoverable error only loops.                                           *)
VdecGetFrame ==
  /\ vdec = "loop" /\ ~vdecStop
  /\ vdec' = "frame"
  /\ UNCHANGED <<vars, startPc, stopPc, fed, ff, vdecStop, recvStarted,
                 ffStop, ffStarted>>

(* The loop test fails, or GetChnFrame reports FLOW_END or an unknown code *)
(* (which it may do at any time): both end the thread.                     *)
VdecExit ==
  /\ vdec = "loop"
  /\ vdec' = "done"
  /\ UNCHANGED <<vars, startPc, stopPc, fed, ff, vdecStop, recvStarted,
                 ffStop, ffStarted>>

(* SendMessage(InstanceId(), kMsgVdecData): load slot 1, then push.        *)
VdecSend ==
  /\ vdec = "frame" /\ ext = "idle"
  /\ IF mgr[Source] = "null" THEN vdec' = "loop" /\ UNCHANGED ext
                             ELSE ext' = "push" /\ UNCHANGED vdec
  /\ UNCHANGED <<mainVars, waitEnd, objectVars, status, workerVars, queue, sourcesStopped,
                 startPc, stopPc, fed, ff, vdecStop, recvStarted, ffStop, ffStarted>>

VdecPush ==
  /\ vdec = "frame"
  /\ ExternalPush
  /\ vdec' = "loop"
  /\ UNCHANGED <<startPc, stopPc, fed, ff, vdecStop, recvStarted, ffStop, ffStarted>>

VdecThread == (VdecGetFrame \/ VdecExit \/ VdecSend \/ VdecPush) /\ UNCHANGED early

-----------------------------------------------------------------------------
(* The FFmpeg thread: FFmpegDecoder::Decode and FrameProcessCallbackFunc   *)

FfStep(from, to) ==
  /\ ff = from
  /\ ff' = to
  /\ UNCHANGED <<vars, startPc, stopPc, vdec, vdecStop, recvStarted,
                 ffStop, ffStarted>>

FfOpen  == (FfStep("open", "read") \/ FfStep("open", "done")) /\ UNCHANGED fed
FfWrite == ~ffStop /\ FfStep("read", "write") /\ UNCHANGED fed   \* packet in hand
FfExit  == FfStep("read", "done") /\ UNCHANGED fed               \* is_stop_, end, timeout

(* Write returned: a decoder that receives took the packet, or it had no   *)
(* room and the packet is lost; Write does not wait.                       *)
FfWrote == /\ FfStep("write", "read")
           /\ fed' \in {fed, fed \/ vdec # "none"}

FfThread == (FfOpen \/ FfWrite \/ FfWrote \/ FfExit) /\ UNCHANGED early

-----------------------------------------------------------------------------
(* The other steps are those of TaskScheduler; only node 1 has a long      *)
(* handler for kMsgAppStart.                                               *)

(* PreProcess::Start is to come or under way: main has not given up.       *)
StartAhead ==
  startPc # "end" /\ mainPc \in {"create", "waitInit", "sendStart", "wait"}

PipelineSignal ==
  /\ Signal
  /\ early' = (early \/ StartAhead)
  /\ UNCHANGED <<startPc, stopPc, decoderVars>>

SchedulerMain ==
  /\ \/ CreateThread \/ WaitThreadInitEnd \/ SendAppStart \/ WaitReturns
     \/ MarkExiting \/ JoinAndDelete \/ ClearSlot \/ ReleaseMain \/ DeleteNode
  /\ UNCHANGED pipeVars

PipelineWorker(i) ==
  /\ \/ WorkerInit(i) \/ WorkerPop(i) \/ WorkerSend(i) \/ WorkerPush(i) \/ WorkerExit(i)
     \/ ProcessReturns(i) /\ (i = Source /\ handling[i] = "start" => startPc = "end")
  /\ UNCHANGED pipeVars

PipelineMain == SchedulerMain \/ Stop
FirstWorker  == PipelineWorker(Source) \/ Start

PipelineNext ==
  \/ PipelineMain \/ PipelineSignal \/ Start \/ VdecThread \/ FfThread
  \/ \E i \in Nodes : PipelineWorker(i)

PipelineSpec == PipelineInit /\ [][PipelineNext]_allVars

(* The operating system schedules every thread, and the Init and Process   *)
(* of a stage return.  GetChnFrame waits 200 ms, Write does not wait and   *)
(* the RTSP reads give up after 5 s; the one SDK call without a timeout is *)
(* WriteEof, which is fair only while it cannot block.  The signal may     *)
(* never come.                                                             *)
Fairness ==
  /\ WF_allVars(SchedulerMain \/ FairStop)
  /\ WF_allVars(FirstWorker)
  /\ \A i \in Nodes \ {Source} : WF_allVars(PipelineWorker(i))
  /\ WF_allVars(VdecThread)
  /\ WF_allVars(FfThread)

FairPipelineSpec == PipelineSpec /\ Fairness

-----------------------------------------------------------------------------
(* Properties *)

(* The scheduler's view of the sources: after StopSources returned nobody  *)
(* outside the workers sends (task_node.h, the contract TaskScheduler      *)
(* assumes); every step of the pipeline is a step of TaskScheduler, as     *)
(* long as no signal came while PreProcess::Start was to run or running.   *)
KeepsSourceContract == Init /\ [][early \/ Next]_vars

SourcesGone == vdec \in {"none", "ready", "done"} /\ ff \in {"none", "done"}

(* After StopSources both threads are gone: they no longer call            *)
(* SendMessage nor touch the PreProcess object (pre_process.h), unless a   *)
(* signal came before Start was over.                                      *)
SourcesJoined ==
  /\ PipelineTypeOK
  /\ sourcesStopped /\ ~early => SourcesGone

(* Does not hold: that both threads are gone whenever the signal came.     *)
AlwaysJoined == sourcesStopped => SourcesGone

(* Does not hold, in any run that reaches the FFmpeg thread: that a packet *)
(* is never written into a decoder that was told to stop.  StopSources     *)
(* joins the feeding thread only after StopDecode (pre_process.h).         *)
NoWriteAfterVdecStop ==
  ff = "write" => stopPc \in {"ffStop", "writeEof", "vdecStop"}

(* The three places where the main thread can wait for ever: in WriteEof   *)
(* when nobody takes frames any more; for a receive thread whose stop      *)
(* request an early signal let Start erase (Decode clears is_stop_); for a *)
(* worker still in Init when ReleaseThreads marked the running ones.       *)
StuckInEof  == stopPc = "writeEof" /\ EofMayBlock
StopErased  == early /\ stopPc = "joinRecv" /\ recvStarted /\ ~vdecStop
NeverMarked == mainPc = "join" /\ status[k] = "Running"

Ending == waitEnd \/ \E i \in Nodes : status[i] = "Error"

(* Once the signal came or a node failed, main joins every thread, frees   *)
(* every object and returns, unless it stays in one of those three waits;  *)
(* no other join, wait or release order keeps the program from ending.     *)
ExitsOrHangs ==
  Ending ~> (mainPc = "done" \/ [](StuckInEof \/ StopErased \/ NeverMarked))

(* Does not hold: that a signal always ends the program.                   *)
ExitCompletes == waitEnd ~> mainPc = "done"

(* Does not hold: that a node whose Init failed makes the program end.     *)
FailedStartExits == (\E i \in Nodes : status[i] = "Error") ~> mainPc = "done"
=============================================================================
