# Verification of the ax_code pipeline

The repository is an edge video-analytics program for an Axera SoC: an RTSP
stream is decoded in hardware, a detector runs on each frame, post-processors
and a business plugin (face recognition and visitor alerts) consume the
detections, and the annotated stream is encoded again. This directory holds
TLA+ models of its concurrent core, the TLC configurations that check them, and
TLAPS proofs. Paths below are relative to the repository.

1. [The system](#1-the-system)
2. [Modules](#2-modules-and-how-they-correspond-to-the-code)
3. [Runs](#3-runs)
4. [Disagreements between the code and its documents](#4-disagreements)
5. [Proofs](#5-proofs)
6. [What is left out, and the abstractions](#6-abstractions-and-limits)
7. [Plan](#7-plan)

## 1. The system

### Threads

| thread | created by | runs | ends when |
|---|---|---|---|
| main | - | `main_rtsp.cpp`: start, wait for SIGINT/SIGTERM, `ExitPipeline` | returns from `main` |
| worker 1..4 | `TaskScheduler::Start` | `TaskNodeMgr::ThreadEntry`: `Init`, then `Process` per message | its status leaves `kRunning`, or `Init` failed |
| VDEC receive | worker 1, in `PreProcess::Start` | `VdecHelper::RecvStreamFunc`, sends each frame to node 1 | `is_stop_`, or the SDK ends the flow |
| FFmpeg | worker 1, in `PreProcess::Start` | `FFmpegDecoder::Decode`, writes packets into the decoder | `is_stop_`, end of stream, read timeout |
| encoder receive | worker 4 | `VencHelper` | stop flag |
| pool (2) | `HostServices::Init` | `ThreadPool::WorkerLoop`: identify and push jobs | pool shut down and queue empty |

### Components

State, operations and what makes each one correct. *M*: every operation that changes
state is modelled; *p*: in part; *-*: not modelled. `PROJECT.json` says for each *p* what
is missing.

| component | state | operations | correct when | |
|---|---|---|---|---|
| `TaskScheduler` | `thread_list_` (raw pointers), `wait_end_` | Start, SendMessage, Wait, Exit, TaskNodeIdByName | no call on a deleted manager; exit terminates; a failed start terminates | p |
| `TaskNodeMgr`, `ThreadSafeQueue` | status, bounded queue, drop counters | ThreadEntry, PushMessage, WaitThreadInitEnd, Join | status only advances; queue bounded; drops counted | M |
| `main_rtsp` | table of nodes | start, kMsgAppStart, ExitPipeline | sources, then workers, then nodes | p |
| `PreProcess`, `VdecHelper`, `FFmpegDecoder` | two threads, four flags | Start, StopSources, callbacks, Write | after StopSources no source thread is left; the group is idle when it is destroyed | p |
| `InfProcess`, `BusProcess`, `EncProcess` | models, chain, plugin, encoder, failure streak | Init, Process, destructors | each frame goes on or is counted; mappings undone; failures reported in episodes | p |
| `HostServices` async, `ThreadPool` | in-flight gate per plugin, job queue | SubmitAsync, WaitQuiesce, Init, Shutdown | gate = jobs in flight; no wake-up lost; clients outlive the pool | M |
| `PluginManager` | library handle, plugin object | Load, Unload | plugin and library outlive their users | M |
| `FacePlugin` | track table, answers | OnFrame, identify job, lost-track job, Shutdown | one report per visitor, no stuck or stale wait, no leak | M |
| `SceneRuntime`, `PostProcessorChain` | loaded components | Load with rollback, Process, Unload | reverse-order cleanup, each once | M |
| `RuleEngine` | loaded rules | Load, Unload | the same; nothing in the program calls it | p |
| `BYTETracker`, `lapjv`, `TrackerProcessor` | tracked, lost, removed lists; id counter | update, linear_assignment, Process | lists disjoint, ids never reused, cheapest assignment | p |
| `HwIdAllocator` | shared-memory table, robust mutex | Acquire, Release, recovery | an id has one live owner, crashes included | M |
| `HttpClient`, `QdrantClient` | handle pool, retry loop | Acquire, Release, Request, Upload, Execute | pool bound; calls end; ok means applied | p |
| `FaceServerClient` | - | PushAlert, PushVisitor | at most once | M |
| `FailureRateLimiter` | streak, window | OnFailure, OnRecovery | every failure in one report | M |
| `FrameData`, `ImageData` | mappings of frame planes | Map, Unmap, Clone, Destroy | every mapping undone once | p |
| `IvpsHelper`, `VencHelper`, `Resource` | SDK groups, pools, threads | Init with rollback, Destroy | every creation undone once, dependents first | p |
| `FFmpegEncoder`, JPEG | output file, JPEG buffer | JpegEncode | buffer given back | p |
| models, `Engine` | engine handle, I/O buffers | Init, PrepareIo, FreeIo | nothing freed twice, nothing left | p |
| drawing, scene configuration, `main_img` and older code | - | pure or numeric | - | - |

### Interactions

* main -> worker: `thread_create`, `kMsgAppStart` through the node's queue, the
  status word, join.
* worker -> next worker: `SendMessage` loads `thread_list_[dest]` and pushes. No
  lock protects the table; the order of the teardown does.
* VDEC thread -> worker 1: `SendMessage` to its own node. FFmpeg thread -> VDEC:
  `Write`. main -> both: plain or atomic flags, then join.
* worker 3 (BusProcess) -> plugin: `OnFrame`; plugin -> pool: `SubmitAsync`; pool ->
  plugin: `PostIdentifyResult`. main (in `~BusProcess`) -> plugin: `Unload`, after
  worker 3 was joined, so `OnFrame`, `SubmitAsync` and `Unload` are sequential.
* pool thread -> servers: `QdrantClient::Execute` (retried) and `FaceServerClient::Push` (not
  retried), each request on a curl handle of one pool.
* worker 3 -> tracker: one `BYTETracker` per label, all drawing ids from one counter; the
  plugin keys its table by these ids and prunes it by an age of its own.
* a frame -> VDEC: whichever thread drops the last `shared_ptr` gives the frame back to the
  decoder's group, and `~PreProcess` (main) cannot destroy the group before.
* process -> process: `HwIdAllocator` shares a table of pids in `/dev/shm`.

### What is hard

Raw pointers used after a check; two unordered writers of a stop flag; a start
sequence cut short by a signal or by a failed `Init`; joins without timeout; a
counter decremented without its mutex; an object whose destructor lives in a
library being closed; asynchronous answers that arrive after the entry they are
meant for was erased; requests that are sent again while the first may still be under
way; processes that die inside a critical section; initialisations that fail half-way
and are retried; frames that must all come back before the decoder can be destroyed; an exit that begins with a
blocking call into that decoder. The list with the lines is `hazards` in `PROJECT.json`.

## 2. Modules and how they correspond to the code

```
ObjectLifetime     abstract: use only while alive, destroy once and unused
  ^ implemented by      ^ implemented by
TaskScheduler         PluginHost         FacePlugin  <- ids -  ByteTrack
  ^ extended and        | Shutdown waits   |   ^               any injective
  | implemented by      +--- for the gate -+   | answers       assignment
Pipeline                                    RemoteCalls           |
  : same threads                               ^ extends       Assignment
FramePath                                   HandlePool
  frames and failure books          HwIdAllocator   Acquisition
```

**ObjectLifetime** is the promise behind every teardown path: threads come and go (`Use`), but enter an
object only while it is alive; the owner destroys it once, when nobody is in it (`Destroy`).

**TaskScheduler** models `pipeline/` as driven by `main_rtsp.cpp`. `mainPc` and
`k` are the main thread's statement and loop index; `worker[i]` is the position of
worker `i` in `ThreadEntry`; `mgr[s]` says whether slot `s` of `thread_list_` points
to a live manager, to a deleted one (between `delete` and the assignment of null)
or is null; `status`, `queue`, `wait_end_` are the fields of the same name. A send
is two steps, the load of the slot and the call on what was loaded, because the
manager may be deleted in between. So is each comparison of a name: `Init` of every stage with a downstream calls
`TaskNodeIdByName`, which loads the slots one after the other (`probe`) and calls `NodeName()` on what it loaded, up to the
downstream's. What else `Init` does may fail before the lookup or after it (`InitFails`). `Downstream` is `next_thread_id_`; the
assumption that a node sends to a later one is how `thread_tbl` is written
(PreProcess -> InfProcess -> BusProcess -> EncProcess). The nodes' own threads
appear as one external sender bound by the contract in `task_node.h`: nothing is
sent once `StopSources` has returned.

**Pipeline** extends it with the code behind that contract: `PreProcess::Start` and
`VdecHelper::Decode` statement by statement on worker 1, `PreProcess::StopSources`
and `VdecHelper::StopDecode` on the main thread, the VDEC and the FFmpeg thread,
and the flags they share. `StopDecode` first sends the end-of-stream packet and waits for room as long as it takes
(`WriteEof`); `fed` says that the decoder has taken a packet, so that it may be full. `early` is a history variable: a
signal came while `PreProcess::Start` was still to come or under way.

**PluginHost** models `HostServices::SubmitAsync`/`WaitQuiesce`, `ThreadPool`, and
`PluginManager::Unload` with the pool's shutdown behind it. A closure goes through
`new, counted, queued, running, done` (or `refused`, `threw`). The predicate
of the condition variable is evaluated with the gate's mutex held (`mu = "host"`),
which is released on falling asleep; the last job out takes that mutex to notify,
but decrements the count without it. Spurious wake-ups are included.

**FacePlugin** models the track table. `pending` is the key set of
`track_pending_`; `inflight`, `featDone`, `kept` are the entries whose
`identify_inflight`, `feat_done`, `last_frame` is set. `OnFrame` is four kinds of
step, because pool threads run between them: drain the answers, refresh the
entries and submit the batch, visit each old entry, end. A job is the set of
items it has not answered yet. `reports`, `abandoned` and `threw` are history
variables.

**ByteTrack** models `BYTETracker::update` for every outcome of its three associations
and of the overlap test: which tracks of the pool got a detection, and which pairs of a
tracked and a lost track are twins. The lists hold records and an id may differ
between two of them, since the code copies `STrack`s between vectors in some places and changes
them through pointers in others. `UpdateLabel` is one step, because one thread runs it. The
list of unconfirmed tracks is left out: `activate` sets `is_activated` at once, so it is always empty.
`ReturnsInTime` is about what `update` returns; `Process` shows a subset of that (overlap of at
least 0.1).

**Assignment** is the solver behind these associations: `linear_assignment`, `lapjv` and
`lapjv_internal` loop by loop (`phase`), on integer costs. `_ccrrt_dense` is `ColumnReduction`, `Claim` and
`Transfer`, `_carr_dense` is `RowReduction`, `find_path_dense` and `_ca_dense` are the rest (`turns` is
the `k` of `_ca_dense`, `Left` what its swap with `x[i]` gives). It justifies that `ByteTrack` takes any
injective assignment, and says more: the assignment is the cheapest.

**HandlePool** models `HttpClient::HandlePool`, and **RemoteCalls**, which extends it, the
requests on its handles: a call is the sequence `acquire, perform, wait, release, decide, sleep` of
one thread; `opts` are the options left on a handle; `net` and `replies` are what is under
way. A request may be served after its client gave up, served and its answer lost, or never
served. `applied` and `done` are history variables.

**HwIdAllocator** models `EnsureShm`, `Acquire` and `Release`, one step per system call or
access to the shared table. `Crash` ends a process between any two steps: its file lock
goes, a mutex it holds becomes `Dead` (`EOWNERDEAD`), its slots stay, and the system may
give its pid to the next process.

**FramePath** follows the frames: `lent` is the set of frames somebody still refers to (a handler
or a queue), `maps` and `dest.maps` the planes mapped, `dropped`, `failed`, `streak` and
`episode` the books kept of what went wrong. A handler is a sequence of steps, each of which may
fail where the code handles a failure. `AX_VENC_SendFrame` is called without waiting and may refuse a
frame, which is then lost while `Process` returns 0: `refused` counts these, as nothing in the code does. The exit begins with the
end-of-stream packet, for which the decoder needs room (`SendEof`). The nodes' life cycle, which `TaskScheduler` models in
full, is reduced to running and exited.

**Acquisition** models the initialisations and destructors of nine classes. Each is a table of
calls translated from the code (what a call needs, takes, records, and what its error path releases
by hand), and one machine runs the tables: `Skip`, `Succeed` and `Fail` of a call, `Release` of one
entry of the list under way (`Releases`), `Undone` and `Cleaned` at the end of one, `Retry`,
`Destruct`. `held` is what the object has in fact, `noted` what its members say. An error path
releases what it names, a clean-up what the members record (`Released`). `stray` is what a call takes that no member
records and no error path names: the blocks `CreatePool` has in a local vector until it gives them all back at its
end, the channel `VdecHelper::Init` enables, and a pool whose destruction the SDK refused because blocks of it are out
(`Refusable`), which is only logged while `pool_id_` is cleared.

`MCxxx` modules give the constants; `xxx_proof` modules hold the theorems.

## 3. Runs

| run | checks | shows |
|---|---|---|
| `scheduler_lifetime` | `NeverNodeReleased MgrLifetime NodeLifetime NeverRunsAgain` | four nodes, any `Init` may fail, a signal at any time: the release order is enough to protect the unlocked table, lookups of a worker that a failed start left in `Init` excepted |
| `pipeline_shutdown` | `SourcesJoined KeepsSourceContract ExitsOrHangs` | a signal at any time, inside `Start` as well, any `Init` may fail: unless the signal is early, no source thread survives and the pipeline implements `TaskScheduler`; in every case main returns, but for three named waits |
| `plugin_unload` | `GateInv PluginLifetime UnloadCompletes` | the gate counts the jobs in flight, the plugin is destroyed beside no job, and unless one threw the unloading ends |
| `face_tracks` | `InflightAccounted ReportedOnce GoneTrackForgotten` | no stuck or stale wait, one report per visitor, the table does not leak |
| `tracker_frames` | `IdsUnique StateMatchesList ReturnsInTime GraceKept` | an id means one track, its state and list agree, a lost track comes back in time or never, and none leaves before its time |
| `track_assignment` | `RowsAccounted PaysLeast WalkIsShort Optimal Advances Ends` | on every cost matrix of the bounds: no row is lost, no walk back along a path is as long as `_ca_dense` fears, the result is the cheapest pairing with no pair dearer than the limit, no step is idle, and the solver ends |
| `remote_calls` | `HandlesAccounted OwnOptions HonestResult CallsEnd` | over a network that loses, delays and answers late: handles are counted, no request has another's options, ok means applied, a push is applied at most once, calls end |
| `frame_path` | `MappedOnlyForRuntime GroupIdleAtDestroy LostOnlyAtEncoder EpisodesAccounted ExitDone` | every frame comes back to the decoder, each one missing is counted or was refused by the encoder, mappings are undone, every failure is in one report, and the exit ends unless the receive thread ended before it |
| `hwid_crash` | `OneOwner InitAlone MutexMoves` | with crashes between any two steps and reused pids: one live owner per id, one initialiser, and the mutex of a dead owner is taken over |
| `startup_failures` | `ReleasesHeld DependentsFirst NothingLeft` | nine classes failing at every call, retried, destroyed: nothing is released twice; nothing before what needs it and nothing left, but for what a failing `CreatePool` and the VDEC channel leave |
| `pipeline_early_signal`, `plugin_throw` | one property each | violations, section 4 |

The type invariants are conjuncts of `SourcesJoined`, `StateMatchesList`, `RowsAccounted`,
`HandlesAccounted`, `HonestResult`, `LostOnlyAtEncoder`, `OneOwner` and `ReleasesHeld`; those of
`TaskScheduler`, `PluginHost` and `FacePlugin` are proved (section 5).

**Bounds.**

* The table of the program has four nodes: `scheduler_lifetime` uses four (265 000 states), `pipeline_shutdown`
  three (the source, a middle and a last node; the second middle node adds no new pair of
  neighbours; 380 000 states), `pipeline_early_signal` two. In the first two any set of nodes may fail. The safety properties of
  `pipeline_shutdown` were checked with four nodes as well (1.7 million states, signals that are not early). Queues hold one message instead of 256 (128 in the
  pool): full and empty queues, refusals and drops all occur, and a longer queue only delays them.
* `plugin_unload` has the two pool threads of the code and three closures, so that both threads are
  busy and one closure is queued or refused.
* `face_tracks` has two tracks and two threads; the frame limits 60 and 1500 become 1 and 3 with
  absences of up to 2, which keeps their order and both sides of each comparison, with ages
  counted to one past the larger.
* `tracker_frames` has two labels, `MaxTimeLost` 2, three ids, one new track per update, and seven
  frames: one past the longest gap, so that a track is lost, marked, revived and lost again.
* `track_assignment` has up to three rows and two columns with the costs 0, 1, 3 and 5 around a limit of
  4, hence extended matrices of up to five rows, with ties, pairs over the limit, and rows that throw each
  other out.
* `remote_calls` has two threads that share one handle, so that one waits, and one retry, so
  that an attempt is served after the next one was sent; each thread makes one call. A second call by
  the other thread reuses the handle with another method.
* `frame_path` has three frames, three buffers and queues of two, so that queues overflow, frames
  wait in several queues at the signal, and a streak of failures ends, changes its code or goes on; two error
  codes are what a changed code needs.
* `hwid_crash` has two processes, one with two threads, two pids and two ids of one kind (the
  kinds share only the mutex): enough for a race within a process, one between processes, a full table, and
  a pid that returns.
* `startup_failures` has two components per chain, two channels, planes and tensors (the first and
  a later one), and three calls of `Init` on one object.

**Deadlock** checking is off in `scheduler_lifetime`, `pipeline_*`, `plugin_*` and `face_tracks`, whose
models stop when the program has ended, or hangs in the way a liveness property is about,
and in `tracker_frames`, which stops at its last frame. The other runs check it: there a state without a
step is a thread that is stuck. `RemoteCalls` and `FramePath` have an explicit step that stutters where the bounded
run is over, and it says under which condition.

**Fairness.** Weak fairness of each thread: the operating system schedules it, and
but for one no step modelled here blocks without bound in itself. `GetChnFrame` has a timeout of
200 ms, `Write` does not wait, RTSP reads have a timeout of 5 s, HTTP requests have timeouts, and `Init` and
`Process` return. Waits on other threads are guards, not steps, so a join on a
thread that never ends stays a hang. The exception is `WriteEOF`, `AX_VDEC_SendStream` with a timeout of -1 on the main
thread (`vdec_helper.cpp:507`): it needs room in the decoder. In `Pipeline` it is fair only while `EofMayBlock` is false, that is while
nothing was ever written or the receive thread is there to take frames; in `FramePath`, which knows where the frames are, it needs a
receive thread and a buffer that is back, and is strongly fair, because the receive thread takes and the
workers give back buffers again and again. The signal has no fairness, nor have
submissions, the request to unload, spurious wake-ups, a full queue becoming free
at the right moment, the delivery of a frame, the start of a call, the server, or a process's start or
death. `PluginHost` adds strong fairness for taking the gate's mutex
in `NotifyGate`: spurious wake-ups could let the host hold it again and again, and a mutex
does not starve a thread for ever. `FacePlugin` assumes that frames keep coming until
the unload; `GoneTrackForgotten` is conditional on the queue not being full again
and again, since a refused push is only retried. `CallsEnd` relies on the server's silence being
ended by curl's timeout, on each thread making finitely many calls (a mutex and `notify_one` do not promise
that a waiter is ever first), and excepts runs in which `curl_easy_init` failed: `Release` then lowers
`created_` and wakes nobody (`http_client.cpp:73-75`). `MutexMoves` promises what weak fairness
justifies, that a free or orphaned mutex is taken and that an owner gives it back; not that a given thread is
the one to get it.

**Properties worth explaining.**

* `MgrLifetime`: nobody is inside a manager, `PushMessage` and the comparisons of `TaskNodeIdByName` included, when it
  is deleted, and nobody enters one that was. It implies `NoPushToFreedMgr`, which the theorems state by itself. Excepted are the
  lookups of a worker in `Init` once `Start` has returned (`LeftInInit`): `Start` gives up at the first node that failed
  and does not wait for the others. Of these the promise is false (`InitLookupSafe`, section 4).
* `NeverNodeReleased`: managers are deleted in table order while later workers still run, but a worker
  only sends to later slots and its own join precedes theirs, so the null-slot branch of `SendMessage` is
  dead at shutdown.
* `KeepsSourceContract`: the property is `TaskScheduler`'s `Spec` for as long as `early` is false; what the theorems
  say of `TaskScheduler` then holds of every run of the pipeline without an early signal.
* `ExitsOrHangs`: after a signal or a failed `Init` main returns, or stays for ever in one of three places, each of which the
  code can reach: `StuckInEof`, `WriteEOF` when the receive thread is gone and the decoder may be full; `StopErased`, the
  join of a receive thread whose stop request `VdecHelper::Decode` cleared (`vdec_helper.cpp:421`), which needs an early signal;
  `NeverMarked`, the join of a worker that was in `Init` when `ReleaseThreads` marked the running ones. What it says is that there is
  no fourth, and each of them is a line to repair.
* `ExitDone`: the same of the frames' side. As the source is stopped first and the workers go on meanwhile, frames do come
  back while `SendEof` waits; only a receive thread that ended by itself (`FLOW_END` or an unknown error) can keep it there.
* `InflightAccounted`: one outstanding request per entry with `identify_inflight`, and no answer under way
  that would end a newer entry's wait. It rests on the assumption `ReappearWithin <= PruneFrames + 1`: the
  tracker must give up an id before the plugin prunes its entry. What a tracker does is `ReturnsInTime`: a
  track returns at most `max_time_lost + 2` frames after its last detection (3 when that is 0), two more
  than the configuration's number, because a track is marked one frame late and takes part in one more
  association after it was marked. The shipped configuration gives 25 + 2 frames against 60
  (`configs/scenes/face_recognition.yaml:17-18`), but `track_buffer` is only checked to be positive
  (`tracker_processor.cpp:297`), so a configuration with a longer memory breaks `ReportedOnce`.
  `int(frame_rate / 30.0 * track_buffer)` is one less than the exact product for some pairs, such
  as 22 frames per second and a buffer of 75; the bound is stated on the result.
* `GroupIdleAtDestroy`: `VdecHelper::Destory` repeats `AX_VDEC_DestroyGrp` for as long as the SDK answers BUSY,
  so a frame kept anywhere hangs the exit. The group has 16 frames (`vdec_helper.cpp:245`) and a queue
  takes 256, so in operation the decoder runs dry before a queue is full. The run has as many
  buffers as frames, so that queues of two do overflow; the theorem covers every number of buffers.
* `WalkIsShort`: `_ca_dense` follows the predecessors until it meets the row it came from, and only an `ASSERT`,
  which `lapjv.h:17-46` compiles to nothing, stops it after `n` turns (`lapjv.cpp:309-311`). The assertion fires at
  turn `n`, not past it, so a path through every column would stop a debug build that is right. With the
  matrix `lapjv` builds no path needs every column; with other square matrices one may.
* `Advances`: the solver's measure, four naturals in lexicographic order, falls in every step. It is the safety half
  of `Ends`: what is left for fairness is that the function goes on.
* `LostOnlyAtEncoder`: the counters account for the frames that are missing, except at one place, where
  `EncProcess::Process` returns 0 whatever `VencHelper::Write` returned (`enc_process.h:76`). `BusProcess` counts a
  drop at the next queue and returns the error as well, so one loss appears in two log lines; the
  property counts it once, as `dropped_total_` does.
* `EpisodesAccounted`: `InfProcess` logs `fail_streak_` before it is incremented and `fail_total_` after
  (`inf_process.h:112-124`); the property is about what recovery reports add up to.
* `HonestResult`: a retried call that is reported as ok was applied, perhaps twice (an upsert is
  idempotent); a push is not retried and is applied at most once.
* `OneOwner`: a slot that names a reused pid stays taken until that process ends: the id is not lost for
  ever, but it is not available in the meantime.
* `ReleasesHeld`: `Resource`, `VdecHelper` and `VencHelper` release SDK objects in their destructors whatever
  `Init` did; such a release of what is not held is `Tolerated`, since the SDK answers it with an error that
  is logged.
* `DependentsFirst`, `NothingLeft`: both name what the code gets wrong and exclude everything else. When
  `AX_POOL_GetBlock` fails, `CreatePool` destroys the pool with the blocks it has (`ivps_helper.cpp:76`), which are then
  never given back, nor is the pool if the SDK refused: `Leavings` has them, but never all `N` blocks, as those are given back when
  the last was had. The VDEC channel enabled at `vdec_helper.cpp:257` is disabled by no path; its group goes before it. No other
  release of the nine classes comes too early and nothing else stays.

## 4. Disagreements

Each is a run that TLC ends with a counterexample; the quoted lines are in
`PROJECT.json` under `findings`.

| run | what happens |
|---|---|
| `pipeline_early_signal` | a signal before worker 1 handled `kMsgAppStart`: `StopSources` finds nothing to join, `Start` then creates both threads, and they call into objects being deleted (`AlwaysJoined`) |
| `plugin_throw` | a job that throws skips the decrement, and `Unload` waits for ever (`ShutdownAlwaysCalled`) |

Further counterexamples, which have no run of their own; each is a property of a module, marked there as one that does not hold, and
is found with the constants given:

| property | constants | what happens |
|---|---|---|
| `InitLookupSafe` | `scheduler_lifetime`'s | one node's `Init` fails while a later one is still in `Init`: `Start` gives up, main deletes managers, and `TaskNodeIdByName` compares the name of a deleted one or dereferences null. `docs/code-review-2026-08-24.md:798-800` calls the lookups safe because `Start` creates all managers first |
| `FailedStartExits` | `pipeline_shutdown`'s | the same window: only running nodes are told to exit, the one in `Init` starts running afterwards, and `Join` hangs; `docs/code-review-2026-08-24.md:357-361` says failures at start are handled correctly |
| `ExitCompletes` | `pipeline_early_signal`'s, under `FairPipelineSpec` | the receive thread ended by itself and the decoder is full: `WriteEOF` never returns; or a signal inside `VdecHelper::Decode`: its `is_stop_.store(false)` erases the stop request, and `pthread_join` never returns |
| `NothingLostSilently` | `frame_path`'s | the encoder refuses a frame and no counter knows; `docs/code-review-findings.md:223-235` (M5) asks for `return ret;`, which `enc_process.h:86` does not do |
| `ReverseOrder` | `startup_failures`' with `Subjects = {"ivps"}` | the second block of a pool cannot be had, and `CreatePool` destroys the pool while it has the first (`docs/code-review-findings.md:92` asks for reverse order) |
| `NothingLeftAtAll` | the same | then the object goes: the block was never given back, and the pool whose destruction failed is forgotten |
| `NothingLeftAtAll` | `startup_failures`' with `Subjects = {"vdec"}` | the channel is never disabled, whether or not `Init` succeeded |
| `NoWriteAfterVdecStop` | `pipeline_shutdown`'s | the FFmpeg thread is joined after the decoder was stopped, and still writes into it (`pre_process.h:51` says the order is meant to prevent that) |
| `CodeUnused` | `plugin_unload`'s | the gate reaches zero before the pool thread has destroyed the closure; `dlclose` may unmap its destructor |

## 5. Proofs

Eight `xxx_proof` modules, each named after the module it is about; `Pipeline_proof` is about `TaskScheduler` first and
then about the pipeline that extends it, `Acquisition_proof` about `Acquisition` first and then about `PluginHost`, which
models what may still run while `HostServices` is taken down. All theorems are about `Spec` (`PipelineSpec` for the
pipeline, `ObjectSpec` for `Acquisition`), of which they use no fairness, and about every value of the constants that the
named assumptions of the modules allow: any table, capacity and set of failing nodes; any finite sets of
jobs, tracks, processes, threads and handles; any number of components, channels, planes and tensors; any limits.

| module | theorem | states |
|---|---|---|
| `Pipeline_proof` | `TypeCorrect`, `TeardownCorrect` | `TypeOK`, `TeardownInv` |
| | `PushSafe`, `ReleasedBranchDead` | no push into a deleted manager; the null-slot branch is dead |
| | `NoRestart` | the action property `NeverRunsAgain` |
| | `ManagersOutliveUsers`, `NodesOutliveWorkers` | `TaskScheduler` implements `ObjectLifetime`, twice |
| | `SourcesCorrect` | `SourcesJoined` |
| | `ContractKept` | the pipeline implements `TaskScheduler` until a signal is early (`KeepsSourceContract`) |
| | `PipelineSafe` | hence no push into a freed manager and both lifetimes in the pipeline, in every behaviour with `[]~early` |
| `Acquisition_proof` | `ReleasesHeldCorrect`, `DependentsFirstCorrect` | `ReleasesHeld`, `DependentsFirst` |
| | `NothingLeftCorrect` | `NothingLeft` |
| | `TypeCorrect`, `GateCorrect` | `PluginHost`'s `TypeOK`, `GateInv` |
| | `PluginOutlivesJobs` | `PluginHost` implements `ObjectLifetime` |
| `FacePlugin_proof` | `TypeCorrect`, `InflightCorrect`, `ReportedOnceCorrect` | `TypeOK`, `InflightAccounted`, `ReportedOnce` |
| `ByteTrack_proof` | `IdsCorrect`, `StateCorrect` | `IdsUnique`, `StateMatchesList` |
| | `ReturnsCorrect`, `GraceCorrect` | the action properties `ReturnsInTime`, `GraceKept` |
| `Assignment_proof` | `RowsAccountedCorrect`, `PaysLeastCorrect` | `RowsAccounted`, `PaysLeast` |
| | `OptimalCorrect` | `Optimal`: no other pairing is cheaper |
| | `WalkCorrect` | `WalkIsShort` |
| | `AdvancesCorrect` | the action property `Advances`: every step brings the end nearer |
| `RemoteCalls_proof` | `HandlesCorrect`, `OwnOptionsCorrect`, `HonestCorrect` | `HandlesAccounted`, `OwnOptions`, `HonestResult` |
| `HwIdAllocator_proof` | `OneOwnerCorrect`, `InitAloneCorrect` | `OneOwner`, `InitAlone` |
| `FramePath_proof` | `MappingsCorrect`, `GroupIdleCorrect`, `EpisodesCorrect` | `MappedOnlyForRuntime`, `GroupIdleAtDestroy`, `EpisodesAccounted` |
| | `LostOnlyAtEncoderCorrect` | `LostOnlyAtEncoder` |

*TaskScheduler.* Assumption: `SchedulerAssumption` (positive counts, downstream nodes
later in the table). That no sender holds a freed manager is not inductive: one must know
which slots the release loop has passed, that the workers of passed slots have ended, that
no worker is created after the teardown began, and that the sources are quiet by then.
`TeardownInv` says this, one conjunct each. A worker `i` inside `PushMessage` is in
`ThreadEntry`, so its own manager is live, so the loop has not passed `i`; its
downstream is larger, so it is live too. That step uses the order of the table and is
why the assumption is needed. A worker that looks a name up, while `Start` waits, meets live managers because nothing is released
before `Start` has returned; afterwards it is one of the excepted. The lifetime theorems map each step to `Use`,
`Destroy` or a stutter; no assumption says which `Init` may fail.

*Pipeline.* `PipeInv` has three parts: when `PreProcess::Start` may run (`StartWindow`), that a thread which exists
was marked as started once `Start` is past the line (`ThreadsMarked`), and what `StopSources` has joined so far
(`JoinOrder`). Unless a signal is early, `Start` and `StopSources` cannot overlap, so the flags are final when
`StopSources` reads them; `LateInv` is therefore conditional on `early`, which never becomes false again. `PipelineStep` then shows that each of the pipeline's steps is a step of
`TaskScheduler` or leaves its variables alone; the last join is the abstract `StopSources`, whose guard is that no
source is inside a send. The theorems about `TaskScheduler` apply through this refinement and are not proved
again.

*Acquisition.* Assumption: `AcquisitionAssumption` (the classes there are tables of, positive numbers). What a release may
take depends on every call before it, so none of the three properties is inductive. `ObjectInv` has a part for each
phase. In `Init`, `Inside` says for each class, call by call, what is held and what is noted before it: this is where
the tables are compared with themselves. On an error path, `Undoing` says that what the path has not released yet is
held, that nothing which stays needs it (`Frees`), and that what stays fits the place where the object goes on
(`After`): the clean-up, a later call, or the error, after which `Init` may be called again (`Over`). A clean-up may trust the
records because whatever is held is noted, and whatever is noted without being held is something the SDK refuses to destroy
(`Rest`); `Cleaning` adds that all that is held is still to come in the list.

The machine's steps keep this if every call of every table is right in itself: `CallOK` says so of skipping it, of its
success and of its failure, error path included, and is proved table by table for every `N` (`EngineCalls`, `BusCalls` and the like,
put together in `EveryCall`). A list of releases is right if nothing is in it twice and nothing comes before an entry that
needs it (`Listing`); appending lists whose entries do not need each other the wrong way round keeps this
(`ListingConcat`), which is how the clean-up of a `BusProcess` follows from those of the plugin, the chain and the host. `Balanced`
says that a destructor lists exactly what the class's calls take, so it leaves nothing.

What is astray is a separate invariant, `StrayInv`, by class. `StrayTypeOK` says which classes have something astray, `BlocksBack`
that an `Init` which has noted its pool has no block out, and that of the blocks of one `Init` the last is out only between
its call and the end of `CreatePool`, which gives back all. So a clean-up never destroys a pool whose blocks are out
(`ReleasedIsUnneeded`), only the error path of `CreatePool` does, and what stays is in `Leavings` (`OnlyLeavings`).

*PluginHost.* Assumption: `PluginHostAssumption` (finite closures, positive bound).
`GateInv` is inductive with `TypeOK`: `count` is the cardinality of the closures in flight,
no two pool threads run the same closure, and from the moment `WaitQuiesce` returned
nothing is in flight. It includes closures that threw, which is why the count never
reaches zero after one.

*FacePlugin.* Assumptions: `FacePluginAssumption` (the order of the frame limits, among them that
the tracker gives an id up before its entry is pruned) and `NoJobAssumption`. Neither property
is inductive: both need to know where a track's request is. `IInv` says, track by track, that the
request is in one place (`OneRequest`), that the entry's flags fit that place (`EntryKnows`), that the
number of reports fits it (`ReportsFit`), and that an id without an entry is new or does not come back
(`NoReturn`). A prune is where they meet: the entry that is pushed as a stranger is not in flight, so
no request is left that could report it again, and its age is past `ReappearWithin`, so no new request will
be made.

*ByteTrack.* Assumption: `ByteTrackAssumption` (natural numbers). `TrackedFit` says that every track in use was matched
in its label's last update and is not in the removed list; `LostFit` bounds the age of a lost track by
whether it has been marked: unmarked ones are at most `MaxTimeLost` old (1 if that is 0), marked ones one frame
older. `ReturnsInTime` follows because a match adds the frame under way. That bound is what the constant
`ReappearWithin` of `FacePlugin` stands for.

*Assignment.* Assumption: `AssignmentAssumption` (positive sizes, a nonempty set of natural costs, an even limit: the
costs can be scaled so that half the limit is an integer). Neither invariant is inductive. `IInv` has a part for each
stretch of the solver. `Bordered` is what `lapjv` adds around the matrix. `Claiming` and `Transferring` say that column
reduction leaves each price at its column's least cost, that a claimed column stays its row's cheapest while
other rows transfer, and that the rows already looked at are matched or in `free_rows`. `Placed` says that the matched rows and the
waiting ones are all rows, once each, and that each matched row has its cheapest column. In a search, `Searching` says that
`d` holds the distances so far (`Shortest`), that the columns ready are no farther than the level and the others no nearer
(`Ordered`), and that the predecessor of a column is the root or the row of a column looked at before. Repricing at a free column then makes every
column on the way its row's cheapest, with its old and its new row (`RepricedKeeps`), and `Flipping` says that
whichever way `_ca_dense` walks back, it gives each row it meets a cheapest column, until it comes to the root.

*Optimal* is the duality theorem of linear programming on the extended matrix, back in terms of the pairs asked about. At the end
all rows, dummies too, have a cheapest column (`Solved`). With `u[i]`, the least of `cost[i][j] - v[j]`, the prices
bound every pairing from below and the one found meets the bound. The extended matrix has dummies whose prices must go
away: subtracting half the limit, and adding the highest price of a dummy column (row), gives every real row (column) a
price of at most 0 which is 0 when it stays alone (`DualPrices`). That needs that a matched pair leaves a dummy row to
a dummy column, a pigeonhole argument (`DummiesPair`). Sums are functions on sets, `Additive(B, b, N)`, which exist,
are monotonic and are what `CostOf` computes (`AdditiveExists`, `AdditiveMonotonic`, `CostSplit`). The induction these
lemmas need is first-order: `LeastNatural` follows from the well-foundedness of the naturals in `WellFoundedInduction`,
and `SetInduction` from it, over a set and not over a predicate.

*How long a walk may be* is about dummies again. `WalkInv` says that from every column a search has reached the
predecessors lead back to the root over a set of rows which have at most one dummy among them, and at most one dummy column
between them (`Ways`). Two dummy rows pay the same for every column, so the second is never strictly
nearer than the first (`NoSecondRow`). For dummy columns the prices decide: they are never positive, and 0 while the
column is free (`DummyPrices`), and as every row has a cheapest column, once one dummy column is within the level all
of them are, so none is reached by way of another (`NoSecondColumn`). A walk of `n` turns would then need one row and one column (`WayIsShort`), and that pair is placed
before any search starts (`PairOnly`). During the walk, `OnTheWay` counts the rows that are left.

*That it ends* needs bounds for three loops: `rr_cnt` limits the exchange of rows, however they throw each
other out; a search looks at each column once (`LookedCounts`); a walk is short by `WalkInv`. A search that goes on has a column left,
since with a free row there is a free column (`TodoLeft`). `AdvancesCorrect` puts them together, one lemma per action.

*RemoteCalls.* Assumptions: `HandlePoolAssumption`, `RemoteCallsAssumption`. `HandlesAccounted` is inductive: `created_`
is the number of free handles plus the threads that have or make one. For `HonestResult` each call gets a
weight, the times it was applied plus its requests under way, which never exceeds the attempts it has sent
(`Counted`); a push has one attempt. That ok means applied needs to know that every answer under way, and every
result that says ok, belongs to a call that was applied (`Truthful`).

*HwIdAllocator.* Assumption: `HwIdAssumption`. A thread claims the ids it holds, the one `Acquire` is about to return and the
one `Release` has not cleared yet. `ClaimsHold` says that each claimed slot names its claimant's pid, that no two
threads claim the same, and that the slot a thread is about to take is claimed by nobody. The last part is why
testing a pid under the mutex is enough although processes die and pids return at any moment: a claim ends with
its process, and a new process has none. `OpensOnce` and `MagicFirst` serialise the initialisation by the file lock,
which a crash gives up together with everything else.

*FramePath.* Assumption: `FramePathAssumption`. `InHandler` ties a frame in hand to being inside a handler; `Left` says
that a node `ExitPipeline` is done with has exited and has an empty queue. When all are done, no frame is
referred to. `LostOnlyAtEncoder` is a conservation law over the cardinality of `lent`, and needs `Once`: a frame is in
one hand or at one place of one queue, so a step that drops it from there takes exactly one frame out of `lent`. `Known`
says that the frame the decoder gives next is not yet among them, and `Balanced` is the sum. `Kept` holds all three until
the exit, where frames are discarded on purpose and nothing counts them.

Only model-checked: all liveness (`ExitsOrHangs`, `UnloadCompletes`, `GoneTrackForgotten`,
`MutexMoves`, `CallsEnd`, `ExitDone`, `Ends`), which is out of the prover's reach (of `Ends` the measure is proved, and
the step from it to the end is not). Every safety invariant and every action property that a passing run checks has a
theorem.

## 6. Abstractions and limits

* **Stages.** In `TaskScheduler` `Process` of a node may forward once or not at all, or fail. This is more than
  each stage does (the encoder never forwards). Of `Init` it has the lookup of the downstream, slot by slot,
  and that it may fail; what is in a slot is compared as live, deleted or null. `FramePath` has the stages'
  own steps, `Acquisition` what their `Init` takes and gives back.
* **Slot 0** ("main") receives no message from any code; `Wait(callback)` therefore only
  waits for the flag. `CreateTaskNode` and `Wait()` have no caller.
* **PushMessage** (status test and push) is one step; what can go wrong there, the
  manager being deleted, is a matter of the two steps around it.
* **Sources.** `StopSources` in `TaskScheduler` is atomic; `Pipeline` replaces it by the
  code. The second call from `~PreProcess` returns at once (`sources_stopped_`). Of `StopDecode` the drain
  loop is left out: it has a bound. SDK calls may fail wherever the code handles a failure. Whether a decoder has room for
  the end-of-stream packet is a choice in `Pipeline` once a packet was written, and the number of frames out in `FramePath`; that
  -1 waits without end is what the comment at `vdec_helper.cpp:301` says of it.
* **Data races.** `recv_started_` and `FFmpegDecoder::is_stop_` are plain `bool`s read and
  written by different threads. Every access is next to an opaque call, so the build reads and
  writes memory there and the outcomes are the old or the new value: the interleavings
  the models explore.
* **Pool order.** `PluginHost` lets any queued closure go next; `FacePlugin` keeps the FIFO.
* **Gate in FacePlugin.** `Shutdown` is enabled when nothing is queued or running and no job
  threw: what `GateInv` proves of `WaitQuiesce`.
* **Tracker.** Kalman filter, overlaps and scores are choices; which of two overlapping tracks is dropped is
  computed from their ages, as in the code.
* **Costs.** `Assignment` has integers; the code has floats for the costs and doubles for the prices, where ties
  may be broken by rounding, and `rr_cnt` bounds the row reduction for that reason. The order in which a
  shortest path scans equal columns is a choice. When an allocation fails the code returns no matching, one of
  the assignments `ByteTrack` allows. The matrices of three rows and three columns with costs 0, 3 and 5 were
  checked as well (290 000 states).
* **Network.** One server, any order of requests and answers. Time is left out: a timeout may strike
  whenever an answer has not been read.
* **Shared memory.** A step is one system call, or one access of a lock's owner; `shm_open`, `flock`, `ftruncate`,
  `mmap` and the mutex's initialisation may fail. A process that failed to open the segment does not try again.
* **Frames.** A reference is counted as held by the handler or the queue that has it. A failing `munmap` is not
  modelled, nor are plane sizes and pixels. A post-processor's error skips the plugin, as in the code.
* **Acquisition** looks at one object at a time. SDK releases succeed, but for the pool's while blocks of it are out, which
  may be refused, and for those of what is not held; a VDEC group is destroyed although its channel is enabled. What is shared between objects is therefore out of sight: both
  `Engine`s deinitialise the one AX_ENGINE runtime, and the first to go takes it from the other.
* **Data.** Frames, features, scores and log lines are left out; a test on them is
  a nondeterministic choice. `frame_seq_` is an `int` that would overflow after 2.7 years at
  25 frames per second.
* **Early signals.** `SourcesJoined` and `KeepsSourceContract` promise nothing once a signal came before
  `PreProcess::Start` was over. That it comes later is an operating assumption, not something the code ensures; section 4
  shows what happens without it.

### Not modelled

* **Numeric code**: inference pre- and post-processing (`models/`), face alignment, the Kalman filter, box overlaps, feature
  comparison. It is floating point without control state; a model over the integers would say nothing of it.
* **Code nothing calls**: most of `models/detail/detection.h` and `models/detail/pose.h`, `bak_old/`, `tmp/`, `image_search/`,
  the decoding half of `hal/ax/jpeg_help.cpp`, `main_img`. Together with the numeric code this is the larger
  part of the repository's lines, and why the models cover a minor share of them.
* **Drawing and OSD**: pixels. **Scene configuration**: YAML into records, sequential, without state.
* **VencHelper's receive thread and `EncProcess::Start`**: `~EncProcess` joins the thread also when `Start` failed or never
  ran, and the drain loop of `StopEncode` reads a status nothing initialised (`venc_helper.cpp:339-353`). Both are undefined
  behaviour with no outcome a model could be faithful to; they are listed under `hazards`.
* **Reconfiguring an initialised IVPS group** (`IvpsHelper::Init`, the branch for a group that exists).
* **`FFmpegEncoder`**: a wrapper of libavformat used from one thread. `Release` writes the trailer even if the header
  failed; `FFmpegDecoder` does not free its bitstream filter. Both are visible by reading, and no interleaving is involved.
* **`RuleEngine::ProcessBoxes`** is pure; its `Load` keeps no parameters.

## 7. Plan

Done: the modules of section 2 and the proofs of section 5. What is left, in this order:

1. Reconfiguration of an IVPS group, as further tables of `Acquisition`, and an `Acquisition` of two objects that share
   a runtime (the two `Engine`s).
2. `VencHelper`'s receive thread and `EncProcess::Start`, once the code initialises the thread handle; the model is then
   the mirror image of `VdecHelper`'s in `Pipeline`.
3. What section 4 lists, as the code repairs it: when `Start` and `StopSources` are ordered, `early` goes, and with it `StopErased`;
   when `ReleaseThreads` also reaches nodes in `Init`, `LeftInInit` and `NeverMarked`; when `EncProcess::Process` returns what `Write`
   returned, `LostOnlyAtEncoder` becomes `NothingLostSilently`; when `CreatePool` gives its blocks back, `Leavings` shrinks.
