----------------------------- MODULE FacePlugin -----------------------------
(***************************************************************************)
(* plugins/face_recognition: the plugin's table of tracks.                 *)
(*                                                                         *)
(* OnFrame runs on the host thread: it drains the answers of earlier       *)
(* identify jobs, refreshes the entries of the tracks in the frame, hands  *)
(* the new frontal faces to the pool as one identify job, and walks the    *)
(* entries not seen for a while: a track that leaves without having been   *)
(* identified is reported as a stranger by a job of its own.  The pool     *)
(* threads answer through identify_results_, which has its own mutex; the  *)
(* table is the host thread's alone.                                       *)
(*                                                                         *)
(* Ages replace frame_seq_ - last_seen_frame and stop growing one past the *)
(* largest constant they are compared with.  The gate that holds Shutdown  *)
(* back until no job is left is PluginHost's.                              *)
(***************************************************************************)
EXTENDS Naturals, Sequences

CONSTANTS
  Tracks,             \* the ids the tracker may issue (bound of the model)
  Workers,            \* the pool's threads
  NoJob,              \* no closure
  MaxQueue,           \* max_queue_ of the pool
  ReappearWithin,     \* after a longer absence the tracker reuses no id
  PruneFrames,        \* kTrackPruneFrames
  InflightMaxFrames   \* kTrackInflightMaxFrames

(* The tracker forgets a track after max_time_lost frames, far fewer than  *)
(* kTrackPruneFrames in the shipped configuration.                         *)
ASSUME FacePluginAssumption ==
  /\ MaxQueue \in Nat \ {0}
  /\ ReappearWithin \in Nat /\ PruneFrames \in Nat /\ InflightMaxFrames \in Nat
  /\ ReappearWithin <= PruneFrames + 1
  /\ PruneFrames < InflightMaxFrames

(* A job of the pool, with the tracks it is about and has not answered.    *)
Jobs == [kind : {"identify", "lost"}, items : SUBSET Tracks]

ASSUME NoJobAssumption == NoJob \notin Jobs

MaxAge == InflightMaxFrames + 1

VARIABLES
  host,       \* where the host thread is
  known,      \* the ids the tracker has issued
  age,        \* frames since each of them was last seen
  pending,    \* the keys of track_pending_
  inflight,   \* the entries with identify_inflight
  featDone,   \* the entries with feat_done
  kept,       \* the entries with a last_frame
  toPrune,    \* what the loop over old entries has not visited yet
  results,    \* identify_results_
  queue,      \* the pool's queue
  running,    \* the job each pool thread runs, with the items it has left
  reports,    \* how often each track was identified or pushed as a stranger
  abandoned,  \* the tracks whose identify job threw before it answered
  threw       \* some job has thrown

trackVars == <<known, age>>
entryVars == <<pending, inflight, featDone, kept>>
poolVars  == <<queue, running>>
ghostVars == <<reports, abandoned, threw>>
vars == <<host, trackVars, entryVars, toPrune, results, poolVars, ghostVars>>

TypeOK ==
  /\ host \in {"idle", "frame", "prune", "unload", "stopped"}
  /\ known \subseteq Tracks
  /\ age \in [Tracks -> 0 .. MaxAge]
  /\ pending \subseteq known
  /\ inflight \subseteq pending /\ featDone \subseteq pending /\ kept \subseteq pending
  /\ toPrune \subseteq pending
  /\ results \subseteq [track : Tracks, ok : BOOLEAN]
  /\ queue \in Seq(Jobs) /\ Len(queue) <= MaxQueue
  /\ running \in [Workers -> Jobs \cup {NoJob}]
  /\ reports \in [Tracks -> Nat]
  /\ abandoned \subseteq Tracks
  /\ threw \in BOOLEAN

(* After PluginManager::Load; Init of the plugin touches none of this.     *)
Init ==
  /\ host = "idle"
  /\ known = {} /\ age = [t \in Tracks |-> 0]
  /\ pending = {} /\ inflight = {} /\ featDone = {} /\ kept = {}
  /\ toPrune = {} /\ results = {}
  /\ queue = <<>> /\ running = [w \in Workers |-> NoJob]
  /\ reports = [t \in Tracks |-> 0]
  /\ abandoned = {} /\ threw = FALSE

Report(t) == reports' = [reports EXCEPT ![t] = @ + 1]
Full      == Len(queue) >= MaxQueue

-----------------------------------------------------------------------------
(* FacePlugin::OnFrame, by the host thread *)

(* The answers are swapped out under the mutex and applied to the entries  *)
(* that still exist; an identified track needs its frame no more.          *)
DrainIdentifyResults ==
  /\ host = "idle"
  /\ LET found == {t \in pending : [track |-> t, ok |-> TRUE] \in results} IN
     /\ inflight' = inflight \ {r.track : r \in results}
     /\ featDone' = featDone \cup found
     /\ kept' = kept \ found
  /\ results' = {}
  /\ host' = "frame"
  /\ UNCHANGED <<trackVars, pending, toPrune, poolVars, ghostVars>>

(* The frame shows "seen"; "cloned" are the unidentified tracks whose      *)
(* frame could be copied.                                                  *)
Refresh(seen, cloned) ==
  /\ known' = known \cup seen
  /\ age' = [t \in Tracks |->
       IF t \in seen \/ t \notin known THEN 0
       ELSE IF age[t] < MaxAge THEN age[t] + 1 ELSE MaxAge]
  /\ pending' = pending \cup seen
  /\ kept' = (kept \ (seen \ featDone)) \cup cloned

(* Mutant: the refused branch does not call RollbackInflight.              *)
SubmitWithoutRollback(batch) ==
  \/ /\ ~Full /\ batch # {}
     /\ queue' = Append(queue, [kind |-> "identify", items |-> batch])
     /\ inflight' = inflight \cup batch
  \/ inflight' = inflight \cup batch /\ UNCHANGED queue

(* The batch of faces that passed the score gate and gave a feature goes   *)
(* to the pool, or RollbackInflight undoes the marks: the queue is full,   *)
(* or the frame could not be cloned.                                       *)
SubmitIdentify(batch) ==
  \/ /\ ~Full /\ batch # {}
     /\ queue' = Append(queue, [kind |-> "identify", items |-> batch])
     /\ inflight' = inflight \cup batch
  \/ UNCHANGED <<queue, inflight>>

Visible == {t \in Tracks : t \notin known \/ age[t] < ReappearWithin}

Observe ==
  /\ host = "frame"
  /\ \E seen \in SUBSET Visible :
       /\ \E cloned \in SUBSET (seen \ featDone) : Refresh(seen, cloned)
       /\ \E batch \in SUBSET (seen \ (featDone \cup inflight)) : SubmitIdentify(batch)
  /\ toPrune' = {t \in pending' : age'[t] > PruneFrames}
  /\ host' = "prune"
  /\ UNCHANGED <<featDone, results, running, ghostVars>>

Erase(t) ==
  /\ pending' = pending \ {t} /\ inflight' = inflight \ {t}
  /\ featDone' = featDone \ {t} /\ kept' = kept \ {t}

Visit(t) ==
  /\ host = "prune"
  /\ t \in toPrune
  /\ toPrune' = toPrune \ {t}
  /\ UNCHANGED <<host, trackVars, results, running, abandoned, threw>>

(* Mutant: the wait for an answer has no limit.                            *)
NeverOverdue(t) == FALSE

Overdue(t) == age[t] > InflightMaxFrames

(* The entry is done, or its answer is overdue, or there is nothing to     *)
(* push: no frame was kept, or it cannot be cloned.                        *)
Forget(t) ==
  /\ Visit(t)
  /\ t \in featDone \/ (t \in inflight => Overdue(t))
  /\ Erase(t)
  /\ UNCHANGED <<queue, reports>>

AwaitAnswer(t) ==
  /\ Visit(t)
  /\ t \in inflight \ featDone
  /\ ~Overdue(t)
  /\ UNCHANGED <<entryVars, queue, reports>>

(* Mutant: the track is pushed as a stranger while its answer is awaited.  *)
PushLostInflight(t) ==
  /\ Visit(t)
  /\ t \in kept \ featDone
  /\ ~Full
  /\ queue' = Append(queue, [kind |-> "lost", items |-> {t}])
  /\ Report(t)
  /\ Erase(t)

(* A track lost before it was identified is handed to the pool ...         *)
PushLost(t) ==
  /\ Visit(t)
  /\ t \in kept \ (featDone \cup inflight)
  /\ ~Full
  /\ queue' = Append(queue, [kind |-> "lost", items |-> {t}])
  /\ Report(t)
  /\ Erase(t)

(* ... or stays for the next frame when the queue is full.                 *)
RefuseLost(t) ==
  /\ Visit(t)
  /\ t \in kept \ (featDone \cup inflight)
  /\ Full
  /\ UNCHANGED <<entryVars, queue, reports>>

FrameEnds ==
  /\ host = "prune" /\ toPrune = {}
  /\ host' = "idle"
  /\ UNCHANGED <<trackVars, entryVars, toPrune, results, poolVars, ghostVars>>

-----------------------------------------------------------------------------
(* PluginManager::Unload *)

Unload ==
  /\ host = "idle"
  /\ host' = "unload"
  /\ UNCHANGED <<trackVars, entryVars, toPrune, results, poolVars, ghostVars>>

(* After WaitQuiesce, which a job that threw holds up for ever.            *)
Shutdown ==
  /\ host = "unload"
  /\ queue = <<>> /\ ~threw
  /\ \A w \in Workers : running[w] = NoJob
  /\ pending' = {} /\ inflight' = {} /\ featDone' = {} /\ kept' = {}
  /\ results' = {}
  /\ host' = "stopped"
  /\ UNCHANGED <<trackVars, toPrune, poolVars, ghostVars>>

-----------------------------------------------------------------------------
(* The jobs, by pool thread w *)

Take(w) ==
  /\ running[w] = NoJob
  /\ queue # <<>>
  /\ running' = [running EXCEPT ![w] = Head(queue)]
  /\ queue' = Tail(queue)
  /\ UNCHANGED <<host, trackVars, entryVars, toPrune, results, ghostVars>>

Identifying(w) == running[w] # NoJob /\ running[w].kind = "identify"

(* PostIdentifyResult, for the item whose Search has returned.             *)
Post(w, t, ok) ==
  /\ Identifying(w)
  /\ t \in running[w].items
  /\ running' = [running EXCEPT ![w].items = @ \ {t}]
  /\ results' = results \cup {[track |-> t, ok |-> ok]}
  /\ UNCHANGED <<host, trackVars, entryVars, toPrune, queue, abandoned, threw>>

SearchFails(w, t) == Post(w, t, FALSE) /\ UNCHANGED reports

(* The track's person joins the visitor push of the batch, and its face    *)
(* the alert if nobody known matched.                                      *)
SearchAnswers(w, t) == Post(w, t, TRUE) /\ Report(t)

(* An exception of the client leaves the job: the items it has not come to *)
(* get no answer.                                                          *)
Throw(w) ==
  /\ Identifying(w)
  /\ abandoned' = abandoned \cup running[w].items
  /\ running' = [running EXCEPT ![w] = NoJob]
  /\ threw' = TRUE
  /\ UNCHANGED <<host, trackVars, entryVars, toPrune, results, queue, reports>>

(* The pushes, whether they succeed or not; they touch no entry.           *)
Finish(w) ==
  /\ running[w] # NoJob
  /\ running[w].kind = "identify" => running[w].items = {}
  /\ running' = [running EXCEPT ![w] = NoJob]
  /\ UNCHANGED <<host, trackVars, entryVars, toPrune, results, queue, ghostVars>>

-----------------------------------------------------------------------------
Prune(t) == Forget(t) \/ AwaitAnswer(t) \/ PushLost(t) \/ RefuseLost(t)

OnFrame == DrainIdentifyResults \/ Observe \/ (\E t \in Tracks : Prune(t)) \/ FrameEnds

Job(w) == \/ Take(w) \/ Throw(w) \/ Finish(w)
          \/ \E t \in Tracks : SearchFails(w, t) \/ SearchAnswers(w, t)

Next == OnFrame \/ Unload \/ Shutdown \/ \E w \in Workers : Job(w)

Spec == Init /\ [][Next]_vars

(* Frames keep coming until the plugin is unloaded, and every request of a *)
(* job is answered or times out.                                           *)
FairSpec == Spec /\ WF_vars(OnFrame) /\ \A w \in Workers : WF_vars(Job(w))

-----------------------------------------------------------------------------
(* Properties *)

(* Where the request for track t is: in a queued job, in a running one, or *)
(* answered and not yet drained.                                           *)
Holders(t) ==
  {<<"queue", i>> : i \in {j \in DOMAIN queue :
                             queue[j].kind = "identify" /\ t \in queue[j].items}}
  \cup {<<"worker", w>> : w \in {v \in Workers :
                             Identifying(v) /\ t \in running[v].items}}
  \cup {<<"result", r.ok>> : r \in {s \in results : s.track = t}}

(* identify_inflight is never stuck and never stale: an entry that has it  *)
(* awaits exactly one answer, unless its job threw, and no answer is under *)
(* way to an entry that does not expect it, even if the entry it was meant *)
(* for has been erased on the timeout.                                     *)
InflightAccounted ==
  \A t \in Tracks :
    /\ \A p, q \in Holders(t) : p = q
    /\ t \in inflight => Holders(t) # {} \/ t \in abandoned
    /\ t \in pending /\ Holders(t) # {} => t \in inflight

(* A visitor is reported at most once: never identified twice, nor both    *)
(* identified and pushed as a lost stranger.                               *)
ReportedOnce == \A t \in Tracks : reports[t] <= 1

(* The table does not grow with the visitors of the day: the entry of a    *)
(* track that left is erased, even if its answer never comes, unless the   *)
(* pool's queue is full again and again.                                   *)
GoneTrackForgotten ==
  \/ []<>Full
  \/ \A t \in Tracks :
       (t \in pending /\ age[t] > PruneFrames) ~> (t \notin pending \/ host = "unload")
=============================================================================
