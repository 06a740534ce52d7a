----------------------------- MODULE ByteTrack -----------------------------
(***************************************************************************)
(* The tracker postprocessor: one BYTETracker per label, all of them       *)
(* drawing ids from one counter.  Boxes, scores and the Kalman filter are  *)
(* abstracted to what the associations decide: which tracks of the pool    *)
(* got a detection, and which pairs overlap too much.  Any injective       *)
(* assignment of tracks to detections is possible (no assignment at all is *)
(* what lapjv falls back to when it cannot allocate).                      *)
(***************************************************************************)
EXTENDS Integers, FiniteSets

CONSTANTS Labels,       \* track_labels_
          MaxTimeLost,  \* max_time_lost, int(frame_rate / 30.0 * track_buffer)
          MaxNew,       \* bound: new tracks in one update of one label
          MaxId,        \* bound: ids given in a run
          MaxFrame      \* bound: frames in a run

ASSUME ByteTrackAssumption ==
  /\ MaxTimeLost \in Nat
  /\ MaxNew \in Nat /\ MaxId \in Nat /\ MaxFrame \in Nat

VARIABLES
  frame,     \* frame_id of the trackers, equal between two frames
  nextId,    \* next_track_id_, shared by the trackers
  todo,      \* the labels Process has still to update in this frame
  tracked, lost, removed,  \* the three lists of each label's tracker
  twins      \* per label, ids its last remove_duplicate_stracks dropped

vars == <<frame, nextId, todo, tracked, lost, removed, twins>>

(* An STrack.  A list holds copies: the same id may differ in two lists.   *)
Tracks == [id : 1..MaxId, state : {"Tracked", "Lost", "Removed"},
           frame : 1..MaxFrame, start : 1..MaxFrame, activated : BOOLEAN]

TypeOK ==
  /\ frame \in 0..MaxFrame
  /\ nextId \in 1..(MaxId + 1)
  /\ todo \subseteq Labels
  /\ tracked \in [Labels -> SUBSET Tracks]
  /\ lost \in [Labels -> SUBSET Tracks]
  /\ removed \in [Labels -> SUBSET Tracks]
  /\ twins \in [Labels -> SUBSET (1..MaxId)]

Ids(list) == {t.id : t \in list}

Init ==
  /\ frame = 0 /\ nextId = 1 /\ todo = {}
  /\ tracked = [l \in Labels |-> {}]
  /\ lost = [l \in Labels |-> {}]
  /\ removed = [l \in Labels |-> {}]
  /\ twins = [l \in Labels |-> {}]

(* joint_stracks: the second list's tracks only if their id is not there.  *)
Joint(a, b) == a \cup {t \in b : t.id \notin Ids(a)}

(* Mutant: sub_stracks subtracts nothing.                                  *)
SubNothing(a, b) == a
Sub(a, b) == {t \in a : t.id \notin Ids(b)}

(* Mutant: re_activate and update leave the state alone.                   *)
MatchedSameState(t) == [t EXCEPT !.frame = frame, !.activated = TRUE]
(* update and re_activate leave the same state, frame and activation.      *)
Matched(t) == [t EXCEPT !.state = "Tracked", !.frame = frame, !.activated = TRUE]

Activate(id) ==
  [id |-> id, state |-> "Tracked", frame |-> frame, start |-> frame, activated |-> TRUE]

Marked(list, s) == {[t EXCEPT !.state = s] : t \in list}

(* The tracks the three associations offer to the detections: first the    *)
(* confirmed and the lost ones, marked Removed ones included, then the     *)
(* Tracked ones left without, then the unconfirmed ones.                   *)
Unconfirmed(l) == {t \in tracked[l] : ~t.activated}
Pool(l) == Joint(tracked[l] \ Unconfirmed(l), lost[l])
StillTracked(pool, hits) == {t \in pool \ hits : t.state = "Tracked"}

(* The list a matched track is pushed to depends on the state it had.      *)
Activated(hits) == {Matched(t) : t \in {u \in hits : u.state = "Tracked"}}
Refound(hits) == {Matched(t) : t \in {u \in hits : u.state # "Tracked"}}
New(fresh) == {Activate(nextId + k - 1) : k \in 1..fresh}

(* Mutant: the frame of a lost track is never compared.                    *)
ExpiredNever(list) == {}
(* Step 5 looks at lost_stracks after re_activate changed its elements in  *)
(* place; a track lost in this frame is not there yet.                     *)
Expired(list) == {t \in list : frame - t.frame > MaxTimeLost}
(* A pair of a tracked and a lost track that overlap: the younger of the   *)
(* two goes, the tracked one when they are equally old.                    *)
Age(t) == t.frame - t.start
DupTracked(pairs) == {p[1] : p \in {q \in pairs : Age(q[1]) <= Age(q[2])}}
DupLost(pairs) == {p[2] : p \in {q \in pairs : Age(q[1]) > Age(q[2])}}

(* Mutant: as upstream, the list is never cleared.                         *)
KeepAllRemoved(l, now) == removed[l] \cup now
(* The removed list kept for the next frame is this frame's alone.         *)
KeepRemoved(l, now) == now

(* Process resets the objects' ids and groups them by label.               *)
StartFrame ==
  /\ todo = {} /\ frame < MaxFrame
  /\ frame' = frame + 1
  /\ todo' = Labels
  /\ twins' = [l \in Labels |-> {}]
  /\ UNCHANGED <<nextId, tracked, lost, removed>>

(* BYTETracker::update.  Tracks are changed in place, in the list they are *)
(* in, and copied to activated, refound, lost or removed.                  *)
UpdateLabel(l) ==
  /\ l \in todo
  /\ \E hits \in SUBSET Pool(l) :
     \E lowHits \in SUBSET StillTracked(Pool(l), hits) :
     \E confirmed \in SUBSET Unconfirmed(l) :
     \E fresh \in 0..MaxNew :
       LET got == hits \cup lowHits \cup confirmed
           inPlace(list) == (list \ got) \cup {Matched(t) : t \in list \cap got}
           dropped == StillTracked(Pool(l), hits) \ lowHits
           refused == Unconfirmed(l) \ confirmed
           expired == Expired(inPlace(lost[l]))
           stays == inPlace(tracked[l] \ (dropped \cup refused))
           tracked1 == Joint(Joint(stays, Activated(got) \cup New(fresh)), Refound(hits))
           lost1 == Sub((inPlace(lost[l]) \ expired) \cup Marked(expired, "Removed"), tracked1)
                    \cup Marked(dropped, "Lost")
           lost2 == Sub(lost1, removed[l])
       IN /\ nextId + fresh <= MaxId + 1
          /\ nextId' = nextId + fresh
          /\ removed' = [removed EXCEPT ![l] =
                           KeepRemoved(l, Marked(refused \cup expired, "Removed"))]
          /\ \E pairs \in SUBSET (tracked1 \X lost2) :
               /\ tracked' = [tracked EXCEPT ![l] = tracked1 \ DupTracked(pairs)]
               /\ lost' = [lost EXCEPT ![l] = lost2 \ DupLost(pairs)]
               /\ twins' = [twins EXCEPT ![l] = Ids(DupTracked(pairs) \cup DupLost(pairs))]
  /\ todo' = todo \ {l}
  /\ UNCHANGED frame

Next ==
  \/ StartFrame
  \/ \E l \in Labels : UpdateLabel(l)

Spec == Init /\ [][Next]_vars
-----------------------------------------------------------------------------
(* What update returns, and so the ids Process may give to detections.     *)
Output(l) == {t \in tracked[l] : t.activated}
Live(l) == Ids(tracked[l]) \cup Ids(lost[l])

(* No id is in two places: within a tracker the tracked and the lost list  *)
(* (whose tracks are copies) share none, a list holds one copy of an id,   *)
(* and the trackers of two labels share none: an id Process shows means    *)
(* one thing.  joint_stracks, sub_stracks and the shared counter see to it.*)
IdsUnique ==
  /\ \A l \in Labels :
       /\ Ids(tracked[l]) \cap Ids(lost[l]) = {}
       /\ \A s, t \in tracked[l] : s.id = t.id => s = t
       /\ \A s, t \in lost[l] : s.id = t.id => s = t
  /\ \A l, m \in Labels : l # m => Live(l) \cap Live(m) = {}

(* What is returned after a label's update got a detection in this frame,  *)
(* and nothing in the lost list did: the state of a track and the list     *)
(* that holds it agree, even for a track that was revived in place.        *)
StateMatchesList ==
  /\ TypeOK
  /\ \A l \in Labels :
       /\ \A t \in Output(l) : t.state = "Tracked"
       /\ \A t \in lost[l] : t.state # "Tracked"
       /\ l \notin todo => /\ \A t \in tracked[l] : t.frame = frame
                           /\ \A t \in lost[l] : t.frame < frame

(* A track that comes back was last matched at most MaxTimeLost + 2 frames *)
(* before (3 when max_time_lost is 0): a track lost in a frame is not      *)
(* marked before the next one, and a marked track takes part in one more   *)
(* association.  FacePlugin prunes by such a bound.                        *)
MaxGap == IF MaxTimeLost = 0 THEN 3 ELSE MaxTimeLost + 2

ReturnsInTime ==
  [][\A l \in Labels : \A t \in tracked'[l] :
       t.id < nextId => \E s \in tracked[l] \cup lost[l] :
                          s.id = t.id /\ t.frame - s.frame <= MaxGap]_vars

(* The grace BYTETracker.cpp:237-243 is about: while max_time_lost has not *)
(* passed, a track leaves its tracker only as the duplicate of another,    *)
(* also when it had been marked Removed once and was revived.              *)
GraceKept ==
  [][\A l \in Labels : \A t \in tracked[l] \cup lost[l] :
       frame' - t.frame <= MaxTimeLost
         => t.id \in Ids(tracked'[l]) \cup Ids(lost'[l]) \cup twins'[l]]_vars
=============================================================================
