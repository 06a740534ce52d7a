-------------------------- MODULE ByteTrack_proof --------------------------
(***************************************************************************)
(* What BYTETracker::update keeps true for any number of labels, any       *)
(* max_time_lost and any outcome of the associations.  That a track comes  *)
(* back in time is what FacePlugin assumes of its tracker                  *)
(* (ReappearWithin), so it is proved here and used there.                  *)
(***************************************************************************)
EXTENDS ByteTrack, TLAPS

(* The frame of the label's last update, and how long an unmarked track    *)
(* may have been unmatched by then.                                        *)
Seen  == [l \in Labels |-> IF l \in todo THEN frame - 1 ELSE frame]
Grace == IF MaxTimeLost = 0 THEN 1 ELSE MaxTimeLost

(* The tracks in use were all matched in the last update.                  *)
TrackedFit ==
  \A l \in Labels : \A t \in tracked[l] :
    /\ t.activated /\ t.state = "Tracked" /\ t.frame = Seen[l]
    /\ t.id \notin Ids(removed[l]) /\ t.id < nextId

(* A lost track is young, or marked, and then it is one frame older.       *)
LostFit ==
  \A l \in Labels : \A t \in lost[l] :
    /\ t.state # "Tracked" /\ t.frame < Seen[l] /\ t.id < nextId
    /\ IF t.id \in Ids(removed[l]) THEN /\ Seen[l] - t.frame > MaxTimeLost
                                        /\ Seen[l] - t.frame <= Grace + 1
                                   ELSE Seen[l] - t.frame <= Grace

Underway == todo # {} => frame > 0

IInv == TypeOK /\ IdsUnique /\ TrackedFit /\ LostFit /\ Underway

-----------------------------------------------------------------------------
(* Fields of the tracks the model writes.                                  *)
LEMMA MatchedFields ==
  ASSUME TypeOK, frame > 0, NEW t \in Tracks
  PROVE  /\ Matched(t) \in Tracks /\ Matched(t).id = t.id
         /\ Matched(t).state = "Tracked" /\ Matched(t).frame = frame
         /\ Matched(t).activated
<1>1. frame \in 1..MaxFrame
  BY ByteTrackAssumption DEF TypeOK
<1> DEFINE a == [t EXCEPT !.state = "Tracked"]
           b == [a EXCEPT !.frame = frame]
           c == [b EXCEPT !.activated = TRUE]
<1>2. a \in Tracks /\ a.id = t.id /\ a.state = "Tracked"
  BY DEF Tracks
<1> HIDE DEF a
<1>3. b \in Tracks /\ b.id = t.id /\ b.state = "Tracked" /\ b.frame = frame
  BY <1>1, <1>2 DEF Tracks
<1> HIDE DEF b
<1>4. /\ c \in Tracks /\ c.id = t.id /\ c.state = "Tracked" /\ c.frame = frame
      /\ c.activated
  BY <1>3 DEF Tracks
<1> HIDE DEF c
<1>5. Matched(t) = c
  BY DEF Matched, a, b, c
<1> QED
  BY <1>4, <1>5

(* A new track has the next free id and this frame.                        *)
LEMMA NewFields ==
  ASSUME TypeOK, frame > 0, NEW fresh \in 0..MaxNew, nextId + fresh <= MaxId + 1,
         NEW x \in New(fresh)
  PROVE  /\ x \in Tracks /\ x.id \in nextId .. (nextId + fresh - 1)
         /\ x = Activate(x.id)
         /\ x.state = "Tracked" /\ x.frame = frame /\ x.activated
<1>1. PICK i \in 1..fresh : x = Activate(nextId + i - 1)
  BY DEF New
<1>2. nextId + i - 1 \in 1..MaxId /\ nextId + i - 1 \in nextId .. (nextId + fresh - 1)
  BY ByteTrackAssumption DEF TypeOK
<1> QED
  BY <1>1, <1>2 DEF Activate, Tracks, TypeOK

(* Marking a track changes its state alone.                                *)
LEMMA MarkedFields ==
  ASSUME NEW t \in Tracks, NEW s \in {"Tracked", "Lost", "Removed"}
  PROVE  /\ [t EXCEPT !.state = s] \in Tracks /\ [t EXCEPT !.state = s].id = t.id
         /\ [t EXCEPT !.state = s].frame = t.frame /\ [t EXCEPT !.state = s].state = s
BY DEF Tracks

(* What an update of label l does, track by track: those that got a        *)
(* detection are in use, a track in use that got none is lost, a lost one  *)
(* stays unless it had been marked before, and is marked when it is old.   *)
Fate(l, got, fresh) ==
  /\ \A x \in tracked'[l] : (\E t \in got : x = Matched(t)) \/ x \in New(fresh)
  /\ \A x \in lost'[l] :
       \E t \in (tracked[l] \cup lost[l]) \ got :
         /\ t.id \notin Ids(removed[l])
         /\ x = IF t \in tracked[l] THEN [t EXCEPT !.state = "Lost"]
                ELSE IF frame - t.frame > MaxTimeLost THEN [t EXCEPT !.state = "Removed"]
                ELSE t
  /\ Ids(removed'[l]) = Ids({t \in lost[l] \ got : frame - t.frame > MaxTimeLost})
  /\ \A t \in got : t.id \in Ids(tracked'[l]) \cup twins'[l]
  /\ \A t \in (tracked[l] \cup lost[l]) \ got :
       t.id \notin Ids(removed[l]) => t.id \in Ids(lost'[l]) \cup twins'[l]

(* The lists of UpdateLabel, given what got a detection and what did not.  *)
InPlace(got, list) == (list \ got) \cup {Matched(t) : t \in list \cap got}
TrackedOf(l, got, gone, back, fresh) ==
  Joint(Joint(InPlace(got, tracked[l] \ gone), Activated(got) \cup New(fresh)), back)
LostOf(l, got, gone, t1) ==
  LET old == Expired(InPlace(got, lost[l]))
  IN Sub(Sub((InPlace(got, lost[l]) \ old) \cup Marked(old, "Removed"), t1)
           \cup Marked(gone, "Lost"),
         removed[l])

(* What UpdateLabel writes, given those lists.                             *)
Result(l, got, gone, refused, t1, l2, fresh) ==
  /\ nextId + fresh <= MaxId + 1
  /\ nextId' = nextId + fresh
  /\ removed' = [removed EXCEPT ![l] =
                   KeepRemoved(l, Marked(refused \cup Expired(InPlace(got, lost[l])), "Removed"))]
  /\ \E pairs \in SUBSET (t1 \X l2) :
       /\ tracked' = [tracked EXCEPT ![l] = t1 \ DupTracked(pairs)]
       /\ lost' = [lost EXCEPT ![l] = l2 \ DupLost(pairs)]
       /\ twins' = [twins EXCEPT ![l] = Ids(DupTracked(pairs) \cup DupLost(pairs))]

(* UpdateLabel in these words.                                             *)
LEMMA UpdateForm ==
  ASSUME NEW l \in Labels, UpdateLabel(l)
  PROVE
      \E hits \in SUBSET Pool(l) : \E lowHits \in SUBSET StillTracked(Pool(l), hits) :
      \E confirmed \in SUBSET Unconfirmed(l) : \E fresh \in 0..MaxNew :
       LET got == hits \cup lowHits \cup confirmed
           gone == StillTracked(Pool(l), hits) \ lowHits
           refused == Unconfirmed(l) \ confirmed
           t1 == TrackedOf(l, got, gone \cup refused, Refound(hits), fresh)
       IN Result(l, got, gone, refused, t1, LostOf(l, got, gone, t1), fresh)
BY DEF UpdateLabel, Result, TrackedOf, LostOf, InPlace

(* Joining two lists loses no id and adds none.                            *)
LEMMA JointIds ==
  ASSUME NEW STATE a, NEW STATE b
  PROVE  /\ Joint(a, b) \subseteq a \cup b
         /\ Ids(Joint(a, b)) = Ids(a) \cup Ids(b)
BY DEF Joint, Ids

(* The sets of UpdateLabel come to this.                                   *)
LEMMA UpdateShape ==
  ASSUME IInv, NEW l \in Labels, UpdateLabel(l)
  PROVE  \E got \in SUBSET (tracked[l] \cup lost[l]), fresh \in 0..MaxNew :
           /\ nextId + fresh <= MaxId + 1 /\ nextId' = nextId + fresh
           /\ Fate(l, got, fresh)
           /\ tracked'[l] \subseteq Tracks /\ lost'[l] \subseteq Tracks
           /\ removed'[l] \subseteq Tracks /\ twins'[l] \subseteq 1..MaxId
<1>0. /\ frame > 0 /\ frame \in Nat
      /\ \A t \in tracked[l] \cup lost[l] : t \in Tracks
      /\ tracked \in [Labels -> SUBSET Tracks] /\ lost \in [Labels -> SUBSET Tracks]
      /\ removed \in [Labels -> SUBSET Tracks] /\ twins \in [Labels -> SUBSET (1..MaxId)]
  BY DEF IInv, TypeOK, Underway, UpdateLabel
<1>1. Unconfirmed(l) = {}
  BY DEF Unconfirmed, IInv, TrackedFit
<1>2. Pool(l) = tracked[l] \cup lost[l]
  BY <1>1 DEF Pool, Joint, Ids, IInv, IdsUnique
<1>3. \A h : StillTracked(Pool(l), h) = tracked[l] \ h
  BY <1>2 DEF StillTracked, IInv, TrackedFit, LostFit
<1>4. \E hits \in SUBSET Pool(l) : \E lowHits \in SUBSET StillTracked(Pool(l), hits) :
      \E confirmed \in SUBSET Unconfirmed(l) : \E fresh \in 0..MaxNew :
       LET got == hits \cup lowHits \cup confirmed
           gone == StillTracked(Pool(l), hits) \ lowHits
           refused == Unconfirmed(l) \ confirmed
           t1 == TrackedOf(l, got, gone \cup refused, Refound(hits), fresh)
       IN Result(l, got, gone, refused, t1, LostOf(l, got, gone, t1), fresh)
  BY UpdateForm
<1>5. PICK got \in SUBSET (tracked[l] \cup lost[l]), fresh \in 0..MaxNew :
        LET gone == tracked[l] \ got
            t1 == TrackedOf(l, got, gone, Refound(got), fresh)
        IN Result(l, got, gone, {}, t1, LostOf(l, got, gone, t1), fresh)
  <2>1. PICK hits \in SUBSET Pool(l) : \E lowHits \in SUBSET StillTracked(Pool(l), hits) :
        \E confirmed \in SUBSET Unconfirmed(l) : \E fresh \in 0..MaxNew :
         LET got == hits \cup lowHits \cup confirmed
             gone == StillTracked(Pool(l), hits) \ lowHits
             refused == Unconfirmed(l) \ confirmed
             t1 == TrackedOf(l, got, gone \cup refused, Refound(hits), fresh)
         IN Result(l, got, gone, refused, t1, LostOf(l, got, gone, t1), fresh)
    BY <1>4
  <2>2. PICK lowHits \in SUBSET StillTracked(Pool(l), hits) :
        \E fresh \in 0..MaxNew :
         LET got == hits \cup lowHits \cup {}
             gone == StillTracked(Pool(l), hits) \ lowHits
             t1 == TrackedOf(l, got, gone \cup {}, Refound(hits), fresh)
         IN Result(l, got, gone, {}, t1, LostOf(l, got, gone, t1), fresh)
    BY <1>1, <2>1
  <2>3. /\ hits \cup lowHits \cup {} = hits \cup lowHits
        /\ StillTracked(Pool(l), hits) \ lowHits = tracked[l] \ (hits \cup lowHits)
        /\ (tracked[l] \ (hits \cup lowHits)) \cup {} = tracked[l] \ (hits \cup lowHits)
        /\ hits \cup lowHits \in SUBSET (tracked[l] \cup lost[l])
    BY <1>2, <1>3
  <2>4. Refound(hits) = Refound(hits \cup lowHits)
    <3>1. \A u \in lowHits : u.state = "Tracked"
      BY <1>3 DEF IInv, TrackedFit
    <3>2. {u \in hits : u.state # "Tracked"} = {u \in hits \cup lowHits : u.state # "Tracked"}
      BY <3>1
    <3> QED
      BY <3>2, Zenon DEF Refound
  <2> QED
    BY <2>2, <2>3, <2>4
<1> DEFINE gone == tracked[l] \ got
           t1 == TrackedOf(l, got, gone, Refound(got), fresh)
           l2 == LostOf(l, got, gone, t1)
<1>6. PICK pairs \in SUBSET (t1 \X l2) :
        /\ nextId + fresh <= MaxId + 1 /\ nextId' = nextId + fresh
        /\ removed'[l] = Marked(Expired(InPlace(got, lost[l])), "Removed")
        /\ tracked'[l] = t1 \ DupTracked(pairs)
        /\ lost'[l] = l2 \ DupLost(pairs)
        /\ twins'[l] = Ids(DupTracked(pairs) \cup DupLost(pairs))
  <2>1. {} \cup Expired(InPlace(got, lost[l])) = Expired(InPlace(got, lost[l]))
    OBVIOUS
  <2> QED
    BY <1>0, <1>5, <2>1 DEF Result, KeepRemoved
<1> HIDE DEF gone, t1, l2
<1>a. \A t \in got : /\ t \in Tracks /\ Matched(t) \in Tracks /\ Matched(t).id = t.id
                     /\ Matched(t).frame = frame
  BY <1>0, <1>5, MatchedFields DEF IInv
<1>b. \A x \in New(fresh) : x \in Tracks /\ x.id \in nextId .. (nextId + fresh - 1)
  BY <1>0, <1>6, NewFields DEF IInv
\* The tracks in use.
<1>7. \A x : x \in InPlace(got, tracked[l] \ gone)
              <=> \E t \in got : t \in tracked[l] /\ x = Matched(t)
  BY DEF InPlace, gone
<1>8. \A x : x \in Activated(got) \cup Refound(got) <=> \E t \in got : x = Matched(t)
  BY DEF Activated, Refound
<1>9. t1 \subseteq InPlace(got, tracked[l] \ gone) \cup Activated(got) \cup New(fresh)
                  \cup Refound(got)
  BY DEF t1, TrackedOf, Joint
<1>10. Ids(t1) = Ids(InPlace(got, tracked[l] \ gone)) \cup Ids(Activated(got) \cup New(fresh))
                 \cup Ids(Refound(got))
  BY JointIds DEF t1, TrackedOf
<1>11. \A x \in t1 : (\E t \in got : x = Matched(t)) \/ x \in New(fresh)
  BY <1>7, <1>8, <1>9
<1>12. Ids(t1) = Ids(got) \cup Ids(New(fresh))
  <2>1. \A t \in got : t.id \in Ids(Activated(got) \cup New(fresh)) \cup Ids(Refound(got))
    <3> SUFFICES ASSUME NEW t \in got
                 PROVE  t.id \in Ids(Activated(got) \cup New(fresh)) \cup Ids(Refound(got))
      OBVIOUS
    <3>1. Matched(t) \in Activated(got) \/ Matched(t) \in Refound(got)
      BY <1>8
    <3> QED
      BY <3>1, <1>a DEF Ids
  <2>2. Ids(got) \subseteq Ids(t1)
    BY <1>10, <2>1 DEF Ids
  <2>3. Ids(New(fresh)) \subseteq Ids(t1)
    BY <1>10 DEF Ids
  <2>4. \A x \in t1 : x.id \in Ids(got) \cup Ids(New(fresh))
    BY <1>11, <1>a DEF Ids
  <2> QED
    BY <2>2, <2>3, <2>4 DEF Ids
\* The lost ones.
<1> DEFINE P == InPlace(got, lost[l])
           old == Expired(P)
<1>13. \A x \in P : x \in lost[l] \ got \/ \E t \in got : x = Matched(t)
  BY DEF InPlace
<1>14. \A x \in lost[l] \ got : x \in P
  BY DEF InPlace
<1>15. old = {t \in lost[l] \ got : frame - t.frame > MaxTimeLost}
  BY <1>0, <1>13, <1>14, <1>a, ByteTrackAssumption DEF Expired
<1>16. /\ l2 = Sub(Sub((P \ old) \cup Marked(old, "Removed"), t1) \cup Marked(gone, "Lost"),
                  removed[l])
       /\ old \subseteq P
  BY DEF l2, LostOf, Expired
<1> HIDE DEF P, old
<1>17. \A x \in l2 :
         \E t \in (tracked[l] \cup lost[l]) \ got :
           /\ t.id \notin Ids(removed[l])
           /\ x = IF t \in tracked[l] THEN [t EXCEPT !.state = "Lost"]
                  ELSE IF frame - t.frame > MaxTimeLost THEN [t EXCEPT !.state = "Removed"]
                  ELSE t
  <2> SUFFICES ASSUME NEW x \in l2
               PROVE  \E t \in (tracked[l] \cup lost[l]) \ got :
           /\ t.id \notin Ids(removed[l])
           /\ x = IF t \in tracked[l] THEN [t EXCEPT !.state = "Lost"]
                  ELSE IF frame - t.frame > MaxTimeLost THEN [t EXCEPT !.state = "Removed"]
                  ELSE t
    OBVIOUS
  <2>0. x.id \notin Ids(removed[l])
    BY <1>16 DEF Sub
  <2>1. CASE x \in Marked(gone, "Lost")
    <3>1. PICK t \in gone : x = [t EXCEPT !.state = "Lost"]
      BY <2>1 DEF Marked
    <3>2. t \in tracked[l] \ got
      BY DEF gone
    <3>3. t.id = x.id
      BY <1>0, <3>1, <3>2, MarkedFields
    <3> QED
      BY <2>0, <3>1, <3>2, <3>3
  <2>2. CASE x \in P \ old /\ x.id \notin Ids(t1)
    <3>1. x \in lost[l] \ got
      <4>1. \A t \in got : x # Matched(t)
        BY <1>12, <1>a, <2>2 DEF Ids
      <4> QED
        BY <1>13, <2>2, <4>1
    <3>2. ~(frame - x.frame > MaxTimeLost)
      BY <1>15, <2>2, <3>1
    <3>3. x \notin tracked[l]
      BY <3>1 DEF IInv, TrackedFit, LostFit
    <3> QED
      BY <2>0, <3>1, <3>2, <3>3
  <2>3. CASE x \in Marked(old, "Removed")
    <3>1. PICK t \in old : x = [t EXCEPT !.state = "Removed"]
      BY <2>3 DEF Marked
    <3>2. t \in lost[l] \ got /\ frame - t.frame > MaxTimeLost
      BY <1>15
    <3>3. t.id = x.id /\ t \notin tracked[l]
      BY <1>0, <3>1, <3>2, MarkedFields DEF IInv, TrackedFit, LostFit
    <3> QED
      BY <2>0, <3>1, <3>2, <3>3
  <2> QED
    BY <1>16, <2>1, <2>2, <2>3 DEF Sub
<1>18. \A t \in (tracked[l] \cup lost[l]) \ got : t.id \notin Ids(removed[l]) => t.id \in Ids(l2)
  <2> SUFFICES ASSUME NEW t \in (tracked[l] \cup lost[l]) \ got, t.id \notin Ids(removed[l])
               PROVE  t.id \in Ids(l2)
    OBVIOUS
  <2>1. CASE t \in tracked[l]
    <3> DEFINE x == [t EXCEPT !.state = "Lost"]
    <3>1. x.id = t.id
      BY <1>0, MarkedFields
    <3>2. x \in Marked(gone, "Lost")
      BY <2>1 DEF Marked, gone
    <3> HIDE DEF x
    <3> QED
      BY <1>16, <3>1, <3>2 DEF Sub, Ids
  <2>2. CASE t \in lost[l]
    <3>1. t.id \notin Ids(t1)
      <4>1. t.id \notin Ids(got)
        BY <2>2, <1>5 DEF IInv, IdsUnique, Ids
      <4>2. t.id < nextId /\ t.id \in Nat
        BY <1>0, <2>2 DEF IInv, LostFit, Tracks
      <4>3. t.id \notin Ids(New(fresh))
        BY <4>2, <1>b DEF Ids, IInv, TypeOK
      <4> QED
        BY <1>12, <4>1, <4>3
    <3>2. CASE t \in old
      <4> DEFINE x == [t EXCEPT !.state = "Removed"]
      <4>1. x.id = t.id
        BY <1>0, MarkedFields
      <4>2. x \in Marked(old, "Removed")
        BY <3>2 DEF Marked
      <4> HIDE DEF x
      <4> QED
        BY <1>16, <3>1, <4>1, <4>2 DEF Sub, Ids
    <3>3. CASE t \notin old
      <4>1. t \in P
        BY <1>14, <2>2
      <4> QED
        BY <1>16, <3>1, <3>3, <4>1 DEF Sub, Ids
    <3> QED
      BY <3>2, <3>3
  <2> QED
    BY <2>1, <2>2
\* What is kept for the next frame.
<1>19. removed'[l] \subseteq Tracks /\ Ids(removed'[l]) = Ids(old)
  <2>1. removed'[l] = Marked(old, "Removed")
    BY <1>6 DEF P, old
  <2>2. \A t \in old : /\ [t EXCEPT !.state = "Removed"] \in Tracks
                       /\ [t EXCEPT !.state = "Removed"].id = t.id
    BY <1>0, <1>15, MarkedFields
  <2>3. \A x \in Marked(old, "Removed") : x \in Tracks /\ x.id \in Ids(old)
    BY <2>2 DEF Marked, Ids
  <2>4. \A t \in old : t.id \in Ids(Marked(old, "Removed"))
    <3> SUFFICES ASSUME NEW t \in old PROVE t.id \in Ids(Marked(old, "Removed"))
      OBVIOUS
    <3>1. [t EXCEPT !.state = "Removed"] \in Marked(old, "Removed")
      BY DEF Marked
    <3> QED
      BY <2>2, <3>1 DEF Ids
  <2> QED
    BY <2>1, <2>3, <2>4 DEF Ids
<1>20. t1 \subseteq Tracks
  BY <1>11, <1>a, <1>b
<1>21. l2 \subseteq Tracks
  <2> SUFFICES ASSUME NEW x \in l2 PROVE x \in Tracks
    OBVIOUS
  <2>1. PICK t \in (tracked[l] \cup lost[l]) \ got :
           x = IF t \in tracked[l] THEN [t EXCEPT !.state = "Lost"]
               ELSE IF frame - t.frame > MaxTimeLost THEN [t EXCEPT !.state = "Removed"]
               ELSE t
    BY <1>17
  <2>2. /\ t \in Tracks /\ [t EXCEPT !.state = "Lost"] \in Tracks
        /\ [t EXCEPT !.state = "Removed"] \in Tracks
    BY <1>0, MarkedFields
  <2> QED
    BY <2>1, <2>2
<1>22. /\ tracked'[l] \subseteq t1 /\ lost'[l] \subseteq l2
       /\ Ids(t1) \subseteq Ids(tracked'[l]) \cup twins'[l]
       /\ Ids(l2) \subseteq Ids(lost'[l]) \cup twins'[l]
       /\ twins'[l] \subseteq 1..MaxId
  <2>1. DupTracked(pairs) \subseteq t1 /\ DupLost(pairs) \subseteq l2
    BY DEF DupTracked, DupLost
  <2>2. \A x \in Tracks : x.id \in 1..MaxId
    BY DEF Tracks
  <2> QED
    BY <1>6, <1>20, <1>21, <2>1, <2>2 DEF Ids
<1>23. Fate(l, got, fresh)
  <2>1. \A x \in tracked'[l] : (\E t \in got : x = Matched(t)) \/ x \in New(fresh)
    BY <1>11, <1>22
  <2>2. Ids(removed'[l]) = Ids({t \in lost[l] \ got : frame - t.frame > MaxTimeLost})
    BY <1>15, <1>19
  <2>3. \A t \in got : t.id \in Ids(tracked'[l]) \cup twins'[l]
    BY <1>12, <1>22 DEF Ids
  <2> QED
    BY <1>17, <1>18, <1>22, <2>1, <2>2, <2>3 DEF Fate
<1> QED
  BY <1>5, <1>6, <1>19, <1>20, <1>21, <1>22, <1>23
(* Each of the four variables is written at one label.                     *)
LEMMA ResultOthers ==
  ASSUME NEW l, NEW got, NEW gone, NEW refused, NEW STATE t1, NEW STATE l2, NEW fresh,
         Result(l, got, gone, refused, t1, l2, fresh)
  PROVE  \E T, L, R, W : /\ tracked' = [tracked EXCEPT ![l] = T]
                        /\ lost' = [lost EXCEPT ![l] = L]
                        /\ removed' = [removed EXCEPT ![l] = R]
                        /\ twins' = [twins EXCEPT ![l] = W]
<1>1. PICK pairs \in SUBSET (t1 \X l2) :
        /\ tracked' = [tracked EXCEPT ![l] = t1 \ DupTracked(pairs)]
        /\ lost' = [lost EXCEPT ![l] = l2 \ DupLost(pairs)]
        /\ twins' = [twins EXCEPT ![l] = Ids(DupTracked(pairs) \cup DupLost(pairs))]
  BY Zenon DEF Result
<1>2. \E R : removed' = [removed EXCEPT ![l] = R]
  BY Zenon DEF Result
<1> QED
  BY <1>1, <1>2, Zenon

(* The trackers of the other labels are left alone.                        *)
LEMMA OthersAlone ==
  ASSUME TypeOK, NEW l \in Labels, UpdateLabel(l)
  PROVE  /\ frame' = frame /\ todo' = todo \ {l} /\ l \in todo
         /\ tracked' = [tracked EXCEPT ![l] = tracked'[l]]
         /\ lost' = [lost EXCEPT ![l] = lost'[l]]
         /\ removed' = [removed EXCEPT ![l] = removed'[l]]
         /\ twins' = [twins EXCEPT ![l] = twins'[l]]
         /\ \A m \in Labels : m # l => /\ tracked'[m] = tracked[m] /\ lost'[m] = lost[m]
                                       /\ removed'[m] = removed[m]
<1>1. \E T, L, R, W : /\ tracked' = [tracked EXCEPT ![l] = T]
                     /\ lost' = [lost EXCEPT ![l] = L]
                     /\ removed' = [removed EXCEPT ![l] = R]
                     /\ twins' = [twins EXCEPT ![l] = W]
  <2>1. PICK hits : \E lowHits \in SUBSET StillTracked(Pool(l), hits) :
      \E confirmed \in SUBSET Unconfirmed(l) : \E fresh \in 0..MaxNew :
       LET got == hits \cup lowHits \cup confirmed
           gone == StillTracked(Pool(l), hits) \ lowHits
           refused == Unconfirmed(l) \ confirmed
           t1 == TrackedOf(l, got, gone \cup refused, Refound(hits), fresh)
       IN Result(l, got, gone, refused, t1, LostOf(l, got, gone, t1), fresh)
    BY UpdateForm
  <2> QED
    BY <2>1, ResultOthers
<1>2. frame' = frame /\ todo' = todo \ {l} /\ l \in todo
  BY DEF UpdateLabel
<1> QED
  BY <1>1, <1>2 DEF TypeOK

(* Each of the new tracks comes from one old track or is new, and the old  *)
(* one is determined by the id.                                            *)
LEMMA Origins ==
  ASSUME IInv, NEW l \in Labels, UpdateLabel(l),
         NEW got \in SUBSET (tracked[l] \cup lost[l]), NEW fresh \in 0..MaxNew,
         nextId + fresh <= MaxId + 1, Fate(l, got, fresh)
  PROVE  /\ \A x \in tracked'[l] :
              /\ x.state = "Tracked" /\ x.frame = frame /\ x.activated
              /\ \/ \E t \in got : x = Matched(t) /\ x.id = t.id /\ x.id < nextId
                 \/ x = Activate(x.id) /\ x.id \in nextId .. (nextId + fresh - 1)
         /\ \A y \in lost'[l] :
              \E t \in (tracked[l] \cup lost[l]) \ got :
                /\ y.id = t.id /\ y.id < nextId /\ y.frame = t.frame
                /\ t.id \notin Ids(removed[l]) /\ y.state # "Tracked"
                /\ y = IF t \in tracked[l] THEN [t EXCEPT !.state = "Lost"]
                       ELSE IF frame - t.frame > MaxTimeLost THEN [t EXCEPT !.state = "Removed"]
                       ELSE t
<1>0. /\ frame > 0
      /\ \A t \in tracked[l] \cup lost[l] : t \in Tracks /\ t.id < nextId
  BY DEF IInv, TypeOK, Underway, UpdateLabel, TrackedFit, LostFit
<1>1. ASSUME NEW x \in tracked'[l]
      PROVE  /\ x.state = "Tracked" /\ x.frame = frame /\ x.activated
             /\ \/ \E t \in got : x = Matched(t) /\ x.id = t.id /\ x.id < nextId
                \/ x = Activate(x.id) /\ x.id \in nextId .. (nextId + fresh - 1)
  <2>1. CASE \E t \in got : x = Matched(t)
    BY <1>0, <2>1, MatchedFields DEF IInv
  <2>2. CASE x \in New(fresh)
    BY <1>0, <2>2, NewFields DEF IInv
  <2> QED
    BY <2>1, <2>2 DEF Fate
<1>2. ASSUME NEW y \in lost'[l]
      PROVE  \E t \in (tracked[l] \cup lost[l]) \ got :
                /\ y.id = t.id /\ y.id < nextId /\ y.frame = t.frame
                /\ t.id \notin Ids(removed[l]) /\ y.state # "Tracked"
                /\ y = IF t \in tracked[l] THEN [t EXCEPT !.state = "Lost"]
                       ELSE IF frame - t.frame > MaxTimeLost THEN [t EXCEPT !.state = "Removed"]
                       ELSE t
  <2>1. PICK t \in (tracked[l] \cup lost[l]) \ got :
          /\ t.id \notin Ids(removed[l])
          /\ y = IF t \in tracked[l] THEN [t EXCEPT !.state = "Lost"]
                 ELSE IF frame - t.frame > MaxTimeLost THEN [t EXCEPT !.state = "Removed"]
                 ELSE t
    BY DEF Fate
  <2>2. t \in Tracks /\ t.id < nextId /\ (t \notin tracked[l] => t.state # "Tracked")
    BY <1>0 DEF IInv, LostFit
  <2>3. /\ [t EXCEPT !.state = "Lost"].id = t.id /\ [t EXCEPT !.state = "Lost"].frame = t.frame
        /\ [t EXCEPT !.state = "Lost"].state = "Lost"
        /\ [t EXCEPT !.state = "Removed"].id = t.id
        /\ [t EXCEPT !.state = "Removed"].frame = t.frame
        /\ [t EXCEPT !.state = "Removed"].state = "Removed"
    BY <2>2, MarkedFields
  <2>4. y.id = t.id /\ y.frame = t.frame /\ y.state # "Tracked"
    BY <2>1, <2>2, <2>3
  <2> QED
    BY <2>1, <2>2, <2>4
<1> QED
  BY <1>1, <1>2

-----------------------------------------------------------------------------
(* An update of one label keeps the invariant.                             *)
LEMMA UpdateKeeps ==
  ASSUME IInv, NEW l \in Labels, UpdateLabel(l)
  PROVE  IInv'
<1>1. PICK got \in SUBSET (tracked[l] \cup lost[l]), fresh \in 0..MaxNew :
        /\ nextId + fresh <= MaxId + 1 /\ nextId' = nextId + fresh
        /\ Fate(l, got, fresh)
        /\ tracked'[l] \subseteq Tracks /\ lost'[l] \subseteq Tracks
        /\ removed'[l] \subseteq Tracks /\ twins'[l] \subseteq 1..MaxId
  BY UpdateShape
<1>2. /\ frame' = frame /\ todo' = todo \ {l} /\ l \in todo
      /\ tracked' = [tracked EXCEPT ![l] = tracked'[l]]
      /\ lost' = [lost EXCEPT ![l] = lost'[l]]
      /\ removed' = [removed EXCEPT ![l] = removed'[l]]
      /\ twins' = [twins EXCEPT ![l] = twins'[l]]
      /\ \A m \in Labels : m # l => /\ tracked'[m] = tracked[m] /\ lost'[m] = lost[m]
                                    /\ removed'[m] = removed[m]
  BY OthersAlone DEF IInv
<1>3. /\ nextId \in Nat /\ fresh \in Nat /\ nextId' >= nextId /\ nextId' \in Nat /\ frame \in Nat
      /\ MaxTimeLost \in Nat
  BY <1>1, ByteTrackAssumption DEF IInv, TypeOK
<1>4. TypeOK'
  <2>1. nextId' \in 1..(MaxId + 1)
    BY <1>1, <1>3, ByteTrackAssumption DEF IInv, TypeOK
  <2>2. tracked' \in [Labels -> SUBSET Tracks] /\ lost' \in [Labels -> SUBSET Tracks]
    BY <1>1, <1>2 DEF IInv, TypeOK
  <2>3. removed' \in [Labels -> SUBSET Tracks] /\ twins' \in [Labels -> SUBSET (1..MaxId)]
    BY <1>1, <1>2 DEF IInv, TypeOK
  <2> QED
    BY <1>2, <2>1, <2>2, <2>3 DEF IInv, TypeOK
<1>5. /\ \A x \in tracked'[l] :
           /\ x.state = "Tracked" /\ x.frame = frame /\ x.activated
           /\ \/ \E t \in got : x = Matched(t) /\ x.id = t.id /\ x.id < nextId
              \/ x = Activate(x.id) /\ x.id \in nextId .. (nextId + fresh - 1)
      /\ \A y \in lost'[l] :
           \E t \in (tracked[l] \cup lost[l]) \ got :
             /\ y.id = t.id /\ y.id < nextId /\ y.frame = t.frame
             /\ t.id \notin Ids(removed[l]) /\ y.state # "Tracked"
             /\ y = IF t \in tracked[l] THEN [t EXCEPT !.state = "Lost"]
                    ELSE IF frame - t.frame > MaxTimeLost THEN [t EXCEPT !.state = "Removed"]
                    ELSE t
  BY <1>1, Origins
<1>6. \A s, t \in tracked[l] \cup lost[l] : s.id = t.id => s = t
  BY DEF IInv, IdsUnique, Ids
<1>7. \A t \in tracked[l] \cup lost[l] : t.id \in Nat /\ t.frame \in Nat
  BY DEF IInv, TypeOK, Tracks
<1>8. IdsUnique'
  <2>1. \A s, t \in tracked'[l] : s.id = t.id => s = t
    <3> SUFFICES ASSUME NEW s \in tracked'[l], NEW t \in tracked'[l], s.id = t.id
                 PROVE  s = t
      OBVIOUS
    <3>1. CASE s.id < nextId
      <4>1. ~(t.id \in nextId .. (nextId + fresh - 1)) /\ ~(s.id \in nextId .. (nextId + fresh - 1))
        BY <1>3, <3>1
      <4>2. PICK u \in got : s = Matched(u) /\ s.id = u.id
        BY <1>5, <4>1
      <4>3. PICK v \in got : t = Matched(v) /\ t.id = v.id
        BY <1>5, <4>1
      <4> QED
        BY <1>6, <4>2, <4>3
    <3>2. CASE ~(s.id < nextId)
      BY <1>5, <3>2
    <3> QED
      BY <3>1, <3>2
  <2>2. \A s, t \in lost'[l] : s.id = t.id => s = t
    <3> SUFFICES ASSUME NEW s \in lost'[l], NEW t \in lost'[l], s.id = t.id
                 PROVE  s = t
      OBVIOUS
    <3>1. PICK u \in (tracked[l] \cup lost[l]) \ got :
             /\ s.id = u.id
             /\ s = IF u \in tracked[l] THEN [u EXCEPT !.state = "Lost"]
                    ELSE IF frame - u.frame > MaxTimeLost THEN [u EXCEPT !.state = "Removed"]
                    ELSE u
      BY <1>5
    <3>2. PICK v \in (tracked[l] \cup lost[l]) \ got :
             /\ t.id = v.id
             /\ t = IF v \in tracked[l] THEN [v EXCEPT !.state = "Lost"]
                    ELSE IF frame - v.frame > MaxTimeLost THEN [v EXCEPT !.state = "Removed"]
                    ELSE v
      BY <1>5
    <3>3. u = v
      BY <1>6, <3>1, <3>2
    <3> QED
      BY <3>1, <3>2, <3>3
  <2>3. \A s \in tracked'[l], t \in lost'[l] : s.id # t.id
    <3> SUFFICES ASSUME NEW s \in tracked'[l], NEW t \in lost'[l], s.id = t.id
                 PROVE  FALSE
      OBVIOUS
    <3>1. PICK v \in (tracked[l] \cup lost[l]) \ got : t.id = v.id /\ t.id < nextId
      BY <1>5
    <3>2. ~(s.id \in nextId .. (nextId + fresh - 1))
      BY <1>3, <3>1
    <3>3. PICK u \in got : s.id = u.id
      BY <1>5, <3>2
    <3> QED
      BY <1>6, <3>1, <3>3
  <2>4. \A x \in tracked'[l] \cup lost'[l] :
          x.id \in Live(l) \/ x.id \in nextId .. (nextId + fresh - 1)
    BY <1>5 DEF Live, Ids
  <2>5. \A m \in Labels : m # l => \A t \in tracked[m] \cup lost[m] :
                           t.id \notin Live(l) /\ t.id < nextId /\ t.id \in Nat
    <3> SUFFICES ASSUME NEW m \in Labels, m # l, NEW t \in tracked[m] \cup lost[m]
                 PROVE  t.id \notin Live(l) /\ t.id < nextId /\ t.id \in Nat
      OBVIOUS
    <3>1. t.id \in Live(m)
      BY DEF Live, Ids
    <3>2. t.id \notin Live(l)
      BY <3>1 DEF IInv, IdsUnique
    <3> QED
      BY <3>2 DEF IInv, TrackedFit, LostFit, TypeOK, Tracks
  <2>6. \A m \in Labels : m # l => \A t \in tracked[m] \cup lost[m], x \in tracked'[l] \cup lost'[l] :
                           t.id # x.id
    BY <1>3, <2>4, <2>5
  <2>7. \A m \in Labels : m # l => Live(m)' = Live(m) /\ Live(m) \cap Live(l)' = {}
    BY <1>2, <2>6 DEF Live, Ids
  <2>8. \A m, n \in Labels : m # n => Live(m)' \cap Live(n)' = {}
    BY <2>7 DEF IInv, IdsUnique
  <2>9. Ids(tracked'[l]) \cap Ids(lost'[l]) = {}
    BY <2>3 DEF Ids
  <2> QED
    BY <1>2, <2>1, <2>2, <2>8, <2>9 DEF IInv, IdsUnique
<1>9. TrackedFit'
  <2> SUFFICES ASSUME NEW m \in Labels, NEW t \in tracked'[m]
               PROVE  /\ t.activated /\ t.state = "Tracked" /\ t.frame = Seen'[m]
                      /\ t.id \notin Ids(removed'[m]) /\ t.id < nextId'
    BY DEF TrackedFit, Ids
  <2>1. CASE m # l
    <3>1. Seen'[m] = Seen[m]
      BY <1>2, <2>1 DEF Seen
    <3>2. /\ t.activated /\ t.state = "Tracked" /\ t.frame = Seen[m]
          /\ t.id \notin Ids(removed[m]) /\ t.id < nextId /\ t.id \in Nat
      BY <1>2, <1>7, <2>1 DEF IInv, TrackedFit, TypeOK, Tracks
    <3> QED
      BY <1>2, <1>3, <2>1, <3>1, <3>2
  <2>2. CASE m = l
    <3>1. Seen'[l] = frame
      BY <1>2 DEF Seen
    <3>2. \A u \in lost[l] \ got : u.id # t.id
      <4> SUFFICES ASSUME NEW u \in lost[l] \ got, u.id = t.id PROVE FALSE
        OBVIOUS
      <4>1. u.id < nextId
        BY DEF IInv, LostFit
      <4>2. PICK v \in got : t.id = v.id
        BY <1>3, <1>5, <2>2, <4>1
      <4> QED
        BY <1>6, <4>2
    <3>3. t.id \notin Ids(removed'[l])
      BY <1>1, <3>2 DEF Fate, Ids
    <3>4. t.id < nextId'
      BY <1>1, <1>3, <1>5, <2>2, <1>7
    <3> QED
      BY <1>5, <2>2, <3>1, <3>3, <3>4
  <2> QED
    BY <2>1, <2>2
<1>10. LostFit'
  <2> SUFFICES ASSUME NEW m \in Labels, NEW y \in lost'[m]
               PROVE  /\ y.state # "Tracked" /\ y.frame < Seen'[m] /\ y.id < nextId'
                      /\ IF y.id \in Ids(removed'[m])
                         THEN /\ Seen'[m] - y.frame > MaxTimeLost
                              /\ Seen'[m] - y.frame <= Grace + 1
                         ELSE Seen'[m] - y.frame <= Grace
    BY DEF LostFit, Ids, Grace
  <2>1. CASE m # l
    <3>1. Seen'[m] = Seen[m]
      BY <1>2, <2>1 DEF Seen
    <3>2. /\ y.state # "Tracked" /\ y.frame < Seen[m] /\ y.id < nextId /\ y.id \in Nat
          /\ IF y.id \in Ids(removed[m])
             THEN Seen[m] - y.frame > MaxTimeLost /\ Seen[m] - y.frame <= Grace + 1
             ELSE Seen[m] - y.frame <= Grace
      BY <1>2, <2>1 DEF IInv, LostFit, TypeOK, Tracks
    <3> QED
      BY <1>2, <1>3, <2>1, <3>1, <3>2
  <2>2. CASE m = l
    <3>1. Seen'[l] = frame /\ Seen[l] = frame - 1
      BY <1>2 DEF Seen
    <3>2. PICK t \in (tracked[l] \cup lost[l]) \ got :
            /\ y.id = t.id /\ y.id < nextId /\ y.frame = t.frame
            /\ t.id \notin Ids(removed[l]) /\ y.state # "Tracked"
      BY <1>5, <2>2
    <3>3. y.id < nextId' /\ y.frame \in Nat
      BY <1>3, <1>7, <3>2
    <3>4. y.id \in Ids(removed'[l]) <=> t \in lost[l] /\ frame - t.frame > MaxTimeLost
      <4>1. \A u \in tracked[l] \cup lost[l] : u.id = t.id => u = t
        BY <1>6
      <4>2. y.id \in Ids(removed'[l])
              <=> \E u \in lost[l] \ got : frame - u.frame > MaxTimeLost /\ u.id = t.id
        BY <1>1, <3>2 DEF Fate, Ids
      <4> QED
        BY <3>2, <4>1, <4>2
    <3>5. CASE t \in tracked[l]
      <4>1. t.frame = frame - 1 /\ t \notin lost[l]
        BY <3>1, <3>5 DEF IInv, TrackedFit, LostFit
      <4> QED
        BY <1>3, <2>2, <3>1, <3>2, <3>3, <3>4, <4>1 DEF Grace
    <3>6. CASE t \in lost[l]
      <4>1. t.frame < frame - 1 /\ frame - 1 - t.frame <= Grace
        BY <3>1, <3>2, <3>6 DEF IInv, LostFit
      <4> QED
        BY <1>3, <1>7, <2>2, <3>1, <3>2, <3>3, <3>4, <3>6, <4>1 DEF Grace
    <3> QED
      BY <3>2, <3>5, <3>6
  <2> QED
    BY <2>1, <2>2
<1>11. Underway'
  BY <1>2 DEF IInv, Underway, UpdateLabel
<1> QED
  BY <1>4, <1>8, <1>9, <1>10, <1>11 DEF IInv
(* Process counts the frame before it updates any label.                   *)
LEMMA StartKeeps ==
  ASSUME IInv, StartFrame
  PROVE  IInv'
<1>1. /\ frame' = frame + 1 /\ todo = {} /\ todo' = Labels /\ frame < MaxFrame
      /\ UNCHANGED <<nextId, tracked, lost, removed>>
      /\ twins' = [m \in Labels |-> {}]
  BY DEF StartFrame
<1>2. frame \in Nat /\ frame + 1 \in 0..MaxFrame
  BY <1>1, ByteTrackAssumption DEF IInv, TypeOK
<1>3. \A m \in Labels : Seen'[m] = Seen[m]
  BY <1>1, <1>2 DEF Seen
<1>4. TypeOK'
  BY <1>1, <1>2 DEF IInv, TypeOK
<1>5. IdsUnique'
  BY <1>1 DEF IInv, IdsUnique, Live, Ids
<1>6. TrackedFit'
  BY <1>1, <1>3 DEF IInv, TrackedFit, Ids
<1>7. LostFit'
  BY <1>1, <1>3 DEF IInv, LostFit, Ids, Grace
<1>8. Underway'
  BY <1>1, <1>2 DEF Underway
<1> QED
  BY <1>4, <1>5, <1>6, <1>7, <1>8 DEF IInv

(* What TLC checks on two labels is inductive for any number of them.      *)
THEOREM Inductive == Spec => []IInv
<1>1. Init => IInv
  BY ByteTrackAssumption DEF Init, IInv, TypeOK, IdsUnique, TrackedFit,
     LostFit, Underway,
     Live, Ids
<1>2. IInv /\ [Next]_vars => IInv'
  <2> SUFFICES ASSUME IInv, [Next]_vars PROVE IInv'
    OBVIOUS
  <2>1. CASE UNCHANGED vars
    BY <2>1 DEF vars, IInv, TypeOK, IdsUnique, TrackedFit, LostFit, Underway,
       Live, Ids,
       Seen, Grace
  <2> QED
    BY <2>1, StartKeeps, UpdateKeeps DEF Next
<1> QED
  BY <1>1, <1>2, PTL DEF Spec

(* No id is in two lists, twice in one, or with two labels: joint_stracks, *)
(* sub_stracks and the shared counter see to it for any outcome of the     *)
(* associations.                                                           *)
THEOREM IdsCorrect == Spec => []IdsUnique
<1>1. IInv => IdsUnique
  BY DEF IInv
<1> QED
  BY <1>1, Inductive, PTL

(* The list a track is in agrees with its state and with the frame it was  *)
(* last matched in.                                                        *)
THEOREM StateCorrect == Spec => []StateMatchesList
<1>1. IInv => StateMatchesList
  BY DEF IInv, StateMatchesList, TrackedFit, LostFit, Output, Seen
<1> QED
  BY <1>1, Inductive, PTL

(* A track comes back at most MaxGap frames after its last detection: the  *)
(* bound by which FacePlugin may prune.                                    *)
THEOREM ReturnsCorrect == Spec => ReturnsInTime
<1>1. ASSUME IInv, [Next]_vars, NEW l \in Labels, NEW t \in tracked'[l], t.id < nextId
      PROVE  \E s \in tracked[l] \cup lost[l] : s.id = t.id /\ t.frame - s.frame <= MaxGap
  <2>0. MaxTimeLost \in Nat /\ MaxGap >= 1 /\ MaxGap = Grace + 2 /\ MaxGap \in Nat
    BY ByteTrackAssumption DEF MaxGap, Grace
  <2>1. CASE tracked'[l] = tracked[l]
    <3>1. t \in tracked[l] /\ t.frame \in Nat
      BY <1>1, <2>1 DEF IInv, TypeOK, Tracks
    <3> QED
      BY <2>0, <3>1
  <2>2. CASE UpdateLabel(l)
    <3>1. PICK got \in SUBSET (tracked[l] \cup lost[l]), fresh \in 0..MaxNew :
            nextId + fresh <= MaxId + 1 /\ Fate(l, got, fresh)
      BY <1>1, <2>2, UpdateShape
    <3>2. /\ t.frame = frame
          /\ \/ \E s \in got : t.id = s.id
             \/ t.id \in nextId .. (nextId + fresh - 1)
      <4>1. \A x \in tracked'[l] :
              /\ x.state = "Tracked" /\ x.frame = frame /\ x.activated
              /\ \/ \E s \in got : x = Matched(s) /\ x.id = s.id /\ x.id < nextId
                 \/ x = Activate(x.id) /\ x.id \in nextId .. (nextId + fresh - 1)
        BY <1>1, <2>2, <3>1, Origins, Zenon
      <4> QED
        BY <1>1, <4>1
    <3>3. PICK s \in got : t.id = s.id
      BY <1>1, <3>2 DEF IInv, TypeOK
    <3>4. s.frame \in Nat /\ frame \in Nat /\ Seen[l] = frame - 1
      BY <1>1, <2>2 DEF IInv, TypeOK, Tracks, Seen, UpdateLabel
    <3>5. s \in tracked[l] => frame - s.frame = 1
      BY <1>1, <3>4 DEF IInv, TrackedFit
    <3>6. s \in lost[l] => frame - s.frame <= Grace + 2
      <4>1. s \in lost[l] => Seen[l] - s.frame <= Grace \/ Seen[l] - s.frame <= Grace + 1
        BY <1>1 DEF IInv, LostFit
      <4> QED
        BY <2>0, <3>4, <4>1 DEF Grace
    <3> QED
      BY <2>0, <3>2, <3>3, <3>5, <3>6
  <2>3. ASSUME NEW m \in Labels, UpdateLabel(m), m # l PROVE tracked'[l] = tracked[l]
    BY <1>1, <2>3, OthersAlone DEF IInv
  <2> QED
    BY <1>1, <2>1, <2>2, <2>3 DEF Next, StartFrame, vars
<1>2. IInv /\ [Next]_vars =>
        [\A l \in Labels : \A t \in tracked'[l] :
           t.id < nextId => \E s \in tracked[l] \cup lost[l] :
                              s.id = t.id /\ t.frame - s.frame <= MaxGap]_vars
  BY <1>1
<1> QED
  BY <1>2, Inductive, PTL DEF Spec, ReturnsInTime

(* Within max_time_lost frames a track leaves its tracker only as the      *)
(* duplicate of another one.                                               *)
THEOREM GraceCorrect == Spec => GraceKept
<1>1. ASSUME IInv, Next, NEW l \in Labels, NEW t \in tracked[l] \cup lost[l],
             frame' - t.frame <= MaxTimeLost
      PROVE  t.id \in Ids(tracked'[l]) \cup Ids(lost'[l]) \cup twins'[l]
  <2>1. CASE tracked'[l] = tracked[l] /\ lost'[l] = lost[l]
    BY <1>1, <2>1 DEF Ids
  <2>2. CASE UpdateLabel(l)
    <3>1. PICK got \in SUBSET (tracked[l] \cup lost[l]), fresh \in 0..MaxNew :
            Fate(l, got, fresh)
      BY <1>1, <2>2, UpdateShape
    <3>2. CASE t \in got
      BY <3>1, <3>2 DEF Fate
    <3>3. CASE t \notin got
      <4>1. t.id \notin Ids(removed[l])
        <5>1. t.frame \in Nat /\ frame \in Nat /\ frame' = frame /\ Seen[l] = frame - 1
          BY <1>1, <2>2 DEF IInv, TypeOK, Tracks, Seen, UpdateLabel
        <5>2. CASE t \in tracked[l]
          BY <1>1, <5>2 DEF IInv, TrackedFit
        <5>3. CASE t \in lost[l]
          <6>1. ~(Seen[l] - t.frame > MaxTimeLost)
            BY <1>1, <5>1, ByteTrackAssumption
          <6> QED
            BY <1>1, <5>3, <6>1 DEF IInv, LostFit
        <5> QED
          BY <1>1, <5>2, <5>3
      <4> QED
        BY <1>1, <3>1, <3>3, <4>1 DEF Fate
    <3> QED
      BY <3>2, <3>3
  <2>3. ASSUME NEW m \in Labels, UpdateLabel(m), m # l
        PROVE  tracked'[l] = tracked[l] /\ lost'[l] = lost[l]
    BY <1>1, <2>3, OthersAlone DEF IInv
  <2> QED
    BY <1>1, <2>1, <2>2, <2>3 DEF Next, StartFrame
<1>2. IInv /\ [Next]_vars =>
        [\A l \in Labels : \A t \in tracked[l] \cup lost[l] :
           frame' - t.frame <= MaxTimeLost
             => t.id \in Ids(tracked'[l]) \cup Ids(lost'[l]) \cup twins'[l]]_vars
  BY <1>1
<1> QED
  BY <1>2, Inductive, PTL DEF Spec, GraceKept
=============================================================================
