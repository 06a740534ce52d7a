-------------------------- MODULE FacePlugin_proof --------------------------
(***************************************************************************)
(* Proofs about FacePlugin: for any number of tracks and pool threads and  *)
(* any frame limits that keep their order, identify_inflight is neither    *)
(* stuck nor stale and no visitor is reported twice.                       *)
(*                                                                         *)
(* The argument follows one track at a time.  Its request is in at most    *)
(* one place; where it is decides what its entry and its count of reports  *)
(* may be; and an id that left the table does not come back.               *)
(***************************************************************************)
EXTENDS FacePlugin, SequenceTheorems, TLAPS

(* The places of a request, as conditions on the queue, the pool threads   *)
(* and the answers.                                                        *)
Asks(j, t) == j.kind = "identify" /\ t \in j.items

InQueue(q, t)   == \E i \in DOMAIN q : Asks(q[i], t)
OnceIn(q, t)    == \A i, j \in DOMAIN q : Asks(q[i], t) /\ Asks(q[j], t) => i = j
At(r, w, t)     == r[w] # NoJob /\ Asks(r[w], t)
OnThread(r, t)  == \E w \in Workers : At(r, w, t)
OnOneThread(r, t) == \A v, w \in Workers : At(r, v, t) /\ At(r, w, t) => v = w
Said(s, t, b)   == [track |-> t, ok |-> b] \in s

Waits(t) == InQueue(queue, t) \/ OnThread(running, t)
Held(t)  == Waits(t) \/ Said(results, t, TRUE) \/ Said(results, t, FALSE)

(* One request, in one place.                                              *)
OneRequest(t) ==
  /\ OnceIn(queue, t)
  /\ OnOneThread(running, t)
  /\ ~(InQueue(queue, t) /\ OnThread(running, t))
  /\ \A b \in BOOLEAN : Said(results, t, b) => ~Waits(t)
  /\ ~(Said(results, t, TRUE) /\ Said(results, t, FALSE))
  /\ t \in abandoned => ~Held(t)

(* The entry knows of its request, also of one that will not be answered.  *)
EntryKnows(t) ==
  /\ t \in inflight => Held(t) \/ t \in abandoned
  /\ t \in pending /\ (Held(t) \/ t \in abandoned) => t \in inflight
  /\ ~(t \in inflight /\ t \in featDone)

(* What has been reported of the track.                                    *)
ReportsFit(t) ==
  /\ reports[t] <= 1
  /\ Waits(t) \/ Said(results, t, FALSE) \/ t \in abandoned => reports[t] = 0
  /\ t \in pending \ featDone /\ ~Said(results, t, TRUE) => reports[t] = 0

(* A track that has no entry is new, or will not be seen again.            *)
NoReturn(t) ==
  /\ t \notin known => ~Held(t) /\ t \notin abandoned /\ reports[t] = 0
  /\ t \in known \ pending => age[t] >= ReappearWithin \/ host = "stopped"

TrackInv(t) == OneRequest(t) /\ EntryKnows(t) /\ ReportsFit(t) /\ NoReturn(t)

IInv ==
  /\ TypeOK
  /\ \A t \in toPrune : age[t] > PruneFrames
  /\ toPrune # {} => host = "prune"
  /\ \A t \in Tracks : TrackInv(t)

-----------------------------------------------------------------------------
(* The queue *)

LEMMA QueueAppends ==
  ASSUME NEW q \in Seq(Jobs), NEW j \in Jobs, NEW t
  PROVE  /\ InQueue(Append(q, j), t) <=> InQueue(q, t) \/ Asks(j, t)
         /\ OnceIn(q, t) /\ ~(InQueue(q, t) /\ Asks(j, t)) => OnceIn(Append(q, j), t)
<1> DEFINE p == Append(q, j)
<1>1. /\ DOMAIN q = 1 .. Len(q) /\ DOMAIN p = 1 .. Len(q) + 1 /\ Len(q) \in Nat
      /\ \A i \in 1 .. Len(q) : p[i] = q[i]
      /\ p[Len(q) + 1] = j
  OBVIOUS
<1>2. \A i \in DOMAIN p : i \in DOMAIN q \/ i = Len(q) + 1
  BY <1>1
<1> HIDE DEF p
<1>3. InQueue(p, t) <=> InQueue(q, t) \/ Asks(j, t)
  BY <1>1, <1>2 DEF InQueue
<1>4. ASSUME OnceIn(q, t), ~(InQueue(q, t) /\ Asks(j, t)) PROVE OnceIn(p, t)
  BY <1>1, <1>2, <1>4 DEF InQueue, OnceIn
<1> QED
  BY <1>3, <1>4 DEF p

LEMMA QueueTakes ==
  ASSUME NEW q \in Seq(Jobs), q # <<>>, NEW t, OnceIn(q, t)
  PROVE  /\ Head(q) \in Jobs /\ Tail(q) \in Seq(Jobs)
         /\ InQueue(q, t) <=> Asks(Head(q), t) \/ InQueue(Tail(q), t)
         /\ ~(Asks(Head(q), t) /\ InQueue(Tail(q), t))
         /\ OnceIn(Tail(q), t)
<1> DEFINE p == Tail(q)
<1>1. /\ DOMAIN q = 1 .. Len(q) /\ DOMAIN p = 1 .. Len(q) - 1 /\ Len(q) \in Nat \ {0}
      /\ \A i \in 1 .. Len(q) - 1 : p[i] = q[i + 1]
      /\ Head(q) = q[1] /\ p \in Seq(Jobs) /\ q[1] \in Jobs
  OBVIOUS
<1>2. \A i \in DOMAIN q : i = 1 \/ (i - 1 \in DOMAIN p /\ q[i] = p[i - 1])
  <2> SUFFICES ASSUME NEW i \in DOMAIN q, i # 1
               PROVE  i - 1 \in DOMAIN p /\ q[i] = p[i - 1]
    OBVIOUS
  <2>1. i - 1 \in 1 .. Len(q) - 1 /\ (i - 1) + 1 = i
    BY <1>1
  <2> QED
    BY <2>1, <1>1
<1>3. \A i \in DOMAIN p : i + 1 \in DOMAIN q /\ i + 1 # 1 /\ p[i] = q[i + 1]
  BY <1>1
<1>4. 1 \in DOMAIN q /\ \A i, j \in DOMAIN p : i + 1 = j + 1 => i = j
  BY <1>1
<1> HIDE DEF p
<1>5. InQueue(q, t) <=> Asks(q[1], t) \/ InQueue(p, t)
  BY <1>2, <1>3, <1>4 DEF InQueue
<1>6. ~(Asks(q[1], t) /\ InQueue(p, t)) /\ OnceIn(p, t)
  BY <1>3, <1>4 DEF InQueue, OnceIn
<1> QED
  BY <1>1, <1>5, <1>6 DEF p

-----------------------------------------------------------------------------
(* The pool threads *)

LEMMA ThreadTakes ==
  ASSUME NEW r \in [Workers -> Jobs \cup {NoJob}], NEW w \in Workers, r[w] = NoJob,
         NEW j \in Jobs, NEW s, s = [r EXCEPT ![w] = j], NEW t
  PROVE  /\ OnThread(s, t) <=> OnThread(r, t) \/ Asks(j, t)
         /\ OnOneThread(r, t) /\ ~(OnThread(r, t) /\ Asks(j, t)) => OnOneThread(s, t)
<1>1. At(s, w, t) <=> Asks(j, t)
  BY NoJobAssumption DEF At
<1>2. ~At(r, w, t) /\ \A v \in Workers \ {w} : At(s, v, t) <=> At(r, v, t)
  BY DEF At
<1> QED
  BY <1>1, <1>2 DEF OnThread, OnOneThread

(* A thread gives up its job, or one item of it.                           *)
LEMMA ThreadDrops ==
  ASSUME NEW r \in [Workers -> Jobs \cup {NoJob}], NEW w \in Workers,
         NEW j, NEW s, s = [r EXCEPT ![w] = j], NEW t,
         j # NoJob /\ Asks(j, t) => At(r, w, t),
         OnOneThread(r, t)
  PROVE  /\ OnThread(s, t) <=> OnThread(r, t) /\ (At(r, w, t) => j # NoJob /\ Asks(j, t))
         /\ OnOneThread(s, t)
<1>1. At(s, w, t) <=> j # NoJob /\ Asks(j, t)
  BY DEF At
<1>2. \A v \in Workers \ {w} : At(s, v, t) <=> At(r, v, t)
  BY DEF At
<1> QED
  BY <1>1, <1>2 DEF OnThread, OnOneThread

-----------------------------------------------------------------------------
(* The steps *)

LEMMA InitHolds == Init => IInv
<1> SUFFICES ASSUME Init PROVE IInv
  OBVIOUS
<1>1. TypeOK
  <2>1. queue \in Seq(Jobs) /\ Len(queue) = 0
    BY DEF Init
  <2>2. age \in [Tracks -> 0 .. MaxAge]
    BY FacePluginAssumption DEF Init, MaxAge
  <2>3. running \in [Workers -> Jobs \cup {NoJob}] /\ reports \in [Tracks -> Nat]
    BY DEF Init
  <2>4. results \subseteq [track : Tracks, ok : BOOLEAN] /\ Len(queue) <= MaxQueue
    BY <2>1, FacePluginAssumption DEF Init
  <2> QED
    BY <2>1, <2>2, <2>3, <2>4 DEF Init, TypeOK
<1>2. ASSUME NEW t \in Tracks PROVE TrackInv(t)
  <2>1. /\ ~InQueue(queue, t) /\ ~OnThread(running, t)
        /\ OnceIn(queue, t) /\ OnOneThread(running, t)
        /\ \A b : ~Said(results, t, b)
    BY DEF Init, InQueue, OnThread, OnceIn, OnOneThread, At, Said
  <2>2. ~Held(t) /\ ~Waits(t)
    BY <2>1 DEF Held, Waits
  <2>3. reports[t] = 0
    BY DEF Init
  <2>4. OneRequest(t) /\ EntryKnows(t)
    BY <2>1, <2>2 DEF Init, OneRequest, EntryKnows
  <2>5. ReportsFit(t) /\ NoReturn(t)
    BY <2>1, <2>2, <2>3 DEF Init, ReportsFit, NoReturn
  <2> QED
    BY <2>4, <2>5 DEF TrackInv
<1> QED
  BY <1>1, <1>2 DEF Init, IInv

LEMMA Answer ==
  ASSUME TypeOK, NEW r \in results
  PROVE  \E b \in BOOLEAN : Said(results, r.track, b) /\ r.ok = b
<1>1. r = [track |-> r.track, ok |-> r.ok] /\ r.ok \in BOOLEAN
  BY DEF TypeOK
<1> QED
  BY <1>1 DEF Said

LEMMA DrainStep == ASSUME IInv, DrainIdentifyResults PROVE IInv'
<1> USE DEF DrainIdentifyResults, trackVars, entryVars, poolVars, ghostVars
<1>1. TypeOK'
  BY DEF IInv, TypeOK
<1>2. toPrune = {} /\ toPrune' = {}
  BY DEF IInv
<1>3. ASSUME NEW t \in Tracks PROVE TrackInv(t)'
  <2>1. TrackInv(t) /\ TypeOK
    BY DEF IInv
  <2>2. Waits(t)' <=> Waits(t)
    BY DEF Waits
  <2>3. \A b : ~Said(results', t, b)
    BY DEF Said
  <2>4. /\ t \in inflight' <=> t \in inflight /\ ~Said(results, t, TRUE) /\ ~Said(results, t, FALSE)
        /\ t \in featDone' <=> t \in featDone \/ (t \in pending /\ Said(results, t, TRUE))
    <3>1. t \in {r.track : r \in results} <=> Said(results, t, TRUE) \/ Said(results, t, FALSE)
      <4>1. ASSUME NEW b, Said(results, t, b) PROVE t \in {r.track : r \in results}
        BY <4>1 DEF Said
      <4> QED
        BY <4>1, <2>1, Answer
    <3> QED
      BY <3>1 DEF Said
  <2>5. OneRequest(t)'
    BY <2>1, <2>2, <2>3 DEF TrackInv, OneRequest, Held, Waits
  <2>6. EntryKnows(t)'
    BY <2>1, <2>2, <2>3, <2>4 DEF TrackInv, OneRequest, EntryKnows, Held
  <2>7. ReportsFit(t)' /\ NoReturn(t)'
    BY <2>1, <2>2, <2>3, <2>4 DEF TrackInv, ReportsFit, NoReturn, Held
  <2> QED
    BY <2>5, <2>6, <2>7 DEF TrackInv
<1> QED
  BY <1>1, <1>2, <1>3 DEF IInv

(* The identify job of a frame is queued for some tracks, or for none.     *)
LEMMA SubmitEffect ==
  ASSUME TypeOK, NEW batch \in SUBSET Tracks, SubmitIdentify(batch)
  PROVE  \E g \in SUBSET batch :
           /\ inflight' = inflight \cup g
           /\ queue' \in Seq(Jobs) /\ Len(queue') <= MaxQueue
           /\ \A t \in Tracks :
                /\ InQueue(queue', t) <=> InQueue(queue, t) \/ t \in g
                /\ OnceIn(queue, t) /\ ~(InQueue(queue, t) /\ t \in g) => OnceIn(queue', t)
<1>1. CASE UNCHANGED <<queue, inflight>>
  <2> WITNESS {} \in SUBSET batch
  <2> QED
    BY <1>1 DEF TypeOK
<1>2. CASE ~UNCHANGED <<queue, inflight>>
  <2> DEFINE j == [kind |-> "identify", items |-> batch]
  <2>1. /\ ~Full /\ queue' = Append(queue, j)
        /\ inflight' = inflight \cup batch
    BY <1>2 DEF SubmitIdentify
  <2>2. j \in Jobs /\ \A t : Asks(j, t) <=> t \in batch
    BY DEF Jobs, Asks
  <2>3. queue \in Seq(Jobs) /\ Len(queue) \in Nat /\ MaxQueue \in Nat
    BY FacePluginAssumption DEF TypeOK
  <2> HIDE DEF j
  <2>4. queue' \in Seq(Jobs) /\ Len(queue') <= MaxQueue
    BY <2>1, <2>2, <2>3 DEF Full
  <2> WITNESS batch \in SUBSET batch
  <2> QED
    BY <2>1, <2>2, <2>3, <2>4, QueueAppends
<1> QED
  BY <1>1, <1>2

LEMMA ObserveStep == ASSUME IInv, Observe PROVE IInv'
<1> USE DEF trackVars, entryVars, poolVars, ghostVars
<1>1. PICK seen \in SUBSET Visible :
        /\ \E cloned \in SUBSET (seen \ featDone) : Refresh(seen, cloned)
        /\ \E batch \in SUBSET (seen \ (featDone \cup inflight)) : SubmitIdentify(batch)
  BY DEF Observe
<1>2. PICK cloned \in SUBSET (seen \ featDone) : Refresh(seen, cloned)
  BY <1>1
<1>3. PICK batch \in SUBSET (seen \ (featDone \cup inflight)) : SubmitIdentify(batch)
  BY <1>1
<1>4. /\ TypeOK /\ host = "frame" /\ host' = "prune" /\ seen \subseteq Tracks
      /\ toPrune' = {t \in pending' : age'[t] > PruneFrames}
      /\ UNCHANGED <<featDone, results, running, reports, abandoned, threw>>
  BY DEF IInv, Observe, Visible
<1>5. PICK g \in SUBSET batch :
        /\ inflight' = inflight \cup g
        /\ queue' \in Seq(Jobs) /\ Len(queue') <= MaxQueue
        /\ \A t \in Tracks :
             /\ InQueue(queue', t) <=> InQueue(queue, t) \/ t \in g
             /\ OnceIn(queue, t) /\ ~(InQueue(queue, t) /\ t \in g) => OnceIn(queue', t)
  BY <1>3, <1>4, SubmitEffect
<1>6. /\ known' = known \cup seen /\ pending' = pending \cup seen
      /\ kept' \subseteq kept \cup seen
      /\ age' \in [Tracks -> 0 .. MaxAge]
      /\ \A t \in known \ seen : age[t] >= ReappearWithin => age'[t] >= ReappearWithin
  <2>1. age \in [Tracks -> 0 .. MaxAge] /\ known \subseteq Tracks
    BY <1>4 DEF TypeOK
  <2> QED
    BY <1>2, <2>1, FacePluginAssumption DEF Refresh, MaxAge
<1>7. TypeOK'
  BY <1>4, <1>5, <1>6 DEF TypeOK
<1>8. ASSUME NEW t \in Tracks PROVE TrackInv(t)'
  <2>1. TrackInv(t)
    BY DEF IInv
  <2>2. /\ OnThread(running', t) <=> OnThread(running, t)
        /\ OnOneThread(running', t) <=> OnOneThread(running, t)
        /\ \A b : Said(results', t, b) <=> Said(results, t, b)
    BY <1>4
  <2>3. t \in known \ pending => t \notin seen
    <3>1. age[t] \in Nat /\ ReappearWithin \in Nat
      BY <1>4, FacePluginAssumption DEF TypeOK, MaxAge
    <3>2. t \in seen => t \notin known \/ age[t] < ReappearWithin
      BY DEF Visible
    <3> QED
      BY <1>4, <2>1, <3>1, <3>2 DEF TrackInv, NoReturn
  <2>4. t \in g => t \in seen /\ ~Held(t) /\ t \notin abandoned /\ t \notin featDone /\ reports[t] = 0
    BY <1>4, <2>1, <2>3 DEF TrackInv, EntryKnows, NoReturn, ReportsFit, Held, TypeOK
  <2>5. /\ Waits(t)' <=> Waits(t) \/ t \in g
        /\ Held(t)' <=> Held(t) \/ t \in g
    BY <1>5, <2>2 DEF Waits, Held
  <2>6. OneRequest(t)'
    BY <1>4, <1>5, <2>1, <2>2, <2>4, <2>5 DEF TrackInv, OneRequest, Held, Waits
  <2>7. EntryKnows(t)'
    BY <1>4, <1>5, <1>6, <2>1, <2>4, <2>5, <2>3 DEF TrackInv, EntryKnows, NoReturn
  <2>8. ReportsFit(t)'
    BY <1>4, <1>6, <2>1, <2>2, <2>3, <2>4, <2>5 DEF TrackInv, ReportsFit, NoReturn
  <2>9. NoReturn(t)'
    BY <1>4, <1>6, <2>1, <2>3, <2>4, <2>5 DEF TrackInv, NoReturn
  <2> QED
    BY <2>6, <2>7, <2>8, <2>9 DEF TrackInv
<1> QED
  BY <1>4, <1>7, <1>8 DEF IInv

(* The loop over the entries not seen for a while: it erases entry t, with *)
(* or without a push, or leaves it.                                        *)
LEMMA PruneStep ==
  ASSUME IInv, NEW t \in Tracks, Prune(t)
  PROVE  IInv'
<1> USE DEF trackVars, entryVars, poolVars, ghostVars
<1>1. /\ TypeOK /\ host = "prune" /\ t \in toPrune /\ toPrune' = toPrune \ {t}
      /\ UNCHANGED <<host, known, age, results, running, abandoned, threw>>
  BY DEF IInv, Prune, Forget, AwaitAnswer, PushLost, RefuseLost, Visit
<1>2. age[t] >= ReappearWithin
  <2>1. age[t] > PruneFrames /\ age[t] \in Nat
    BY <1>1, FacePluginAssumption DEF IInv, TypeOK, MaxAge
  <2> QED
    BY <2>1, FacePluginAssumption
<1>3. CASE AwaitAnswer(t) \/ RefuseLost(t)
  <2>1. UNCHANGED <<pending, inflight, featDone, kept, queue, reports>>
    BY <1>3 DEF AwaitAnswer, RefuseLost
  <2>2. TypeOK'
    BY <1>1, <2>1 DEF TypeOK
  <2>3. ASSUME NEW u \in Tracks PROVE TrackInv(u)'
    BY <1>1, <2>1, <2>3
       DEF IInv, TrackInv, OneRequest, EntryKnows, ReportsFit, NoReturn, Held, Waits
  <2> QED
    BY <1>1, <2>2, <2>3 DEF IInv
<1>4. CASE Forget(t)
  <2>1. /\ UNCHANGED <<queue, reports>>
        /\ pending' = pending \ {t} /\ inflight' = inflight \ {t}
        /\ featDone' = featDone \ {t} /\ kept' = kept \ {t}
    BY <1>4 DEF Forget, Erase
  <2>2. TypeOK'
    BY <1>1, <2>1 DEF TypeOK
  <2>3. ASSUME NEW u \in Tracks PROVE TrackInv(u)'
    <3>1. TrackInv(u) /\ (Waits(u)' <=> Waits(u)) /\ (Held(u)' <=> Held(u))
      BY <1>1, <2>1 DEF IInv, Waits, Held
    <3>2. OneRequest(u)' /\ EntryKnows(u)' /\ ReportsFit(u)'
      BY <1>1, <2>1, <3>1 DEF TrackInv, OneRequest, EntryKnows, ReportsFit
    <3>3. NoReturn(u)'
      BY <1>1, <1>2, <2>1, <3>1 DEF TrackInv, NoReturn
    <3> QED
      BY <3>2, <3>3 DEF TrackInv
  <2> QED
    BY <1>1, <2>1, <2>2, <2>3 DEF IInv
<1>5. CASE PushLost(t)
  <2> DEFINE j == [kind |-> "lost", items |-> {t}]
  <2>1. /\ pending' = pending \ {t} /\ inflight' = inflight \ {t}
        /\ featDone' = featDone \ {t} /\ kept' = kept \ {t}
        /\ queue' = Append(queue, j) /\ ~Full
        /\ reports' = [reports EXCEPT ![t] = @ + 1]
        /\ t \in kept \ (featDone \cup inflight)
    BY <1>5 DEF PushLost, Erase, Report
  <2>2. j \in Jobs /\ \A u : ~Asks(j, u)
    BY DEF Jobs, Asks
  <2>3. queue \in Seq(Jobs) /\ Len(queue) \in Nat /\ MaxQueue \in Nat
    BY <1>1, FacePluginAssumption DEF TypeOK
  <2> HIDE DEF j
  <2>4. queue' \in Seq(Jobs) /\ Len(queue') <= MaxQueue
    BY <2>1, <2>2, <2>3 DEF Full
  <2>5. TypeOK'
    BY <1>1, <2>1, <2>4 DEF TypeOK
  <2>6. ASSUME NEW u \in Tracks PROVE TrackInv(u)'
    <3>1. TrackInv(u) /\ reports[u] \in Nat
      BY <1>1 DEF IInv, TypeOK
    <3>2. /\ InQueue(queue', u) <=> InQueue(queue, u)
          /\ OnceIn(queue, u) => OnceIn(queue', u)
      BY <2>1, <2>2, <2>3, QueueAppends
    <3>3. (Waits(u)' <=> Waits(u)) /\ (Held(u)' <=> Held(u))
      BY <1>1, <3>2 DEF Waits, Held
    <3>4. OneRequest(u)'
      BY <1>1, <3>1, <3>2, <3>3 DEF TrackInv, OneRequest
    <3>5. EntryKnows(u)'
      BY <1>1, <2>1, <3>1, <3>3 DEF TrackInv, EntryKnows
    <3>6. u = t => ~Held(u) /\ u \notin abandoned /\ reports[u] = 0
      BY <1>1, <2>1, <3>1 DEF TrackInv, EntryKnows, ReportsFit, Held, TypeOK
    <3>7. reports'[u] = IF u = t THEN 1 ELSE reports[u]
      BY <1>1, <2>1, <3>6 DEF TypeOK
    <3>8. ReportsFit(u)'
      <4>1. CASE u = t
        <5>1. /\ ~Waits(u)' /\ ~Said(results, u, FALSE)' /\ u \notin abandoned'
              /\ u \notin pending' /\ reports'[u] = 1
          BY <1>1, <2>1, <3>3, <3>6, <3>7, <4>1 DEF Held
        <5>2. reports'[u] <= 1
          BY <5>1
        <5> QED
          BY <5>1, <5>2, Zenon DEF ReportsFit
      <4>2. CASE u # t
        BY <1>1, <2>1, <3>1, <3>3, <3>7, <4>2 DEF TrackInv, ReportsFit
      <4> QED
        BY <4>1, <4>2
    <3>9. NoReturn(u)'
      BY <1>1, <1>2, <2>1, <3>1, <3>3, <3>7 DEF TrackInv, NoReturn, TypeOK
    <3> QED
      BY <3>4, <3>5, <3>8, <3>9 DEF TrackInv
  <2> QED
    BY <1>1, <2>5, <2>6 DEF IInv
<1> QED
  BY <1>3, <1>4, <1>5 DEF Prune

LEMMA FrameEndsStep == ASSUME IInv, FrameEnds \/ Unload PROVE IInv'
<1> USE DEF trackVars, entryVars, poolVars, ghostVars
<1>1. /\ TypeOK /\ host # "stopped" /\ host' \in {"idle", "unload"} /\ toPrune = {}
      /\ UNCHANGED <<known, age, pending, inflight, featDone, kept, toPrune, results,
                     queue, running, reports, abandoned, threw>>
  BY DEF IInv, FrameEnds, Unload
<1>2. TypeOK'
  BY <1>1 DEF TypeOK
<1>3. ASSUME NEW t \in Tracks PROVE TrackInv(t)'
  BY <1>1, <1>3
     DEF IInv, TrackInv, OneRequest, EntryKnows, ReportsFit, NoReturn, Held, Waits
<1> QED
  BY <1>1, <1>2, <1>3 DEF IInv

LEMMA ShutdownStep == ASSUME IInv, Shutdown PROVE IInv'
<1> USE DEF trackVars, entryVars, poolVars, ghostVars
<1>1. /\ TypeOK /\ host' = "stopped" /\ toPrune = {} /\ results' = {}
      /\ pending' = {} /\ inflight' = {} /\ featDone' = {} /\ kept' = {}
      /\ UNCHANGED <<known, age, toPrune, queue, running, reports, abandoned, threw>>
  BY DEF IInv, Shutdown
<1>2. TypeOK'
  BY <1>1 DEF TypeOK
<1>3. ASSUME NEW t \in Tracks PROVE TrackInv(t)'
  <2>1. TrackInv(t) /\ (Waits(t)' <=> Waits(t)) /\ \A b : ~Said(results', t, b)
    BY <1>1 DEF IInv, Waits, Said
  <2>2. OneRequest(t)' /\ EntryKnows(t)'
    BY <1>1, <2>1 DEF TrackInv, OneRequest, EntryKnows, Held
  <2>3. ReportsFit(t)' /\ NoReturn(t)'
    BY <1>1, <2>1 DEF TrackInv, ReportsFit, NoReturn, Held
  <2> QED
    BY <2>2, <2>3 DEF TrackInv
<1> QED
  BY <1>1, <1>2, <1>3 DEF IInv

(* The pool threads never touch the table.                                 *)
LEMMA TakeStep == ASSUME IInv, NEW w \in Workers, Take(w) PROVE IInv'
<1> USE DEF trackVars, entryVars, poolVars, ghostVars
<1> DEFINE j == Head(queue)
<1>1. /\ TypeOK /\ running[w] = NoJob /\ queue # <<>>
      /\ running' = [running EXCEPT ![w] = j] /\ queue' = Tail(queue)
      /\ queue \in Seq(Jobs) /\ running \in [Workers -> Jobs \cup {NoJob}]
      /\ UNCHANGED <<host, known, age, pending, inflight, featDone, kept, toPrune,
                     results, reports, abandoned, threw>>
  BY DEF IInv, Take, TypeOK
<1>2. j \in Jobs /\ Tail(queue) \in Seq(Jobs) /\ Len(Tail(queue)) <= Len(queue)
      /\ Len(queue) \in Nat /\ Len(Tail(queue)) \in Nat
  BY <1>1
<1> HIDE DEF j
<1>3. TypeOK'
  <2>1. Len(queue') <= MaxQueue
    BY <1>1, <1>2, FacePluginAssumption DEF TypeOK
  <2> QED
    BY <1>1, <1>2, <2>1 DEF TypeOK
<1>4. ASSUME NEW t \in Tracks PROVE TrackInv(t)'
  <2>1. TrackInv(t) /\ OnceIn(queue, t) /\ OnOneThread(running, t)
        /\ ~(InQueue(queue, t) /\ OnThread(running, t))
    BY DEF IInv, TrackInv, OneRequest
  <2>2. /\ InQueue(queue, t) <=> Asks(j, t) \/ InQueue(queue', t)
        /\ ~(Asks(j, t) /\ InQueue(queue', t))
        /\ OnceIn(queue', t)
    BY <1>1, <2>1, QueueTakes DEF j
  <2>3. /\ OnThread(running', t) <=> OnThread(running, t) \/ Asks(j, t)
        /\ OnOneThread(running', t)
    BY <1>1, <1>2, <2>1, <2>2, ThreadTakes
  <2>4. (Waits(t)' <=> Waits(t)) /\ (Held(t)' <=> Held(t))
    BY <1>1, <2>2, <2>3 DEF Waits, Held
  <2>5. OneRequest(t)'
    BY <1>1, <2>1, <2>2, <2>3, <2>4 DEF TrackInv, OneRequest
  <2>6. EntryKnows(t)' /\ ReportsFit(t)' /\ NoReturn(t)'
    BY <1>1, <2>1, <2>4 DEF TrackInv, EntryKnows, ReportsFit, NoReturn
  <2> QED
    BY <2>5, <2>6 DEF TrackInv
<1> QED
  BY <1>1, <1>3, <1>4 DEF IInv

LEMMA FinishStep == ASSUME IInv, NEW w \in Workers, Finish(w) PROVE IInv'
<1> USE DEF trackVars, entryVars, poolVars, ghostVars
<1>1. /\ TypeOK /\ running[w] # NoJob
      /\ running[w].kind = "identify" => running[w].items = {}
      /\ running' = [running EXCEPT ![w] = NoJob]
      /\ running \in [Workers -> Jobs \cup {NoJob}]
      /\ UNCHANGED <<host, known, age, pending, inflight, featDone, kept, toPrune,
                     results, queue, reports, abandoned, threw>>
  BY DEF IInv, Finish, TypeOK
<1>2. TypeOK'
  BY <1>1 DEF TypeOK
<1>3. ASSUME NEW t \in Tracks PROVE TrackInv(t)'
  <2>1. TrackInv(t) /\ OnOneThread(running, t)
    BY DEF IInv, TrackInv, OneRequest
  <2>2. ~At(running, w, t)
    BY <1>1 DEF At, Asks
  <2>3. (OnThread(running', t) <=> OnThread(running, t)) /\ OnOneThread(running', t)
    BY <1>1, <2>1, <2>2, ThreadDrops
  <2>4. (Waits(t)' <=> Waits(t)) /\ (Held(t)' <=> Held(t))
    BY <1>1, <2>3 DEF Waits, Held
  <2>5. OneRequest(t)'
    BY <1>1, <2>1, <2>3, <2>4 DEF TrackInv, OneRequest
  <2>6. EntryKnows(t)' /\ ReportsFit(t)' /\ NoReturn(t)'
    BY <1>1, <2>1, <2>4 DEF TrackInv, EntryKnows, ReportsFit, NoReturn
  <2> QED
    BY <2>5, <2>6 DEF TrackInv
<1> QED
  BY <1>1, <1>2, <1>3 DEF IInv

LEMMA PostStep ==
  ASSUME IInv, NEW w \in Workers, NEW t \in Tracks, SearchFails(w, t) \/ SearchAnswers(w, t)
  PROVE  IInv'
<1> USE DEF trackVars, entryVars, poolVars, ghostVars
<1>1. PICK ok \in BOOLEAN :
        /\ Post(w, t, ok)
        /\ reports' = IF ok THEN [reports EXCEPT ![t] = @ + 1] ELSE reports
  BY DEF SearchFails, SearchAnswers, Report
<1> DEFINE j == [running[w] EXCEPT !.items = @ \ {t}]
<1>2. /\ TypeOK /\ Identifying(w) /\ t \in running[w].items
      /\ running' = [running EXCEPT ![w] = j]
      /\ running \in [Workers -> Jobs \cup {NoJob}]
      /\ results' = results \cup {[track |-> t, ok |-> ok]}
      /\ UNCHANGED <<host, known, age, pending, inflight, featDone, kept, toPrune,
                     queue, abandoned, threw>>
  BY <1>1 DEF IInv, Post, TypeOK
<1>3. running[w] \in Jobs /\ At(running, w, t)
  BY <1>2 DEF Identifying, At, Asks
<1>4. j \in Jobs /\ \A u : Asks(j, u) <=> Asks(running[w], u) /\ u # t
  BY <1>3 DEF Jobs, Asks
<1>5. running[w] # NoJob /\ j # NoJob
  BY <1>3, <1>4, NoJobAssumption
<1> HIDE DEF j
<1>6. /\ ~Said(results, t, TRUE) /\ ~Said(results, t, FALSE) /\ t \notin abandoned
      /\ Waits(t) /\ reports[t] = 0
      /\ t \in pending => t \in inflight /\ t \notin featDone
  <2>1. OnThread(running, t)
    BY <1>3 DEF OnThread
  <2> QED
    BY <2>1 DEF IInv, TrackInv, OneRequest, EntryKnows, ReportsFit, Held, Waits
<1>7. TypeOK'
  <2>1. reports' \in [Tracks -> Nat]
    BY <1>1, <1>2 DEF TypeOK
  <2>2. running' \in [Workers -> Jobs \cup {NoJob}]
    BY <1>2, <1>4
  <2> QED
    BY <1>2, <2>1, <2>2 DEF TypeOK
<1>8. ASSUME NEW u \in Tracks PROVE TrackInv(u)'
  <2>1. TrackInv(u) /\ OnOneThread(running, u)
    BY DEF IInv, TrackInv, OneRequest
  <2>2. /\ OnThread(running', u) <=> OnThread(running, u) /\ (At(running, w, u) => u # t)
        /\ OnOneThread(running', u)
    <3>1. Asks(j, u) => At(running, w, u)
      BY <1>4, <1>5 DEF At
    <3>2. At(running, w, u) => Asks(running[w], u)
      BY DEF At
    <3>3. /\ OnThread(running', u) <=> OnThread(running, u) /\ (At(running, w, u) => j # NoJob /\ Asks(j, u))
          /\ OnOneThread(running', u)
      BY <1>2, <2>1, <3>1, ThreadDrops
    <3> QED
      BY <1>4, <1>5, <3>2, <3>3
  <2>3. CASE u # t
    <3>1. \A b : Said(results', u, b) <=> Said(results, u, b)
      BY <1>2, <2>3 DEF Said
    <3>2. (Waits(u)' <=> Waits(u)) /\ (Held(u)' <=> Held(u))
      BY <1>2, <2>2, <2>3, <3>1 DEF Waits, Held
    <3>3. reports'[u] = reports[u]
      BY <1>1, <1>2, <2>3 DEF TypeOK
    <3>4. OneRequest(u)'
      BY <1>2, <2>1, <2>2, <3>1, <3>2 DEF TrackInv, OneRequest
    <3>5. EntryKnows(u)' /\ ReportsFit(u)' /\ NoReturn(u)'
      BY <1>2, <2>1, <3>1, <3>2, <3>3 DEF TrackInv, EntryKnows, ReportsFit, NoReturn
    <3> QED
      BY <3>4, <3>5 DEF TrackInv
  <2>4. CASE u = t
    <3>1. ~Waits(t)' /\ ~InQueue(queue, t)' /\ ~OnThread(running, t)'
      <4>1. ~OnThread(running', t)
        BY <1>3, <2>2, <2>4
      <4>2. ~InQueue(queue, t)
        BY <1>3 DEF IInv, TrackInv, OneRequest, OnThread
      <4> QED
        BY <1>2, <4>1, <4>2 DEF Waits
    <3>2. /\ Said(results', t, ok)
          /\ \A b \in BOOLEAN : b # ok => ~Said(results', t, b)
      BY <1>2, <1>6 DEF Said
    <3>3. Held(t)' /\ reports'[t] = IF ok THEN 1 ELSE 0
      <4>1. Held(t)'
        BY <1>2, <3>2 DEF Held
      <4>2. reports'[t] = IF ok THEN 1 ELSE 0
        BY <1>1, <1>2, <1>6 DEF TypeOK
      <4> QED
        BY <4>1, <4>2
    <3>4. OneRequest(t)'
      BY <1>2, <1>6, <2>1, <2>2, <2>4, <3>1, <3>2 DEF TrackInv, OneRequest
    <3>5. EntryKnows(t)'
      BY <1>2, <1>6, <2>1, <2>4, <3>3 DEF TrackInv, EntryKnows
    <3>6. ReportsFit(t)'
      <4>1. reports'[t] <= 1
        BY <3>3
      <4>2. CASE ok = TRUE
        <5>1. ~Waits(t)' /\ ~Said(results, t, FALSE)' /\ t \notin abandoned' /\ Said(results, t, TRUE)'
          BY <1>2, <1>6, <3>1, <3>2, <4>2
        <5> QED
          BY <4>1, <5>1, Zenon DEF ReportsFit
      <4>3. CASE ok = FALSE
        <5>1. reports'[t] = 0
          BY <3>3, <4>3
        <5> QED
          BY <4>1, <5>1, Zenon DEF ReportsFit
      <4> QED
        BY <4>2, <4>3
    <3>7. NoReturn(t)'
      BY <1>2, <1>6, <2>1, <2>4, <3>3 DEF TrackInv, NoReturn, Held
    <3> QED
      BY <2>4, <3>4, <3>5, <3>6, <3>7 DEF TrackInv
  <2> QED
    BY <2>3, <2>4
<1> QED
  BY <1>2, <1>7, <1>8 DEF IInv

LEMMA ThrowStep == ASSUME IInv, NEW w \in Workers, Throw(w) PROVE IInv'
<1> USE DEF trackVars, entryVars, poolVars, ghostVars
<1>1. /\ TypeOK /\ Identifying(w) /\ running[w] \in Jobs
      /\ running' = [running EXCEPT ![w] = NoJob]
      /\ running \in [Workers -> Jobs \cup {NoJob}]
      /\ abandoned' = abandoned \cup running[w].items
      /\ threw' = TRUE
      /\ UNCHANGED <<host, known, age, pending, inflight, featDone, kept, toPrune,
                     results, queue, reports>>
  BY DEF IInv, Throw, TypeOK, Identifying
<1>2. TypeOK'
  BY <1>1 DEF TypeOK, Jobs
<1>3. ASSUME NEW t \in Tracks PROVE TrackInv(t)'
  <2>1. TrackInv(t) /\ OnOneThread(running, t)
    BY DEF IInv, TrackInv, OneRequest
  <2>2. At(running, w, t) <=> t \in running[w].items
    BY <1>1 DEF At, Asks, Identifying
  <2>3. /\ OnThread(running', t) <=> OnThread(running, t) /\ ~At(running, w, t)
        /\ OnOneThread(running', t)
    BY <1>1, <2>1, ThreadDrops
  <2>4. At(running, w, t) => OnThread(running, t)
    BY DEF OnThread
  <2>5. CASE ~At(running, w, t)
    <3>1. (Waits(t)' <=> Waits(t)) /\ (Held(t)' <=> Held(t)) /\ (t \in abandoned' <=> t \in abandoned)
      BY <1>1, <2>2, <2>3, <2>5 DEF Waits, Held
    <3>2. OneRequest(t)'
      BY <1>1, <2>1, <2>3, <2>5, <3>1 DEF TrackInv, OneRequest
    <3>3. EntryKnows(t)' /\ ReportsFit(t)' /\ NoReturn(t)'
      BY <1>1, <2>1, <3>1 DEF TrackInv, EntryKnows, ReportsFit, NoReturn
    <3> QED
      BY <3>2, <3>3 DEF TrackInv
  <2>6. CASE At(running, w, t)
    <3>1. /\ ~InQueue(queue, t) /\ ~OnThread(running', t) /\ Waits(t) /\ Held(t)
          /\ \A b \in BOOLEAN : ~Said(results, t, b)
          /\ t \in abandoned'
      BY <1>1, <2>1, <2>2, <2>3, <2>4, <2>6 DEF TrackInv, OneRequest, Waits, Held
    <3>2. ~Waits(t)' /\ ~Held(t)'
      BY <1>1, <3>1 DEF Waits, Held
    <3>3. OneRequest(t)'
      BY <1>1, <2>1, <2>3, <3>1, <3>2 DEF TrackInv, OneRequest
    <3>4. EntryKnows(t)' /\ ReportsFit(t)' /\ NoReturn(t)'
      BY <1>1, <2>1, <3>1, <3>2 DEF TrackInv, EntryKnows, ReportsFit, NoReturn
    <3> QED
      BY <3>3, <3>4 DEF TrackInv
  <2> QED
    BY <2>5, <2>6
<1> QED
  BY <1>1, <1>2, <1>3 DEF IInv

LEMMA StepHolds == IInv /\ [Next]_vars => IInv'
<1> SUFFICES ASSUME IInv, [Next]_vars PROVE IInv'
  OBVIOUS
<1>1. CASE OnFrame
  BY <1>1, DrainStep, ObserveStep, PruneStep, FrameEndsStep DEF OnFrame
<1>2. CASE Unload \/ Shutdown
  BY <1>2, FrameEndsStep, ShutdownStep
<1>3. ASSUME NEW w \in Workers, Job(w) PROVE IInv'
  BY <1>3, TakeStep, ThrowStep, FinishStep, PostStep DEF Job
<1>4. CASE UNCHANGED vars
  <2>1. UNCHANGED <<host, known, age, pending, inflight, featDone, kept, toPrune, results,
                    queue, running, reports, abandoned, threw>>
    BY <1>4 DEF vars, trackVars, entryVars, poolVars, ghostVars
  <2>2. TypeOK'
    BY <2>1 DEF IInv, TypeOK
  <2>3. ASSUME NEW t \in Tracks PROVE TrackInv(t)'
    BY <2>1, <2>3
       DEF IInv, TrackInv, OneRequest, EntryKnows, ReportsFit, NoReturn, Held, Waits
  <2> QED
    BY <2>1, <2>2, <2>3 DEF IInv
<1> QED
  BY <1>1, <1>2, <1>3, <1>4 DEF Next

-----------------------------------------------------------------------------
(* The results *)

LEMMA Invariant == Spec => []IInv
BY InitHolds, StepHolds, PTL DEF Spec

(* Every variable of OnFrame, of the jobs and of the pool keeps its type,  *)
(* and the queue its bound.                                                *)
THEOREM TypeCorrect == Spec => []TypeOK
<1>1. IInv => TypeOK
  BY DEF IInv
<1> QED
  BY <1>1, Invariant, PTL

(* A track's request is in at most one place, and identify_inflight is set *)
(* exactly as long as DrainIdentifyResults may have to clear it.           *)
THEOREM InflightCorrect == Spec => []InflightAccounted
<1>1. ASSUME IInv PROVE InflightAccounted
  <2> SUFFICES ASSUME NEW t \in Tracks
               PROVE  /\ \A p, q \in Holders(t) : p = q
                      /\ t \in inflight => Holders(t) # {} \/ t \in abandoned
                      /\ t \in pending /\ Holders(t) # {} => t \in inflight
    BY DEF InflightAccounted
  <2>1. TypeOK /\ TrackInv(t)
    BY <1>1 DEF IInv
  <2>2. \A p \in Holders(t) :
          \/ \E i \in DOMAIN queue : Asks(queue[i], t) /\ p = <<"queue", i>>
          \/ \E w \in Workers : At(running, w, t) /\ p = <<"worker", w>>
          \/ \E b \in BOOLEAN : Said(results, t, b) /\ p = <<"result", b>>
    <3> SUFFICES ASSUME NEW p \in Holders(t)
                 PROVE  \/ \E i \in DOMAIN queue : Asks(queue[i], t) /\ p = <<"queue", i>>
                        \/ \E w \in Workers : At(running, w, t) /\ p = <<"worker", w>>
                        \/ \E b \in BOOLEAN : Said(results, t, b) /\ p = <<"result", b>>
      OBVIOUS
    <3>1. CASE \E r \in results : r.track = t /\ p = <<"result", r.ok>>
      BY <2>1, <3>1, Answer
    <3>2. CASE ~\E r \in results : r.track = t /\ p = <<"result", r.ok>>
      BY <3>2 DEF Holders, Asks, At, Identifying
    <3> QED
      BY <3>1, <3>2
  <2>3. \A p, q \in Holders(t) : p = q
    BY <2>1, <2>2 DEF TrackInv, OneRequest, OnceIn, OnOneThread, Waits,
       InQueue, OnThread
  <2>4. Holders(t) # {} => Held(t)
    BY <2>2 DEF Held, Waits, InQueue, OnThread
  <2>5. Held(t) => Holders(t) # {}
    <3>1. ASSUME NEW i \in DOMAIN queue, Asks(queue[i], t) PROVE <<"queue", i>> \in Holders(t)
      BY <3>1 DEF Holders, Asks
    <3>2. ASSUME NEW w \in Workers, At(running, w, t) PROVE <<"worker", w>> \in Holders(t)
      BY <3>2 DEF Holders, At, Asks, Identifying
    <3>3. ASSUME NEW b \in BOOLEAN, Said(results, t, b) PROVE <<"result", b>> \in Holders(t)
      <4>1. /\ [track |-> t, ok |-> b] \in results
            /\ [track |-> t, ok |-> b].track = t /\ [track |-> t, ok |-> b].ok = b
        BY <3>3 DEF Said
      <4> QED
        BY <4>1 DEF Holders
    <3> QED
      BY <3>1, <3>2, <3>3 DEF Held, Waits, InQueue, OnThread
  <2> QED
    BY <2>1, <2>3, <2>4, <2>5 DEF TrackInv, EntryKnows
<1> QED
  BY <1>1, Invariant, PTL

(* OnFrame and the jobs report a visitor at most once, as identified or as *)
(* a lost stranger.                                                        *)
THEOREM ReportedOnceCorrect == Spec => []ReportedOnce
<1>1. IInv => ReportedOnce
  BY DEF IInv, ReportedOnce, TrackInv, ReportsFit
<1> QED
  BY <1>1, Invariant, PTL
=============================================================================
