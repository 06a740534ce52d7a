------------------------ MODULE HwIdAllocator_proof ------------------------
(***************************************************************************)
(* A hardware id has one live owner, for any processes, threads, pids and  *)
(* numbers of units, whatever crashes between two steps.                   *)
(***************************************************************************)
EXTENDS HwIdAllocator, TLAPS

OpenPcs == {"flock", "stat", "check", "memset", "magic", "funlock"}
FilePcs == OpenPcs \ {"flock"}
MuPcs   == {"work", "take", "unlock"}

(* The ids a thread has a right to: those it holds, the one Acquire is     *)
(* about to return, the one Release has not given back yet.                *)
Claims(t, i) ==
  \/ i \in held[t]
  \/ pc[t] = "unlock" /\ call[t].op = "acquire" /\ call[t].id = i
  \/ pc[t] \notin {"idle", "unlock"} /\ call[t].op = "release" /\ call[t].id = i

(* A thread inside a call belongs to a process that runs, and looks at an  *)
(* id of the table.                                                        *)
InCall ==
  \A t \in Threads :
    /\ pc[t] # "idle" => Self(t) # None
    /\ pc[t] \notin {"idle", "unlock"} => call[t].id \in Ids
    /\ pc[t] \in OpenPcs \cup {"take"} => call[t].op = "acquire"

(* One thread of a process opens the segment, under the file's lock from   *)
(* the look at its size on.                                                *)
OpensOnce ==
  /\ \A t \in Threads : pc[t] \in OpenPcs => shm[ProcOf[t]] = "opening"
  /\ \A t, u \in Threads :
       pc[t] \in OpenPcs /\ pc[u] \in OpenPcs /\ ProcOf[t] = ProcOf[u] => t = u
  /\ \A t \in Threads : pc[t] \in FilePcs => flock = ProcOf[t]

(* The table is in use only once it says so, and is initialised before.    *)
MagicFirst ==
  /\ \A t \in Threads : pc[t] \in {"memset", "magic"} => ~magic
  /\ \A t \in Threads : pc[t] = "funlock" => magic
  /\ ~magic => \A p \in Procs : shm[p] # "ok"

(* The table is used under the mutex, by processes that have it mapped.    *)
MutexHeld ==
  \A t \in Threads :
    /\ pc[t] \in MuPcs => mutex = t
    /\ pc[t] \in MuPcs \cup {"lock"} => shm[ProcOf[t]] = "ok"

(* Whoever has a right to an id has the table mapped and its slot says so; *)
(* nobody else has, nor is about to take it.                               *)
ClaimsHold ==
  /\ \A t \in Threads : \A i \in Ids : Claims(t, i) =>
       Self(t) # None /\ shm[ProcOf[t]] = "ok" /\ slots[i] = Self(t)
  /\ \A t, u \in Threads : \A i \in Ids : Claims(t, i) /\ Claims(u, i) => t = u
  /\ \A t \in Threads : pc[t] = "take" => \A u \in Threads : ~Claims(u, call[t].id)
  /\ \A t \in Threads : pc[t] \notin {"idle", "unlock"} /\ call[t].op = "release"
                          => call[t].id \notin held[t]

IInv == TypeOK /\ InCall /\ OpensOnce /\ MagicFirst /\ MutexHeld /\ ClaimsHold
-----------------------------------------------------------------------------
(* What the ids of the table are made of.                                  *)
LEMMA IdOf ==
  ASSUME NEW k \in Kinds, NEW n \in 0..(Count[k] - 1)
  PROVE  <<k, n>> \in Ids
BY DEF Ids

(* An id is its kind and its number.                                       *)
LEMMA IdParts ==
  ASSUME NEW id \in Ids
  PROVE  id[1] \in Kinds /\ id[2] \in 0..(Count[id[1]] - 1) /\ id = <<id[1], id[2]>>
<1>1. PICK k \in Kinds : id \in {k} \X (0..(Count[k] - 1))
  BY DEF Ids
<1> QED
  BY <1>1

(* Acquire's -1 is no id of the table.                                     *)
LEMMA NoIdOutside == NoId \notin Ids
<1> SUFFICES ASSUME NoId \in Ids PROVE FALSE
  OBVIOUS
<1>1. NoId[1] \in Kinds
  BY IdParts
<1> QED
  BY <1>1, HwIdAssumption DEF NoId

(* The next id of a kind, while there is one.                              *)
LEMMA NextId ==
  ASSUME NEW id \in Ids, id[2] + 1 < Count[id[1]]
  PROVE  <<id[1], id[2] + 1>> \in Ids
<1>1. id[1] \in Kinds /\ id[2] + 1 \in 0..(Count[id[1]] - 1)
  BY IdParts, HwIdAssumption
<1> QED
  BY <1>1, IdOf

(* The call record of a thread outside any call.                           *)
LEMMA IdleCall == Idle \in Calls
BY DEF Idle, Calls

(* The type invariant survives every step; SlotBusy needs NextId to stay in *)
(* the table.                                                              *)
LEMMA TypeStep == ASSUME IInv, [Next]_vars PROVE TypeOK'
<1> USE HwIdAssumption, IdOf, IdParts DEF IInv
<1>1. ASSUME NEW p \in Procs, StartProcess(p) PROVE TypeOK'
  BY <1>1 DEF StartProcess, TypeOK, Calls, Labels, Segment, Self, vars
<1>2. ASSUME NEW p \in Procs, Crash(p) PROVE TypeOK'
  BY <1>2 DEF Crash, Idle, TypeOK, Calls, Labels, Segment, Self, vars
<1>3. ASSUME NEW t \in Threads, EnsureShm(t) PROVE TypeOK'
  <2>1. CASE shm[ProcOf[t]] = "new" /\ SetShm(t, "opening") /\ Goto(t, "flock") /\ UNCHANGED call
    BY <1>3, <2>1 DEF EnsureShm, Goto, Return, SetShm, TypeOK, Labels, Segment,
       Self
  <2>2. CASE shm[ProcOf[t]] = "new" /\ SetShm(t, "failed") /\ Return(t)
    BY <1>3, <2>2, IdleCall DEF EnsureShm, Goto, Return, SetShm, TypeOK,
       Labels, Segment, Self
  <2>3. CASE shm[ProcOf[t]] = "ok" /\ Goto(t, "lock") /\ UNCHANGED <<shm, call>>
    BY <1>3, <2>3 DEF EnsureShm, Goto, Return, SetShm, TypeOK, Labels, Segment,
       Self
  <2>4. CASE shm[ProcOf[t]] = "failed" /\ Return(t) /\ UNCHANGED shm
    BY <1>3, <2>4, IdleCall DEF EnsureShm, Goto, Return, SetShm, TypeOK,
       Labels, Segment, Self
  <2> QED
    BY <1>3, <2>1, <2>2, <2>3, <2>4 DEF EnsureShm
<1>4. ASSUME NEW t \in Threads, FLock(t) PROVE TypeOK'
  BY <1>4 DEF FLock, Goto, TypeOK, Calls, Labels, Segment, Self, vars
<1>5. ASSUME NEW t \in Threads, MapFails(t) PROVE TypeOK'
  BY <1>5 DEF MapFails, Goto, Return, Idle, SetShm, TypeOK, Calls, Labels,
     Segment, Self, vars
<1>6. ASSUME NEW t \in Threads, Truncate(t) PROVE TypeOK'
  BY <1>6 DEF Truncate, Goto, TypeOK, Calls, Labels, Segment, Self, vars
<1>7. ASSUME NEW t \in Threads, CheckMagic(t) PROVE TypeOK'
  BY <1>7 DEF CheckMagic, Goto, TypeOK, Calls, Labels, Segment, Self, vars
<1>8. ASSUME NEW t \in Threads, ClearLayout(t) PROVE TypeOK'
  BY <1>8 DEF ClearLayout, Goto, TypeOK, Calls, Labels, Segment, Self, vars
<1>9. ASSUME NEW t \in Threads, StoreMagic(t) PROVE TypeOK'
  BY <1>9 DEF StoreMagic, Goto, TypeOK, Calls, Labels, Segment, Self, vars
<1>10. ASSUME NEW t \in Threads, Mapped(t) PROVE TypeOK'
  BY <1>10 DEF Mapped, Goto, SetShm, TypeOK, Calls, Labels, Segment, Self, vars
<1>11. ASSUME NEW t \in Threads, LockMu(t) PROVE TypeOK'
  BY <1>11 DEF LockMu, Goto, TypeOK, Calls, Labels, Segment, Self, vars
<1>12. ASSUME NEW t \in Threads, SlotBusy(t) PROVE TypeOK'
  <2> DEFINE kn == call[t].id
  <2>1. kn \in Ids
    BY <1>12 DEF SlotBusy, InCall
  <2>2. CASE kn[2] + 1 < Count[kn[1]]
    BY <1>12, <2>1, <2>2, NextId DEF SlotBusy, Goto, TypeOK, Calls, Labels,
       Segment, Self
  <2>3. CASE ~(kn[2] + 1 < Count[kn[1]])
    <3>1. [call[t] EXCEPT !.id = NoId] \in Calls
      BY DEF TypeOK, Calls
    <3> QED
      BY <1>12, <2>3, <3>1 DEF SlotBusy, Goto, TypeOK, Labels, Segment
  <2> QED
    BY <2>2, <2>3
<1>13. ASSUME NEW t \in Threads, SlotFree(t) PROVE TypeOK'
  BY <1>13 DEF SlotFree, Goto, TypeOK, Calls, Labels, Segment, Self, vars
<1>14. ASSUME NEW t \in Threads, TakeSlot(t) PROVE TypeOK'
  BY <1>14 DEF TakeSlot, Goto, TypeOK, Calls, Labels, Segment, Self, vars
<1>15. ASSUME NEW t \in Threads, FreeSlot(t) PROVE TypeOK'
  BY <1>15 DEF FreeSlot, Goto, TypeOK, Calls, Labels, Segment, Self, vars
<1>16. ASSUME NEW t \in Threads, UnlockMu(t) PROVE TypeOK'
  BY <1>16 DEF UnlockMu, Goto, Return, Idle, TypeOK, Calls, Labels, Segment,
     Self, vars
<1>17. ASSUME NEW t \in Threads, CallAcquire(t) PROVE TypeOK'
  BY <1>17 DEF CallAcquire, Goto, TypeOK, Calls, Labels, Segment, Self, vars
<1>18. ASSUME NEW t \in Threads, CallRelease(t) PROVE TypeOK'
  BY <1>18 DEF CallRelease, Goto, TypeOK, Calls, Labels, Segment, Self, vars
<1>19. CASE UNCHANGED vars
  BY <1>19 DEF TypeOK, Calls, Labels, Segment, Self, vars
<1> QED
  BY <1>1, <1>2, <1>3, <1>4, <1>5, <1>6, <1>7, <1>8, <1>9, <1>10, <1>11, <1>12,
     <1>13, <1>14, <1>15, <1>16, <1>17, <1>18, <1>19 DEF Next, Thread

(* A thread in a call: its process runs, its id is one of the table's.     *)
LEMMA InCallStep == ASSUME IInv, [Next]_vars PROVE InCall'
<1> USE HwIdAssumption, IdOf, IdParts DEF IInv
<1>1. ASSUME NEW p \in Procs, StartProcess(p) PROVE InCall'
  BY <1>1 DEF StartProcess, TypeOK, InCall, OpenPcs, Calls, Labels, Segment,
     Self, vars
<1>2. ASSUME NEW p \in Procs, Crash(p) PROVE InCall'
  BY <1>2 DEF Crash, Idle, TypeOK, InCall, OpenPcs, Calls, Labels, Segment,
     Self, vars
<1>3. ASSUME NEW t \in Threads, EnsureShm(t) PROVE InCall'
  <2>1. CASE shm[ProcOf[t]] = "new" /\ SetShm(t, "opening") /\ Goto(t, "flock") /\ UNCHANGED call
    <3>1. call[t].op = "acquire"
      BY <1>3, <2>1 DEF EnsureShm, TypeOK, InCall, ClaimsHold, Claims, Calls
    <3> QED
      BY <1>3, <2>1, <3>1 DEF EnsureShm, Goto, SetShm, TypeOK, InCall, OpenPcs,
         Segment, Self
  <2>2. CASE shm[ProcOf[t]] = "new" /\ SetShm(t, "failed") /\ Return(t)
    BY <1>3, <2>2, IdleCall DEF EnsureShm, Goto, Return, SetShm, TypeOK,
       InCall, OpenPcs, Labels, Segment, Self
  <2>3. CASE shm[ProcOf[t]] = "ok" /\ Goto(t, "lock") /\ UNCHANGED <<shm, call>>
    BY <1>3, <2>3 DEF EnsureShm, Goto, Return, SetShm, TypeOK, InCall, OpenPcs,
       Labels, Segment, Self
  <2>4. CASE shm[ProcOf[t]] = "failed" /\ Return(t) /\ UNCHANGED shm
    BY <1>3, <2>4, IdleCall DEF EnsureShm, Goto, Return, SetShm, TypeOK,
       InCall, OpenPcs, Labels, Segment, Self
  <2> QED
    BY <1>3, <2>1, <2>2, <2>3, <2>4 DEF EnsureShm
<1>4. ASSUME NEW t \in Threads, FLock(t) PROVE InCall'
  BY <1>4 DEF FLock, Goto, TypeOK, InCall, OpenPcs, Calls, Labels, Segment,
     Self, vars
<1>5. ASSUME NEW t \in Threads, MapFails(t) PROVE InCall'
  BY <1>5 DEF MapFails, Goto, Return, Idle, SetShm, TypeOK, InCall, OpenPcs,
     Calls, Labels, Segment, Self, vars
<1>6. ASSUME NEW t \in Threads, Truncate(t) PROVE InCall'
  BY <1>6 DEF Truncate, Goto, TypeOK, InCall, OpenPcs, Calls, Labels, Segment,
     Self, vars
<1>7. ASSUME NEW t \in Threads, CheckMagic(t) PROVE InCall'
  BY <1>7 DEF CheckMagic, Goto, TypeOK, InCall, OpenPcs, Calls, Labels,
     Segment, Self, vars
<1>8. ASSUME NEW t \in Threads, ClearLayout(t) PROVE InCall'
  BY <1>8 DEF ClearLayout, Goto, TypeOK, InCall, OpenPcs, Calls, Labels,
     Segment, Self, vars
<1>9. ASSUME NEW t \in Threads, StoreMagic(t) PROVE InCall'
  BY <1>9 DEF StoreMagic, Goto, TypeOK, InCall, OpenPcs, Calls, Labels,
     Segment, Self, vars
<1>10. ASSUME NEW t \in Threads, Mapped(t) PROVE InCall'
  BY <1>10 DEF Mapped, Goto, SetShm, TypeOK, InCall, OpenPcs, Calls, Labels,
     Segment, Self, vars
<1>11. ASSUME NEW t \in Threads, LockMu(t) PROVE InCall'
  BY <1>11 DEF LockMu, Goto, TypeOK, InCall, OpenPcs, Calls, Labels, Segment,
     Self, vars
<1>12. ASSUME NEW t \in Threads, SlotBusy(t) PROVE InCall'
  <2> DEFINE kn == call[t].id
  <2>1. kn \in Ids
    BY <1>12 DEF SlotBusy, InCall
  <2>2. CASE kn[2] + 1 < Count[kn[1]]
    BY <1>12, <2>1, <2>2, NextId DEF SlotBusy, Goto, TypeOK, InCall, OpenPcs,
       Calls, Labels, Segment, Self
  <2>3. CASE ~(kn[2] + 1 < Count[kn[1]])
    BY <1>12, <2>1, <2>3 DEF SlotBusy, Goto, TypeOK, InCall, OpenPcs, Calls,
       Labels, Segment, Self
  <2> QED
    BY <2>2, <2>3
<1>13. ASSUME NEW t \in Threads, SlotFree(t) PROVE InCall'
  BY <1>13 DEF SlotFree, Goto, TypeOK, InCall, OpenPcs, Calls, Labels, Segment,
     Self, vars
<1>14. ASSUME NEW t \in Threads, TakeSlot(t) PROVE InCall'
  BY <1>14 DEF TakeSlot, Goto, TypeOK, InCall, OpenPcs, Calls, Labels, Segment,
     Self, vars
<1>15. ASSUME NEW t \in Threads, FreeSlot(t) PROVE InCall'
  BY <1>15 DEF FreeSlot, Goto, TypeOK, InCall, OpenPcs, Calls, Labels, Segment,
     Self, vars
<1>16. ASSUME NEW t \in Threads, UnlockMu(t) PROVE InCall'
  BY <1>16 DEF UnlockMu, Goto, Return, Idle, TypeOK, InCall, OpenPcs, Calls,
     Labels, Segment, Self, vars
<1>17. ASSUME NEW t \in Threads, CallAcquire(t) PROVE InCall'
  BY <1>17 DEF CallAcquire, Goto, TypeOK, InCall, OpenPcs, Calls, Labels,
     Segment, Self, vars
<1>18. ASSUME NEW t \in Threads, CallRelease(t) PROVE InCall'
  BY <1>18 DEF CallRelease, Goto, TypeOK, InCall, OpenPcs, Calls, Labels,
     Segment, Self, vars
<1>19. CASE UNCHANGED vars
  BY <1>19 DEF TypeOK, InCall, OpenPcs, Calls, Labels, Segment, Self, vars
<1> QED
  BY <1>1, <1>2, <1>3, <1>4, <1>5, <1>6, <1>7, <1>8, <1>9, <1>10, <1>11, <1>12,
     <1>13, <1>14, <1>15, <1>16, <1>17, <1>18, <1>19 DEF Next, Thread

(* The opening of the segment stays with one thread of a process.          *)
LEMMA OpensStep == ASSUME IInv, [Next]_vars PROVE OpensOnce'
<1> USE HwIdAssumption DEF IInv
<1>1. ASSUME NEW p \in Procs, StartProcess(p) PROVE OpensOnce'
  BY <1>1 DEF StartProcess, TypeOK, OpensOnce, OpenPcs, FilePcs, Labels,
     Segment, Self, vars
<1>2. ASSUME NEW p \in Procs, Crash(p) PROVE OpensOnce'
  BY <1>2 DEF Crash, Idle, TypeOK, OpensOnce, OpenPcs, FilePcs, Labels,
     Segment, Self, vars
<1>3. ASSUME NEW t \in Threads, EnsureShm(t) PROVE OpensOnce'
  BY <1>3 DEF EnsureShm, Goto, Return, Idle, SetShm, TypeOK, OpensOnce,
     OpenPcs, FilePcs, Labels, Segment, Self, vars
<1>4. ASSUME NEW t \in Threads, FLock(t) PROVE OpensOnce'
  BY <1>4 DEF FLock, Goto, TypeOK, OpensOnce, OpenPcs, FilePcs, Labels,
     Segment, Self, vars
<1>5. ASSUME NEW t \in Threads, MapFails(t) PROVE OpensOnce'
  BY <1>5 DEF MapFails, Goto, Return, Idle, SetShm, TypeOK, OpensOnce, OpenPcs,
     FilePcs, Labels, Segment, Self, vars
<1>6. ASSUME NEW t \in Threads, Truncate(t) PROVE OpensOnce'
  BY <1>6 DEF Truncate, Goto, TypeOK, OpensOnce, OpenPcs, FilePcs, Labels,
     Segment, Self, vars
<1>7. ASSUME NEW t \in Threads, CheckMagic(t) PROVE OpensOnce'
  BY <1>7 DEF CheckMagic, Goto, TypeOK, OpensOnce, OpenPcs, FilePcs, Labels,
     Segment, Self, vars
<1>8. ASSUME NEW t \in Threads, ClearLayout(t) PROVE OpensOnce'
  BY <1>8 DEF ClearLayout, Goto, TypeOK, OpensOnce, OpenPcs, FilePcs, Labels,
     Segment, Self, vars
<1>9. ASSUME NEW t \in Threads, StoreMagic(t) PROVE OpensOnce'
  BY <1>9 DEF StoreMagic, Goto, TypeOK, OpensOnce, OpenPcs, FilePcs, Labels,
     Segment, Self, vars
<1>10. ASSUME NEW t \in Threads, Mapped(t) PROVE OpensOnce'
  BY <1>10 DEF Mapped, Goto, SetShm, TypeOK, OpensOnce, OpenPcs, FilePcs,
     Labels, Segment, Self, vars
<1>11. ASSUME NEW t \in Threads, LockMu(t) PROVE OpensOnce'
  BY <1>11 DEF LockMu, Goto, TypeOK, OpensOnce, OpenPcs, FilePcs, Labels,
     Segment, Self, vars
<1>12. ASSUME NEW t \in Threads, SlotBusy(t) PROVE OpensOnce'
  BY <1>12 DEF SlotBusy, Goto, TypeOK, OpensOnce, OpenPcs, FilePcs, Labels,
     Segment, Self, vars
<1>13. ASSUME NEW t \in Threads, SlotFree(t) PROVE OpensOnce'
  BY <1>13 DEF SlotFree, Goto, TypeOK, OpensOnce, OpenPcs, FilePcs, Labels,
     Segment, Self, vars
<1>14. ASSUME NEW t \in Threads, TakeSlot(t) PROVE OpensOnce'
  BY <1>14 DEF TakeSlot, Goto, TypeOK, OpensOnce, OpenPcs, FilePcs, Labels,
     Segment, Self, vars
<1>15. ASSUME NEW t \in Threads, FreeSlot(t) PROVE OpensOnce'
  BY <1>15 DEF FreeSlot, Goto, TypeOK, OpensOnce, OpenPcs, FilePcs, Labels,
     Segment, Self, vars
<1>16. ASSUME NEW t \in Threads, UnlockMu(t) PROVE OpensOnce'
  BY <1>16 DEF UnlockMu, Goto, Return, Idle, TypeOK, OpensOnce, OpenPcs,
     FilePcs, Labels, Segment, Self, vars
<1>17. ASSUME NEW t \in Threads, CallAcquire(t) PROVE OpensOnce'
  BY <1>17 DEF CallAcquire, Goto, TypeOK, OpensOnce, OpenPcs, FilePcs, Labels,
     Segment, Self, vars
<1>18. ASSUME NEW t \in Threads, CallRelease(t) PROVE OpensOnce'
  BY <1>18 DEF CallRelease, Goto, TypeOK, OpensOnce, OpenPcs, FilePcs, Labels,
     Segment, Self, vars
<1>19. CASE UNCHANGED vars
  BY <1>19 DEF TypeOK, OpensOnce, OpenPcs, FilePcs, Labels, Segment, Self, vars
<1> QED
  BY <1>1, <1>2, <1>3, <1>4, <1>5, <1>6, <1>7, <1>8, <1>9, <1>10, <1>11, <1>12,
     <1>13, <1>14, <1>15, <1>16, <1>17, <1>18, <1>19 DEF Next, Thread

(* magic is stored before anyone has the table mapped for use.             *)
LEMMA MagicStep == ASSUME IInv, [Next]_vars PROVE MagicFirst'
<1> USE HwIdAssumption DEF IInv
<1>1. ASSUME NEW p \in Procs, StartProcess(p) PROVE MagicFirst'
  BY <1>1 DEF StartProcess, TypeOK, OpensOnce, MagicFirst, OpenPcs, FilePcs,
     Labels, Segment, Self, vars
<1>2. ASSUME NEW p \in Procs, Crash(p) PROVE MagicFirst'
  BY <1>2 DEF Crash, Idle, TypeOK, OpensOnce, MagicFirst, OpenPcs, FilePcs,
     Labels, Segment, Self, vars
<1>3. ASSUME NEW t \in Threads, EnsureShm(t) PROVE MagicFirst'
  BY <1>3 DEF EnsureShm, Goto, Return, Idle, SetShm, TypeOK, OpensOnce,
     MagicFirst, OpenPcs, FilePcs, Labels, Segment, Self, vars
<1>4. ASSUME NEW t \in Threads, FLock(t) PROVE MagicFirst'
  BY <1>4 DEF FLock, Goto, TypeOK, OpensOnce, MagicFirst, OpenPcs, FilePcs,
     Labels, Segment, Self, vars
<1>5. ASSUME NEW t \in Threads, MapFails(t) PROVE MagicFirst'
  BY <1>5 DEF MapFails, Goto, Return, Idle, SetShm, TypeOK, OpensOnce,
     MagicFirst, OpenPcs, FilePcs, Labels, Segment, Self, vars
<1>6. ASSUME NEW t \in Threads, Truncate(t) PROVE MagicFirst'
  BY <1>6 DEF Truncate, Goto, TypeOK, OpensOnce, MagicFirst, OpenPcs, FilePcs,
     Labels, Segment, Self, vars
<1>7. ASSUME NEW t \in Threads, CheckMagic(t) PROVE MagicFirst'
  BY <1>7 DEF CheckMagic, Goto, TypeOK, OpensOnce, MagicFirst, OpenPcs,
     FilePcs, Labels, Segment, Self, vars
<1>8. ASSUME NEW t \in Threads, ClearLayout(t) PROVE MagicFirst'
  BY <1>8 DEF ClearLayout, Goto, TypeOK, OpensOnce, MagicFirst, OpenPcs,
     FilePcs, Labels, Segment, Self, vars
<1>9. ASSUME NEW t \in Threads, StoreMagic(t) PROVE MagicFirst'
  BY <1>9 DEF StoreMagic, Goto, TypeOK, OpensOnce, MagicFirst, OpenPcs,
     FilePcs, Labels, Segment, Self, vars
<1>10. ASSUME NEW t \in Threads, Mapped(t) PROVE MagicFirst'
  BY <1>10 DEF Mapped, Goto, SetShm, TypeOK, OpensOnce, MagicFirst, OpenPcs,
     FilePcs, Labels, Segment, Self, vars
<1>11. ASSUME NEW t \in Threads, LockMu(t) PROVE MagicFirst'
  BY <1>11 DEF LockMu, Goto, TypeOK, OpensOnce, MagicFirst, OpenPcs, FilePcs,
     Labels, Segment, Self, vars
<1>12. ASSUME NEW t \in Threads, SlotBusy(t) PROVE MagicFirst'
  BY <1>12 DEF SlotBusy, Goto, TypeOK, OpensOnce, MagicFirst, OpenPcs, FilePcs,
     Labels, Segment, Self, vars
<1>13. ASSUME NEW t \in Threads, SlotFree(t) PROVE MagicFirst'
  BY <1>13 DEF SlotFree, Goto, TypeOK, OpensOnce, MagicFirst, OpenPcs, FilePcs,
     Labels, Segment, Self, vars
<1>14. ASSUME NEW t \in Threads, TakeSlot(t) PROVE MagicFirst'
  BY <1>14 DEF TakeSlot, Goto, TypeOK, OpensOnce, MagicFirst, OpenPcs, FilePcs,
     Labels, Segment, Self, vars
<1>15. ASSUME NEW t \in Threads, FreeSlot(t) PROVE MagicFirst'
  BY <1>15 DEF FreeSlot, Goto, TypeOK, OpensOnce, MagicFirst, OpenPcs, FilePcs,
     Labels, Segment, Self, vars
<1>16. ASSUME NEW t \in Threads, UnlockMu(t) PROVE MagicFirst'
  BY <1>16 DEF UnlockMu, Goto, Return, Idle, TypeOK, OpensOnce, MagicFirst,
     OpenPcs, FilePcs, Labels, Segment, Self, vars
<1>17. ASSUME NEW t \in Threads, CallAcquire(t) PROVE MagicFirst'
  BY <1>17 DEF CallAcquire, Goto, TypeOK, OpensOnce, MagicFirst, OpenPcs,
     FilePcs, Labels, Segment, Self, vars
<1>18. ASSUME NEW t \in Threads, CallRelease(t) PROVE MagicFirst'
  BY <1>18 DEF CallRelease, Goto, TypeOK, OpensOnce, MagicFirst, OpenPcs,
     FilePcs, Labels, Segment, Self, vars
<1>19. CASE UNCHANGED vars
  BY <1>19 DEF TypeOK, OpensOnce, MagicFirst, OpenPcs, FilePcs, Labels,
     Segment, Self, vars
<1> QED
  BY <1>1, <1>2, <1>3, <1>4, <1>5, <1>6, <1>7, <1>8, <1>9, <1>10, <1>11, <1>12,
     <1>13, <1>14, <1>15, <1>16, <1>17, <1>18, <1>19 DEF Next, Thread

(* The mutex is its holder's until UnlockMu or a crash; ClearLayout, which *)
(* makes it anew, meets nobody under it by MagicFirst.                     *)
LEMMA MutexStep == ASSUME IInv, [Next]_vars PROVE MutexHeld'
<1> USE HwIdAssumption DEF IInv
<1>1. ASSUME NEW p \in Procs, StartProcess(p) PROVE MutexHeld'
  BY <1>1 DEF StartProcess, TypeOK, OpensOnce, MagicFirst, MutexHeld, MuPcs,
     OpenPcs, FilePcs, Labels, Segment, Self, vars
<1>2. ASSUME NEW p \in Procs, Crash(p) PROVE MutexHeld'
  BY <1>2 DEF Crash, Idle, TypeOK, OpensOnce, MagicFirst, MutexHeld, MuPcs,
     OpenPcs, FilePcs, Labels, Segment, Self, vars
<1>3. ASSUME NEW t \in Threads, EnsureShm(t) PROVE MutexHeld'
  BY <1>3 DEF EnsureShm, Goto, Return, Idle, SetShm, TypeOK, OpensOnce,
     MagicFirst, MutexHeld, MuPcs, OpenPcs, FilePcs, Labels, Segment, Self,
     vars
<1>4. ASSUME NEW t \in Threads, FLock(t) PROVE MutexHeld'
  BY <1>4 DEF FLock, Goto, TypeOK, OpensOnce, MagicFirst, MutexHeld, MuPcs,
     OpenPcs, FilePcs, Labels, Segment, Self, vars
<1>5. ASSUME NEW t \in Threads, MapFails(t) PROVE MutexHeld'
  BY <1>5 DEF MapFails, Goto, Return, Idle, SetShm, TypeOK, OpensOnce,
     MagicFirst, MutexHeld, MuPcs, OpenPcs, FilePcs, Labels, Segment, Self,
     vars
<1>6. ASSUME NEW t \in Threads, Truncate(t) PROVE MutexHeld'
  BY <1>6 DEF Truncate, Goto, TypeOK, OpensOnce, MagicFirst, MutexHeld, MuPcs,
     OpenPcs, FilePcs, Labels, Segment, Self, vars
<1>7. ASSUME NEW t \in Threads, CheckMagic(t) PROVE MutexHeld'
  BY <1>7 DEF CheckMagic, Goto, TypeOK, OpensOnce, MagicFirst, MutexHeld,
     MuPcs, OpenPcs, FilePcs, Labels, Segment, Self, vars
<1>8. ASSUME NEW t \in Threads, ClearLayout(t) PROVE MutexHeld'
  BY <1>8 DEF ClearLayout, Goto, TypeOK, OpensOnce, MagicFirst, MutexHeld,
     MuPcs, OpenPcs, FilePcs, Labels, Segment, Self, vars
<1>9. ASSUME NEW t \in Threads, StoreMagic(t) PROVE MutexHeld'
  BY <1>9 DEF StoreMagic, Goto, TypeOK, OpensOnce, MagicFirst, MutexHeld,
     MuPcs, OpenPcs, FilePcs, Labels, Segment, Self, vars
<1>10. ASSUME NEW t \in Threads, Mapped(t) PROVE MutexHeld'
  BY <1>10 DEF Mapped, Goto, SetShm, TypeOK, OpensOnce, MagicFirst, MutexHeld,
     MuPcs, OpenPcs, FilePcs, Labels, Segment, Self, vars
<1>11. ASSUME NEW t \in Threads, LockMu(t) PROVE MutexHeld'
  BY <1>11 DEF LockMu, Goto, TypeOK, OpensOnce, MagicFirst, MutexHeld, MuPcs,
     OpenPcs, FilePcs, Labels, Segment, Self, vars
<1>12. ASSUME NEW t \in Threads, SlotBusy(t) PROVE MutexHeld'
  BY <1>12 DEF SlotBusy, Goto, TypeOK, OpensOnce, MagicFirst, MutexHeld, MuPcs,
     OpenPcs, FilePcs, Labels, Segment, Self, vars
<1>13. ASSUME NEW t \in Threads, SlotFree(t) PROVE MutexHeld'
  BY <1>13 DEF SlotFree, Goto, TypeOK, OpensOnce, MagicFirst, MutexHeld, MuPcs,
     OpenPcs, FilePcs, Labels, Segment, Self, vars
<1>14. ASSUME NEW t \in Threads, TakeSlot(t) PROVE MutexHeld'
  BY <1>14 DEF TakeSlot, Goto, TypeOK, OpensOnce, MagicFirst, MutexHeld, MuPcs,
     OpenPcs, FilePcs, Labels, Segment, Self, vars
<1>15. ASSUME NEW t \in Threads, FreeSlot(t) PROVE MutexHeld'
  BY <1>15 DEF FreeSlot, Goto, TypeOK, OpensOnce, MagicFirst, MutexHeld, MuPcs,
     OpenPcs, FilePcs, Labels, Segment, Self, vars
<1>16. ASSUME NEW t \in Threads, UnlockMu(t) PROVE MutexHeld'
  BY <1>16 DEF UnlockMu, Goto, Return, Idle, TypeOK, OpensOnce, MagicFirst,
     MutexHeld, MuPcs, OpenPcs, FilePcs, Labels, Segment, Self, vars
<1>17. ASSUME NEW t \in Threads, CallAcquire(t) PROVE MutexHeld'
  BY <1>17 DEF CallAcquire, Goto, TypeOK, OpensOnce, MagicFirst, MutexHeld,
     MuPcs, OpenPcs, FilePcs, Labels, Segment, Self, vars
<1>18. ASSUME NEW t \in Threads, CallRelease(t) PROVE MutexHeld'
  BY <1>18 DEF CallRelease, Goto, TypeOK, OpensOnce, MagicFirst, MutexHeld,
     MuPcs, OpenPcs, FilePcs, Labels, Segment, Self, vars
<1>19. CASE UNCHANGED vars
  BY <1>19 DEF TypeOK, OpensOnce, MagicFirst, MutexHeld, MuPcs, OpenPcs,
     FilePcs, Labels, Segment, Self, vars
<1> QED
  BY <1>1, <1>2, <1>3, <1>4, <1>5, <1>6, <1>7, <1>8, <1>9, <1>10, <1>11, <1>12,
     <1>13, <1>14, <1>15, <1>16, <1>17, <1>18, <1>19 DEF Next, Thread

(* The heart: a slot is taken only when its pid is dead, so nobody has a   *)
(* claim on it, and the mutex keeps it so until the slot is written.       *)
LEMMA ClaimsStep == ASSUME IInv, [Next]_vars PROVE ClaimsHold'
<1> USE HwIdAssumption, NoIdOutside DEF IInv
<1>1. ASSUME NEW p \in Procs, StartProcess(p) PROVE ClaimsHold'
  BY <1>1 DEF StartProcess, TypeOK, InCall, OpensOnce, MagicFirst, MutexHeld,
     ClaimsHold, Claims, OpenPcs, FilePcs, MuPcs, Labels, Segment, Self
<1>2. ASSUME NEW p \in Procs, Crash(p) PROVE ClaimsHold'
  BY <1>2 DEF Crash, Idle, TypeOK, InCall, OpensOnce, MagicFirst, MutexHeld,
     ClaimsHold, Claims, OpenPcs, FilePcs, MuPcs, Labels, Segment, Self
<1>3. ASSUME NEW t \in Threads, EnsureShm(t) PROVE ClaimsHold'
  BY <1>3 DEF EnsureShm, Goto, Return, Idle, SetShm, TypeOK, InCall, OpensOnce,
     MagicFirst, MutexHeld, ClaimsHold, Claims, OpenPcs, FilePcs, MuPcs,
     Labels, Segment, Self
<1>4. ASSUME NEW t \in Threads, FLock(t) PROVE ClaimsHold'
  BY <1>4 DEF FLock, Goto, TypeOK, InCall, OpensOnce, MagicFirst, MutexHeld,
     ClaimsHold, Claims, OpenPcs, FilePcs, MuPcs, Labels, Segment, Self
<1>5. ASSUME NEW t \in Threads, MapFails(t) PROVE ClaimsHold'
  BY <1>5 DEF MapFails, Goto, Return, Idle, SetShm, TypeOK, InCall, OpensOnce,
     MagicFirst, MutexHeld, ClaimsHold, Claims, OpenPcs, FilePcs, MuPcs,
     Labels, Segment, Self
<1>6. ASSUME NEW t \in Threads, Truncate(t) PROVE ClaimsHold'
  BY <1>6 DEF Truncate, Goto, TypeOK, InCall, OpensOnce, MagicFirst, MutexHeld,
     ClaimsHold, Claims, OpenPcs, FilePcs, MuPcs, Labels, Segment, Self
<1>7. ASSUME NEW t \in Threads, CheckMagic(t) PROVE ClaimsHold'
  BY <1>7 DEF CheckMagic, Goto, TypeOK, InCall, OpensOnce, MagicFirst,
     MutexHeld, ClaimsHold, Claims, OpenPcs, FilePcs, MuPcs, Labels, Segment,
     Self
<1>8. ASSUME NEW t \in Threads, ClearLayout(t) PROVE ClaimsHold'
  BY <1>8 DEF ClearLayout, Goto, TypeOK, InCall, OpensOnce, MagicFirst,
     MutexHeld, ClaimsHold, Claims, OpenPcs, FilePcs, MuPcs, Labels, Segment,
     Self
<1>9. ASSUME NEW t \in Threads, StoreMagic(t) PROVE ClaimsHold'
  BY <1>9 DEF StoreMagic, Goto, TypeOK, InCall, OpensOnce, MagicFirst,
     MutexHeld, ClaimsHold, Claims, OpenPcs, FilePcs, MuPcs, Labels, Segment,
     Self
<1>10. ASSUME NEW t \in Threads, Mapped(t) PROVE ClaimsHold'
  BY <1>10 DEF Mapped, Goto, SetShm, TypeOK, InCall, OpensOnce, MagicFirst,
     MutexHeld, ClaimsHold, Claims, OpenPcs, FilePcs, MuPcs, Labels, Segment,
     Self
<1>11. ASSUME NEW t \in Threads, LockMu(t) PROVE ClaimsHold'
  BY <1>11 DEF LockMu, Goto, TypeOK, InCall, OpensOnce, MagicFirst, MutexHeld,
     ClaimsHold, Claims, OpenPcs, FilePcs, MuPcs, Labels, Segment, Self
<1>12. ASSUME NEW t \in Threads, SlotBusy(t) PROVE ClaimsHold'
  <2>1. call'[t].op = "acquire" /\ \A u \in Threads \ {t} : call'[u] = call[u]
    BY <1>12 DEF SlotBusy, TypeOK, Calls
  <2>2. call'[t].id = NoId \/ pc' = pc
    BY <1>12 DEF SlotBusy, TypeOK, Calls
  <2>3. pc[t] = "work" /\ pc'[t] \in {"work", "unlock"}
          /\ \A u \in Threads \ {t} : pc'[u] = pc[u]
    BY <1>12 DEF SlotBusy, Goto, TypeOK
  <2>4. call[t].op = "acquire" /\ UNCHANGED <<held, pid, shm, slots>>
    BY <1>12 DEF SlotBusy, Segment
  <2>5. \A u \in Threads, i \in Ids : Claims(u, i)' <=> Claims(u, i)
    BY <2>1, <2>2, <2>3, <2>4 DEF Claims
  <2>6. \A u \in Threads : pc'[u] = "take" =>
          u # t /\ pc[u] = "take" /\ call'[u] = call[u] /\ call[u].id \in Ids
    BY <2>1, <2>3 DEF InCall
  <2>7. \A u \in Threads : pc'[u] \notin {"idle", "unlock"} /\ call'[u].op = "release" =>
          u # t /\ pc'[u] = pc[u] /\ call'[u] = call[u]
    BY <2>1, <2>3
  <2>8. \A u \in Threads : \A i \in Ids : Claims(u, i)' =>
          Self(u)' # None /\ shm'[ProcOf[u]] = "ok" /\ slots'[i] = Self(u)'
    BY <2>4, <2>5 DEF ClaimsHold, Self
  <2>9. \A u, v \in Threads : \A i \in Ids : Claims(u, i)' /\ Claims(v, i)' => u = v
    BY <2>5 DEF ClaimsHold
  <2>10. \A u \in Threads : pc'[u] = "take" => \A v \in Threads : ~Claims(v, call[u].id)'
    BY <2>5, <2>6 DEF ClaimsHold
  <2>11. \A u \in Threads : pc'[u] \notin {"idle", "unlock"} /\ call'[u].op = "release"
           => call'[u].id \notin held'[u]
    BY <2>4, <2>7 DEF ClaimsHold
  <2> QED
    BY <2>8, <2>9, <2>10, <2>11 DEF ClaimsHold
<1>13. ASSUME NEW t \in Threads, SlotFree(t) PROVE ClaimsHold'
  BY <1>13 DEF SlotFree, Goto, PidAlive, TypeOK, InCall, OpensOnce, MagicFirst,
     MutexHeld, ClaimsHold, Claims, OpenPcs, FilePcs, MuPcs, Labels, Segment,
     Self
<1>14. ASSUME NEW t \in Threads, TakeSlot(t) PROVE ClaimsHold'
  BY <1>14 DEF TakeSlot, Goto, TypeOK, InCall, OpensOnce, MagicFirst,
     MutexHeld, ClaimsHold, Claims, OpenPcs, FilePcs, MuPcs, Labels, Segment,
     Self
<1>15. ASSUME NEW t \in Threads, FreeSlot(t) PROVE ClaimsHold'
  BY <1>15 DEF FreeSlot, Goto, TypeOK, InCall, OpensOnce, MagicFirst,
     MutexHeld, ClaimsHold, Claims, OpenPcs, FilePcs, MuPcs, Labels, Segment,
     Self
<1>16. ASSUME NEW t \in Threads, UnlockMu(t) PROVE ClaimsHold'
  BY <1>16 DEF UnlockMu, Goto, Return, Idle, TypeOK, InCall, OpensOnce,
     MagicFirst, MutexHeld, ClaimsHold, Claims, OpenPcs, FilePcs, MuPcs,
     Labels, Segment, Self
<1>17. ASSUME NEW t \in Threads, CallAcquire(t) PROVE ClaimsHold'
  BY <1>17 DEF CallAcquire, Goto, TypeOK, InCall, OpensOnce, MagicFirst,
     MutexHeld, ClaimsHold, Claims, OpenPcs, FilePcs, MuPcs, Labels, Segment,
     Self
<1>18. ASSUME NEW t \in Threads, CallRelease(t) PROVE ClaimsHold'
  BY <1>18 DEF CallRelease, Goto, TypeOK, InCall, OpensOnce, MagicFirst,
     MutexHeld, ClaimsHold, Claims, OpenPcs, FilePcs, MuPcs, Labels, Segment,
     Self
<1>19. CASE UNCHANGED vars
  BY <1>19 DEF vars, TypeOK, InCall, OpensOnce, MagicFirst, MutexHeld,
     ClaimsHold, Claims, OpenPcs, FilePcs, MuPcs, Labels, Segment, Self
<1> QED
  BY <1>1, <1>2, <1>3, <1>4, <1>5, <1>6, <1>7, <1>8, <1>9, <1>10, <1>11, <1>12,
     <1>13, <1>14, <1>15, <1>16, <1>17, <1>18, <1>19 DEF Next, Thread

(* Nothing is claimed when the segment is absent.                          *)
LEMMA InitInv == ASSUME Init PROVE IInv
<1> USE HwIdAssumption DEF Init
<1>1. TypeOK
  BY IdleCall DEF TypeOK, Labels, Calls
<1> QED
  BY <1>1 DEF IInv, InCall, OpensOnce, MagicFirst, MutexHeld, ClaimsHold,
     Claims,
              OpenPcs, FilePcs, MuPcs

(* The six parts hold one another up, whatever step is taken.              *)
THEOREM Inductive == Spec => []IInv
<1>1. Init => IInv
  BY InitInv
<1>2. IInv /\ [Next]_vars => IInv'
  BY TypeStep, InCallStep, OpensStep, MagicStep, MutexStep, ClaimsStep DEF IInv
<1> QED
  BY <1>1, <1>2, PTL DEF Spec

(* A unit has one live owner (HwIdAllocator::Acquire, Release), for any    *)
(* number of processes, threads and units, whatever crashes when, and      *)
(* although pids are reused.                                               *)
THEOREM OneOwnerCorrect == Spec => []OneOwner
<1>1. IInv => OneOwner
  BY DEF IInv, OneOwner, ClaimsHold, Claims, TypeOK
<1> QED
  BY <1>1, Inductive, PTL

(* MapAndInit clears the table alone, and never under a user's feet.       *)
THEOREM InitAloneCorrect == Spec => []InitAlone
<1>1. IInv => InitAlone
  BY DEF IInv, InitAlone, OpensOnce, MagicFirst, OpenPcs, FilePcs, TypeOK
<1> QED
  BY <1>1, Inductive, PTL
=============================================================================
