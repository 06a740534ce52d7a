--------------------------- MODULE HwIdAllocator ---------------------------
(***************************************************************************)
(* The ids of the hardware units (IVPS groups, VDEC groups, VENC channels) *)
(* are given out across processes: a table of pids in a shared memory      *)
(* segment under a process-shared robust mutex.  A process may die between *)
(* any two steps, and the system may give its pid to another one.          *)
(***************************************************************************)
EXTENDS Integers, FiniteSets

CONSTANTS Procs,       \* processes that use the allocator
          Threads,     \* their threads
          ProcOf,      \* [Threads -> Procs]
          Pids,        \* the pids the system gives out
          Kinds,       \* HwIdKind
          Count,       \* [Kinds -> Nat], ids of each kind (kIvpsMax, ...)
          None,        \* no thread, process or pid (0 in the table)
          Dead         \* the mutex's owner died holding it

ASSUME HwIdAssumption ==
  /\ ProcOf \in [Threads -> Procs]
  /\ Count \in [Kinds -> Nat \ {0}]
  /\ None \notin Threads \cup Procs \cup Pids \cup Kinds
  /\ Dead \notin Threads \cup {None}

Ids == UNION {{k} \X (0..(Count[k] - 1)) : k \in Kinds}
NoId == <<None, 0>>

VARIABLES
  pid,      \* per process: its pid, None when it does not run
  flock,    \* the process that holds the lock on the segment's file
  large,    \* the segment has been truncated to its size
  magic,    \* magic and version are those of this program
  mutex,    \* owner of layout->mu: a thread, None or Dead
  slots,    \* the three tables of pids
  shm,      \* per process: "new", "opening", "ok" or "failed" (EnsureShm)
  pc,       \* per thread: where it is in Acquire or Release
  call,     \* per thread: [op, id]; of Acquire, the next id it will look at
  held      \* per thread: the ids Acquire returned to it

vars == <<pid, flock, large, magic, mutex, slots, shm, pc, call, held>>

Labels == {"idle", "ensure", "flock", "stat", "check", "memset", "magic", "funlock",
           "lock", "work", "take", "unlock"}
Calls == [op : {"acquire", "release"}, id : Ids \cup {NoId}]

TypeOK ==
  /\ pid \in [Procs -> Pids \cup {None}]
  /\ flock \in Procs \cup {None}
  /\ large \in BOOLEAN /\ magic \in BOOLEAN
  /\ mutex \in Threads \cup {None, Dead}
  /\ slots \in [Ids -> Pids \cup {None}]
  /\ shm \in [Procs -> {"new", "opening", "ok", "failed"}]
  /\ pc \in [Threads -> Labels]
  /\ call \in [Threads -> Calls]
  /\ held \in [Threads -> SUBSET Ids]

Idle == [op |-> "acquire", id |-> NoId]

(* The segment outlives every process: it may be there from an earlier run,*)
(* but what it says is then said of pids; here it starts absent.           *)
Init ==
  /\ pid = [p \in Procs |-> None]
  /\ flock = None /\ large = FALSE /\ magic = FALSE /\ mutex = None
  /\ slots = [id \in Ids |-> None]
  /\ shm = [p \in Procs |-> "new"]
  /\ pc = [t \in Threads |-> "idle"]
  /\ call = [t \in Threads |-> Idle]
  /\ held = [t \in Threads |-> {}]

Self(t) == pid[ProcOf[t]]
Goto(t, l) == pc' = [pc EXCEPT ![t] = l]
SetShm(t, s) == shm' = [shm EXCEPT ![ProcOf[t]] = s]
Segment == <<large, magic, mutex, slots>>

(* kill(pid, 0)                                                            *)
PidAlive(n) == n # None /\ \E p \in Procs : pid[p] = n

(* Processes come and go; a pid is free again once its process is gone.    *)
StartProcess(p) ==
  /\ pid[p] = None
  /\ \E n \in Pids : (\A q \in Procs : pid[q] # n) /\ pid' = [pid EXCEPT ![p] = n]
  /\ UNCHANGED <<flock, Segment, shm, pc, call, held>>

(* The kernel closes the file, which drops its lock, and marks the robust  *)
(* mutex; the table keeps the pid.                                         *)
Crash(p) ==
  LET mine == {t \in Threads : ProcOf[t] = p} IN
  /\ pid[p] # None
  /\ pid' = [pid EXCEPT ![p] = None]
  /\ flock' = IF flock = p THEN None ELSE flock
  /\ mutex' = IF mutex \in mine THEN Dead ELSE mutex
  /\ shm' = [shm EXCEPT ![p] = "new"]
  /\ pc' = [t \in Threads |-> IF t \in mine THEN "idle" ELSE pc[t]]
  /\ call' = [t \in Threads |-> IF t \in mine THEN Idle ELSE call[t]]
  /\ held' = [t \in Threads |-> IF t \in mine THEN {} ELSE held[t]]
  /\ UNCHANGED <<large, magic, slots>>

CallAcquire(t) ==
  /\ pc[t] = "idle" /\ Self(t) # None
  /\ \E k \in Kinds : call' = [call EXCEPT ![t] = [op |-> "acquire", id |-> <<k, 0>>]]
  /\ Goto(t, "ensure")
  /\ UNCHANGED <<pid, flock, Segment, shm, held>>

(* The owner stops using the id before it gives it back.                   *)
CallRelease(t) ==
  /\ pc[t] = "idle" /\ Self(t) # None
  /\ \E id \in held[t] :
       /\ call' = [call EXCEPT ![t] = [op |-> "release", id |-> id]]
       /\ held' = [held EXCEPT ![t] = @ \ {id}]
  /\ Goto(t, "ensure")
  /\ UNCHANGED <<pid, flock, Segment, shm>>

Return(t) ==
  /\ Goto(t, "idle")
  /\ call' = [call EXCEPT ![t] = Idle]

(* call_once: the first thread opens the segment, the others wait; what    *)
(* failed once is not tried again.                                         *)
EnsureShm(t) ==
  /\ pc[t] = "ensure"
  /\ \/ /\ shm[ProcOf[t]] = "new" /\ SetShm(t, "opening")
        /\ Goto(t, "flock") /\ UNCHANGED call
     \/ shm[ProcOf[t]] = "new" /\ SetShm(t, "failed") /\ Return(t)
     \/ shm[ProcOf[t]] = "ok" /\ Goto(t, "lock") /\ UNCHANGED <<shm, call>>
     \/ shm[ProcOf[t]] = "failed" /\ Return(t) /\ UNCHANGED shm
  /\ UNCHANGED <<pid, flock, Segment, held>>

(* Mutant: the file is not locked.                                         *)
FlockNotTaken(t) ==
  /\ pc[t] = "flock" /\ Goto(t, "stat")
  /\ UNCHANGED <<pid, flock, Segment, shm, call, held>>
FLock(t) ==
  /\ pc[t] = "flock"
  /\ flock = None /\ flock' = ProcOf[t]
  /\ Goto(t, "stat")
  /\ UNCHANGED <<pid, Segment, shm, call, held>>

(* fstat, ftruncate, mmap or the mutex may fail: the lock is given back.   *)
MapFails(t) ==
  /\ pc[t] \in {"flock", "stat", "check", "memset"}
  /\ flock' = IF flock = ProcOf[t] THEN None ELSE flock
  /\ SetShm(t, "failed")
  /\ Return(t)
  /\ UNCHANGED <<pid, Segment, held>>

Truncate(t) ==
  /\ pc[t] = "stat"
  /\ large' = TRUE
  /\ Goto(t, "check")
  /\ UNCHANGED <<pid, flock, magic, mutex, slots, shm, call, held>>

CheckMagic(t) ==
  /\ pc[t] = "check"
  /\ Goto(t, IF magic THEN "funlock" ELSE "memset")
  /\ UNCHANGED <<pid, flock, Segment, shm, call, held>>

(* memset and InitMutex: an empty table and a mutex nobody owns.           *)
ClearLayout(t) ==
  /\ pc[t] = "memset"
  /\ slots' = [id \in Ids |-> None]
  /\ mutex' = None
  /\ Goto(t, "magic")
  /\ UNCHANGED <<pid, flock, large, magic, shm, call, held>>

StoreMagic(t) ==
  /\ pc[t] = "magic"
  /\ magic' = TRUE
  /\ Goto(t, "funlock")
  /\ UNCHANGED <<pid, flock, large, mutex, slots, shm, call, held>>

Mapped(t) ==
  /\ pc[t] = "funlock"
  /\ flock' = IF flock = ProcOf[t] THEN None ELSE flock
  /\ SetShm(t, "ok")
  /\ Goto(t, "lock")
  /\ UNCHANGED <<pid, Segment, call, held>>

(* Mutant: an owner that died is not taken over (no EOWNERDEAD).           *)
LockMuNotRobust(t) ==
  /\ pc[t] = "lock" /\ mutex = None
  /\ mutex' = t
  /\ Goto(t, "work")
  /\ UNCHANGED <<pid, flock, large, magic, slots, shm, call, held>>
(* Mutant: the mutex is private to each process.                           *)
LockMuPrivate(t) ==
  /\ pc[t] = "lock"
  /\ \A u \in Threads : ProcOf[u] = ProcOf[t] => pc[u] \notin {"work", "take", "unlock"}
  /\ mutex' = t
  /\ Goto(t, "work")
  /\ UNCHANGED <<pid, flock, large, magic, slots, shm, call, held>>
LockMu(t) ==
  /\ pc[t] = "lock"
  /\ mutex \in {None, Dead}
  /\ mutex' = t
  /\ Goto(t, "work")
  /\ UNCHANGED <<pid, flock, large, magic, slots, shm, call, held>>

(* One step of Acquire's loop: the owner of the slot is alive.             *)
SlotBusy(t) ==
  LET kn == call[t].id IN
  /\ pc[t] = "work" /\ call[t].op = "acquire"
  /\ PidAlive(slots[kn])
  /\ IF kn[2] + 1 < Count[kn[1]]
     THEN call' = [call EXCEPT ![t].id = <<kn[1], kn[2] + 1>>] /\ UNCHANGED pc
     ELSE call' = [call EXCEPT ![t].id = NoId] /\ Goto(t, "unlock")
  /\ UNCHANGED <<pid, flock, Segment, shm, held>>

SlotFree(t) ==
  /\ pc[t] = "work" /\ call[t].op = "acquire"
  /\ ~PidAlive(slots[call[t].id])
  /\ Goto(t, "take")
  /\ UNCHANGED <<pid, flock, Segment, shm, call, held>>

TakeSlot(t) ==
  /\ pc[t] = "take"
  /\ slots' = [slots EXCEPT ![call[t].id] = Self(t)]
  /\ Goto(t, "unlock")
  /\ UNCHANGED <<pid, flock, large, magic, mutex, shm, call, held>>

FreeSlot(t) ==
  LET id == call[t].id IN
  /\ pc[t] = "work" /\ call[t].op = "release"
  /\ slots' = IF slots[id] = Self(t) THEN [slots EXCEPT ![id] = None] ELSE slots
  /\ Goto(t, "unlock")
  /\ UNCHANGED <<pid, flock, large, magic, mutex, shm, call, held>>

UnlockMu(t) ==
  /\ pc[t] = "unlock"
  /\ mutex' = None
  /\ held' = IF call[t].op = "acquire" /\ call[t].id # NoId
             THEN [held EXCEPT ![t] = @ \cup {call[t].id}] ELSE held
  /\ Return(t)
  /\ UNCHANGED <<pid, flock, large, magic, slots, shm>>

Thread(t) ==
  \/ EnsureShm(t) \/ FLock(t) \/ MapFails(t) \/ Truncate(t) \/ CheckMagic(t)
  \/ ClearLayout(t) \/ StoreMagic(t) \/ Mapped(t)
  \/ LockMu(t) \/ SlotBusy(t) \/ SlotFree(t) \/ TakeSlot(t) \/ FreeSlot(t) \/ UnlockMu(t)

Next ==
  \/ \E p \in Procs : StartProcess(p) \/ Crash(p)
  \/ \E t \in Threads : CallAcquire(t) \/ CallRelease(t) \/ Thread(t)

Spec == Init /\ [][Next]_vars

(* A thread inside a call is scheduled; nothing makes a process call, die  *)
(* or start.                                                               *)
FairSpec == Spec /\ \A t \in Threads : WF_vars(Thread(t))
-----------------------------------------------------------------------------
(* A unit has one live owner: no two threads, of one process or of two,    *)
(* hold the same id, and the table names the holder's pid, so that nobody  *)
(* takes it over while the holder lives (hw_id_allocator.h: ids are        *)
(* exclusive across processes, the slots of dead ones are recycled).       *)
OneOwner ==
  /\ TypeOK
  /\ \A t, u \in Threads : t # u => held[t] \cap held[u] = {}
  /\ \A t \in Threads : \A id \in held[t] : Self(t) # None /\ slots[id] = Self(t)

(* memset and pthread_mutex_init run only while no process has the table   *)
(* mapped for use: a segment left half made is initialised, a used one is  *)
(* not.                                                                    *)
InitAlone ==
  \A t \in Threads : pc[t] \in {"memset", "magic"} =>
    /\ \A p \in Procs : shm[p] # "ok"
    /\ \A u \in Threads : u # t => pc[u] \notin {"check", "memset", "magic", "funlock"}

(* Nobody waits for ever at the mutex while it is free, whether its last   *)
(* owner gave it back or died inside the allocator (LockMu's EOWNERDEAD    *)
(* branch), and whoever has it gets through the table and gives it back.   *)
MutexMoves ==
  \A t \in Threads :
    /\ (pc[t] = "lock" /\ mutex \in {None, Dead})
         ~> (pc[t] # "lock" \/ mutex \notin {None, Dead})
    /\ (mutex = t) ~> (mutex # t)
=============================================================================
