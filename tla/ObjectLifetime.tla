--------------------------- MODULE ObjectLifetime ---------------------------
(***************************************************************************)
(* What every teardown path of the program promises about a heap object    *)
(* that several threads reach through a plain pointer: a thread may start  *)
(* to use an object only while it is alive, and the object is destroyed    *)
(* once, at a moment when no thread is using it.  Nothing is said about    *)
(* how the owner learns that nobody is left (join, quiesce, flag).         *)
(***************************************************************************)

CONSTANTS Objects,   \* the objects somebody owns and will destroy
          Threads    \* the threads that reach them

VARIABLES alive,     \* alive[o]: o has not been destroyed
          users      \* users[o]: the threads inside a call on o

lifeVars == <<alive, users>>

LifeTypeOK ==
  /\ alive \in [Objects -> BOOLEAN]
  /\ users \in [Objects -> SUBSET Threads]

LifeInit ==
  /\ alive = [o \in Objects |-> TRUE]
  /\ users = [o \in Objects |-> {}]

(* Threads come and go, several in one step if need be; none enters an     *)
(* object that was destroyed.                                              *)
Use ==
  /\ users' \in [Objects -> SUBSET Threads]
  /\ \A o \in Objects : alive[o] \/ users'[o] \subseteq users[o]
  /\ UNCHANGED alive

Destroy(o) ==
  /\ alive[o]
  /\ users[o] = {}
  /\ alive' = [alive EXCEPT ![o] = FALSE]
  /\ UNCHANGED users

LifeNext == Use \/ \E o \in Objects : Destroy(o)

LifeSpec == LifeInit /\ [][LifeNext]_lifeVars
=============================================================================
