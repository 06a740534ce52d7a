-------------------------- MODULE MCHwIdAllocator --------------------------
(***************************************************************************)
(* Two processes, one of them with two threads, two pids that the system   *)
(* reuses at once, two units of one kind (the kinds share nothing).        *)
(***************************************************************************)
EXTENDS HwIdAllocator, TLC

CONSTANTS p1, p2, a, b, c, ivps

MCProcOf == a :> p1 @@ b :> p1 @@ c :> p2
MCCount == [k \in Kinds |-> 2]
=============================================================================
