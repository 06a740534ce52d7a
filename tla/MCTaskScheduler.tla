--------------------------- MODULE MCTaskScheduler ---------------------------
(* TaskScheduler on a chain of nodes, each sending to the next one.        *)
EXTENDS TaskScheduler

Chain == [i \in 1 .. NumNodes |-> IF i < NumNodes THEN i + 1 ELSE 0]
=============================================================================
