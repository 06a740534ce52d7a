---------------------------- MODULE MCPluginHost ----------------------------
(* PluginHost with three closures and two pool threads (the pool's size).  *)
EXTENDS PluginHost

CONSTANTS j1, j2, j3, w1, w2

MCJobs    == {j1, j2, j3}
MCWorkers == {w1, w2}
=============================================================================
