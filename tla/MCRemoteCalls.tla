--------------------------- MODULE MCRemoteCalls ---------------------------
(***************************************************************************)
(* Two threads on a pool of one, so that one waits while the other is      *)
(* served; one call each, with one retry, so that a thread that backs off  *)
(* and comes back races with the one it woke.                              *)
(***************************************************************************)
EXTENDS RemoteCalls
=============================================================================
