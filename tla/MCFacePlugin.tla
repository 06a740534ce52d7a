---------------------------- MODULE MCFacePlugin ----------------------------
(* FacePlugin with two tracks and two pool threads (the pool's size).      *)
EXTENDS FacePlugin

CONSTANTS t1, t2, w1, w2

MCTracks  == {t1, t2}
MCWorkers == {w1, w2}
=============================================================================
