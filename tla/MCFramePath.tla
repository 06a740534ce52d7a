---------------------------- MODULE MCFramePath ----------------------------
(***************************************************************************)
(* Three frames, queues of two and a VDEC group of three: the decoder      *)
(* finds a queue full, every node can be at work at once, and a stage can  *)
(* fail, recover and fail again, with two codes.                           *)
(***************************************************************************)
EXTENDS FramePath
=============================================================================
