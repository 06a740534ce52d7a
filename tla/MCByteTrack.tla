---------------------------- MODULE MCByteTrack ----------------------------
(***************************************************************************)
(* Two labels, three ids and seven frames: one frame past the longest gap, *)
(* so that a track is lost, marked, revived and lost again.                *)
(***************************************************************************)
EXTENDS ByteTrack
=============================================================================
