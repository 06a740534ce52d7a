--------------------------- MODULE MCAssignment ---------------------------
(***************************************************************************)
(* Up to three tracks and two detections; costs below, at and above the    *)
(* limit.                                                                  *)
(***************************************************************************)
EXTENDS Assignment
=============================================================================
