--------------------------- MODULE MCAcquisition ---------------------------
(***************************************************************************)
(* Every class, two of everything that is counted, three calls of Init.    *)
(***************************************************************************)
EXTENDS Acquisition
=============================================================================
