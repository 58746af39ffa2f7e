--------------------------- MODULE MCTransitionQueue ---------------------------
(* Instances of TransitionQueue small enough for TLC. *)
EXTENDS TransitionQueue

CONSTANTS u1, u2, u3, u4, t1
=============================================================================
