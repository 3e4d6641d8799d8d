------------------------- MODULE MCMotionProducers -------------------------
(* A small instance of MotionProducers for TLC. *)
EXTENDS MotionProducers
=============================================================================
