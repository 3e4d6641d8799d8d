--------------------------- MODULE MCControlWorker ---------------------------
(* Small instances of ControlWorker for TLC. *)
EXTENDS ControlWorker
=============================================================================
