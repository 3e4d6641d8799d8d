-------------------------- MODULE MCMotionCommands --------------------------
(* Small instances of MotionCommands for TLC. *)
EXTENDS MotionCommands
=============================================================================
