---------------------------- MODULE MCCameraPage ----------------------------
(* A small instance of CameraPage for TLC. *)
EXTENDS CameraPage
=============================================================================
