----------------------- MODULE MCConfigurationWorker -----------------------
(* Small instances of ConfigurationWorker for TLC. *)
EXTENDS ConfigurationWorker
=============================================================================
