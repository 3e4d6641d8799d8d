---------------------------- MODULE MCJogControl ----------------------------
(* Small instances of JogControl for TLC. *)
EXTENDS JogControl

AllCallers == Threads \cup {Deadman}
=============================================================================
