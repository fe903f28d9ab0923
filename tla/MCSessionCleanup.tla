-------------------------- MODULE MCSessionCleanup --------------------------
(* Small instances of SessionCleanup for TLC. *)
EXTENDS SessionCleanup
=============================================================================
