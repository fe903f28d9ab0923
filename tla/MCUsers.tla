------------------------------ MODULE MCUsers ------------------------------
(* The instance of Users for TLC; its constants are in the .cfg. *)
EXTENDS Users
=============================================================================
