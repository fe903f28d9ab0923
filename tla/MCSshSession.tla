---------------------------- MODULE MCSshSession ----------------------------
(* The instance of SshSession for TLC; its constants are in the .cfg. *)
EXTENDS SshSession
=============================================================================
