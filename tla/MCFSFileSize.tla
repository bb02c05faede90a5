---------------------------- MODULE MCFSFileSize ----------------------------
(* FSFileSize for TLC. *)
EXTENDS FSFileSize
=============================================================================
