---------------------------- MODULE MCSelfUpdate ----------------------------
(* One update of a directory with a few events and backups. *)
EXTENDS SelfUpdate
=============================================================================
