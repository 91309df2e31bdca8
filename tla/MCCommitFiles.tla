--------------------------- MODULE MCCommitFiles ---------------------------
(* CommitFiles for TLC. *)
EXTENDS CommitFiles

=============================================================================
