---------------------------- MODULE MCWatchLocks ----------------------------
(* WatchLocks for TLC. *)
EXTENDS WatchLocks

=============================================================================
