--------------------------- MODULE MCEtcdWatcher ---------------------------
(* EtcdWatcher for TLC: one key under vrf/, one elsewhere. *)
EXTENDS EtcdWatcher

=============================================================================
