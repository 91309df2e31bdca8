--------------------------- MODULE MCConfigCommit ---------------------------
(* ConfigCommit for TLC: two paths with a line each, the first of which      *)
(* needs the second.                                                         *)
EXTENDS ConfigCommit, TLC

CONSTANTS l1, l2, p1, p2

MCPathOf == (l1 :> p1) @@ (l2 :> p2)
MCMandatory == {<<l1, l2>>}
MCRequests == {{p1}, {p1, p2}}

\* After a round that was not unanimous only modules that subscribe to
\* everything are followed, one subscription at a time, and neither pushes nor
\* leaks.
AfterFailure ==
    failed => /\ pushed = {}
              /\ \A s \in Streams : leaked[s] = {} /\ sub[s] \in {{}, Paths}
              /\ \A g \in pending : pending = {g} /\ g[2] = Paths
=============================================================================
