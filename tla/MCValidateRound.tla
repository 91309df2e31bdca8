-------------------------- MODULE MCValidateRound --------------------------
(* ValidateRound for TLC; the subscribers are interchangeable. *)
EXTENDS ValidateRound, TLC

Symmetry == Permutations(Subs)

\* Bound: the last round is for a subscriber that is alone by then.
LastRound == round < MaxRound \/ Cardinality(members) <= 1

\* The subscribers whose goroutine of an earlier round is still there
Leftover == {s \in Subs : \E r \in Rounds : r < round /\ pc[s][r] \notin {"none", "end"}}

\* Bound: one subscriber at a time has such a goroutine.  It is past
\* SubscribeWg.Done and touches only the channel of its own subscriber.
OneLeftover == Cardinality(Leftover) <= 1
=============================================================================
