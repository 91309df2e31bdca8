--------------------------- MODULE MCEtcdServices ----------------------------
(* EtcdServices for TLC.  BGP with its zebra retry, the quagga instances and  *)
(* the VRRP states do not touch each other, and are looked at apart.          *)
EXTENDS EtcdServices, TLC

CONSTANTS a0, a1, a2, p1, q1, q2, if1, if2, c1, c2, r1, r2, v1, w1, w2

Body(as, pol, peer) == [as |-> as, pol |-> pol, vrfs |-> [v \in {v1} |-> None],
                        nbrs |-> [a \in {a0, a1, a2} |-> IF a = a0 THEN peer ELSE None]]
MCBodies == {Body(1, p1, None), Body(2, None, q1)}
MCVrfConfigs == {[attr |-> 1, ribs |-> {r1}], [attr |-> 1, ribs |-> {r2}], [attr |-> 2, ribs |-> {r2}]}
MCVrfOf == q1 :> v1 @@ q2 :> None
MCNeighbors == {[addr |-> a1, peer |-> q1], [addr |-> a2, peer |-> q2]}
MCQuaggaValues == [{if1, if2} -> {c1, c2, NoInstance}]
MCWanValues == {[side |-> "local", conf |-> w1], [side |-> "gohan", conf |-> w2]}
MCRoles == {{"gobgp", "wan"}, {"quagga"}, {"vrrp"}}
MCSymmetry == Permutations(Ids)
=============================================================================
