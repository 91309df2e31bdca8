----------------------------- MODULE MCVrfSync -----------------------------
(* VrfSync for TLC: two VRFs, one with a VLAN interface. *)
EXTENDS VrfSync, TLC

If(name, addrs, vlans, grp) == [name |-> name, addrs |-> addrs, vlans |-> vlans, relay |-> grp]

Cfg(ifs, vrrps, bgp, static, pools, grps, withOspf) ==
    [ifs |-> ifs, vrrp |-> vrrps, bgp |-> bgp, static |-> static, pools |-> pools,
     groups |-> grps, ospf |-> withOspf, present |-> TRUE]

MCVrfs == {"vrf1", "vrf2"}
MCIfs == {"eth1", "eth1.10", "eth2"}
MCPhysical == {"eth1", "eth2"}
MCVlanOf == "eth1.10" :> <<"if", "eth1", "vlan", "10">>

MCCfgs ==
    [v \in MCVrfs |->
        IF v = "vrf1"
        THEN {Cfg(<<If("eth1", <<"a1">>, <<"10">>, ""), If("eth1.10", <<"a2">>, <<>>, "g1")>>,
                  <<"1">>, <<>>, <<<<"r1", "n1">>>>, <<"eth1">>, <<"g1">>, TRUE),
              Cfg(<<If("eth1", <<"a1", "a3">>, <<>>, "g1")>>,
                  <<"2">>, <<>>, <<>>, <<>>, <<>>, FALSE)}
        ELSE {Cfg(<<If("eth2", <<>>, <<>>, "")>>, <<>>, <<"eth2">>, <<>>, <<>>, <<>>, FALSE),
              Cfg(<<If("eth1", <<"a4">>, <<>>, "")>>, <<>>, <<>>, <<>>, <<>>, <<>>, FALSE)}]

=============================================================================
