---------------------------- MODULE LocalDaemons ----------------------------
(***************************************************************************)
(* The daemons a Commit starts and stops through the local subscriptions:  *)
(* keepalived for `vrf name * vrrp', dhcpd for `dhcp', dhcrelay for        *)
(* `interfaces interface * dhcp-relay-group'.  A Commit hands the active   *)
(* configuration and the candidate to CommitDaemons.                       *)
(*                                                                         *)
(* procs counts the processes that are running under the process manager   *)
(* or a relay's goroutine; the other variables are what the code remembers *)
(* of them.                                                                *)
(***************************************************************************)
EXTENDS Functions, ConfigPaths

CONSTANTS Vrfs, Ifs

VARIABLES
    procs,      \* how many run of each process that does
    vrrp,       \* VrrpInstanceMap: the VRRP entries of each VRF
    vrrpUp,     \* ... those whose instance has a process
    fresh,      \* VRFs whose instances are still those VrrpVrfDelete started with
    dhcpd,      \* DhcpProcessList, by pool
    relay,      \* RelayInstanceMap: <<group, vrf>>, or NoRelay
    relayUp,    \* interfaces whose relay instance has an ExitFunc
    groups      \* RelayGroupMap

daemonVars == <<procs, vrrp, vrrpUp, fresh, dhcpd, relay, relayUp, groups>>

NoRelay == <<>>
NoVrf == ""

Keepalived(v, id) == <<"keepalived", v, id>>
Dhcpd(pool) == <<"dhcpd", pool>>
Dhcrelay(i, instance) == <<"dhcrelay", i, instance>>

\* Each process of a set, once
Once(set) == [d \in set |-> 1]

Running(d) == IF d \in DOMAIN procs THEN procs[d] ELSE 0

DaemonsInit ==
    /\ procs = Once({})
    /\ vrrp = [v \in Vrfs |-> {}] /\ vrrpUp = [v \in Vrfs |-> {}] /\ fresh = {}
    /\ dhcpd = {} /\ groups = {}
    /\ relay = [i \in Ifs |-> NoRelay] /\ relayUp = {}

\* procs when those in `stop' are unregistered, then those in `start' registered
Restarted(stop, start) ==
    LET left(d) == IF d \in stop /\ Running(d) > 0 THEN Running(d) - 1 ELSE Running(d)
    IN  RestrictValues([d \in DOMAIN procs \cup start |-> left(d) + (IF d \in start THEN 1 ELSE 0)],
                       LAMBDA n : n > 0)

-----------------------------------------------------------------------------

VrrpOf(c, v) == Entries(c, <<"vrf", v, "vrrp">>)
RelayOf(c, i) == Entries(c, <<"if", i, "relay">>)

\* ConfigLookupVrf, in the candidate
ConfigLookupVrf(c, i) ==
    LET found == Entries(c, <<"if", i, "in">>)
    IN IF found = {} THEN NoVrf ELSE CHOOSE v \in found : TRUE

\* The relay instances after RelayApi has seen the commands of the interfaces
\* in `changed': RelayDelete drops the instance, RelayAdd makes a new one.
RelayApi(c, changed) ==
    [i \in Ifs |-> IF i \notin changed THEN relay[i]
                   ELSE IF RelayOf(c, i) = {} THEN NoRelay
                   ELSE <<CHOOSE g \in RelayOf(c, i) : TRUE, ConfigLookupVrf(c, i)>>]

\* For each VRF in vs: every instance is replaced.
VrrpJsonConfig(c, vs) ==
    /\ vrrp' = [v \in Vrfs |-> IF v \in vs THEN VrrpOf(c, v) ELSE vrrp[v]]
    /\ vrrpUp' = [v \in Vrfs |-> IF v \in vs THEN VrrpOf(c, v) ELSE vrrpUp[v]]
    /\ fresh' = fresh \ vs

\* All dhcpd are replaced, and the map of groups is built again.
DhcpJsonConfig(c) ==
    /\ dhcpd' = Entries(c, <<"pool">>)
    /\ groups' = Entries(c, <<"group">>)

\* An instance of `again' runs if its group is known.
RelayGroupUpdate(again) ==
    relayUp' = (relayUp \ again) \cup {i \in again : relay'[i] # NoRelay /\ relay'[i][1] \in groups'}

\* The handlers of the paths that have a command: vrrp of a VRF, dhcp (which
\* restarts every relay too), dhcp-relay-group of an interface
CommitDaemons(act, cand) ==
    LET vs == {v \in Vrfs : VrrpOf(act, v) # VrrpOf(cand, v)}
        dhcp == \/ Entries(act, <<"pool">>) # Entries(cand, <<"pool">>)
                \/ Entries(act, <<"group">>) # Entries(cand, <<"group">>)
        changed == {i \in Ifs : RelayOf(act, i) # RelayOf(cand, i)}
        again == IF dhcp THEN Ifs ELSE changed
        Instances(up) == UNION {{Keepalived(v, id) : id \in up[v]} : v \in vs}
        Relays(up, instance) == {Dhcrelay(i, instance[i]) : i \in again \cap up}
        Servers(pools) == IF dhcp THEN {Dhcpd(p) : p \in pools} ELSE {}
    IN  /\ VrrpJsonConfig(cand, vs)
        /\ IF dhcp THEN DhcpJsonConfig(cand) ELSE UNCHANGED <<dhcpd, groups>>
        /\ relay' = RelayApi(cand, changed)
        /\ RelayGroupUpdate(again)
        /\ procs' = Restarted(Instances(vrrpUp) \cup Relays(relayUp, relay) \cup Servers(dhcpd),
                              Instances(vrrpUp') \cup Relays(relayUp', relay') \cup Servers(dhcpd'))

\* VrrpVrfDelete stops the process of an instance itself, if the instance has
\* not been stopped by a Commit since.
VrrpStop(v, id) ==
    /\ IF v \in fresh /\ id \in vrrpUp[v]
       THEN /\ vrrpUp' = [vrrpUp EXCEPT ![v] = @ \ {id}]
            /\ procs' = Restarted({Keepalived(v, id)}, {})
       ELSE UNCHANGED <<vrrpUp, procs>>
    /\ UNCHANGED <<vrrp, fresh, dhcpd, relay, relayUp, groups>>

=============================================================================
