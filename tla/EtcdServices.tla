---------------------------- MODULE EtcdServices ----------------------------
(***************************************************************************)
(* Services below the etcd watcher: gobgpd, the gobgpd of the WAN, the     *)
(* bgpds of the quagga instance manager and the VRRP states of a node.     *)
(* EtcdKeyValueParse and EtcdKeyDelete call one handler at a time.         *)
(* config/etcd.go.                                                         *)
(***************************************************************************)
EXTENDS GobgpWan, QuaggaManager, VrrpState

CONSTANTS
    Neighbors,     \* [addr, peer]: values of the neighbours' keys
    QuaggaValues,  \* values of the `quagga' keys
    WanValues,     \* [side, conf]: values of the `bgp_wan' keys
    Roles,         \* which services a node may have keys for
    MaxEvent,      \* bound: keys put or deleted
    MaxSync,       \* the same, for the `quagga' keys
    MaxCli,        \* bound: `clear gobgp' and `reset gobgp'
    MaxFault       \* bound: faults

ASSUME OwnKeys == \A n \in Neighbors, b \in Bodies : b.nbrs[n.addr] = None

ASSUME ValuesAssumption ==
    /\ Neighbors \subseteq [addr : Addrs, peer : Peers] /\ None \notin Neighbors
    /\ \A w \in WanValues : w.side \in Sides
    /\ QuaggaValues \subseteq Configs

VARIABLES
    role,          \* the services this node has keys for
    events, commands, faults   \* counters for the bounds

vars == <<gobgpVars, wanVars, quaggaVars, vrrpVars, role, events, commands, faults>>

TypeOK ==
    /\ GobgpTypeOK /\ WanTypeOK /\ QuaggaTypeOK /\ VrrpTypeOK
    /\ role \in Roles
    /\ events \in Nat /\ commands \in 0..MaxCli /\ faults \in 0..MaxFault

Init ==
    /\ GobgpInit /\ WanInit /\ QuaggaInit /\ VrrpInit
    /\ role \in Roles
    /\ events = 0 /\ commands = 0 /\ faults = 0

Event == events < (IF "quagga" \in role THEN MaxSync ELSE MaxEvent) /\ events' = events + 1 /\ UNCHANGED <<role, commands, faults>>
Command == commands < MaxCli /\ commands' = commands + 1 /\ UNCHANGED <<role, events, faults>>
Fault == faults < MaxFault /\ faults' = faults + 1 /\ UNCHANGED <<role, events, commands>>
Others == UNCHANGED <<wanVars, quaggaVars, vrrpVars>>

EtcdKeyValueParse ==
    /\ Event
    /\ \/ /\ "gobgp" \in role
          /\ \/ \E body \in Bodies : GobgpParse(body)
             \/ \E id \in Ids, n \in Neighbors : GobgpNeighborAdd(id, n)
             \/ \E v \in GobgpVrfs, c \in VrfConfigs : GobgpVrfUpdate(v, c)
          /\ Others
       \/ /\ "wan" \in role
          /\ \/ \E w \in WanValues, answers \in BOOLEAN : GobgpWanParse(w.side, w.conf, answers)
             \/ GobgpWanUnreadable
          /\ UNCHANGED <<quaggaVars, vrrpVars>>
       \/ /\ "quagga" \in role /\ Idle
          /\ \E v \in QuaggaVrfs, new \in QuaggaValues : \E unwritten \in SUBSET Present(new) :
                QuaggaConfigSync(v, new, unwritten)
          /\ UNCHANGED <<gobgpVars, wanVars, vrrpVars>>

EtcdKeyDelete ==
    /\ Event
    /\ \/ /\ "gobgp" \in role
          /\ \/ \E id \in Ids : GobgpNeighborDelete(id)
             \/ \E v \in GobgpVrfs : GobgpVrfDelete(v)
          /\ Others
       \/ /\ "wan" \in role
          /\ \E side \in Sides, answers \in BOOLEAN : GobgpWanStop(side, answers)
          /\ UNCHANGED <<quaggaVars, vrrpVars>>
       \/ /\ "quagga" \in role /\ Idle
          /\ \E v \in QuaggaVrfs : ProcessVrfQuaggaConfigDelete(v)
          /\ UNCHANGED <<gobgpVars, wanVars, vrrpVars>>

Cli ==
    /\ "gobgp" \in role
    /\ GobgpResetApi \/ GobgpClearApi
    /\ IF pc.cli = "none" THEN Command ELSE UNCHANGED <<role, events, commands, faults>>
    /\ Others

Faults == "gobgp" \in role /\ Fault /\ (ServerRestart \/ ServerAnswers \/ ZebraAnswers) /\ Others

\* The locked map is shared with threads and processes outside the handlers.
VrrpStates ==
    /\ "vrrp" \in role /\ VrrpNext
    /\ UNCHANGED <<gobgpVars, wanVars, quaggaVars, role, events, commands, faults>>

Threadsteps == (Handlers \/ Retries) /\ Others /\ UNCHANGED <<role, events, commands, faults>>

Next == EtcdKeyValueParse \/ EtcdKeyDelete \/ Threadsteps \/ VrrpStates \/ Cli \/ Faults

Spec == Init /\ [][Next]_vars

=============================================================================
