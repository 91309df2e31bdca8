--------------------------- MODULE QuaggaManager ---------------------------
(***************************************************************************)
(* The quagga instance manager: a bgpd for every interface of a VRF that   *)
(* has a configuration below the etcd key `quagga'.                        *)
(* config/quagga_manager.go, called from config/etcd.go.                   *)
(*                                                                         *)
(* The handlers hold LocalCacheLock throughout, so each is one action.  An *)
(* interface's list of instances is one value: QuaggaBgpConfigDiff only    *)
(* asks whether two lists are the same, and its processes are started and  *)
(* stopped together.  A process that is in no QuaggaProcMap stays that     *)
(* way, and is an orphan.                                                  *)
(***************************************************************************)
CONSTANTS
    QuaggaVrfs,   \* VRF ids
    Interfaces,   \* LAN interfaces
    Instances,    \* quagga configurations
    NoInstance    \* an absent entry of a map

VARIABLES
    procMap,      \* QuaggaProcMap: what the remembered processes were started with
    cache,        \* QuaggaConfigCache: a VRF's last configuration, if it ever had one
    orphans,      \* <<interface, configuration>> of running, forgotten processes
    quaggaKey,    \* history: what etcd holds for the VRF
    departed      \* history: how a VRF's processes have left its configuration

quaggaVars == <<procMap, cache, orphans, quaggaKey, departed>>

Configs == [Interfaces -> Instances \cup {NoInstance}]

ASSUME InstancesAssumption == NoInstance \notin Instances \cup Configs

Empty == [i \in Interfaces |-> NoInstance]
Present(m) == {i \in Interfaces : m[i] # NoInstance}
Departures == {"replaced", "modified", "deleted", "unwritten"}

QuaggaTypeOK ==
    /\ procMap \in [QuaggaVrfs -> Configs]
    /\ cache \in [QuaggaVrfs -> Configs \cup {NoInstance}]
    /\ orphans \in [QuaggaVrfs -> SUBSET (Interfaces \X Instances)]
    /\ quaggaKey \in [QuaggaVrfs -> Configs]
    /\ departed \in [QuaggaVrfs -> SUBSET Departures]

QuaggaInit ==
    /\ procMap = [v \in QuaggaVrfs |-> Empty]
    /\ cache = [v \in QuaggaVrfs |-> NoInstance]
    /\ orphans = [v \in QuaggaVrfs |-> {}]
    /\ quaggaKey = [v \in QuaggaVrfs |-> Empty]
    /\ departed = [v \in QuaggaVrfs |-> {}]

Pairs(m) == {<<i, m[i]>> : i \in Present(m)}
Running(v) == Pairs(procMap[v]) \cup orphans[v]

-----------------------------------------------------------------------------

\* Interfaces are only new to a VRF that had none.
AddedFirst(old, new) == IF Present(old) = {} THEN Present(new) ELSE {}

\* QuaggaBgpConfigDiff
Added(old, new) == Present(new) \ Present(old)
Removed(old, new) == Present(old) \ Present(new)
Modified(old, new) == {i \in Present(old) \cap Present(new) : old[i] # new[i]}

ProcessConfigDelete(m, gone) ==
    [i \in Interfaces |-> IF i \in gone THEN NoInstance ELSE m[i]]

\* The first process of an interface makes a new map for the whole VRF.
\* After started has been gone through in some order, ending with last, only
\* last is remembered: the others and what m held run on as orphans.
SpawnQuagga(m, started, conf, last) ==
    IF started = {} THEN [map |-> m, lost |-> {}]
    ELSE [map  |-> [i \in Interfaces |-> IF i = last THEN conf[i] ELSE NoInstance],
          lost |-> Pairs(m) \cup {<<i, conf[i]>> : i \in started \ {last}}]

\* A modified interface is started with the entry modifiedConfigs has for it,
\* which is the old one, and the new configuration is cached as running.
\* Interfaces whose file cannot be written are not started.
QuaggaConfigSync(v, new, unwritten) ==
    LET known == cache[v] # NoInstance
        old == IF known THEN cache[v] ELSE Empty
        modified == Modified(old, new) \ unwritten
        added == Added(old, new) \ unwritten
        started == modified \cup added
        conf == [i \in Interfaces |-> IF i \in modified THEN old[i] ELSE new[i]]
        kept == ProcessConfigDelete(procMap[v], Removed(old, new) \cup Modified(old, new))
    IN  \E last \in IF added # {} THEN added ELSE IF modified # {} THEN modified ELSE Interfaces :
            LET spawn == SpawnQuagga(kept, started, conf, last)
            IN  /\ procMap' = [procMap EXCEPT ![v] = spawn.map]
                /\ orphans' = [orphans EXCEPT ![v] = @ \cup spawn.lost]
                /\ cache' = [cache EXCEPT ![v] = new]
                /\ quaggaKey' = [quaggaKey EXCEPT ![v] = new]
                /\ departed' = [departed EXCEPT ![v] = @
                      \cup (IF spawn.lost # {} THEN {"replaced"} ELSE {})
                      \cup (IF Modified(old, new) # {} THEN {"modified"} ELSE {})
                      \cup (IF unwritten # {} THEN {"unwritten"} ELSE {})]

\* The map is emptied and its processes run on.
ProcessVrfQuaggaForget(v) ==
    /\ procMap' = [procMap EXCEPT ![v] = Empty]
    /\ orphans' = [orphans EXCEPT ![v] = @ \cup Pairs(procMap[v])]
    /\ quaggaKey' = [quaggaKey EXCEPT ![v] = Empty]
    /\ UNCHANGED <<cache, departed>>

\* The processes of the map are stopped; QuaggaConfigCache is left alone, so
\* that the same configuration, put again, is no difference.
ProcessVrfQuaggaConfigDelete(v) ==
    /\ procMap' = [procMap EXCEPT ![v] = Empty]
    /\ quaggaKey' = [quaggaKey EXCEPT ![v] = Empty]
    /\ departed' = [departed EXCEPT ![v] = @ \cup
                       (IF cache[v] # NoInstance THEN {"deleted"} ELSE {})]
    /\ UNCHANGED <<cache, orphans>>

-----------------------------------------------------------------------------
(* Properties *)

\* The bgpds of a VRF are those its etcd key asks for, each with the
\* configuration it asks for, through every addition and removal of an
\* interface (QuaggaConfigSync).  There are four ways out, and only these:
\* the first process of an interface replaces the map of the others, a
\* modified interface is started with its old configuration, the cache
\* outlives the deletion of the key, and a file cannot be written.
BgpdsFollowKey ==
    \A v \in QuaggaVrfs : departed[v] = {} => Running(v) = Pairs(quaggaKey[v])

\* A deleted key leaves no bgpd of the VRF behind, and a removed interface
\* none of its own, whatever was modified, deleted or put again before, as
\* long as no process was lost from the map (SpawnQuagga).
BgpdsStop ==
    \A v \in QuaggaVrfs : "replaced" \notin departed[v] =>
        \A r \in Running(v) : quaggaKey[v][r[1]] # NoInstance

=============================================================================
