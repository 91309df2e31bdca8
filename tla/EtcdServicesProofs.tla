------------------------ MODULE EtcdServicesProofs -------------------------
(* The services below the etcd watcher, one by one: each has an inductive    *)
(* invariant of its own, which the steps of the others leave alone.          *)
EXTENDS EtcdServices, TLAPS

\* Zenon unless a leaf says otherwise: most need no arithmetic.
USE Zenon

-----------------------------------------------------------------------------
(* The VRRP states *)

\* Until a lease runs out, whoever is past EtcdLock has the lock, so that what
\* it has read is what it will overwrite.
VrrpInv ==
    /\ VrrpTypeOK
    /\ expiries = 0 =>
          /\ states = entered
          /\ \A p \in Ports : dpc[p] \in {"get", "put", "unlock"} => lock = p
          /\ \A p \in Ports : dpc[p] = "put" => copy[p] = states

\* Only VrrpNext touches the map and its lock.
LEMMA VrrpSteps == [Next]_vars => VrrpNext \/ UNCHANGED vrrpVars
BY DEF Next, vars, EtcdKeyValueParse, EtcdKeyDelete, Threadsteps, VrrpStates, Cli, Faults, Others

\* Whatever a deletion does, in any order with others, keeps the lock's promise.
LEMMA VrrpInductive == VrrpInv /\ (VrrpNext \/ UNCHANGED vrrpVars) => VrrpInv'
<1> SUFFICES ASSUME VrrpInv, VrrpNext \/ UNCHANGED vrrpVars
             PROVE  VrrpInv'
  OBVIOUS
<1> USE PortsAssumption DEF VrrpInv, VrrpTypeOK, Goes
<1>1. ASSUME NEW p \in Ports, VrrpStateDelete(p)
      PROVE  VrrpInv'
  BY <1>1 DEF VrrpStateDelete
<1>2. ASSUME NEW p \in Ports, EtcdLock(p)
      PROVE  VrrpInv'
  BY <1>2 DEF EtcdLock
<1>3. ASSUME NEW p \in Ports, StateGet(p)
      PROVE  VrrpInv'
  BY <1>3 DEF StateGet
<1>4. ASSUME NEW p \in Ports, StatePut(p)
      PROVE  VrrpInv'
  BY <1>4 DEF StatePut
<1>5. ASSUME NEW p \in Ports, EtcdUnlock(p)
      PROVE  VrrpInv'
  BY <1>5 DEF EtcdUnlock
<1>6. ASSUME LeaseExpires
      PROVE  VrrpInv'
  BY SMT, <1>6 DEF LeaseExpires
<1>7. ASSUME NEW p \in Ports, StateEnter(p)
      PROVE  VrrpInv'
  BY <1>7 DEF StateEnter
<1>8. CASE UNCHANGED vrrpVars
  BY <1>8 DEF vrrpVars
<1> QED
  BY <1>1, <1>2, <1>3, <1>4, <1>5, <1>6, <1>7, <1>8 DEF VrrpNext, VrrpDeletes

\* For any set of interfaces the shared map holds what was entered less what
\* was removed until a lease runs out (VrrpStateDelete, EtcdLock).
THEOREM StatesKept == Spec => []StatesExact
<1>1. Init => VrrpInv
  <2> SUFFICES ASSUME VrrpInit
               PROVE  VrrpInv
    BY DEF Init
  <2>1. VrrpTypeOK
    BY DEF VrrpInit, VrrpTypeOK
  <2>2. \A p \in Ports : dpc[p] = "idle"
    BY DEF VrrpInit
  <2> QED
    BY <2>1, <2>2 DEF VrrpInit, VrrpInv
<1>2. VrrpInv /\ [Next]_vars => VrrpInv'
  BY VrrpSteps, VrrpInductive
<1>3. VrrpInv => StatesExact
  BY DEF VrrpInv, StatesExact
<1> QED
  BY <1>1, <1>2, <1>3, PTL DEF Spec

-----------------------------------------------------------------------------
(* The gobgpd of the WAN *)

\* What openconfigd remembers of each side is the side's key, and the process
\* has the one that goes first.
WanInv ==
    /\ wanKey = wanConfig
    /\ {"local", "gohan"} \subseteq DOMAIN wanConfig
    /\ ~wanSpoiled => wanProcess = Prefer(wanConfig)

\* Only the handlers of the two keys touch the process.
LEMMA WanSteps ==
    [Next]_vars =>
        \/ \E side \in Sides : \E c, answers : GobgpWanParse(side, c, answers)
        \/ GobgpWanUnreadable
        \/ \E side \in Sides : \E answers : GobgpWanStop(side, answers)
        \/ UNCHANGED wanVars
BY ValuesAssumption DEF Next, vars, EtcdKeyValueParse, EtcdKeyDelete, Threadsteps, VrrpStates, Cli, Faults, Others

\* For any configurations the WAN gobgpd has the one of the side that goes
\* first, unless the last value was unreadable or did not get through
\* (GobgpWanParse, GobgpWanStop).
THEOREM WanFollowsKeys == Spec => []WanFollows
<1>1. Init => WanInv
  BY DEF Init, WanInit, WanInv, Prefer, Sides
<1>2. WanInv /\ [Next]_vars => WanInv'
  <2> SUFFICES ASSUME WanInv, [Next]_vars
               PROVE  WanInv'
    OBVIOUS
  <2>1. ASSUME NEW side \in Sides, NEW c, NEW answers, GobgpWanParse(side, c, answers)
        PROVE  WanInv'
    BY <2>1 DEF GobgpWanParse, GobgpWanConfig, WanInv, Prefer, Sides
  <2>2. ASSUME GobgpWanUnreadable
        PROVE  WanInv'
    BY <2>2 DEF GobgpWanUnreadable, WanInv
  <2>3. ASSUME NEW side \in Sides, NEW answers, GobgpWanStop(side, answers)
        PROVE  WanInv'
    BY <2>3 DEF GobgpWanStop, GobgpWanConfig, WanInv, Prefer, Sides
  <2>4. CASE UNCHANGED wanVars
    BY <2>4 DEF wanVars, WanInv, Prefer
  <2> QED
    BY <2>1, <2>2, <2>3, <2>4, WanSteps
<1>3. WanInv => WanFollows
  BY DEF WanInv, WanFollows, Prefer
<1> QED
  BY <1>1, <1>2, <1>3, PTL DEF Spec

-----------------------------------------------------------------------------
(* The bgpds of the quagga instance manager *)

\* What the manager takes a VRF's configuration to be
Known(v) == IF cache[v] # NoInstance THEN cache[v] ELSE Empty

\* A remembered process is of an interface that both the key and the cache
\* have; and as long as nothing has gone astray, map, cache and key are the
\* same.
QuaggaInv ==
    /\ QuaggaTypeOK
    /\ \A v \in QuaggaVrfs :
          /\ Present(procMap[v]) \subseteq Present(quaggaKey[v]) \cap Present(Known(v))
          /\ "replaced" \notin departed[v] => orphans[v] = {}
          /\ departed[v] = {} => procMap[v] = quaggaKey[v] /\ Known(v) = quaggaKey[v]

\* Only the handlers of the `quagga' keys touch the processes.
LEMMA QuaggaSteps ==
    [Next]_vars =>
        \/ \E v \in QuaggaVrfs, new \in QuaggaValues :
               \E unwritten \in SUBSET Present(new) : QuaggaConfigSync(v, new, unwritten)
        \/ \E v \in QuaggaVrfs : ProcessVrfQuaggaConfigDelete(v)
        \/ UNCHANGED quaggaVars
BY DEF Next, vars, EtcdKeyValueParse, EtcdKeyDelete, Threadsteps, VrrpStates, Cli, Faults, Others

\* Two maps with the same entries are the same.
LEMMA SameConfig ==
    ASSUME NEW f \in Configs, NEW g \in Configs, \A i \in Interfaces : f[i] = g[i]
    PROVE  f = g
BY SMT DEF Configs

\* The processes of a map are interfaces with an instance each.
LEMMA PairsType ==
    ASSUME NEW m \in Configs
    PROVE  Pairs(m) \subseteq Interfaces \X Instances
<1> SUFFICES ASSUME NEW i \in Present(m)
             PROVE  <<i, m[i]>> \in Interfaces \X Instances
  BY DEF Pairs
<1> QED
  BY DEF Present, Configs

\* Without processes no interface is present.
LEMMA NoPairs ==
    ASSUME NEW m, Pairs(m) = {}
    PROVE  Present(m) = {}
<1> SUFFICES ASSUME NEW i \in Present(m)
             PROVE  FALSE
  OBVIOUS
<1>1. <<i, m[i]>> \in Pairs(m)
  BY DEF Pairs
<1> QED
  BY <1>1

\* Interfaces that a synchronisation starts a process for, and the one whose
\* process it starts last
Restarted(old, new, unwritten) == Modified(old, new) \ unwritten
Newcomers(old, new, unwritten) == Added(old, new) \ unwritten
Lasts(old, new, unwritten) ==
    IF Newcomers(old, new, unwritten) # {} THEN Newcomers(old, new, unwritten)
    ELSE IF Restarted(old, new, unwritten) # {} THEN Restarted(old, new, unwritten) ELSE Interfaces

\* What it makes of the map m
Spawned(m, old, new, unwritten, last) ==
    SpawnQuagga(ProcessConfigDelete(m, Removed(old, new) \cup Modified(old, new)),
                Restarted(old, new, unwritten) \cup Newcomers(old, new, unwritten),
                [i \in Interfaces |-> IF i \in Restarted(old, new, unwritten) THEN old[i] ELSE new[i]],
                last)

\* A synchronisation, for one VRF: which interfaces have a process after it,
\* which processes it has lost, and whether the result is the key's.
LEMMA SyncResult ==
    ASSUME NEW m \in Configs, NEW old \in Configs, NEW new \in Configs,
           NEW unwritten, NEW last \in Lasts(old, new, unwritten),
           Present(m) \subseteq Present(old)
    PROVE  LET spawn == Spawned(m, old, new, unwritten, last)
           IN  /\ spawn.map \in Configs
               /\ spawn.lost \subseteq Interfaces \X Instances
               /\ Present(spawn.map) \subseteq Present(new)
               /\ m = old /\ Modified(old, new) = {} /\ unwritten = {} /\ spawn.lost = {}
                     => spawn.map = new
<1> DEFINE modified == Modified(old, new) \ unwritten
           added == Added(old, new) \ unwritten
           conf == [i \in Interfaces |-> IF i \in modified THEN old[i] ELSE new[i]]
           left == ProcessConfigDelete(m, Removed(old, new) \cup Modified(old, new))
           spawn == Spawned(m, old, new, unwritten, last)
<1>a. spawn = SpawnQuagga(left, modified \cup added, conf, last)
  BY DEF Spawned, Restarted, Newcomers
<1>b. last \in IF added # {} THEN added ELSE IF modified # {} THEN modified ELSE Interfaces
  BY DEF Lasts, Restarted, Newcomers
<1>c. /\ modified = Modified(old, new) \ unwritten
      /\ added = Added(old, new) \ unwritten
      /\ conf = [i \in Interfaces |-> IF i \in modified THEN old[i] ELSE new[i]]
      /\ left = ProcessConfigDelete(m, Removed(old, new) \cup Modified(old, new))
  OBVIOUS
<1> SUFFICES /\ spawn.map \in Configs
             /\ spawn.lost \subseteq Interfaces \X Instances
             /\ Present(spawn.map) \subseteq Present(new)
             /\ m = old /\ Modified(old, new) = {} /\ unwritten = {} /\ spawn.lost = {}
                   => spawn.map = new
  OBVIOUS
<1> HIDE DEF spawn, modified, added, conf, left
<1> USE InstancesAssumption DEF Configs, Present
<1> DEFINE started == modified \cup added
<1>1. left \in Configs /\ Present(left) \subseteq Present(new)
  BY <1>c DEF ProcessConfigDelete, Removed, Modified
<1>2. started \subseteq Present(new) /\ conf \in Configs /\ \A i \in started : conf[i] \in Instances
  BY <1>c DEF Modified, Added
<1>3. CASE started = {}
  <2>1. spawn.map = left /\ spawn.lost = {}
    BY <1>3, <1>a DEF SpawnQuagga
  <2>2. ASSUME m = old, Modified(old, new) = {}, unwritten = {}
        PROVE  left = new
    <3>1. Present(new) \subseteq Present(old)
      BY <1>3, <1>c, <2>2 DEF Added
    <3>2. \A i \in Interfaces : left[i] = new[i]
      BY <1>c, <2>2, <3>1 DEF Modified, Removed, ProcessConfigDelete
    <3> QED
      BY <1>1, <3>2, SameConfig
  <2> QED
    BY <1>1, <2>1, <2>2
<1>4. CASE started # {}
  <2>0. last \in started
    BY <1>4, <1>b
  <2> DEFINE map == [i \in Interfaces |-> IF i = last THEN conf[i] ELSE NoInstance]
             others == {<<i, conf[i]>> : i \in started \ {last}}
  <2>1. spawn.map = map /\ spawn.lost = Pairs(left) \cup others
    BY <1>4, <1>a DEF SpawnQuagga
  <2>2. map \in Configs /\ Present(map) \subseteq Present(new)
    BY <1>2, <2>0
  <2>3. others \subseteq Interfaces \X Instances
    <3> SUFFICES ASSUME NEW i \in started
                 PROVE  <<i, conf[i]>> \in Interfaces \X Instances
      BY SMT
    <3> QED
      BY <1>2
  <2>4. ASSUME m = old, Modified(old, new) = {}, unwritten = {}, Pairs(left) = {}, others = {}
        PROVE  map = new
    <3>1. Present(left) = {}
      BY <2>4, NoPairs
    <3>2. ASSUME NEW i \in started, i # last
          PROVE  FALSE
      <4>1. <<i, conf[i]>> \in others
        BY <3>2
      <4> QED
        BY <2>4, <4>1
    <3>3. ASSUME NEW i \in Interfaces
          PROVE  map[i] = new[i]
      <4>1. CASE i = last
        BY <1>c, <2>0, <2>4, <4>1
      <4>2. CASE i # last
        <5>1. ASSUME old[i] # NoInstance, new[i] # NoInstance
              PROVE  FALSE
          <6>1. i \notin Removed(old, new) \cup Modified(old, new)
            BY <2>4, <5>1 DEF Removed
          <6>2. left[i] = old[i]
            BY <1>c, <2>4, <6>1 DEF ProcessConfigDelete
          <6> QED
            BY <3>1, <5>1, <6>2
        <5>2. old[i] = NoInstance => new[i] = NoInstance
          BY <1>c, <2>4, <3>2, <4>2 DEF Added
        <5> QED
          BY <4>2, <5>1, <5>2
      <4> QED
        BY <4>1, <4>2
    <3> QED
      BY <2>2, <3>3, SameConfig
  <2> HIDE DEF others, map
  <2> QED
    BY <1>1, <2>1, <2>2, <2>3, <2>4, PairsType
<1> QED
  BY <1>3, <1>4

\* A synchronisation keeps the invariant of its own VRF, and of the others.
LEMMA SyncInductive ==
    ASSUME QuaggaInv, NEW v \in QuaggaVrfs, NEW new \in QuaggaValues,
           NEW unwritten \in SUBSET Present(new), QuaggaConfigSync(v, new, unwritten)
    PROVE  QuaggaInv'
<1> DEFINE old == Known(v)
<1>1. PICK last \in Lasts(old, new, unwritten) :
        LET spawn == Spawned(procMap[v], old, new, unwritten, last)
        IN  /\ procMap' = [procMap EXCEPT ![v] = spawn.map]
            /\ orphans' = [orphans EXCEPT ![v] = @ \cup spawn.lost]
            /\ cache' = [cache EXCEPT ![v] = new]
            /\ quaggaKey' = [quaggaKey EXCEPT ![v] = new]
            /\ departed' = [departed EXCEPT ![v] = @
                  \cup (IF spawn.lost # {} THEN {"replaced"} ELSE {})
                  \cup (IF Modified(old, new) # {} THEN {"modified"} ELSE {})
                  \cup (IF unwritten # {} THEN {"unwritten"} ELSE {})]
  BY DEF QuaggaConfigSync, Known, Spawned, Lasts, Restarted, Newcomers
<1> DEFINE spawn == Spawned(procMap[v], old, new, unwritten, last)
<1>2. /\ new \in Configs /\ procMap[v] \in Configs /\ old \in Configs
      /\ Present(procMap[v]) \subseteq Present(old)
  BY ValuesAssumption DEF QuaggaInv, QuaggaTypeOK, Known, Empty, Configs
<1> HIDE DEF old
<1>3. /\ spawn.map \in Configs
      /\ spawn.lost \subseteq Interfaces \X Instances
      /\ Present(spawn.map) \subseteq Present(new)
      /\ procMap[v] = old /\ Modified(old, new) = {} /\ unwritten = {} /\ spawn.lost = {}
            => spawn.map = new
  BY SMT, <1>2, SyncResult
<1> HIDE DEF spawn
<1>4. QuaggaTypeOK'
  BY SMT, <1>1, <1>2, <1>3 DEF QuaggaInv, QuaggaTypeOK, Departures, spawn
<1>5. ASSUME NEW w \in QuaggaVrfs, w # v
      PROVE  /\ procMap'[w] = procMap[w] /\ orphans'[w] = orphans[w] /\ cache'[w] = cache[w]
             /\ quaggaKey'[w] = quaggaKey[w] /\ departed'[w] = departed[w]
  BY <1>1, <1>5 DEF QuaggaInv, QuaggaTypeOK
<1>6. /\ procMap'[v] = spawn.map /\ orphans'[v] = orphans[v] \cup spawn.lost
      /\ cache'[v] = new /\ quaggaKey'[v] = new
      /\ "replaced" \notin departed'[v] => "replaced" \notin departed[v] /\ spawn.lost = {}
      /\ departed'[v] = {} => /\ departed[v] = {} /\ spawn.lost = {}
                              /\ Modified(old, new) = {} /\ unwritten = {}
  BY <1>1 DEF QuaggaInv, QuaggaTypeOK, spawn
<1>7. Known(v)' = new
  BY <1>2, <1>6, InstancesAssumption DEF Known
<1>8. departed[v] = {} => procMap[v] = old
  BY DEF QuaggaInv, old
<1>9. ASSUME NEW w \in QuaggaVrfs
      PROVE  /\ Present(procMap'[w]) \subseteq Present(quaggaKey'[w]) \cap Present(Known(w)')
             /\ "replaced" \notin departed'[w] => orphans'[w] = {}
             /\ departed'[w] = {} => procMap'[w] = quaggaKey'[w] /\ Known(w)' = quaggaKey'[w]
  <2>1. CASE w = v
    BY <1>3, <1>6, <1>7, <1>8, <2>1 DEF QuaggaInv
  <2>2. CASE w # v
    BY <1>5, <2>2 DEF QuaggaInv, Known
  <2> QED
    BY <2>1, <2>2
<1> QED
  BY <1>4, <1>9 DEF QuaggaInv

\* So does the deletion of a key.
LEMMA DeleteInductive ==
    ASSUME QuaggaInv, NEW v \in QuaggaVrfs, ProcessVrfQuaggaConfigDelete(v)
    PROVE  QuaggaInv'
<1>1. QuaggaTypeOK'
  BY DEF QuaggaInv, QuaggaTypeOK, ProcessVrfQuaggaConfigDelete, Departures, Empty, Configs
<1>2. Present(Empty) = {}
  BY DEF Present, Empty
<1>3. ASSUME NEW w \in QuaggaVrfs
      PROVE  /\ Present(procMap'[w]) \subseteq Present(quaggaKey'[w]) \cap Present(Known(w)')
             /\ "replaced" \notin departed'[w] => orphans'[w] = {}
             /\ departed'[w] = {} => procMap'[w] = quaggaKey'[w] /\ Known(w)' = quaggaKey'[w]
  <2>1. CASE w = v
    BY <1>2, <2>1 DEF QuaggaInv, QuaggaTypeOK, ProcessVrfQuaggaConfigDelete, Known
  <2>2. CASE w # v
    BY <2>2 DEF QuaggaInv, QuaggaTypeOK, ProcessVrfQuaggaConfigDelete, Known
  <2> QED
    BY <2>1, <2>2
<1> QED
  BY <1>1, <1>3 DEF QuaggaInv

\* The invariant of the quagga instance manager
LEMMA QuaggaInvariant == Spec => []QuaggaInv
<1>1. Init => QuaggaInv
  <2> SUFFICES ASSUME QuaggaInit
               PROVE  QuaggaInv
    BY DEF Init
  <2>1. QuaggaTypeOK
    BY DEF QuaggaInit, QuaggaTypeOK, Configs, Empty
  <2>2. \A v \in QuaggaVrfs : Known(v) = Empty /\ procMap[v] = Empty /\ quaggaKey[v] = Empty
                              /\ orphans[v] = {}
    BY DEF QuaggaInit, Known
  <2> QED
    BY <2>1, <2>2 DEF QuaggaInv
<1>2. QuaggaInv /\ [Next]_vars => QuaggaInv'
  <2> SUFFICES ASSUME QuaggaInv, [Next]_vars
               PROVE  QuaggaInv'
    OBVIOUS
  <2>1. CASE UNCHANGED quaggaVars
    BY <2>1 DEF quaggaVars, QuaggaInv, QuaggaTypeOK, Known
  <2> QED
    BY <2>1, QuaggaSteps, SyncInductive, DeleteInductive
<1> QED
  BY <1>1, <1>2, PTL DEF Spec

\* For any VRFs, interfaces and configurations a deleted key and a removed
\* interface leave no bgpd behind, unless one was lost from the map
\* (QuaggaConfigSync, ProcessVrfQuaggaConfigDelete).
THEOREM BgpdsAreStopped == Spec => []BgpdsStop
<1>1. QuaggaInv => BgpdsStop
  <2> SUFFICES ASSUME QuaggaInv, NEW v \in QuaggaVrfs, "replaced" \notin departed[v],
                      NEW r \in Running(v)
               PROVE  quaggaKey[v][r[1]] # NoInstance
    BY DEF BgpdsStop
  <2>1. r \in Pairs(procMap[v])
    BY DEF Running, QuaggaInv
  <2>2. PICK i \in Present(procMap[v]) : r = <<i, procMap[v][i]>>
    BY <2>1 DEF Pairs
  <2>3. i \in Present(quaggaKey[v])
    BY DEF QuaggaInv
  <2> QED
    BY <2>2, <2>3 DEF Present
<1> QED
  BY <1>1, QuaggaInvariant, PTL

\* For any VRFs, interfaces and configurations the bgpds are those the key
\* asks for, until one of the four departures (QuaggaConfigSync).
THEOREM BgpdsAreTheKeys == Spec => []BgpdsFollowKey
<1>1. QuaggaInv => BgpdsFollowKey
  BY DEF QuaggaInv, BgpdsFollowKey, Running
<1> QED
  BY <1>1, QuaggaInvariant, PTL

-----------------------------------------------------------------------------
(* The connection to zebra *)

\* Where the three threads of Gobgp can be
PcTypeOK ==
    pc \in [watcher : {"idle", "update", "clear", "set", "assign"},
            retry : {"none", "sleep", "clear", "set"}, cli : {"none", "set", "zero"}]

\* Somebody looks after a refused connection, or has given up.
ZebraInv == PcTypeOK /\ ZebraRetried

\* A batch of the watcher or the CLI that ends with GobgpSetZebra
LEMMA SetZebraKeeps ==
    ASSUME ZebraInv, NEW s,
           \/ GobgpSetZebra(s, "watcher", "assign")
           \/ GobgpSetZebra(s, "cli", "none")
           \/ GobgpSetZebra(s, "retry", "none")
    PROVE  ZebraInv'
<1>1. CASE GobgpSetZebra(s, "watcher", "assign")
  BY <1>1 DEF ZebraInv, PcTypeOK, ZebraRetried, GobgpSetZebra, GobgpZebraRetry
<1>2. CASE GobgpSetZebra(s, "cli", "none")
  BY <1>2 DEF ZebraInv, PcTypeOK, ZebraRetried, GobgpSetZebra, GobgpZebraRetry
<1>3. CASE GobgpSetZebra(s, "retry", "none")
  BY <1>3 DEF ZebraInv, PcTypeOK, ZebraRetried, GobgpSetZebra, GobgpZebraRetry
<1> QED
  BY <1>1, <1>2, <1>3

\* The first half of a reset; the retry that finds no server gives up.
LEMMA ClearKeeps ==
    ASSUME ZebraInv,
           \/ ResetClear("watcher", "set", "assign")
           \/ ResetClear("retry", "set", "none")
           \/ ResetClear("cli", "set", "none")
           \/ ResetClear("cli", "zero", "zero")
    PROVE  ZebraInv'
<1> USE DEF ZebraInv, PcTypeOK, ZebraRetried, ResetClear, At
<1>1. CASE ResetClear("watcher", "set", "assign")
  BY <1>1
<1>2. CASE ResetClear("retry", "set", "none")
  BY <1>2
<1>3. CASE ResetClear("cli", "set", "none")
  BY <1>3
<1>4. CASE ResetClear("cli", "zero", "zero")
  BY <1>4
<1> QED
  BY <1>1, <1>2, <1>3, <1>4

\* Everything else
LEMMA OthersKeep ==
    ASSUME ZebraInv,
           \/ GobgpSetZebraRoutine
           \/ ServerRestart \/ ServerAnswers \/ ZebraAnswers
           \/ HandlerAssign
           \/ \E cfg : Start(cfg, "update") \/ Start(cfg, "clear")
           \/ UNCHANGED gobgpVars
    PROVE  ZebraInv'
<1> USE DEF ZebraInv, PcTypeOK, ZebraRetried, At
<1>1. CASE GobgpSetZebraRoutine
  BY <1>1 DEF GobgpSetZebraRoutine
<1>2. CASE ServerRestart \/ ServerAnswers \/ ZebraAnswers
  BY SMT, <1>2 DEF ServerRestart, ServerAnswers, ZebraAnswers
<1>3. CASE HandlerAssign
  BY <1>3 DEF HandlerAssign
<1>4. CASE \E cfg : Start(cfg, "update") \/ Start(cfg, "clear")
  BY SMT, <1>4 DEF Start
<1>5. CASE UNCHANGED gobgpVars
  BY <1>5 DEF gobgpVars
<1> QED
  BY <1>1, <1>2, <1>3, <1>4, <1>5

\* A handler of the WAN's keys, which may start the retry, or an update
LEMMA UpdateKeeps ==
    ASSUME ZebraInv,
           \/ HandlerUpdate
           \/ GobgpWanUnreadable
           \/ \E conf, answers : GobgpWanConfig(conf, answers) /\ Unmoved
    PROVE  ZebraInv'
<1>1. CASE HandlerUpdate
  <2>1. CASE server.up
    BY <1>1, <2>1, SetZebraKeeps DEF HandlerUpdate
  <2>2. CASE ~server.up
    BY <1>1, <2>2 DEF HandlerUpdate, ZebraInv, PcTypeOK, ZebraRetried, At
  <2> QED
    BY <2>1, <2>2
<1>2. CASE GobgpWanUnreadable
  BY <1>2 DEF GobgpWanUnreadable, Unmoved, ZebraInv, PcTypeOK, ZebraRetried
<1>3. CASE \E conf, answers : GobgpWanConfig(conf, answers) /\ Unmoved
  BY SMT, <1>3 DEF GobgpWanConfig, Unmoved, ZebraInv, PcTypeOK, ZebraRetried, GobgpZebraRetry, At
<1> QED
  BY <1>1, <1>2, <1>3

\* The invariant of the retry
LEMMA ZebraInvariant == Spec => []ZebraInv
<1>1. Init => ZebraInv
  BY SMT DEF Init, GobgpInit, ZebraInv, PcTypeOK, ZebraRetried
<1>2. ZebraInv /\ [Next]_vars => ZebraInv'
  <2> SUFFICES ASSUME ZebraInv, [Next]_vars
               PROVE  ZebraInv'
    OBVIOUS
  <2>1. CASE EtcdKeyValueParse
    <3>1. ASSUME NEW body, GobgpParse(body)
          PROVE  ZebraInv'
      BY <3>1, OthersKeep DEF GobgpParse
    <3>2. ASSUME NEW id, NEW n, GobgpNeighborAdd(id, n)
          PROVE  ZebraInv'
      BY <3>2, OthersKeep DEF GobgpNeighborAdd
    <3>3. ASSUME NEW v, NEW c, GobgpVrfUpdate(v, c)
          PROVE  ZebraInv'
      BY <3>3, OthersKeep DEF GobgpVrfUpdate
    <3>4. ASSUME NEW side, NEW c, NEW answers, GobgpWanParse(side, c, answers)
          PROVE  ZebraInv'
      BY <3>4, UpdateKeeps DEF GobgpWanParse
    <3> QED
      BY <2>1, <3>1, <3>2, <3>3, <3>4, OthersKeep, UpdateKeeps DEF EtcdKeyValueParse
  <2>2. CASE EtcdKeyDelete
    <3>1. ASSUME NEW id, GobgpNeighborDelete(id)
          PROVE  ZebraInv'
      BY <3>1, OthersKeep DEF GobgpNeighborDelete
    <3>2. ASSUME NEW v, GobgpVrfDelete(v)
          PROVE  ZebraInv'
      BY <3>2, OthersKeep DEF GobgpVrfDelete
    <3>3. ASSUME NEW side, NEW answers, GobgpWanStop(side, answers)
          PROVE  ZebraInv'
      BY <3>3, UpdateKeeps DEF GobgpWanStop
    <3> QED
      BY <2>2, <3>1, <3>2, <3>3, OthersKeep DEF EtcdKeyDelete
  <2>3. CASE Threadsteps
    BY <2>3, OthersKeep, UpdateKeeps, ClearKeeps, SetZebraKeeps
       DEF Threadsteps, Handlers, Retries, HandlerReset, RetryReset, ResetSet
  <2>4. CASE VrrpStates
    BY <2>4, OthersKeep DEF VrrpStates
  <2>5. CASE Cli
    <3>1. ASSUME pc.cli = "zero", gobgpConfig' = NoConfig, GobgpClearApi
          PROVE  ZebraInv'
      BY SMT, <3>1, ClearKeeps DEF GobgpClearApi, ZebraInv, PcTypeOK, ZebraRetried, At
    <3> QED
      BY <2>5, <3>1, ClearKeeps, SetZebraKeeps DEF Cli, GobgpResetApi, GobgpClearApi, ResetSet
  <2>6. CASE Faults
    BY <2>6, OthersKeep DEF Faults
  <2>7. CASE UNCHANGED vars
    BY <2>7, OthersKeep DEF vars
  <2> QED
    BY <2>1, <2>2, <2>3, <2>4, <2>5, <2>6, <2>7 DEF Next
<1> QED
  BY <1>1, <1>2, PTL DEF Spec

\* For any configurations, and whichever threads share the goroutine, a
\* refused zebra connection is tried again until it is made or the retry has
\* given up (GobgpSetZebra).
THEOREM ZebraIsRetried == Spec => []ZebraRetried
BY ZebraInvariant, PTL DEF ZebraInv

-----------------------------------------------------------------------------
(* gobgpConfig and the etcd keys it is made from *)

\* In GobgpNeighborMap the address a belongs to the id i.
Owns(map, i, a) == map[i] # None /\ map[i].addr = a
OneOwner(map) == \A i, j \in Ids, a \in Addrs : Owns(map, i, a) /\ Owns(map, j, a) => i = j

\* The parameters of a, one address of WithNeighborMap
Lookup(map, nbrs, a) ==
    IF \E i \in Ids : Owns(map, i, a) THEN map[CHOOSE i \in Ids : Owns(map, i, a)].peer ELSE nbrs[a]

\* cfg has the last value of every key that `clear gobgp' has not removed.
Remembered(cfg) ==
    /\ "bgp" \notin forgotten =>
          /\ cfg.as = bgpKey.as /\ cfg.pol = bgpKey.pol
          /\ \A a \in Addrs \ doubtful : cfg.nbrs[a] = Lookup(neighborMap, bgpKey.nbrs, a)
    /\ \A v \in GobgpVrfs \ forgotten : cfg.vrfs[v] = bgpKey.vrfs[v]

\* While a handler is at work it is the cfg it will assign that has them.  No
\* address has two owners, and none is also in the value of the key `bgp'.
RememberInv ==
    /\ gobgpConfig \in GobgpConfigs /\ next \in GobgpConfigs /\ bgpKey \in GobgpConfigs
    /\ neighborMap \in [Ids -> Neighbors \cup {None}]
    /\ OneOwner(neighborMap)
    /\ \A n \in Neighbors : bgpKey.nbrs[n.addr] = None
    /\ Idle => Remembered(gobgpConfig)
    /\ ~Idle => Remembered(next)

Unowned(map, a) == \A i \in Ids : ~Owns(map, i, a)

\* An address has the parameters its owner gives it.
LEMMA LookupOwned ==
    ASSUME NEW map, OneOwner(map), NEW nbrs, NEW a \in Addrs, NEW i \in Ids, Owns(map, i, a)
    PROVE  Lookup(map, nbrs, a) = map[i].peer
<1> DEFINE k == CHOOSE j \in Ids : Owns(map, j, a)
<1>1. k \in Ids /\ Owns(map, k, a)
  OBVIOUS
<1>2. Lookup(map, nbrs, a) = map[k].peer
  BY DEF Lookup
<1> HIDE DEF k
<1> QED
  BY <1>1, <1>2 DEF OneOwner

\* Without an owner it has those of the key `bgp'.
LEMMA LookupUnowned ==
    ASSUME NEW map, NEW nbrs, NEW a, Unowned(map, a)
    PROVE  Lookup(map, nbrs, a) = nbrs[a]
BY DEF Lookup, Unowned

\* The address a has the same owner, with the same parameters.
SameOwner(map, old, a) ==
    \A i \in Ids : (Owns(map, i, a) <=> Owns(old, i, a)) /\ (Owns(map, i, a) => map[i] = old[i])

\* A change of other addresses does not matter to a.
LEMMA LookupElsewhere ==
    ASSUME NEW map, NEW old, OneOwner(map), OneOwner(old), NEW nbrs, NEW a \in Addrs,
           SameOwner(map, old, a)
    PROVE  Lookup(map, nbrs, a) = Lookup(old, nbrs, a)
<1>1. CASE Unowned(map, a)
  <2>1. Unowned(old, a)
    BY <1>1 DEF Unowned, SameOwner
  <2> QED
    BY SMT, <1>1, <2>1, LookupUnowned
<1>2. ASSUME NEW i \in Ids, Owns(map, i, a)
      PROVE  Lookup(map, nbrs, a) = Lookup(old, nbrs, a)
  <2>1. Owns(old, i, a) /\ map[i] = old[i]
    BY <1>2 DEF SameOwner
  <2>2. Lookup(map, nbrs, a) = map[i].peer
    BY <1>2, LookupOwned
  <2>3. Lookup(old, nbrs, a) = old[i].peer
    BY <2>1, LookupOwned
  <2> QED
    BY <2>1, <2>2, <2>3
<1> QED
  BY <1>1, <1>2 DEF Unowned

\* The handler of the key `bgp'
LEMMA ParseRemembers ==
    ASSUME RememberInv, PcTypeOK, NEW body \in Bodies, GobgpParse(body)
    PROVE  RememberInv'
<1> DEFINE cfg == [as |-> body.as, pol |-> body.pol, nbrs |-> WithNeighborMap(body.nbrs),
                   vrfs |-> gobgpConfig.vrfs]
<1>1. /\ Idle /\ ~Idle' /\ next' = cfg /\ gobgpConfig' = gobgpConfig /\ neighborMap' = neighborMap
      /\ bgpKey' = [body EXCEPT !.vrfs = bgpKey.vrfs] /\ doubtful' = {}
      /\ forgotten' = forgotten \ {"bgp"}
  BY DEF GobgpParse, Start, Idle, At, PcTypeOK
<1>2. body \in GobgpConfigs
  BY GobgpAssumption
<1>3. ASSUME NEW a \in Addrs
      PROVE  /\ WithNeighborMap(body.nbrs)[a] = Lookup(neighborMap, body.nbrs, a)
             /\ WithNeighborMap(body.nbrs)[a] \in Peers \cup {None}
  <2>1. WithNeighborMap(body.nbrs)[a] = Lookup(neighborMap, body.nbrs, a)
    BY DEF WithNeighborMap, Lookup, Owns
  <2>2. ASSUME NEW i \in Ids, Owns(neighborMap, i, a)
        PROVE  Lookup(neighborMap, body.nbrs, a) \in Peers \cup {None}
    <3>1. Lookup(neighborMap, body.nbrs, a) = neighborMap[i].peer
      BY <2>2, LookupOwned DEF RememberInv
    <3>2. neighborMap[i] \in Neighbors
      BY <2>2 DEF RememberInv, Owns
    <3> QED
      BY <3>1, <3>2, ValuesAssumption
  <2>3. CASE Unowned(neighborMap, a)
    <3>1. Lookup(neighborMap, body.nbrs, a) = body.nbrs[a]
      BY <2>3, LookupUnowned
    <3> QED
      BY <1>2, <2>1, <3>1 DEF GobgpConfigs, NbrTables
  <2> QED
    BY <2>1, <2>2, <2>3 DEF Unowned
<1>4. WithNeighborMap(body.nbrs) \in NbrTables
  BY <1>3 DEF WithNeighborMap, NbrTables
<1>5. cfg \in GobgpConfigs /\ bgpKey' \in GobgpConfigs
  BY <1>1, <1>2, <1>4 DEF RememberInv, GobgpConfigs
<1>6. bgpKey'.nbrs = body.nbrs /\ bgpKey'.as = body.as /\ bgpKey'.pol = body.pol /\ bgpKey'.vrfs = bgpKey.vrfs
  BY <1>1, <1>2 DEF GobgpConfigs
<1>7. \A n \in Neighbors : body.nbrs[n.addr] = None
  BY OwnKeys
<1> HIDE DEF cfg
<1>8. cfg.as = body.as /\ cfg.pol = body.pol /\ cfg.vrfs = gobgpConfig.vrfs
      /\ \A a \in Addrs : cfg.nbrs[a] = Lookup(neighborMap, body.nbrs, a)
  BY <1>3 DEF cfg
<1>9. Remembered(next)'
  <2>1. ASSUME NEW v \in GobgpVrfs \ forgotten'
        PROVE  cfg.vrfs[v] = bgpKey.vrfs[v]
    BY <1>1, <1>8, <2>1, GobgpAssumption DEF RememberInv, Remembered
  <2> QED
    BY <1>1, <1>6, <1>8, <2>1 DEF Remembered
<1> QED
  BY <1>1, <1>5, <1>6, <1>7, <1>9 DEF RememberInv, OneOwner

\* A neighbour's own key is put: the neighbour may be new, or move here from
\* another address, which becomes doubtful.
LEMMA NeighborAddRemembers ==
    ASSUME RememberInv, PcTypeOK, NEW id \in Ids, NEW n \in Neighbors, GobgpNeighborAdd(id, n)
    PROVE  RememberInv'
<1> DEFINE cfg == [gobgpConfig EXCEPT !.nbrs[n.addr] = n.peer]
           map == [neighborMap EXCEPT ![id] = n]
<1>1. /\ Idle /\ ~Idle' /\ next' = cfg /\ neighborMap' = map
      /\ UNCHANGED <<gobgpConfig, bgpKey, forgotten>>
      /\ doubtful' = IF neighborMap[id] = None THEN doubtful \ {n.addr}
                     ELSE (doubtful \cup {neighborMap[id].addr}) \ {n.addr}
      /\ \A i \in Ids \ {id} : neighborMap[i] # None => neighborMap[i].addr # n.addr
  BY DEF GobgpNeighborAdd, Start, Idle, At, PcTypeOK
<1>2. n.addr \in Addrs /\ n.peer \in Peers /\ n # None
  BY ValuesAssumption
<1>3. /\ cfg \in GobgpConfigs
      /\ cfg.as = gobgpConfig.as /\ cfg.pol = gobgpConfig.pol /\ cfg.vrfs = gobgpConfig.vrfs
      /\ \A a \in Addrs : cfg.nbrs[a] = IF a = n.addr THEN n.peer ELSE gobgpConfig.nbrs[a]
  BY <1>2 DEF RememberInv, GobgpConfigs, NbrTables
<1>4. /\ map \in [Ids -> Neighbors \cup {None}]
      /\ map[id] = n /\ \A i \in Ids \ {id} : map[i] = neighborMap[i]
  BY DEF RememberInv
<1> HIDE DEF cfg, map
<1>5. OneOwner(map)
  BY SMT, <1>1, <1>4 DEF OneOwner, Owns, RememberInv
<1>6. ASSUME "bgp" \notin forgotten, NEW a \in Addrs \ doubtful'
      PROVE  cfg.nbrs[a] = Lookup(map, bgpKey.nbrs, a)
  <2>1. CASE a = n.addr
    <3>1. Owns(map, id, a)
      BY <1>2, <1>4, <2>1 DEF Owns
    <3>2. Lookup(map, bgpKey.nbrs, a) = map[id].peer
      BY <1>5, <3>1, LookupOwned
    <3> QED
      BY <1>3, <1>4, <2>1, <3>2
  <2>2. CASE a # n.addr
    <3>1. a \notin doubtful /\ ~Owns(neighborMap, id, a) /\ ~Owns(map, id, a)
      BY <1>1, <1>4, <1>6, <2>2 DEF Owns
    <3>2. SameOwner(map, neighborMap, a)
      BY <1>4, <3>1 DEF SameOwner, Owns
    <3>3. gobgpConfig.nbrs[a] = Lookup(neighborMap, bgpKey.nbrs, a)
      BY <1>1, <1>6, <3>1 DEF RememberInv, Remembered
    <3>4. OneOwner(neighborMap) /\ a \in Addrs
      BY DEF RememberInv
    <3>5. Lookup(map, bgpKey.nbrs, a) = Lookup(neighborMap, bgpKey.nbrs, a)
      BY SMT, <1>5, <3>2, <3>4, LookupElsewhere
    <3> QED
      BY <1>3, <2>2, <3>3, <3>5
  <2> QED
    BY <2>1, <2>2
<1>7. Remembered(next)'
  BY <1>1, <1>3, <1>6 DEF Remembered, RememberInv
<1> QED
  BY <1>1, <1>3, <1>4, <1>5, <1>7 DEF RememberInv

\* A neighbour's own key is deleted, and nobody else has its address.
LEMMA NeighborDeleteRemembers ==
    ASSUME RememberInv, PcTypeOK, NEW id \in Ids, GobgpNeighborDelete(id)
    PROVE  RememberInv'
<1> DEFINE gone == neighborMap[id].addr
           cfg == [gobgpConfig EXCEPT !.nbrs[gone] = None]
           map == [neighborMap EXCEPT ![id] = None]
<1>1. /\ Idle /\ ~Idle' /\ next' = cfg /\ neighborMap' = map /\ neighborMap[id] # None
      /\ UNCHANGED <<gobgpConfig, bgpKey, forgotten, doubtful>>
  BY DEF GobgpNeighborDelete, Start, Idle, At, PcTypeOK
<1>2. neighborMap[id] \in Neighbors /\ gone \in Addrs
  BY <1>1, ValuesAssumption DEF RememberInv
<1>3. /\ cfg \in GobgpConfigs
      /\ cfg.as = gobgpConfig.as /\ cfg.pol = gobgpConfig.pol /\ cfg.vrfs = gobgpConfig.vrfs
      /\ \A a \in Addrs : cfg.nbrs[a] = IF a = gone THEN None ELSE gobgpConfig.nbrs[a]
  BY <1>2 DEF RememberInv, GobgpConfigs, NbrTables
<1>4. /\ map \in [Ids -> Neighbors \cup {None}]
      /\ map[id] = None /\ \A i \in Ids \ {id} : map[i] = neighborMap[i]
  BY DEF RememberInv
<1>5. Owns(neighborMap, id, gone)
  BY <1>1 DEF Owns
<1>6. bgpKey.nbrs[gone] = None
  BY <1>2 DEF RememberInv
<1> HIDE DEF cfg, map, gone
<1>7. OneOwner(map)
  BY <1>4 DEF OneOwner, Owns, RememberInv
<1>8. ASSUME "bgp" \notin forgotten, NEW a \in Addrs \ doubtful
      PROVE  cfg.nbrs[a] = Lookup(map, bgpKey.nbrs, a)
  <2>1. CASE a = gone
    <3>1. \A i \in Ids : Owns(neighborMap, i, a) => i = id
      BY <1>2, <1>5, <2>1 DEF RememberInv, OneOwner
    <3>2. Unowned(map, a)
      BY <1>4, <3>1 DEF Unowned, Owns
    <3>3. Lookup(map, bgpKey.nbrs, a) = bgpKey.nbrs[a]
      BY <3>2, LookupUnowned
    <3> QED
      BY <1>2, <1>3, <1>6, <2>1, <3>3
  <2>2. CASE a # gone
    <3>1. ~Owns(neighborMap, id, a) /\ ~Owns(map, id, a)
      BY <1>4, <1>5, <2>2 DEF Owns
    <3>2. SameOwner(map, neighborMap, a)
      BY <1>4, <3>1 DEF SameOwner, Owns
    <3>3. gobgpConfig.nbrs[a] = Lookup(neighborMap, bgpKey.nbrs, a)
      BY <1>1, <1>8 DEF RememberInv, Remembered
    <3>4. OneOwner(neighborMap) /\ a \in Addrs
      BY DEF RememberInv
    <3>5. Lookup(map, bgpKey.nbrs, a) = Lookup(neighborMap, bgpKey.nbrs, a)
      BY SMT, <1>7, <3>2, <3>4, LookupElsewhere
    <3> QED
      BY <1>3, <2>2, <3>3, <3>5
  <2> QED
    BY <2>1, <2>2
<1>9. Remembered(next)'
  BY <1>1, <1>3, <1>8 DEF Remembered, RememberInv
<1> QED
  BY <1>1, <1>3, <1>4, <1>7, <1>9 DEF RememberInv

\* The handlers of a VRF's key
LEMMA VrfRemembers ==
    ASSUME RememberInv, PcTypeOK, NEW v \in GobgpVrfs, NEW c \in VrfConfigs \cup {None},
           Start([gobgpConfig EXCEPT !.vrfs[v] = c], "update"),
           bgpKey' = [bgpKey EXCEPT !.vrfs[v] = c], forgotten' = forgotten \ {v},
           UNCHANGED <<neighborMap, doubtful>>
    PROVE  RememberInv'
<1> DEFINE cfg == [gobgpConfig EXCEPT !.vrfs[v] = c]
           key == [bgpKey EXCEPT !.vrfs[v] = c]
<1>1. Idle /\ ~Idle' /\ next' = cfg /\ gobgpConfig' = gobgpConfig /\ bgpKey' = key
  BY DEF Start, Idle, At, PcTypeOK
<1>2. /\ cfg \in GobgpConfigs
      /\ cfg.as = gobgpConfig.as /\ cfg.pol = gobgpConfig.pol /\ cfg.nbrs = gobgpConfig.nbrs
      /\ \A w \in GobgpVrfs : cfg.vrfs[w] = IF w = v THEN c ELSE gobgpConfig.vrfs[w]
  BY DEF RememberInv, GobgpConfigs
<1>3. /\ key \in GobgpConfigs
      /\ key.as = bgpKey.as /\ key.pol = bgpKey.pol /\ key.nbrs = bgpKey.nbrs
      /\ \A w \in GobgpVrfs : key.vrfs[w] = IF w = v THEN c ELSE bgpKey.vrfs[w]
  BY DEF RememberInv, GobgpConfigs
<1> HIDE DEF cfg, key
<1>4. Remembered(next)'
  <2>0. Remembered(gobgpConfig)
    BY <1>1 DEF RememberInv
  <2>1. "bgp" \notin forgotten' => "bgp" \notin forgotten
    BY GobgpAssumption
  <2>2. \A w \in GobgpVrfs \ forgotten' : cfg.vrfs[w] = key.vrfs[w]
    BY <1>2, <1>3, <2>0 DEF Remembered
  <2>3. ASSUME "bgp" \notin forgotten'
        PROVE  /\ cfg.as = key.as /\ cfg.pol = key.pol
               /\ \A a \in Addrs \ doubtful' : cfg.nbrs[a] = Lookup(neighborMap', key.nbrs, a)
    BY <1>2, <1>3, <2>0, <2>1, <2>3 DEF Remembered
  <2> QED
    BY <1>1, <2>2, <2>3 DEF Remembered
<1> QED
  BY SMT, <1>1, <1>2, <1>3, <1>4 DEF RememberInv

\* What RememberInv is about
RememberVars == <<gobgpConfig, neighborMap, next, bgpKey, doubtful, forgotten>>

\* A step that touches none of it and neither begins nor ends a handler
LEMMA QuietRemembers ==
    ASSUME RememberInv, UNCHANGED RememberVars, Idle' <=> Idle
    PROVE  RememberInv'
BY DEF RememberInv, RememberVars, Remembered

\* Such are the steps between a handler's beginning and its end, and those of
\* the other threads and services.
LEMMA QuietSteps ==
    ASSUME PcTypeOK,
           \/ HandlerUpdate \/ HandlerReset
           \/ Retries
           \/ GobgpResetApi
           \/ ResetClear("cli", "zero", "zero")
           \/ ServerRestart \/ ServerAnswers \/ ZebraAnswers
           \/ GobgpWanUnreadable
           \/ \E conf, answers : GobgpWanConfig(conf, answers) /\ Unmoved
           \/ UNCHANGED gobgpVars
    PROVE  UNCHANGED RememberVars /\ (Idle' <=> Idle)
<1> USE DEF RememberVars, Idle, PcTypeOK, At
<1>1. CASE HandlerUpdate
  BY <1>1 DEF HandlerUpdate, GobgpSetZebra
<1>2. CASE HandlerReset
  BY <1>2 DEF HandlerReset, ResetClear, ResetSet, GobgpSetZebra
<1>3. CASE Retries
  <2>1. CASE GobgpSetZebraRoutine
    BY <2>1 DEF GobgpSetZebraRoutine
  <2>2. CASE RetryReset
    BY <2>2 DEF RetryReset, ResetClear, ResetSet, GobgpSetZebra
  <2> QED
    BY <1>3, <2>1, <2>2 DEF Retries
<1>4. CASE GobgpResetApi \/ ResetClear("cli", "zero", "zero")
  <2>1. CASE ResetClear("cli", "zero", "zero") \/ ResetClear("cli", "set", "none")
    BY <2>1 DEF ResetClear
  <2>2. CASE ResetSet("cli", gobgpConfig, "none")
    BY <2>2 DEF ResetSet, GobgpSetZebra
  <2> QED
    BY <1>4, <2>1, <2>2 DEF GobgpResetApi
<1>5. CASE ServerRestart \/ ServerAnswers \/ ZebraAnswers
  BY <1>5 DEF ServerRestart, ServerAnswers, ZebraAnswers
<1>6. CASE GobgpWanUnreadable
  BY <1>6 DEF GobgpWanUnreadable, Unmoved
<1>7. CASE \E conf, answers : GobgpWanConfig(conf, answers) /\ Unmoved
  BY <1>7 DEF GobgpWanConfig, Unmoved
<1>8. CASE UNCHANGED gobgpVars
  BY <1>8 DEF gobgpVars
<1> QED
  BY <1>1, <1>2, <1>3, <1>4, <1>5, <1>6, <1>7, <1>8

\* The invariant of gobgpConfig
LEMMA RememberInvariant == Spec => []RememberInv
<1>1. Init => RememberInv
  <2> SUFFICES ASSUME GobgpInit
               PROVE  RememberInv
    BY DEF Init
  <2>1. NoConfig \in GobgpConfigs
    BY DEF NoConfig, NoNbrs, NoVrfs, GobgpConfigs, NbrTables, AsNumbers
  <2>2. \A a \in Addrs : Unowned(neighborMap, a)
    BY DEF GobgpInit, Unowned, Owns
  <2>3. OneOwner(neighborMap)
    BY <2>2 DEF OneOwner, Unowned
  <2>4. \A a \in Addrs : NoConfig.nbrs[a] = Lookup(neighborMap, NoConfig.nbrs, a)
    BY <2>2, LookupUnowned
  <2>5. \A n \in Neighbors : NoConfig.nbrs[n.addr] = None
    BY ValuesAssumption DEF NoConfig, NoNbrs
  <2> QED
    BY <2>1, <2>3, <2>4, <2>5 DEF GobgpInit, RememberInv, Remembered, Idle
<1>2. RememberInv /\ ZebraInv /\ [Next]_vars => RememberInv'
  <2> SUFFICES ASSUME RememberInv, PcTypeOK, [Next]_vars
               PROVE  RememberInv'
    BY DEF ZebraInv
  <2>1. CASE EtcdKeyValueParse
    <3>1. ASSUME NEW v \in GobgpVrfs, NEW c \in VrfConfigs, GobgpVrfUpdate(v, c)
          PROVE  RememberInv'
      BY <3>1, VrfRemembers DEF GobgpVrfUpdate
    <3>2. ASSUME NEW side, NEW c, NEW answers, GobgpWanParse(side, c, answers)
          PROVE  RememberInv'
      BY <3>2, QuietSteps, QuietRemembers DEF GobgpWanParse
    <3> QED
      BY <2>1, <3>1, <3>2, ParseRemembers, NeighborAddRemembers, QuietSteps, QuietRemembers
         DEF EtcdKeyValueParse
  <2>2. CASE EtcdKeyDelete
    <3>1. ASSUME NEW v \in GobgpVrfs, GobgpVrfDelete(v)
          PROVE  RememberInv'
      BY <3>1, VrfRemembers DEF GobgpVrfDelete
    <3>2. ASSUME NEW side, NEW answers, GobgpWanStop(side, answers)
          PROVE  RememberInv'
      BY <3>2, QuietSteps, QuietRemembers DEF GobgpWanStop
    <3> QED
      BY <2>2, <3>1, <3>2, NeighborDeleteRemembers, QuietSteps, QuietRemembers DEF EtcdKeyDelete
  <2>3. CASE Threadsteps
    <3>1. CASE HandlerAssign
      BY <3>1 DEF HandlerAssign, RememberInv, Remembered, Idle, At, PcTypeOK
    <3> QED
      BY <2>3, <3>1, QuietSteps, QuietRemembers DEF Threadsteps, Handlers
  <2>4. CASE VrrpStates
    BY <2>4, QuietSteps, QuietRemembers DEF VrrpStates
  <2>5. CASE Cli
    <3>1. ASSUME gobgpConfig' = NoConfig, forgotten' = GobgpVrfs \cup {"bgp"}, Idle' <=> Idle,
                 UNCHANGED <<neighborMap, next, bgpKey, doubtful>>
          PROVE  RememberInv'
      <4>1. NoConfig \in GobgpConfigs
        BY DEF NoConfig, NoNbrs, NoVrfs, GobgpConfigs, NbrTables, AsNumbers
      <4> QED
        BY <3>1, <4>1 DEF RememberInv, Remembered
    <3>2. CASE GobgpClearApi
      BY <3>1, <3>2, QuietSteps, QuietRemembers DEF GobgpClearApi, Idle, At, PcTypeOK
    <3> QED
      BY <2>5, <3>2, QuietSteps, QuietRemembers DEF Cli
  <2>6. CASE Faults
    BY <2>6, QuietSteps, QuietRemembers DEF Faults
  <2>7. CASE UNCHANGED vars
    BY <2>7, QuietSteps, QuietRemembers DEF vars
  <2> QED
    BY <2>1, <2>2, <2>3, <2>4, <2>5, <2>6, <2>7 DEF Next
<1> QED
  BY <1>1, <1>2, ZebraInvariant, PTL DEF Spec

\* For any keys and values gobgpConfig still has the last value of each,
\* except what `clear gobgp' removed and addresses a neighbour has left
\* (GobgpParse, GobgpNeighborAdd, GobgpVrfUpdate).
THEOREM KeysRemembered == Spec => []GobgpRemembers
<1>1. RememberInv => GobgpRemembers
  <2> SUFFICES ASSUME RememberInv, Idle
               PROVE  GobgpRemembers
    BY DEF GobgpRemembers
  <2>1. \A a \in Addrs : WithNeighborMap(bgpKey.nbrs)[a] = Lookup(neighborMap, bgpKey.nbrs, a)
    BY DEF WithNeighborMap, Lookup, Owns
  <2> QED
    BY <2>1 DEF RememberInv, Remembered, GobgpRemembers
<1> QED
  BY <1>1, RememberInvariant, PTL

-----------------------------------------------------------------------------
(* gobgpd has what gobgpConfig says, for any keys, values and interleaving   *)
(* of the watcher, the retry and the CLI.                                     *)

Servers == [up : BOOLEAN, as : AsNumbers, pol : SUBSET Policies, nbrs : NbrTables,
            vrfs : [GobgpVrfs -> ServerVrfs \cup {None}], zebra : BOOLEAN]

\* The server s has what cfg says, but for the VRFs k it has kept and the
\* neighbours u it has not added.
Has(s, cfg, k, u) ==
    cfg.as # 0 =>
        /\ s.as = cfg.as /\ s.pol = {cfg.pol} \ {None}
        /\ \A a \in Addrs : s.nbrs[a] = IF a \in u THEN None ELSE cfg.nbrs[a]
        /\ \A v \in GobgpVrfs : IF v \in k THEN s.vrfs[v] # None ELSE s.vrfs[v] = cfg.vrfs[v]

\* s has what old says, but the routes of its VRFs are those of cfg already.
VrfsReady(vrfs, old, cfg, k) ==
    \A v \in GobgpVrfs :
        /\ v \in k => vrfs[v] # None
        /\ v \notin k /\ old[v] = None => vrfs[v] = None
        /\ v \notin k /\ old[v] # None /\ cfg[v] # None =>
              vrfs[v] = [attr |-> old[v].attr, ribs |-> cfg[v].ribs]

Ready(s, old, cfg, k, u) ==
    /\ cfg.as = old.as
    /\ old.as # 0 =>
          /\ s.as = old.as /\ s.pol = {old.pol} \ {None}
          /\ \A a \in Addrs : s.nbrs[a] = IF a \in u THEN None ELSE old.nbrs[a]
          /\ VrfsReady(s.vrfs, old.vrfs, cfg.vrfs, k)

Blank(s) == s.up /\ s.as = 0 /\ s.pol = {} /\ s.nbrs = NoNbrs /\ s.vrfs = NoVrfs

Quiet == \A t \in Threads : ~Busy(t)

\* As long as nothing is stale: what the server has while all threads are
\* quiet, and before and after the update of a handler that is alone.  Of two
\* threads that are busy at once the first to go on makes it stale.
MirrorInv ==
    /\ server \in Servers
    /\ clean # None => Blank(server) /\ kept = {} /\ unadded = {}
    /\ ~stale /\ Quiet => Has(server, gobgpConfig, kept, unadded)
    /\ ~stale /\ Alone("watcher") /\ pc.watcher = "update" =>
          Ready(server, gobgpConfig, next, kept, unadded)
    /\ ~stale /\ Alone("watcher") /\ pc.watcher = "assign" => Has(server, next, kept, unadded)

-----------------------------------------------------------------------------
(* Batches of calls *)

\* The zebra client of a server does not matter to the rest of it.
LEMMA ZebraApart ==
    ASSUME NEW s \in Servers, NEW z \in BOOLEAN
    PROVE  /\ [s EXCEPT !.zebra = z] \in Servers
           /\ Blank(s) <=> Blank([s EXCEPT !.zebra = z])
           /\ \A cfg, k, u : Has(s, cfg, k, u) <=> Has([s EXCEPT !.zebra = z], cfg, k, u)
           /\ \A old, cfg, k, u : Ready(s, old, cfg, k, u) <=> Ready([s EXCEPT !.zebra = z], old, cfg, k, u)
BY SMT DEF Servers, Blank, Has, Ready

\* The keys and values of a table that is updated
LEMMA TableTypes ==
    ASSUME NEW D, NEW V, None \in V, NEW table \in [D -> V], NEW wanted \in [D -> V], NEW gone
    PROVE  AddMissing(table, wanted) \in [D -> V] /\ Drop(table, gone) \in [D -> V]
BY DEF AddMissing, Drop

\* The same for neighbours
LEMMA NeighborTypes ==
    ASSUME NEW nbrs \in NbrTables, NEW wanted \in NbrTables, NEW vrfs
    PROVE  AddNeighbors(nbrs, vrfs, wanted) \in NbrTables
<1> DEFINE new == [a \in DOMAIN wanted |-> IF Homeless(vrfs, wanted[a]) THEN None ELSE wanted[a]]
<1>1. new \in [Addrs -> Peers \cup {None}] /\ nbrs \in [Addrs -> Peers \cup {None}]
  BY DEF NbrTables
<1> HIDE DEF new
<1>2. AddMissing(nbrs, new) \in [Addrs -> Peers \cup {None}]
  BY <1>1, TableTypes
<1> QED
  BY <1>2 DEF AddNeighbors, NbrTables, new

\* Neighbours: an update from a table that mirrors old ends with new, less
\* the neighbours that are not added.
LEMMA NeighborsUpdated ==
    ASSUME NEW nbrs \in NbrTables, NEW old \in NbrTables, NEW new \in NbrTables, NEW vrfs,
           \A a \in Addrs : nbrs[a] = IF a \in unadded THEN None ELSE old[a],
           NEW a \in Addrs
    PROVE  GobgpUpdateNeighbor(nbrs, vrfs, old, new)[a]
              = IF a \in NbrRefusals(vrfs, old, new) THEN None ELSE new[a]
<1> DEFINE same == SameNbrs(old, new)
           changed == (Listed(old) \cup Listed(new)) \ same
           res == GobgpUpdateNeighbor(nbrs, vrfs, old, new)
<1>1. DOMAIN nbrs = Addrs /\ DOMAIN old = Addrs /\ DOMAIN new = Addrs
  BY DEF NbrTables
<1>2. /\ a \in Listed(old) <=> old[a] # None
      /\ a \in Listed(new) <=> new[a] # None
      /\ a \in same <=> old[a] # None /\ new[a] # None /\ old[a] = new[a]
  BY <1>1 DEF Listed, SameNbrs
<1>3. a \in NbrRefusals(vrfs, old, new)
         <=> (a \in unadded /\ a \notin changed) \/ (a \in changed /\ Homeless(vrfs, new[a]))
  BY DEF NbrRefusals
<1> HIDE DEF same
<1> DEFINE left == Drop(nbrs, Listed(old) \ same)
           rest == Drop(new, same)
           some == [b \in DOMAIN rest |-> IF Homeless(vrfs, rest[b]) THEN None ELSE rest[b]]
<1>4. left[a] = (IF old[a] # None /\ a \notin same THEN None ELSE nbrs[a]) /\ DOMAIN left = Addrs
  BY <1>1, <1>2 DEF Drop
<1>5. rest[a] = (IF a \in same THEN None ELSE new[a]) /\ DOMAIN rest = Addrs
  BY <1>1 DEF Drop
<1> HIDE DEF left, rest
<1>6. some[a] = IF a \in same \/ Homeless(vrfs, new[a]) THEN None ELSE new[a]
  BY <1>5 DEF Homeless
<1>7. res = AddMissing(left, some)
  BY DEF GobgpUpdateNeighbor, AddNeighbors, same, left, rest
<1> HIDE DEF some
<1>8. res[a] = IF left[a] = None THEN some[a] ELSE left[a]
  BY <1>4, <1>7 DEF AddMissing
<1> HIDE DEF res
<1>9. a \in changed <=> (old[a] # None \/ new[a] # None) /\ a \notin same
  BY <1>2
<1> HIDE DEF changed
<1>10. Homeless(vrfs, new[a]) => new[a] # None
  BY DEF Homeless
<1>11. CASE a \in same
  BY SMT, <1>2, <1>3, <1>4, <1>6, <1>8, <1>9, <1>11 DEF res
<1>12. CASE a \notin same
  BY SMT, <1>2, <1>3, <1>4, <1>6, <1>8, <1>9, <1>10, <1>12 DEF res
<1> QED
  BY <1>11, <1>12

\* VRFs: VrfEqual only counts routes, which suffices where the server's
\* routes are the new ones.  A VRF that stays is not replaced.
LEMMA VrfsUpdated ==
    ASSUME NEW old \in [GobgpVrfs -> VrfConfigs \cup {None}],
           NEW new \in [GobgpVrfs -> VrfConfigs \cup {None}],
           server.vrfs \in [GobgpVrfs -> ServerVrfs \cup {None}],
           VrfsReady(server.vrfs, old, new, kept),
           NEW v \in GobgpVrfs
    PROVE  LET res == GobgpUpdateVrf(server.vrfs, server.nbrs, old, new)
           IN  IF v \in VrfRefusals(old, new) THEN res[v] # None ELSE res[v] = new[v]
<1> DEFINE same == SameVrfs(old, new)
           changed == (Listed(old) \cup Listed(new)) \ same
           stays == server.vrfs[v] # None /\ (old[v] = None \/ InUse(server.nbrs, v))
           res == GobgpUpdateVrf(server.vrfs, server.nbrs, old, new)
<1>1. DOMAIN server.vrfs = GobgpVrfs /\ DOMAIN old = GobgpVrfs /\ DOMAIN new = GobgpVrfs
  OBVIOUS
<1>2. /\ v \in Listed(old) <=> old[v] # None
      /\ v \in Listed(new) <=> new[v] # None
      /\ v \in same <=> old[v] # None /\ new[v] # None /\ VrfEqual(old[v], new[v])
  BY <1>1 DEF Listed, SameVrfs
<1>3. v \in VrfRefusals(old, new) <=> (v \in kept /\ v \notin changed) \/ (v \in changed /\ stays)
  BY DEF VrfRefusals
<1> HIDE DEF same
<1> DEFINE left == DropVrfs(server.vrfs, server.nbrs, Listed(old) \ same)
           rest == Drop(new, same)
<1>4. /\ left[v] = IF old[v] # None /\ v \notin same /\ ~InUse(server.nbrs, v) THEN None ELSE server.vrfs[v]
      /\ DOMAIN left = GobgpVrfs
  BY <1>1, <1>2 DEF DropVrfs, Drop
<1>5. rest[v] = IF v \in same THEN None ELSE new[v]
  BY <1>1 DEF Drop
<1>6. res = AddMissing(left, rest)
  BY DEF GobgpUpdateVrf, same
<1> HIDE DEF left, rest
<1>7. res[v] = IF left[v] = None THEN rest[v] ELSE left[v]
  BY <1>4, <1>6 DEF AddMissing
<1> HIDE DEF res
<1>8. v \in changed <=> (old[v] # None \/ new[v] # None) /\ v \notin same
  BY <1>2
<1> HIDE DEF changed
<1>9. CASE v \in same /\ v \notin kept
  <2>1. server.vrfs[v] = [attr |-> old[v].attr, ribs |-> new[v].ribs] /\ old[v].attr = new[v].attr
    BY <1>2, <1>9 DEF VrfsReady, VrfEqual
  <2>2. new[v] \in ServerVrfs
    BY <1>2, <1>9, GobgpAssumption
  <2>3. server.vrfs[v] = new[v]
    BY <2>1, <2>2 DEF ServerVrfs
  <2> QED
    BY <1>2, <1>3, <1>4, <1>7, <1>8, <1>9, <2>3 DEF res
<1>10. CASE v \in same /\ v \in kept
  BY <1>3, <1>4, <1>7, <1>8, <1>10 DEF res, VrfsReady
<1>11. CASE v \notin same /\ v \notin changed
  BY <1>3, <1>4, <1>5, <1>7, <1>8, <1>11 DEF res, VrfsReady
<1>12. CASE v \in changed
  BY <1>3, <1>4, <1>5, <1>7, <1>8, <1>12 DEF res
<1> QED
  BY <1>9, <1>10, <1>11, <1>12

\* GobgpUpdate on a server that is ready for cfg: it ends with cfg.
LEMMA UpdateMirrors ==
    ASSUME server \in Servers, NEW old \in GobgpConfigs, NEW cfg \in GobgpConfigs,
           server.up, Ready(server, old, cfg, kept, unadded)
    PROVE  LET s == GobgpUpdate(server, old, cfg)
           IN  Has(s, cfg, VrfRefusals(old.vrfs, cfg.vrfs), NbrRefusals(s.vrfs, old.nbrs, cfg.nbrs))
<1> DEFINE s == GobgpUpdate(server, old, cfg)
           vrfs == GobgpUpdateVrf(server.vrfs, server.nbrs, old.vrfs, cfg.vrfs)
<1> SUFFICES ASSUME cfg.as # 0
             PROVE  Has(s, cfg, VrfRefusals(old.vrfs, cfg.vrfs), NbrRefusals(s.vrfs, old.nbrs, cfg.nbrs))
  BY DEF Has
<1>1. /\ old.as # 0 /\ server.as = cfg.as /\ Active(server)
      /\ server.pol = {old.pol} \ {None}
      /\ \A a \in Addrs : server.nbrs[a] = IF a \in unadded THEN None ELSE old.nbrs[a]
      /\ VrfsReady(server.vrfs, old.vrfs, cfg.vrfs, kept)
  BY DEF Ready, Active
<1>2. /\ s.as = server.as
      /\ s.pol = SetPolicy(server.pol \ {old.pol}, cfg)
      /\ s.nbrs = GobgpUpdateNeighbor(server.nbrs, vrfs, old.nbrs, cfg.nbrs)
      /\ s.vrfs = vrfs
  BY <1>1 DEF GobgpUpdate, Servers
<1>3. SetPolicy(server.pol \ {old.pol}, cfg) = {cfg.pol} \ {None}
  BY <1>1 DEF SetPolicy
<1> HIDE DEF s
<1>4. ASSUME NEW a \in Addrs
      PROVE  s.nbrs[a] = IF a \in NbrRefusals(s.vrfs, old.nbrs, cfg.nbrs) THEN None ELSE cfg.nbrs[a]
  <2>1. server.nbrs \in NbrTables /\ old.nbrs \in NbrTables /\ cfg.nbrs \in NbrTables
    BY DEF Servers, GobgpConfigs
  <2> HIDE DEF vrfs
  <2> QED
    BY SMT, <1>1, <1>2, <2>1, NeighborsUpdated
<1>5. ASSUME NEW v \in GobgpVrfs
      PROVE  IF v \in VrfRefusals(old.vrfs, cfg.vrfs) THEN s.vrfs[v] # None ELSE s.vrfs[v] = cfg.vrfs[v]
  <2>1. /\ old.vrfs \in [GobgpVrfs -> VrfConfigs \cup {None}]
        /\ cfg.vrfs \in [GobgpVrfs -> VrfConfigs \cup {None}]
        /\ server.vrfs \in [GobgpVrfs -> ServerVrfs \cup {None}]
    BY DEF GobgpConfigs, Servers
  <2> QED
    BY SMT, <1>1, <1>2, <2>1, VrfsUpdated
<1> QED
  BY <1>1, <1>2, <1>3, <1>4, <1>5 DEF Has

\* The Set half of a reset on a server that has been cleared: of the VRFs it
\* keeps none, and it adds the neighbours whose VRF is there.
LEMMA SetMirrors ==
    ASSUME server \in Servers, NEW cfg \in GobgpConfigs, Blank(server), kept = {}, unadded = {}
    PROVE  LET s == GobgpSet(server, cfg)
           IN  Has(s, cfg, VrfRefusals(NoVrfs, cfg.vrfs), NbrRefusals(s.vrfs, NoNbrs, cfg.nbrs))
<1> DEFINE s == GobgpSet(server, cfg)
           u == NbrRefusals(s.vrfs, NoNbrs, cfg.nbrs)
<1> SUFFICES ASSUME cfg.as # 0
             PROVE  Has(s, cfg, VrfRefusals(NoVrfs, cfg.vrfs), u)
  BY DEF Has
<1>1. cfg.nbrs \in [Addrs -> Peers \cup {None}] /\ cfg.vrfs \in [GobgpVrfs -> VrfConfigs \cup {None}]
  BY DEF GobgpConfigs, NbrTables
<1>2. AddMissing(NoVrfs, cfg.vrfs) = cfg.vrfs
  BY <1>1 DEF AddMissing, NoVrfs
<1>3. /\ s.as = cfg.as
      /\ s.pol = SetPolicy({}, cfg)
      /\ s.vrfs = AddMissing(NoVrfs, cfg.vrfs)
      /\ s.nbrs = AddNeighbors(NoNbrs, AddMissing(NoVrfs, cfg.vrfs), cfg.nbrs)
  BY DEF GobgpSet, StartServer, Active, Blank, Servers
<1> HIDE DEF s
<1>4. VrfRefusals(NoVrfs, cfg.vrfs) = {}
  <2>1. \A v \in Listed(NoVrfs) \cup Listed(cfg.vrfs) : server.vrfs[v] = None
    BY <1>1 DEF Blank, NoVrfs, Listed
  <2> QED
    BY <2>1 DEF VrfRefusals
<1>5. ASSUME NEW a \in Addrs
      PROVE  s.nbrs[a] = IF a \in u THEN None ELSE cfg.nbrs[a]
  <2>1. s.nbrs = AddNeighbors(NoNbrs, s.vrfs, cfg.nbrs)
    BY <1>3
  <2>2. s.nbrs[a] = IF Homeless(s.vrfs, cfg.nbrs[a]) THEN None ELSE cfg.nbrs[a]
    BY <1>1, <2>1 DEF AddNeighbors, AddMissing, NoNbrs
  <2>3. a \in u <=> a \in Listed(cfg.nbrs) /\ Homeless(s.vrfs, cfg.nbrs[a])
    BY DEF NbrRefusals, SameNbrs, Listed, NoNbrs
  <2>4. Homeless(s.vrfs, cfg.nbrs[a]) => a \in Listed(cfg.nbrs)
    BY <1>1 DEF Homeless, Listed
  <2> QED
    BY <2>2, <2>3, <2>4
<1> QED
  BY <1>2, <1>3, <1>4, <1>5 DEF Has, SetPolicy

\* A handler that changes no routes may start from where a mirror is.
LEMMA StartReady ==
    ASSUME NEW s, NEW old \in GobgpConfigs, NEW cfg \in GobgpConfigs, NEW k, NEW u,
           Has(s, old, k, u), cfg.as = old.as,
           \A v \in GobgpVrfs : old.vrfs[v] = None \/ cfg.vrfs[v] \in {None, old.vrfs[v]}
    PROVE  Ready(s, old, cfg, k, u)
<1> SUFFICES ASSUME old.as # 0, NEW v \in GobgpVrfs, v \notin k, old.vrfs[v] # None, cfg.vrfs[v] # None
             PROVE  s.vrfs[v] = [attr |-> old.vrfs[v].attr, ribs |-> cfg.vrfs[v].ribs]
  BY DEF Has, Ready, VrfsReady
<1>1. s.vrfs[v] = old.vrfs[v] /\ cfg.vrfs[v] = old.vrfs[v]
  BY DEF Has
<1>2. old.vrfs[v] \in ServerVrfs
  BY GobgpAssumption DEF GobgpConfigs
<1> QED
  BY <1>1, <1>2 DEF ServerVrfs

\* A VRF whose routes are synchronized is still one.
LEMMA SyncedVrf ==
    ASSUME NEW x \in ServerVrfs, NEW old \in VrfConfigs, NEW new \in VrfConfigs
    PROVE  [x EXCEPT !.ribs = (x.ribs \cup (new.ribs \ old.ribs)) \ (old.ribs \ new.ribs)] \in ServerVrfs
<1> DEFINE All == SUBSET UNION {c.ribs : c \in VrfConfigs}
           Attrs == {c.attr : c \in VrfConfigs}
           ribs == (x.ribs \cup (new.ribs \ old.ribs)) \ (old.ribs \ new.ribs)
<1>1. ServerVrfs = [attr : Attrs, ribs : All]
  BY DEF ServerVrfs
<1>2. new.ribs \in All
  OBVIOUS
<1>3. ribs \in All
  BY <1>1, <1>2
<1> HIDE DEF All, Attrs, ribs
<1>4. [x EXCEPT !.ribs = ribs] \in ServerVrfs
  BY <1>1, <1>3
<1> QED
  BY <1>4 DEF ribs

\* GobgpVrfUpdate's routes come first.
LEMMA RibsReady ==
    ASSUME NEW s \in Servers, NEW old \in GobgpConfigs, NEW k, NEW u, s.up, Has(s, old, k, u),
           NEW v \in GobgpVrfs, NEW c \in VrfConfigs, old.vrfs[v] # None
    PROVE  Ready(GobgpVrfRibSync(s, v, old.vrfs[v].ribs, c.ribs), old, [old EXCEPT !.vrfs[v] = c], k, u)
<1> DEFINE cfg == [old EXCEPT !.vrfs[v] = c]
           ribs == old.vrfs[v].ribs
           t == GobgpVrfRibSync(s, v, ribs, c.ribs)
<1>1. cfg.as = old.as /\ \A w \in GobgpVrfs : cfg.vrfs[w] = IF w = v THEN c ELSE old.vrfs[w]
  BY DEF GobgpConfigs
<1>2. \A w \in GobgpVrfs : old.vrfs[w] # None => old.vrfs[w] \in ServerVrfs
  BY GobgpAssumption DEF GobgpConfigs
<1>3. s.vrfs \in [GobgpVrfs -> ServerVrfs \cup {None}]
  BY DEF Servers
<1> SUFFICES ASSUME old.as # 0
             PROVE  Ready(t, old, cfg, k, u)
  BY <1>1 DEF Ready
<1>4. /\ s.as = old.as /\ s.pol = {old.pol} \ {None} /\ Active(s)
      /\ \A a \in Addrs : s.nbrs[a] = IF a \in u THEN None ELSE old.nbrs[a]
      /\ \A w \in GobgpVrfs : IF w \in k THEN s.vrfs[w] # None ELSE s.vrfs[w] = old.vrfs[w]
  BY DEF Has, Active
<1>5. s.vrfs[v] # None /\ s.vrfs[v] \in ServerVrfs
  BY <1>3, <1>4
<1> DEFINE now == (s.vrfs[v].ribs \cup (c.ribs \ ribs)) \ (ribs \ c.ribs)
<1>6. /\ t.as = s.as /\ t.pol = s.pol /\ t.nbrs = s.nbrs
      /\ t.vrfs = [s.vrfs EXCEPT ![v] = [s.vrfs[v] EXCEPT !.ribs = now]]
  BY <1>4, <1>5 DEF GobgpVrfRibSync, Servers
<1> HIDE DEF t, now, cfg
<1>7. t.vrfs[v] = [attr |-> s.vrfs[v].attr, ribs |-> now]
  <2>1. t.vrfs[v] = [s.vrfs[v] EXCEPT !.ribs = now]
    BY <1>3, <1>6
  <2> QED
    BY <1>5, <2>1 DEF ServerVrfs
<1>8. \A w \in GobgpVrfs : w # v => t.vrfs[w] = s.vrfs[w]
  BY <1>3, <1>6
<1>9. t.vrfs[v] # None
  <2>1. old.vrfs[v] \in VrfConfigs
    BY DEF GobgpConfigs
  <2>2. [s.vrfs[v] EXCEPT !.ribs = now] \in ServerVrfs
    BY <1>5, <2>1, SyncedVrf DEF now
  <2> QED
    BY <1>3, <1>6, <2>2, GobgpAssumption
<1>10. ASSUME v \notin k
       PROVE  t.vrfs[v] = [attr |-> old.vrfs[v].attr, ribs |-> c.ribs]
  <2>1. now = c.ribs /\ s.vrfs[v].attr = old.vrfs[v].attr
    BY <1>4, <1>10 DEF now
  <2> QED
    BY <1>7, <2>1
<1>11. ASSUME NEW w \in GobgpVrfs, old.vrfs[w] # None
       PROVE  old.vrfs[w] = [attr |-> old.vrfs[w].attr, ribs |-> old.vrfs[w].ribs]
  BY <1>2, <1>11 DEF ServerVrfs
<1>12. VrfsReady(t.vrfs, old.vrfs, cfg.vrfs, k)
  <2> SUFFICES ASSUME NEW w \in GobgpVrfs
               PROVE  /\ w \in k => t.vrfs[w] # None
                      /\ w \notin k /\ old.vrfs[w] = None => t.vrfs[w] = None
                      /\ w \notin k /\ old.vrfs[w] # None /\ cfg.vrfs[w] # None =>
                            t.vrfs[w] = [attr |-> old.vrfs[w].attr, ribs |-> cfg.vrfs[w].ribs]
    BY DEF VrfsReady
  <2>1. CASE w = v
    BY <1>1, <1>9, <1>10, <2>1
  <2>2. CASE w # v
    <3>1. t.vrfs[w] = s.vrfs[w] /\ cfg.vrfs[w] = old.vrfs[w]
      BY <1>1, <1>8, <2>2
    <3>2. IF w \in k THEN s.vrfs[w] # None ELSE s.vrfs[w] = old.vrfs[w]
      BY <1>4
    <3> QED
      BY <1>11, <3>1, <3>2
  <2> QED
    BY <2>1, <2>2
<1>13. Ready(t, old, cfg, k, u)
  BY <1>1, <1>4, <1>6, <1>12 DEF Ready
<1> QED
  BY <1>13 DEF cfg, t

\* Every batch leaves a server.
LEMMA BatchTypes ==
    ASSUME NEW s \in Servers, NEW old \in GobgpConfigs, NEW cfg \in GobgpConfigs
    PROVE  /\ Fresh \in Servers
           /\ StopServer(s) \in Servers /\ (s.up => Blank(StopServer(s)))
           /\ GobgpUpdate(s, old, cfg) \in Servers
           /\ GobgpSet(s, cfg) \in Servers
<1>1. Fresh \in Servers
  BY DEF Fresh, Servers, NoNbrs, NoVrfs, NbrTables, AsNumbers
<1>2. StopServer(s) \in Servers /\ (s.up => Blank(StopServer(s)))
  BY <1>1 DEF StopServer, Blank, Servers, Fresh
<1>3. /\ s.nbrs \in [Addrs -> Peers \cup {None}] /\ cfg.nbrs \in [Addrs -> Peers \cup {None}]
      /\ old.nbrs \in [Addrs -> Peers \cup {None}]
      /\ s.vrfs \in [GobgpVrfs -> ServerVrfs \cup {None}] /\ cfg.vrfs \in [GobgpVrfs -> ServerVrfs \cup {None}]
      /\ old.vrfs \in [GobgpVrfs -> ServerVrfs \cup {None}]
  BY GobgpAssumption DEF Servers, GobgpConfigs, NbrTables
<1>4. ASSUME NEW vrfs
      PROVE  /\ GobgpUpdateNeighbor(s.nbrs, vrfs, old.nbrs, cfg.nbrs) \in NbrTables
             /\ AddNeighbors(s.nbrs, vrfs, cfg.nbrs) \in NbrTables
  <2>1. ASSUME NEW gone, NEW same
        PROVE  Drop(s.nbrs, gone) \in NbrTables /\ Drop(cfg.nbrs, same) \in NbrTables
    BY <1>3, TableTypes DEF NbrTables
  <2>2. s.nbrs \in NbrTables /\ cfg.nbrs \in NbrTables
    BY <1>3 DEF NbrTables
  <2> QED
    BY SMT, <2>1, <2>2, NeighborTypes DEF GobgpUpdateNeighbor
<1>5. GobgpUpdateVrf(s.vrfs, s.nbrs, old.vrfs, cfg.vrfs) \in [GobgpVrfs -> ServerVrfs \cup {None}]
  <2>1. ASSUME NEW gone, NEW same
        PROVE  /\ Drop(s.vrfs, gone) \in [GobgpVrfs -> ServerVrfs \cup {None}]
               /\ Drop(cfg.vrfs, same) \in [GobgpVrfs -> ServerVrfs \cup {None}]
    BY <1>3, TableTypes
  <2> DEFINE left == DropVrfs(s.vrfs, s.nbrs, Listed(old.vrfs) \ SameVrfs(old.vrfs, cfg.vrfs))
             rest == Drop(cfg.vrfs, SameVrfs(old.vrfs, cfg.vrfs))
  <2>2. left \in [GobgpVrfs -> ServerVrfs \cup {None}] /\ rest \in [GobgpVrfs -> ServerVrfs \cup {None}]
    BY <2>1 DEF DropVrfs
  <2>3. GobgpUpdateVrf(s.vrfs, s.nbrs, old.vrfs, cfg.vrfs) = AddMissing(left, rest)
    BY DEF GobgpUpdateVrf
  <2> HIDE DEF left, rest
  <2>4. AddMissing(left, rest) \in [GobgpVrfs -> ServerVrfs \cup {None}]
    BY <2>2, TableTypes
  <2> QED
    BY <2>3, <2>4
<1>6. ASSUME NEW p \in SUBSET Policies
      PROVE  SetPolicy(p, cfg) \in SUBSET Policies /\ SetPolicy(p \ {old.pol}, cfg) \in SUBSET Policies
  BY DEF SetPolicy, GobgpConfigs
<1>7. GobgpUpdate(s, old, cfg) \in Servers
  BY <1>4, <1>5, <1>6 DEF GobgpUpdate, Servers
<1>8. AddMissing(s.vrfs, cfg.vrfs) \in [GobgpVrfs -> ServerVrfs \cup {None}]
  BY <1>3, TableTypes
<1>9. cfg.as \in AsNumbers
  BY DEF GobgpConfigs
<1>10. GobgpSet(s, cfg) \in Servers
  BY <1>4, <1>6, <1>8, <1>9 DEF GobgpSet, StartServer, Servers
<1> QED
  BY <1>1, <1>2, <1>7, <1>10

\* So does the first batch of GobgpVrfUpdate.
LEMMA RibSyncType ==
    ASSUME NEW s \in Servers, NEW v \in GobgpVrfs, NEW old \in VrfConfigs, NEW new \in VrfConfigs
    PROVE  GobgpVrfRibSync(s, v, old.ribs, new.ribs) \in Servers
<1> SUFFICES ASSUME s.vrfs[v] # None
             PROVE  [s EXCEPT !.vrfs[v].ribs = (@ \cup (new.ribs \ old.ribs)) \ (old.ribs \ new.ribs)] \in Servers
  BY DEF GobgpVrfRibSync
<1> DEFINE ribs == (s.vrfs[v].ribs \cup (new.ribs \ old.ribs)) \ (old.ribs \ new.ribs)
<1>1. s.vrfs \in [GobgpVrfs -> ServerVrfs \cup {None}] /\ s.vrfs[v] \in ServerVrfs
  BY DEF Servers
<1>2. [s.vrfs[v] EXCEPT !.ribs = ribs] \in ServerVrfs
  BY <1>1, SyncedVrf
<1> HIDE DEF ribs
<1>3. [s.vrfs EXCEPT ![v] = [s.vrfs[v] EXCEPT !.ribs = ribs]] \in [GobgpVrfs -> ServerVrfs \cup {None}]
  BY <1>1, <1>2
<1>4. [s EXCEPT !.vrfs = [s.vrfs EXCEPT ![v] = [s.vrfs[v] EXCEPT !.ribs = ribs]]] \in Servers
  BY <1>3 DEF Servers
<1> QED
  BY <1>4 DEF ribs

-----------------------------------------------------------------------------
(* Steps *)

\* Who is busy, in terms of where the threads are
LEMMA WhoIsBusy ==
    PcTypeOK =>
        /\ Quiet <=> pc.watcher = "idle" /\ pc.retry # "set" /\ pc.cli = "none"
        /\ Alone("watcher") <=> pc.retry # "set" /\ pc.cli = "none"
        /\ Alone("retry") <=> pc.watcher = "idle" /\ pc.cli = "none"
        /\ Alone("cli") <=> pc.watcher = "idle" /\ pc.retry # "set"
<1>1. ASSUME PcTypeOK
      PROVE  /\ Busy("watcher") <=> pc.watcher # "idle"
             /\ Busy("retry") <=> pc.retry = "set"
             /\ Busy("cli") <=> pc.cli # "none"
  BY <1>1 DEF PcTypeOK, Busy
<1> QED
  BY <1>1 DEF Quiet, Alone, Threads

\* The same after a step
LEMMA WhoIsBusyNext ==
    PcTypeOK' =>
        /\ Quiet' <=> pc'.watcher = "idle" /\ pc'.retry # "set" /\ pc'.cli = "none"
        /\ Alone("watcher")' <=> pc'.retry # "set" /\ pc'.cli = "none"
<1>1. ASSUME PcTypeOK'
      PROVE  /\ Busy("watcher")' <=> pc'.watcher # "idle"
             /\ Busy("retry")' <=> pc'.retry = "set"
             /\ Busy("cli")' <=> pc'.cli # "none"
  BY <1>1 DEF PcTypeOK, Busy
<1> QED
  BY <1>1 DEF Quiet, Alone, Threads

\* What the steps are taken from
Configured == MirrorInv /\ PcTypeOK /\ PcTypeOK' /\ gobgpConfig \in GobgpConfigs /\ next \in GobgpConfigs

\* The first half of a reset: the thread that cleared the server is busy.
LEMMA ClearMirrors ==
    ASSUME Configured,
           \/ pc.watcher = "clear" /\ ResetClear("watcher", "set", "assign")
           \/ pc.retry = "clear" /\ ResetClear("retry", "set", "none")
           \/ pc.cli = "none" /\ ResetClear("cli", "set", "none")
           \/ pc.cli = "none" /\ ResetClear("cli", "zero", "zero")
    PROVE  MirrorInv'
<1>1. server' = StopServer(server) /\ (clean' # None => server.up) /\ (~stale' => server.up)
  BY DEF ResetClear, Touched
<1>2. server' \in Servers /\ (clean' # None => Blank(server') /\ kept' = {} /\ unadded' = {})
  BY <1>1, BatchTypes DEF Configured, MirrorInv, ResetClear
<1>3. ~stale' => pc'.watcher = "set" \/ pc'.retry = "set" \/ pc'.cli # "none"
  BY <1>1 DEF ResetClear, At, Configured, PcTypeOK
<1> QED
  BY <1>2, <1>3, WhoIsBusyNext DEF Configured, MirrorInv

\* Setting up moves the thread, and perhaps the retry goroutine.
LEMMA ZebraMoves ==
    ASSUME PcTypeOK, NEW s, NEW t \in Threads, NEW label, GobgpSetZebra(s, t, label)
    PROVE  pc'.watcher = IF t = "watcher" THEN label ELSE pc.watcher
<1>1. PICK retry : pc' = [pc EXCEPT !.retry = retry, ![t] = label]
  BY DEF GobgpSetZebra
<1> QED
  BY SMT, <1>1 DEF PcTypeOK, Threads

\* The second half: undisturbed it finds the server as it was cleared.
LEMMA SetKeepsMirror ==
    ASSUME Configured,
           \/ ResetSet("watcher", next, "assign")
           \/ ResetSet("retry", gobgpConfig, "none")
           \/ ResetSet("cli", gobgpConfig, "none")
    PROVE  MirrorInv'
<1>1. ASSUME NEW t \in Threads, NEW cfg \in GobgpConfigs, NEW label, ResetSet(t, cfg, label)
      PROVE  /\ server' \in Servers /\ clean' = None /\ gobgpConfig' = gobgpConfig /\ next' = next
             /\ ~stale' => Has(server', cfg, kept', unadded') /\ Alone(t)
  <2> DEFINE s == GobgpSet(server, cfg)
  <2>1. s \in Servers
    BY BatchTypes DEF Configured, MirrorInv
  <2>2. s.zebra \in BOOLEAN /\ s.up \in BOOLEAN
    BY <2>1 DEF Servers
  <2> HIDE DEF s
  <2>3. PICK z \in BOOLEAN : server' = [s EXCEPT !.zebra = z]
    <3>1. server' = [s EXCEPT !.zebra = @ \/ (s.up /\ zebraUp)]
      BY <1>1 DEF ResetSet, GobgpSetZebra, s
    <3>2. (s.zebra \/ (s.up /\ zebraUp)) \in BOOLEAN
      OBVIOUS
    <3> QED
      BY <3>1, <3>2
  <2>4. ~stale' => clean = t /\ Alone(t)
    BY <1>1 DEF ResetSet
  <2>5. ~stale' => Has(s, cfg, VrfRefusals(NoVrfs, cfg.vrfs), NbrRefusals(s.vrfs, NoNbrs, cfg.nbrs))
    BY <2>4, SetMirrors, GobgpAssumption DEF s, Configured, MirrorInv
  <2>6. server'.vrfs = s.vrfs
    BY <2>1, <2>3 DEF Servers
  <2>7. kept' = VrfRefusals(NoVrfs, cfg.vrfs) /\ unadded' = NbrRefusals(s.vrfs, NoNbrs, cfg.nbrs)
    BY <1>1, <2>6 DEF ResetSet
  <2> QED
    BY <1>1, <2>1, <2>3, <2>4, <2>5, <2>7, ZebraApart DEF ResetSet
<1>2. CASE ResetSet("watcher", next, "assign")
  <2>1. pc'.watcher = "assign"
    BY <1>2, ZebraMoves DEF ResetSet, Configured, Threads
  <2> QED
    BY <1>1, <1>2, <2>1, WhoIsBusyNext DEF Configured, MirrorInv, Threads
<1>3. CASE ResetSet("retry", gobgpConfig, "none")
  <2>1. pc'.watcher = pc.watcher
    BY <1>3, ZebraMoves DEF ResetSet, Configured, Threads
  <2> QED
    BY <1>1, <1>3, <2>1, WhoIsBusy, WhoIsBusyNext DEF Configured, MirrorInv, Threads
<1>4. CASE ResetSet("cli", gobgpConfig, "none")
  <2>1. pc'.watcher = pc.watcher
    BY <1>4, ZebraMoves DEF ResetSet, Configured, Threads
  <2> QED
    BY <1>1, <1>4, <2>1, WhoIsBusy, WhoIsBusyNext DEF Configured, MirrorInv, Threads
<1> QED
  BY <1>2, <1>3, <1>4

\* An update that reaches the server, alone
LEMMA UpdateKeepsMirror ==
    ASSUME Configured, HandlerUpdate
    PROVE  MirrorInv'
<1>1. /\ pc.watcher = "update" /\ pc'.watcher = "assign" /\ clean' = None
      /\ gobgpConfig' = gobgpConfig /\ next' = next
      /\ ~stale' => ~stale /\ server.up /\ Alone("watcher")
  BY DEF HandlerUpdate, Touched, GobgpSetZebra, At, Configured, PcTypeOK
<1>2. CASE ~server.up
  BY <1>1, <1>2 DEF HandlerUpdate, Configured, MirrorInv
<1>3. CASE server.up
  <2> DEFINE s == GobgpUpdate(server, gobgpConfig, next)
  <2>1. s \in Servers
    BY BatchTypes DEF Configured, MirrorInv
  <2>2. s.zebra \in BOOLEAN /\ s.up \in BOOLEAN
    BY <2>1 DEF Servers
  <2>3. ~stale' => Has(s, next, VrfRefusals(gobgpConfig.vrfs, next.vrfs),
                       NbrRefusals(s.vrfs, gobgpConfig.nbrs, next.nbrs))
    BY <1>1, UpdateMirrors DEF Configured, MirrorInv
  <2>4. server' = [s EXCEPT !.zebra = @ \/ (s.up /\ zebraUp)]
    BY <1>3 DEF HandlerUpdate, GobgpSetZebra
  <2> HIDE DEF s
  <2>5. PICK z \in BOOLEAN : server' = [s EXCEPT !.zebra = z]
    <3>1. (s.zebra \/ (s.up /\ zebraUp)) \in BOOLEAN
      OBVIOUS
    <3> QED
      BY <2>4, <3>1
  <2>6. server'.vrfs = s.vrfs
    BY <2>1, <2>5 DEF Servers
  <2>7. /\ kept' = VrfRefusals(gobgpConfig.vrfs, next.vrfs)
        /\ unadded' = NbrRefusals(s.vrfs, gobgpConfig.nbrs, next.nbrs)
    BY <1>3, <2>6 DEF HandlerUpdate
  <2> QED
    BY <1>1, <2>1, <2>3, <2>5, <2>7, ZebraApart, WhoIsBusyNext DEF Configured, MirrorInv
<1> QED
  BY <1>2, <1>3

\* The handler's end, and that of `clear gobgp'
LEMMA AssignKeepsMirror ==
    ASSUME Configured,
           \/ HandlerAssign
           \/ /\ pc.cli = "zero" /\ gobgpConfig' = NoConfig /\ stale' = (stale \/ ~Alone("cli"))
              /\ pc' = At("cli", "none") /\ clean' = None /\ UNCHANGED <<server, next>>
    PROVE  MirrorInv'
<1>1. CASE HandlerAssign
  <2>1. pc'.watcher = "idle"
    BY <1>1 DEF HandlerAssign, At, Configured, PcTypeOK
  <2> QED
    BY <1>1, <2>1 DEF HandlerAssign, Configured, MirrorInv
<1>2. ASSUME pc.cli = "zero", gobgpConfig' = NoConfig, stale' = (stale \/ ~Alone("cli")),
             pc' = At("cli", "none"), clean' = None, UNCHANGED <<server, next>>
      PROVE  MirrorInv'
  <2>1. ~stale' => pc'.watcher = "idle"
    BY <1>2, WhoIsBusy DEF At, Configured, PcTypeOK
  <2> QED
    BY <1>2, <2>1 DEF Configured, MirrorInv, Has, NoConfig
<1> QED
  BY <1>1, <1>2

\* A handler starts, and has not called the server yet.
LEMMA StartKeepsMirror ==
    ASSUME Configured, NEW cfg \in GobgpConfigs, NEW label, Start(cfg, label),
           UNCHANGED <<server, stale, clean>>, label \in {"update", "clear"},
           label = "update" =>
              /\ cfg.as = gobgpConfig.as
              /\ \A v \in GobgpVrfs : gobgpConfig.vrfs[v] = None \/ cfg.vrfs[v] \in {None, gobgpConfig.vrfs[v]}
    PROVE  MirrorInv'
<1>1. /\ pc.watcher = "idle" /\ pc'.watcher = label /\ pc'.retry = pc.retry /\ pc'.cli = pc.cli
      /\ next' = cfg /\ UNCHANGED <<gobgpConfig, kept, unadded>>
  BY DEF Start, Idle, At, Configured, PcTypeOK
<1> QED
  BY <1>1, WhoIsBusy, WhoIsBusyNext, StartReady DEF Configured, MirrorInv

\* GobgpVrfUpdate has synchronized the routes of a VRF it knew.
LEMMA VrfUpdateKeepsMirror ==
    ASSUME Configured, NEW v \in GobgpVrfs, NEW c \in VrfConfigs, GobgpVrfUpdate(v, c)
    PROVE  MirrorInv'
<1> DEFINE old == gobgpConfig.vrfs[v]
           cfg == [gobgpConfig EXCEPT !.vrfs[v] = c]
<1>1. /\ cfg \in GobgpConfigs /\ cfg.as = gobgpConfig.as
      /\ \A w \in GobgpVrfs \ {v} : cfg.vrfs[w] = gobgpConfig.vrfs[w]
  BY DEF Configured, GobgpConfigs
<1>2. CASE old = None
  <2>1. Start(cfg, "update") /\ UNCHANGED <<server, stale, clean>>
    BY <1>2 DEF GobgpVrfUpdate
  <2> HIDE DEF cfg
  <2> QED
    BY <1>1, <1>2, <2>1, StartKeepsMirror
<1>3. CASE old # None
  <2>1. /\ Start(cfg, "update") /\ clean' = None /\ server' = GobgpVrfRibSync(server, v, old.ribs, c.ribs)
        /\ ~stale' => ~stale /\ server.up /\ Alone("watcher")
    BY <1>3 DEF GobgpVrfUpdate, Touched
  <2>2. /\ pc.watcher = "idle" /\ pc'.watcher = "update" /\ next' = cfg /\ UNCHANGED <<gobgpConfig, kept, unadded>>
    BY <2>1 DEF Start, Idle, At, Configured, PcTypeOK
  <2>3. old \in VrfConfigs
    BY <1>3 DEF Configured, GobgpConfigs
  <2>4. server' \in Servers
    BY <2>1, <2>3, RibSyncType DEF Configured, MirrorInv
  <2>5. ASSUME ~stale'
        PROVE  Ready(server', gobgpConfig, cfg, kept, unadded)
    <3>1. Has(server, gobgpConfig, kept, unadded) /\ server.up
      BY <2>1, <2>2, <2>5, WhoIsBusy DEF Configured, MirrorInv
    <3> QED
      BY <1>3, <2>1, <3>1, RibsReady DEF Configured, MirrorInv
  <2> HIDE DEF cfg, old
  <2> QED
    BY <2>1, <2>2, <2>4, <2>5, WhoIsBusyNext DEF Configured, MirrorInv
<1> QED
  BY <1>2, <1>3

\* The watcher's other handlers
LEMMA HandlersKeepMirror ==
    ASSUME Configured, RememberInv, RememberInv',
           \/ \E body \in Bodies : GobgpParse(body)
           \/ \E id \in Ids, n \in Neighbors : GobgpNeighborAdd(id, n)
           \/ \E id \in Ids : GobgpNeighborDelete(id)
           \/ \E v \in GobgpVrfs : GobgpVrfDelete(v)
    PROVE  MirrorInv'
<1>1. ASSUME NEW body \in Bodies, GobgpParse(body)
      PROVE  MirrorInv'
  <2> DEFINE cfg == [as |-> body.as, pol |-> body.pol, nbrs |-> WithNeighborMap(body.nbrs),
                     vrfs |-> gobgpConfig.vrfs]
             label == IF body.as = gobgpConfig.as THEN "update" ELSE "clear"
  <2>1. Start(cfg, label) /\ UNCHANGED <<server, stale, clean>>
    BY <1>1 DEF GobgpParse
  <2>2. cfg \in GobgpConfigs
    BY <2>1 DEF Start, RememberInv
  <2>3. cfg.vrfs = gobgpConfig.vrfs /\ (label = "update" => cfg.as = gobgpConfig.as) /\ label \in {"update", "clear"}
    OBVIOUS
  <2> HIDE DEF cfg, label
  <2> QED
    BY <2>1, <2>2, <2>3, StartKeepsMirror
<1> DEFINE With(a, p) == [gobgpConfig EXCEPT !.nbrs[a] = p]
<1>2. ASSUME NEW a \in Addrs, NEW p, Start(With(a, p), "update"), UNCHANGED <<server, stale, clean>>
      PROVE  MirrorInv'
  <2>1. With(a, p) \in GobgpConfigs
    BY <1>2 DEF Start, RememberInv
  <2>2. With(a, p).vrfs = gobgpConfig.vrfs /\ With(a, p).as = gobgpConfig.as
    BY DEF Configured, GobgpConfigs
  <2> HIDE DEF With
  <2> QED
    BY <1>2, <2>1, <2>2, StartKeepsMirror
<1>3. ASSUME NEW id \in Ids, NEW n \in Neighbors, GobgpNeighborAdd(id, n)
      PROVE  MirrorInv'
  <2>1. n.addr \in Addrs
    BY ValuesAssumption
  <2>2. Start(With(n.addr, n.peer), "update") /\ UNCHANGED <<server, stale, clean>>
    BY <1>3 DEF GobgpNeighborAdd
  <2> HIDE DEF With
  <2> QED
    BY <1>2, <2>1, <2>2
<1>4. ASSUME NEW id \in Ids, GobgpNeighborDelete(id)
      PROVE  MirrorInv'
  <2>1. neighborMap[id].addr \in Addrs
    BY <1>4, ValuesAssumption DEF GobgpNeighborDelete, RememberInv
  <2>2. Start(With(neighborMap[id].addr, None), "update") /\ UNCHANGED <<server, stale, clean>>
    BY <1>4 DEF GobgpNeighborDelete
  <2> HIDE DEF With
  <2> QED
    BY <1>2, <2>1, <2>2
<1>5. ASSUME NEW v \in GobgpVrfs, GobgpVrfDelete(v)
      PROVE  MirrorInv'
  <2> DEFINE cfg == [gobgpConfig EXCEPT !.vrfs[v] = None]
  <2>1. Start(cfg, "update") /\ UNCHANGED <<server, stale, clean>>
    BY <1>5 DEF GobgpVrfDelete
  <2>2. /\ cfg \in GobgpConfigs /\ cfg.as = gobgpConfig.as
        /\ \A w \in GobgpVrfs : cfg.vrfs[w] \in {None, gobgpConfig.vrfs[w]}
    BY DEF Configured, GobgpConfigs
  <2> HIDE DEF cfg
  <2> QED
    BY <2>1, <2>2, StartKeepsMirror
<1> QED
  BY <1>1, <1>3, <1>4, <1>5

\* The zebra client, faults and the other services: the server differs at
\* most in whether it answers and in its zebra client.
LEMMA RestKeepsMirror ==
    ASSUME Configured,
           \/ GobgpSetZebraRoutine
           \/ ServerRestart \/ ServerAnswers \/ ZebraAnswers
           \/ GobgpWanUnreadable
           \/ \E conf, answers : GobgpWanConfig(conf, answers) /\ Unmoved
           \/ UNCHANGED gobgpVars
    PROVE  MirrorInv'
<1>1. ASSUME UNCHANGED <<gobgpConfig, next, stale, kept, unadded>>, pc'.watcher = pc.watcher, pc'.cli = pc.cli,
             pc'.retry = "set" <=> pc.retry = "set", server' \in Servers,
             clean' # None => Blank(server') /\ kept = {} /\ unadded = {},
             \A f \in {"as", "pol", "nbrs", "vrfs"} : server'[f] = server[f]
      PROVE  MirrorInv'
  <2>1. /\ server'.as = server.as /\ server'.pol = server.pol
        /\ server'.nbrs = server.nbrs /\ server'.vrfs = server.vrfs
    BY <1>1
  <2>2. (Quiet' <=> Quiet) /\ (Alone("watcher")' <=> Alone("watcher"))
    BY <1>1, WhoIsBusy, WhoIsBusyNext DEF Configured
  <2>3. /\ \A cfg : Has(server, cfg, kept, unadded) <=> Has(server', cfg, kept, unadded)
        /\ Ready(server, gobgpConfig, next, kept, unadded) <=> Ready(server', gobgpConfig, next, kept, unadded)
    BY <2>1 DEF Has, Ready
  <2> QED
    BY <1>1, <2>2, <2>3 DEF Configured, MirrorInv
<1>2. CASE GobgpSetZebraRoutine
  <2>1. /\ UNCHANGED <<gobgpConfig, next, stale, clean, kept, unadded>> /\ pc.retry = "sleep"
        /\ pc'.watcher = pc.watcher /\ pc'.cli = pc.cli /\ pc'.retry # "set"
    BY <1>2 DEF GobgpSetZebraRoutine, At, Configured, PcTypeOK
  <2>2. CASE server' = [server EXCEPT !.zebra = TRUE]
    BY <1>1, <2>1, <2>2, ZebraApart DEF Configured, MirrorInv, Servers
  <2>3. CASE server' = server
    BY <1>1, <2>1, <2>3 DEF Configured, MirrorInv
  <2> QED
    BY <1>2, <2>2, <2>3 DEF GobgpSetZebraRoutine
<1>3. CASE ServerRestart
  BY <1>3, BatchTypes DEF ServerRestart, Configured, MirrorInv
<1>4. CASE ServerAnswers
  <2>1. /\ server' \in Servers /\ server'.as = server.as /\ server'.pol = server.pol
        /\ server'.nbrs = server.nbrs /\ server'.vrfs = server.vrfs
    BY <1>4 DEF ServerAnswers, Configured, MirrorInv, Servers
  <2> QED
    BY <1>1, <1>4, <2>1 DEF ServerAnswers
<1>5. CASE ZebraAnswers \/ GobgpWanUnreadable \/ UNCHANGED gobgpVars
  BY <1>1, <1>5 DEF ZebraAnswers, GobgpWanUnreadable, Unmoved, gobgpVars, Configured, MirrorInv
<1>6. ASSUME NEW conf, NEW answers, GobgpWanConfig(conf, answers), Unmoved
      PROVE  MirrorInv'
  <2>1. pc'.watcher = pc.watcher /\ pc'.cli = pc.cli /\ (pc'.retry = "set" <=> pc.retry = "set")
    BY <1>6 DEF GobgpWanConfig, At, GobgpZebraRetry, Configured, PcTypeOK
  <2> QED
    BY <1>1, <1>6, <2>1 DEF Unmoved, Configured, MirrorInv
<1> QED
  BY <1>2, <1>3, <1>4, <1>5, <1>6

\* The invariant of the mirror
LEMMA MirrorInvariant == Spec => []MirrorInv
<1>1. Init => MirrorInv
  <2>1. Fresh \in Servers
    BY DEF Fresh, Servers, NoNbrs, NoVrfs, NbrTables, AsNumbers
  <2> SUFFICES ASSUME Init PROVE MirrorInv
    OBVIOUS
  <2>2. /\ server = Fresh /\ clean = None /\ gobgpConfig = NoConfig
        /\ pc.watcher = "idle"
    BY DEF Init, GobgpInit
  <2>3. Has(server, gobgpConfig, kept, unadded)
    BY <2>2 DEF Has, NoConfig
  <2> QED
    BY <2>1, <2>2, <2>3 DEF MirrorInv
<1>2. MirrorInv /\ ZebraInv /\ ZebraInv' /\ RememberInv /\ RememberInv' /\ [Next]_vars => MirrorInv'
  <2> SUFFICES ASSUME Configured, RememberInv, RememberInv', [Next]_vars
               PROVE  MirrorInv'
    BY DEF ZebraInv, Configured, RememberInv
  <2>1. CASE EtcdKeyValueParse
    <3>1. ASSUME NEW side, NEW c, NEW answers, GobgpWanParse(side, c, answers)
          PROVE  MirrorInv'
      BY <3>1, RestKeepsMirror DEF GobgpWanParse
    <3> QED
      BY <2>1, <3>1, HandlersKeepMirror, VrfUpdateKeepsMirror, RestKeepsMirror DEF EtcdKeyValueParse
  <2>2. CASE EtcdKeyDelete
    <3>1. ASSUME NEW side, NEW answers, GobgpWanStop(side, answers)
          PROVE  MirrorInv'
      BY <3>1, RestKeepsMirror DEF GobgpWanStop
    <3> QED
      BY <2>2, <3>1, HandlersKeepMirror, RestKeepsMirror DEF EtcdKeyDelete
  <2>3. CASE Threadsteps
    BY <2>3, UpdateKeepsMirror, ClearMirrors, SetKeepsMirror, AssignKeepsMirror, RestKeepsMirror
       DEF Threadsteps, Handlers, Retries, HandlerReset, RetryReset
  <2>4. CASE VrrpStates
    BY <2>4, RestKeepsMirror DEF VrrpStates
  <2>5. CASE Cli
    BY <2>5, ClearMirrors, SetKeepsMirror, AssignKeepsMirror DEF Cli, GobgpResetApi, GobgpClearApi
  <2>6. CASE Faults
    BY <2>6, RestKeepsMirror DEF Faults
  <2>7. CASE UNCHANGED vars
    BY <2>7, RestKeepsMirror DEF vars
  <2> QED
    BY <2>1, <2>2, <2>3, <2>4, <2>5, <2>6, <2>7 DEF Next
<1> QED
  BY <1>1, <1>2, ZebraInvariant, RememberInvariant, PTL DEF Spec

\* For any keys, values and interleaving of the three threads gobgpd has what
\* gobgpConfig says, but for the entries it has refused to delete, replace or
\* add, unless a call has not reached it or two threads were at it at once and
\* no undisturbed reset has followed (GobgpUpdate, GobgpReset).
THEOREM ServerMirrors == Spec => []GobgpMirrors
<1>1. MirrorInv => GobgpMirrors
  BY DEF MirrorInv, GobgpMirrors, Quiet, Has
<1> QED
  BY <1>1, MirrorInvariant, PTL

=============================================================================
