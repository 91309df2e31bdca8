----------------------------- MODULE VrrpState -----------------------------
(***************************************************************************)
(* The VRRP states of a node's interfaces, a JSON map under one etcd key   *)
(* that is read, changed and written back under a lock: EtcdLock and       *)
(* EtcdUnlock of config/etcd.go, VrrpStateDelete of config/vrrp.go.        *)
(*                                                                         *)
(* The lock is a key bound to a lease of ten seconds, which nobody keeps   *)
(* alive.  The watcher and commits remove interfaces; the entries are made *)
(* elsewhere, one at a time and while the lock is free.                    *)
(***************************************************************************)
EXTENDS Naturals

CONSTANTS
    Ports,      \* interfaces with VRRP, each removed by a thread of its own
    NoPort,     \* the lock is free
    MaxExpiry   \* bound: leases that run out while the lock is held

ASSUME PortsAssumption == NoPort \notin Ports

VARIABLES
    states,     \* the map's interfaces; absent is "{}"
    isNull,     \* the value is "null"
    lock,       \* whose lease the lock key is bound to
    dpc, copy,  \* VrrpStateDelete for each interface, and the map it read
    expiries,
    entered     \* history: interfaces entered and not removed since

vrrpVars == <<states, isNull, lock, dpc, copy, expiries, entered>>

VrrpTypeOK ==
    /\ states \subseteq Ports /\ entered \subseteq Ports
    /\ isNull \in BOOLEAN
    /\ lock \in Ports \cup {NoPort}
    /\ dpc \in [Ports -> {"idle", "lock", "get", "put", "unlock"}]
    /\ copy \in [Ports -> SUBSET Ports]
    /\ expiries \in Nat

VrrpInit ==
    /\ states = {} /\ isNull = FALSE
    /\ lock = NoPort
    /\ dpc = [p \in Ports |-> "idle"] /\ copy = [p \in Ports |-> {}]
    /\ expiries = 0
    /\ entered = {}

Goes(p, label) == dpc' = [dpc EXCEPT ![p] = label]

\* A virtual router of the interface changes its state.
StateEnter(p) ==
    /\ lock = NoPort /\ p \notin states
    /\ states' = states \cup {p} /\ isNull' = FALSE
    /\ entered' = entered \cup {p}
    /\ UNCHANGED <<lock, dpc, copy, expiries>>

VrrpStateDelete(p) ==
    /\ dpc[p] = "idle"
    /\ Goes(p, "lock")
    /\ UNCHANGED <<states, isNull, lock, copy, expiries, entered>>

\* The key is put whether or not there is one.
EtcdLockForce(p) ==
    /\ dpc[p] = "lock"
    /\ lock' = p
    /\ Goes(p, "get")
    /\ UNCHANGED <<states, isNull, copy, expiries, entered>>

\* The transaction that succeeds; after one that fails EtcdLock sleeps and
\* tries again with a new lease.
EtcdLock(p) ==
    /\ dpc[p] = "lock" /\ lock = NoPort
    /\ lock' = p
    /\ Goes(p, "get")
    /\ UNCHANGED <<states, isNull, copy, expiries, entered>>

\* A failing Get goes to the deferred EtcdUnlock.
StateGet(p) ==
    /\ dpc[p] = "get"
    /\ \/ copy' = [copy EXCEPT ![p] = states] /\ Goes(p, "put")
       \/ Goes(p, "unlock") /\ UNCHANGED copy
    /\ UNCHANGED <<states, isNull, lock, expiries, entered>>

\* Deleting from the map of an absent key, or of "null", leaves no map, which
\* is written as "null".
StatePut(p) ==
    /\ dpc[p] = "put"
    /\ Goes(p, "unlock")
    /\ \/ /\ states' = copy[p] \ {p}
          /\ isNull' = (copy[p] = {})
          /\ entered' = entered \ {p}
       \/ UNCHANGED <<states, isNull, entered>>
    /\ copy' = [copy EXCEPT ![p] = {}]
    /\ UNCHANGED <<lock, expiries>>

\* Revoke removes the key only if it is bound to this lease.
EtcdUnlock(p) ==
    /\ dpc[p] = "unlock"
    /\ lock' = IF lock = p THEN NoPort ELSE lock
    /\ Goes(p, "idle")
    /\ UNCHANGED <<states, isNull, copy, expiries, entered>>

LeaseExpires ==
    /\ lock # NoPort /\ expiries < MaxExpiry
    /\ lock' = NoPort
    /\ expiries' = expiries + 1
    /\ UNCHANGED <<states, isNull, dpc, copy, entered>>

VrrpDeletes ==
    \E p \in Ports : VrrpStateDelete(p) \/ EtcdLock(p) \/ StateGet(p) \/ StatePut(p) \/ EtcdUnlock(p)

VrrpNext == VrrpDeletes \/ LeaseExpires \/ (\E p \in Ports : StateEnter(p))

\* The map is what was entered less what was removed, whoever else reads it
\* and writes it back in between (EtcdLock, VrrpStateDelete), as long as no
\* lease runs out before its holder is done: a late one writes an old map.
StatesExact == expiries = 0 => states = entered

=============================================================================
