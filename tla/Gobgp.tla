------------------------------- MODULE Gobgp -------------------------------
(***************************************************************************)
(* gobgpd programmed from etcd: gobgpConfig is what openconfigd believes   *)
(* the server has, and a handler sends the server the difference between   *)
(* it and the new configuration.  config/gobgp.go.                         *)
(*                                                                         *)
(* Three threads touch server and gobgpConfig without a lock: the watcher, *)
(* whose handlers run one at a time, the goroutine that retries zebra and  *)
(* resets the server when it gets through, and the CLI (`clear gobgp' and  *)
(* `reset gobgp').  A step is a batch of calls between two points where    *)
(* another thread's change makes a difference.                             *)
(*                                                                         *)
(* Defined sets, policy definitions and the global policy are cleared and  *)
(* set together and are one value, and so are the parameters of a VRF      *)
(* other than its routes.                                                  *)
(***************************************************************************)
EXTENDS Naturals, FiniteSets

CONSTANTS
    Ids,         \* ids of neighbours that have an etcd key of their own
    Addrs,       \* neighbour addresses
    Peers,       \* a neighbour's other parameters
    VrfOf,       \* the VRF that is one of them, or None
    GobgpVrfs,   \* VRFs
    VrfConfigs,  \* [attr, ribs]: a VRF's parameters and routes
    Bodies,      \* [as, pol, nbrs, vrfs]: values of the etcd key `bgp'
    None         \* an absent entry

VARIABLES
    gobgpConfig,   \* [as, pol, nbrs, vrfs]; as = 0 in GobgpConfig{}
    neighborMap,   \* GobgpNeighborMap: id -> [addr, peer]
    server,        \* gobgpd: [up, as, pol, nbrs, vrfs, zebra]
    zebraUp,       \* zebra listens on zserv.api
    pc,            \* where each thread is
    next,          \* the cfg the watcher's handler is about to make gobgpConfig
    \* Histories
    stale,         \* a call did not reach the server or two threads overlapped
    clean,         \* the thread that has cleared the server and is still alone
    kept,          \* VRFs the server would not delete, or would not add as it had one
    unadded,       \* addresses of neighbours it would not add, for want of their VRF
    bgpKey,        \* last `bgp' and `vrf' values from etcd
    doubtful,      \* addresses that an id has moved away from
    forgotten,     \* what `clear gobgp' took out of gobgpConfig
    owedZebra,     \* a zebra connection was refused and none was made since
    gaveUp         \* the retry ended without one

gobgpVars == <<gobgpConfig, neighborMap, server, zebraUp, pc, next, stale, clean,
               kept, unadded, bgpKey, doubtful, forgotten, owedZebra, gaveUp>>

Threads == {"watcher", "retry", "cli"}
NoNbrs == [a \in Addrs |-> None]
NoVrfs == [v \in GobgpVrfs |-> None]
NoConfig == [as |-> 0, pol |-> None, nbrs |-> NoNbrs, vrfs |-> NoVrfs]
Fresh == [up |-> TRUE, as |-> 0, pol |-> {}, nbrs |-> NoNbrs, vrfs |-> NoVrfs, zebra |-> FALSE]
Policies == {b.pol : b \in Bodies} \ {None}
AsNumbers == {0} \cup {b.as : b \in Bodies}
NbrTables == [Addrs -> Peers \cup {None}]
ServerVrfs == [attr : {c.attr : c \in VrfConfigs}, ribs : SUBSET UNION {c.ribs : c \in VrfConfigs}]
GobgpConfigs == [as : AsNumbers, pol : Policies \cup {None}, nbrs : NbrTables,
                 vrfs : [GobgpVrfs -> VrfConfigs \cup {None}]]

ASSUME GobgpAssumption ==
    /\ Bodies \subseteq GobgpConfigs /\ \A b \in Bodies : b.vrfs = NoVrfs
    /\ VrfOf \in [Peers -> GobgpVrfs \cup {None}]
    /\ VrfConfigs \subseteq ServerVrfs
    /\ None \notin Peers \cup ServerVrfs /\ None \notin Threads
    /\ "bgp" \notin GobgpVrfs

\* Whatever the interleaving, a VRF of the server has routes that etcd values
\* list.
GobgpTypeOK ==
    /\ {gobgpConfig, next, bgpKey} \subseteq GobgpConfigs
    /\ neighborMap \in [Ids -> [addr : Addrs, peer : Peers] \cup {None}]
    /\ server \in [up : BOOLEAN, as : AsNumbers, pol : SUBSET Policies, nbrs : NbrTables,
                   vrfs : [GobgpVrfs -> ServerVrfs \cup {None}], zebra : BOOLEAN]
    /\ pc \in [watcher : {"idle", "update", "clear", "set", "assign"},
               retry : {"none", "sleep", "clear", "set"}, cli : {"none", "set", "zero"}]
    /\ clean \in Threads \cup {None}
    /\ kept \subseteq GobgpVrfs /\ {doubtful, unadded} \subseteq SUBSET Addrs
    /\ forgotten \subseteq GobgpVrfs \cup {"bgp"}
    /\ {zebraUp, stale, owedZebra, gaveUp} \subseteq BOOLEAN

GobgpInit ==
    /\ gobgpConfig = NoConfig /\ next = NoConfig
    /\ neighborMap = [i \in Ids |-> None]
    /\ server = Fresh
    /\ zebraUp \in BOOLEAN
    /\ pc = [watcher |-> "idle", retry |-> "none", cli |-> "none"]
    /\ clean = None
    /\ bgpKey = NoConfig
    /\ doubtful = {} /\ forgotten = {} /\ kept = {} /\ unadded = {}
    /\ stale = FALSE /\ owedZebra = FALSE /\ gaveUp = FALSE

At(t, label) == [pc EXCEPT ![t] = label]
Busy(t) == pc[t] \notin {"idle", "none", "sleep"} /\ ~(t = "retry" /\ pc[t] = "clear")
Alone(t) == \A o \in Threads \ {t} : ~Busy(o)

-----------------------------------------------------------------------------
(* The server *)

\* Nothing but StartServer and EnableZebra works on a server without an AS.
Active(s) == s.up /\ s.as # 0

\* An entry is only added where there is none: AddVRF and AddNeighbor of an
\* existing one fail.
AddMissing(table, wanted) == [k \in DOMAIN table |-> IF table[k] = None THEN wanted[k] ELSE table[k]]

Drop(table, gone) == [k \in DOMAIN table |-> IF k \in gone THEN None ELSE table[k]]

\* DeleteVRF fails while a neighbour is in the VRF.
InUse(nbrs, v) == \E a \in Addrs : nbrs[a] # None /\ VrfOf[nbrs[a]] = v

DropVrfs(vrfs, nbrs, gone) == Drop(vrfs, {v \in gone : ~InUse(nbrs, v)})

\* AddNeighbor fails if the neighbour is in a VRF that is not there.
Homeless(vrfs, peer) == peer # None /\ VrfOf[peer] # None /\ vrfs[VrfOf[peer]] = None

AddNeighbors(nbrs, vrfs, wanted) ==
    AddMissing(nbrs, [a \in DOMAIN wanted |-> IF Homeless(vrfs, wanted[a]) THEN None ELSE wanted[a]])

StopServer(s) == IF s.up THEN [Fresh EXCEPT !.zebra = s.zebra] ELSE s

StartServer(s, as) == IF s.up /\ s.as = 0 THEN [s EXCEPT !.as = as] ELSE s

-----------------------------------------------------------------------------
(* Batches of calls *)

\* VrfConfig.Equal compares the routes of the receiver with themselves: only
\* their number counts.
VrfEqual(a, b) == a.attr = b.attr /\ Cardinality(a.ribs) = Cardinality(b.ribs)

Listed(table) == {k \in DOMAIN table : table[k] # None}

SameVrfs(old, new) == {k \in Listed(old) \cap Listed(new) : VrfEqual(old[k], new[k])}
SameNbrs(old, new) == {k \in Listed(old) \cap Listed(new) : old[k] = new[k]}

\* Entries of the old table that are not the same in the new one are deleted,
\* and those of the new one added.
GobgpUpdateVrf(vrfs, nbrs, old, new) ==
    LET same == SameVrfs(old, new)
    IN  AddMissing(DropVrfs(vrfs, nbrs, Listed(old) \ same), Drop(new, same))

GobgpUpdateNeighbor(nbrs, vrfs, old, new) ==
    LET same == SameNbrs(old, new)
    IN  AddNeighbors(Drop(nbrs, Listed(old) \ same), vrfs, Drop(new, same))

SetPolicy(pol, cfg) == pol \cup ({cfg.pol} \ {None})

\* VRFs before neighbours, and errors are not looked at.
GobgpUpdate(s, old, cfg) ==
    LET vrfs == GobgpUpdateVrf(s.vrfs, s.nbrs, old.vrfs, cfg.vrfs)
    IN  IF ~Active(s) THEN s
        ELSE [s EXCEPT !.pol = SetPolicy(@ \ {old.pol}, cfg),
                       !.vrfs = vrfs,
                       !.nbrs = GobgpUpdateNeighbor(@, vrfs, old.nbrs, cfg.nbrs)]

\* The Set half of GobgpReset, after GobgpClearAll.
GobgpSet(s, cfg) ==
    LET t == StartServer(s, cfg.as)
        vrfs == AddMissing(t.vrfs, cfg.vrfs)
    IN  IF ~Active(t) THEN t
        ELSE [t EXCEPT !.pol = SetPolicy(@, cfg),
                       !.vrfs = vrfs,
                       !.nbrs = AddNeighbors(@, vrfs, cfg.nbrs)]

\* The history of refusals when the entries that differ between old and new
\* have been sent to the server: a VRF it had stays if it is in use or was not
\* to be deleted, a neighbour is not added if vrfs lacks its VRF.
VrfRefusals(old, new) ==
    LET changed == (Listed(old) \cup Listed(new)) \ SameVrfs(old, new)
    IN  (kept \ changed)
        \cup {v \in changed : server.vrfs[v] # None /\ (old[v] = None \/ InUse(server.nbrs, v))}

NbrRefusals(vrfs, old, new) ==
    LET changed == (Listed(old) \cup Listed(new)) \ SameNbrs(old, new)
    IN  (unadded \ changed) \cup {a \in changed : Homeless(vrfs, new[a])}

\* The deleted routes stay in the VRF.
GobgpVrfRibAdd(s, v, old, new) ==
    IF ~Active(s) \/ s.vrfs[v] = None THEN s
    ELSE [s EXCEPT !.vrfs[v].ribs = @ \cup (new \ old)]

GobgpVrfRibSync(s, v, old, new) ==
    IF ~Active(s) \/ s.vrfs[v] = None THEN s
    ELSE [s EXCEPT !.vrfs[v].ribs = (@ \cup (new \ old)) \ (old \ new)]

-----------------------------------------------------------------------------
(* Zebra *)

\* Nobody tries again.
GobgpNoRetry(label) == label

\* GobgpSetZebra when zebra refuses: a goroutine, unless one exists.
GobgpZebraRetry(label) == IF label = "none" THEN "sleep" ELSE label

\* GobgpSetZebra as the last call of a batch that has left the server in s
\* and moves thread t to label.  EnableZebra of a connected server fails
\* without naming zserv, and so does any call to one that is unreachable.
GobgpSetZebra(s, t, label) ==
    LET refused == s.up /\ ~s.zebra /\ ~zebraUp
        retry == IF refused THEN GobgpZebraRetry(pc.retry) ELSE pc.retry
    IN  /\ server' = [s EXCEPT !.zebra = @ \/ (s.up /\ zebraUp)]
        /\ pc' = [pc EXCEPT !.retry = retry, ![t] = label]
        /\ owedZebra' = ((owedZebra \/ refused) /\ ~server'.zebra)
        /\ gaveUp' = ((gaveUp /\ ~refused) \/ (t = "retry" /\ owedZebra'))

\* The goroutine wakes up.  Only an error of zserv makes it sleep again.
GobgpSetZebraRoutine ==
    /\ pc.retry = "sleep"
    /\ ~(server.up /\ ~server.zebra /\ ~zebraUp)
    /\ IF server.up /\ ~server.zebra
       THEN /\ server' = [server EXCEPT !.zebra = TRUE]
            /\ pc' = At("retry", "clear")
            /\ owedZebra' = FALSE
            /\ UNCHANGED gaveUp
       ELSE /\ pc' = At("retry", "none")
            /\ gaveUp' = (gaveUp \/ owedZebra)
            /\ UNCHANGED <<server, owedZebra>>
    /\ UNCHANGED <<gobgpConfig, neighborMap, zebraUp, next, stale, clean, kept, unadded, bgpKey,
                   doubtful, forgotten>>

-----------------------------------------------------------------------------
(* GobgpReset and GobgpClearAll, in any thread *)

\* A batch of thread t reached the server, or not.
Touched(t) == stale' = (stale \/ ~server.up \/ ~Alone(t))

\* GobgpReset's first half.  An unreachable server ends it at once.
ResetClear(t, then, otherwise) ==
    /\ pc' = At(t, IF server.up THEN then ELSE otherwise)
    /\ server' = StopServer(server)
    /\ clean' = IF server.up /\ Alone(t) THEN t ELSE None
    /\ Touched(t)
    /\ kept' = (IF server.up THEN {} ELSE kept) /\ unadded' = (IF server.up THEN {} ELSE unadded)
    /\ gaveUp' = (gaveUp \/ (t = "retry" /\ ~server.up /\ owedZebra))
    /\ UNCHANGED <<gobgpConfig, neighborMap, zebraUp, next, bgpKey, doubtful, forgotten, owedZebra>>

\* Its second half.  A reset nobody has disturbed leaves nothing stale.
ResetSet(t, cfg, label) ==
    /\ pc[t] = "set"
    /\ GobgpSetZebra(GobgpSet(server, cfg), t, label)
    /\ kept' = VrfRefusals(NoVrfs, cfg.vrfs)
    /\ unadded' = NbrRefusals(server'.vrfs, NoNbrs, cfg.nbrs)
    /\ stale' = ~(server.up /\ clean = t /\ Alone(t))
    /\ clean' = None
    /\ UNCHANGED <<gobgpConfig, neighborMap, zebraUp, next, bgpKey, doubtful, forgotten>>

RetryReset ==
    \/ pc.retry = "clear" /\ ResetClear("retry", "set", "none")
    \/ ResetSet("retry", gobgpConfig, "none")

GobgpResetApi ==
    \/ pc.cli = "none" /\ ResetClear("cli", "set", "none")
    \/ ResetSet("cli", gobgpConfig, "none")

\* `clear gobgp' leaves GobgpNeighborMap alone.
GobgpClearApi ==
    \/ pc.cli = "none" /\ ResetClear("cli", "zero", "zero")
    \/ /\ pc.cli = "zero"
       /\ gobgpConfig' = NoConfig
       /\ forgotten' = GobgpVrfs \cup {"bgp"}
       /\ stale' = (stale \/ ~Alone("cli"))
       /\ pc' = At("cli", "none")
       /\ clean' = None
       /\ UNCHANGED <<neighborMap, server, zebraUp, next, kept, unadded, bgpKey, doubtful, owedZebra,
                      gaveUp>>

-----------------------------------------------------------------------------
(* The watcher's handlers *)

Idle == pc.watcher = "idle"

\* A handler computes its cfg and goes on to GobgpUpdate or GobgpReset.
Start(cfg, label) ==
    /\ Idle
    /\ next' = cfg
    /\ pc' = At("watcher", label)
    /\ UNCHANGED <<gobgpConfig, zebraUp, kept, unadded, owedZebra, gaveUp>>

\* GobgpParse's neighbours: those of the value, then those of the map.
WithNeighborMap(nbrs) ==
    [a \in Addrs |-> IF \E i \in Ids : neighborMap[i] # None /\ neighborMap[i].addr = a
                     THEN neighborMap[CHOOSE i \in Ids : neighborMap[i] # None /\ neighborMap[i].addr = a].peer
                     ELSE nbrs[a]]

\* The neighbours that have keys of their own are left out.
GobgpParseBare(body) ==
    /\ Start([as |-> body.as, pol |-> body.pol, nbrs |-> body.nbrs, vrfs |-> gobgpConfig.vrfs],
             IF body.as = gobgpConfig.as THEN "update" ELSE "clear")
    /\ bgpKey' = [body EXCEPT !.vrfs = bgpKey.vrfs]
    /\ doubtful' = {}
    /\ forgotten' = forgotten \ {"bgp"}
    /\ UNCHANGED <<neighborMap, server, stale, clean>>

\* as stands for the Global part, which decides between update and reset.
GobgpParse(body) ==
    /\ Start([as |-> body.as, pol |-> body.pol, nbrs |-> WithNeighborMap(body.nbrs),
              vrfs |-> gobgpConfig.vrfs],
             IF body.as = gobgpConfig.as THEN "update" ELSE "clear")
    /\ bgpKey' = [body EXCEPT !.vrfs = bgpKey.vrfs]
    /\ doubtful' = {}
    /\ forgotten' = forgotten \ {"bgp"}
    /\ UNCHANGED <<neighborMap, server, stale, clean>>

\* The neighbour is known by its address: one that an id had before stays.
\* No two ids have the same address at a time.
GobgpNeighborAdd(id, n) ==
    /\ \A i \in Ids \ {id} : neighborMap[i] # None => neighborMap[i].addr # n.addr
    /\ Start([gobgpConfig EXCEPT !.nbrs[n.addr] = n.peer], "update")
    /\ neighborMap' = [neighborMap EXCEPT ![id] = n]
    /\ doubtful' = IF neighborMap[id] = None THEN doubtful \ {n.addr}
                   ELSE (doubtful \cup {neighborMap[id].addr}) \ {n.addr}
    /\ UNCHANGED <<server, stale, clean, bgpKey, forgotten>>

GobgpNeighborDelete(id) ==
    /\ neighborMap[id] # None
    /\ Start([gobgpConfig EXCEPT !.nbrs[neighborMap[id].addr] = None], "update")
    /\ neighborMap' = [neighborMap EXCEPT ![id] = None]
    /\ UNCHANGED <<server, stale, clean, bgpKey, doubtful, forgotten>>

\* Routes first, and then the VRF, if anything but its routes has changed or
\* their number has.
GobgpVrfUpdate(v, c) ==
    LET old == gobgpConfig.vrfs[v]
    IN  /\ Start([gobgpConfig EXCEPT !.vrfs[v] = c], "update")
        /\ IF old = None THEN UNCHANGED <<server, stale, clean>>
           ELSE /\ server' = GobgpVrfRibSync(server, v, old.ribs, c.ribs)
                /\ Touched("watcher")
                /\ clean' = None
        /\ bgpKey' = [bgpKey EXCEPT !.vrfs[v] = c]
        /\ forgotten' = forgotten \ {v}
        /\ UNCHANGED <<neighborMap, doubtful>>

GobgpVrfDelete(v) ==
    /\ Start([gobgpConfig EXCEPT !.vrfs[v] = None], "update")
    /\ bgpKey' = [bgpKey EXCEPT !.vrfs[v] = None]
    /\ forgotten' = forgotten \ {v}
    /\ UNCHANGED <<neighborMap, server, stale, clean, doubtful>>

\* GobgpUpdate does nothing at all when the server cannot be reached.
HandlerUpdate ==
    /\ pc.watcher = "update"
    /\ IF server.up
       THEN /\ GobgpSetZebra(GobgpUpdate(server, gobgpConfig, next), "watcher", "assign")
            /\ kept' = VrfRefusals(gobgpConfig.vrfs, next.vrfs)
            /\ unadded' = NbrRefusals(server'.vrfs, gobgpConfig.nbrs, next.nbrs)
       ELSE pc' = At("watcher", "assign") /\ UNCHANGED <<server, kept, unadded, owedZebra, gaveUp>>
    /\ Touched("watcher")
    /\ clean' = None
    /\ UNCHANGED <<gobgpConfig, neighborMap, zebraUp, next, bgpKey, doubtful, forgotten>>

HandlerReset ==
    \/ pc.watcher = "clear" /\ ResetClear("watcher", "set", "assign")
    \/ ResetSet("watcher", next, "assign")

HandlerAssign ==
    /\ pc.watcher = "assign"
    /\ gobgpConfig' = next
    /\ stale' = (stale \/ ~Alone("watcher"))
    /\ pc' = At("watcher", "idle")
    /\ clean' = None
    /\ UNCHANGED <<neighborMap, server, zebraUp, next, kept, unadded, bgpKey, doubtful, forgotten,
                   owedZebra, gaveUp>>

-----------------------------------------------------------------------------
(* Faults *)

\* gobgpd dies and is started again, without a configuration.
ServerRestart ==
    /\ server' = Fresh
    /\ stale' = TRUE /\ clean' = None /\ kept' = {} /\ unadded' = {}
    /\ owedZebra' = FALSE
    /\ UNCHANGED <<gobgpConfig, neighborMap, zebraUp, pc, next, bgpKey, doubtful, forgotten, gaveUp>>

\* It stops answering within the client's second, or answers again.
ServerAnswers ==
    /\ server' = [server EXCEPT !.up = ~@]
    /\ clean' = None
    /\ UNCHANGED <<gobgpConfig, neighborMap, zebraUp, pc, next, stale, kept, unadded, bgpKey, doubtful,
                   forgotten, owedZebra, gaveUp>>

\* zebra appears or goes away.  gobgpd keeps its connected client.
ZebraAnswers ==
    /\ zebraUp' = ~zebraUp
    /\ UNCHANGED <<gobgpConfig, neighborMap, server, pc, next, stale, clean, kept, unadded, bgpKey,
                   doubtful, forgotten, owedZebra, gaveUp>>

Handlers == HandlerUpdate \/ HandlerReset \/ HandlerAssign
Retries == GobgpSetZebraRoutine \/ RetryReset

-----------------------------------------------------------------------------
(* Properties *)

\* gobgpd has exactly what gobgpConfig says, whatever sequence of updates,
\* resets and CLI commands led there: differences are computed against
\* gobgpConfig alone (GobgpUpdate).  There are two kinds of exceptions.  Calls
\* the server refuses are not repeated: a VRF that could not be deleted or
\* replaced because a neighbour was in it, or because it was still there from
\* such a deletion, stays as it was, and a neighbour whose VRF was not there
\* is missing, each until the server accepts a change of that entry, or a
\* reset.  And nothing is said from a call that did not reach the server, or
\* two threads at it at once, until a reset that nobody disturbs.
GobgpMirrors ==
    ~stale /\ (\A t \in Threads : ~Busy(t)) /\ gobgpConfig.as # 0 =>
        /\ server.as = gobgpConfig.as
        /\ server.pol = {gobgpConfig.pol} \ {None}
        /\ \A a \in Addrs : server.nbrs[a] = IF a \in unadded THEN None ELSE gobgpConfig.nbrs[a]
        /\ \A v \in GobgpVrfs : IF v \in kept THEN server.vrfs[v] # None
                                 ELSE server.vrfs[v] = gobgpConfig.vrfs[v]

\* gobgpConfig is put together from three kinds of etcd keys that arrive in
\* any order (GobgpParse, GobgpNeighborAdd, GobgpVrfUpdate) and still holds the
\* last value of each, except an address that a neighbour has moved away from
\* and what `clear gobgp' has removed and etcd has not sent again.
GobgpRemembers ==
    Idle =>
        /\ "bgp" \notin forgotten =>
              /\ gobgpConfig.as = bgpKey.as /\ gobgpConfig.pol = bgpKey.pol
              /\ \A a \in Addrs \ doubtful : gobgpConfig.nbrs[a] = WithNeighborMap(bgpKey.nbrs)[a]
        /\ \A v \in GobgpVrfs \ forgotten : gobgpConfig.vrfs[v] = bgpKey.vrfs[v]

\* A connection that zebra has refused is tried again until it is made, while
\* handlers, CLI and the watcher of the WAN instance all start and share one
\* goroutine (GobgpSetZebra).  It ends early only when gobgpd does not answer,
\* or is refused again in the reset that follows a success.
ZebraRetried ==
    owedZebra /\ ~gaveUp => pc.retry \in {"sleep", "clear", "set"}

=============================================================================
