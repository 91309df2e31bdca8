------------------------------ MODULE VrfSync ------------------------------
(***************************************************************************)
(* From etcd to the configuration: the watcher turns each VRF it is told   *)
(* of into configuration commands and daemons (VrfParse) and takes them    *)
(* back (VrfDelete, ClearVrfCache).  A handler is a list of functions,     *)
(* `todo', each of which runs a `script' of ExecLine and Commit calls.     *)
(* Every call is a critical section of its own, so that a session may      *)
(* commit or discard the shared candidate between any two of them.         *)
(*                                                                         *)
(* ribd runs asynchronously and has connected (RIBD_SYNCHRONIZED): it      *)
(* creates and removes the VLAN interfaces and reports them (SET and       *)
(* DELETE, each handled by a goroutine of its own), and no `set' is        *)
(* accepted for an interface it has not reported.                          *)
(***************************************************************************)
EXTENDS LocalDaemons, FiniteSetsExt

CONSTANTS
    Cfgs,       \* the values of the VRF's key in etcd, by VRF
    Physical,   \* interfaces that are always there
    VlanOf,     \* the path of the VLAN that makes each other interface
    MaxFault    \* bound: kinds of fault, see Fault

VARIABLES
    active, candidate,
    cache,      \* EtcdVrfMap
    statics,    \* EtcdVrfStaticMap
    quagga,     \* QuaggaProc: the interfaces of each VRF
    ospf,       \* OspfProcessMap: VRFs
    bare,       \* history: entries of static routes that were withdrawn from VRFs
    vrf, cfg,   \* arguments of the handler
    todo,       \* functions the handler has still to call
    script,     \* calls the current function has still to make
    clearing,   \* VRFs ClearVrfCache has still to delete
    reports,    \* ribd's messages that are not handled
    vrfDevs,    \* VRFs ribd has been told of
    sent,       \* VrfIfDeleteCache
    happened,   \* history: faults
    undone,     \* history: paths of edits that were discarded, lost with their interface,
                \* or of an interface that moves from one VRF to another
    unwatched   \* history: VRFs whose bgpd were stopped without NexthopWalkerUpdate

jobVars == <<vrf, cfg, todo, script, clearing>>
mapVars == <<cache, statics, quagga, ospf, bare>>
ribdVars == <<reports, vrfDevs, sent>>
vars == <<active, candidate, mapVars, jobVars, ribdVars, happened, undone, unwatched, daemonVars>>

NoCfg == [ifs |-> <<>>, vrrp |-> <<>>, bgp |-> <<>>, static |-> <<>>, pools |-> <<>>,
          groups |-> <<>>, ospf |-> FALSE, present |-> FALSE]

Init ==
    /\ active = {<<"if", i>> : i \in Physical}
    /\ candidate = active
    /\ cache = [v \in Vrfs |-> NoCfg] /\ statics = [v \in Vrfs |-> <<>>]
    /\ quagga = [v \in Vrfs |-> <<>>] /\ ospf = {} /\ bare = {}
    /\ vrf = CHOOSE v \in Vrfs : TRUE
    /\ cfg = NoCfg /\ todo = <<>> /\ script = <<>> /\ clearing = {}
    /\ reports = {} /\ vrfDevs = {} /\ sent = {}
    /\ happened = {} /\ undone = {} /\ unwatched = {}
    /\ DaemonsInit

Idle == todo = <<>> /\ script = <<>>

\* Edits have been discarded, or lost with an interface.
Lost == undone # {}

-----------------------------------------------------------------------------
(* The calls a script is made of *)

Set(p) == [op |-> "set", path |-> p]
Del(p) == [op |-> "delete", path |-> p]
Wait(i) == [op |-> "wait", path |-> <<"if", i>>]
StopVrrp(v, id) == [op |-> "stop", path |-> <<v, id>>]
Unlist(v) == [op |-> "unlist", path |-> <<v>>]
Commit == [op |-> "commit", path |-> <<>>]

\* The calls F makes for each element of a sequence, or of a map
Each(s, F(_)) == MapThenFoldSet(\o, <<>>, LAMBDA k : F(s[k]), Min, DOMAIN s)
EachOf(set, F(_)) == MapThenFoldSet(\o, <<>>, F, LAMBDA s : CHOOSE x \in s : TRUE, set)

\* execute: a `set' below an interface that is not in the active configuration
\* does not match.
Accepted(p) == p[1] = "if" => SubSeq(p, 1, 2) \in active

LostPaths(ps) == undone' = undone \cup ps

Drop == script' = Tail(script)

ExecLine ==
    /\ script # <<>>
    /\ LET call == Head(script)
       IN  \/ /\ call.op = "set"
              /\ candidate' = IF Accepted(call.path) THEN SetPath(candidate, call.path) ELSE candidate
              /\ LostPaths(IF Accepted(call.path) THEN {} ELSE {call.path})
           \/ call.op = "delete" /\ candidate' = DeletePath(candidate, call.path) /\ UNCHANGED undone
    /\ Drop
    /\ UNCHANGED <<active, mapVars, vrf, cfg, todo, clearing, ribdVars, happened, unwatched, daemonVars>>

\* ExecLineWaitIfNoMatch: until ribd has reported the interface, or given up
\* after ten tries
ExecLineWaitIfNoMatch ==
    /\ script # <<>> /\ Head(script).op = "wait"
    /\ LET p == Head(script).path
       IN  \/ p \in active /\ candidate' = SetPath(candidate, p) /\ UNCHANGED undone
           \/ p \notin active /\ LostPaths({p}) /\ UNCHANGED candidate
    /\ Drop
    /\ UNCHANGED <<active, mapVars, vrf, cfg, todo, clearing, ribdVars, happened, unwatched, daemonVars>>

StopInstance ==
    /\ script # <<>> /\ Head(script).op = "stop"
    /\ VrrpStop(Head(script).path[1], Head(script).path[2])
    /\ Drop
    /\ UNCHANGED <<active, candidate, mapVars, vrf, cfg, todo, clearing, ribdVars, happened, undone, unwatched>>

\* The VRF is taken out of VrfIfDeleteCache.
UnlistVrf ==
    /\ script # <<>> /\ Head(script).op = "unlist"
    /\ sent' = sent \ {Head(script).path[1]}
    /\ Drop
    /\ UNCHANGED <<active, candidate, mapVars, vrf, cfg, todo, clearing, reports, vrfDevs, happened,
                   undone, unwatched, daemonVars>>

-----------------------------------------------------------------------------
(* Commit *)

Names(c) == Entries(c, <<"vrf">>)

\* What ribd is sent: `vrf name X' is withdrawn only if it was announced and is
\* still in VrfIfDeleteCache.  A VLAN makes ribd create its interface, the end
\* of the VLAN remove it.
SendCommand ==
    LET added == Names(candidate) \ Names(active)
        deleted == (Names(active) \ Names(candidate)) \cap sent
    IN  /\ vrfDevs' = (vrfDevs \cup added) \ deleted
        /\ sent' = (sent \cup added) \ deleted
        /\ reports' = reports
             \cup {<<"SET", i>> : i \in {j \in DOMAIN VlanOf : VlanOf[j] \in candidate \ active}}
             \cup {<<"DELETE", i>> : i \in {j \in DOMAIN VlanOf : VlanOf[j] \in active \ candidate}}

Committed ==
    /\ SendCommand
    /\ CommitDaemons(active, candidate)
    /\ active' = candidate
    /\ UNCHANGED candidate

\* Bound: a commit fails, or a session commits or discards, once each and
\* before any loss.
Fault(kind) ==
    /\ active # candidate /\ ~Lost
    /\ kind \notin happened /\ Cardinality(happened) < MaxFault
    /\ happened' = happened \cup {kind}

HandlerCommit ==
    /\ script # <<>> /\ Head(script).op = "commit"
    /\ Drop
    /\ \/ Committed /\ UNCHANGED happened
       \/ /\ Fault("failed")
          /\ UNCHANGED <<active, candidate, ribdVars, daemonVars>>
    /\ UNCHANGED <<mapVars, vrf, cfg, todo, clearing, undone, unwatched>>

\* A session commits, or discards: the candidate is a copy of the active one.
SessionCommit ==
    /\ Fault("session")
    /\ Committed
    /\ UNCHANGED <<mapVars, jobVars, undone, unwatched>>

ConfigDiscard ==
    /\ Fault("discard")
    /\ candidate' = active
    /\ LostPaths((active \ candidate) \cup (candidate \ active))
    /\ UNCHANGED <<active, mapVars, jobVars, ribdVars, unwatched, daemonVars>>

-----------------------------------------------------------------------------
(* ribd's reports: YangConfigPush and YangConfigPull, in both configurations *)

\* A late DELETE takes the configuration of an interface whose VLAN is there
\* again, and RelayDelete is not called for one that has a relay.
YangConfigPull(i) ==
    LET p == <<"if", i>>
        gone == (active \cup candidate) \ (DeletePath(active, p) \cup DeletePath(candidate, p))
    IN  /\ active' = DeletePath(active, p)
        /\ candidate' = DeletePath(candidate, p)
        /\ LostPaths({q \in gone : Len(q) = 4 /\ (VlanOf[i] \in candidate \cup undone \/ q[3] = "relay")})

YangConfigPush(i) ==
    /\ active' = SetPath(active, <<"if", i>>)
    /\ candidate' = SetPath(candidate, <<"if", i>>)
    /\ UNCHANGED undone

RibdReport ==
    /\ \E r \in reports :
        /\ reports' = reports \ {r}
        /\ \/ r[1] = "SET" /\ YangConfigPush(r[2])
           \/ r[1] = "DELETE" /\ YangConfigPull(r[2])
    /\ UNCHANGED <<mapVars, jobVars, vrfDevs, sent, happened, unwatched, daemonVars>>

-----------------------------------------------------------------------------
(* The functions of VrfParse *)

IfVrf(i, v) == <<"if", i, "in", v>>
Address(i, a) == <<"if", i, "ipv4", a>>
Vlan(i, n) == <<"if", i, "vlan", n>>
Relay(i, g) == <<"if", i, "relay", g>>
Walker == <<"opt", "walker">>

Missing(s, t) == SelectSeq(s, LAMBDA x : x \notin Range(t))
IfNames(ifs) == {ifs[k].name : k \in DOMAIN ifs}
ByName(ifs, i) == ifs[CHOOSE k \in DOMAIN ifs : ifs[k].name = i]

SetVlans(ifs) == Each(ifs, LAMBDA x : Each(x.vlans, LAMBDA n : <<Set(Vlan(x.name, n))>>))
DelVlans(ifs) == Each(ifs, LAMBDA x : Each(x.vlans, LAMBDA n : <<Del(Vlan(x.name, n))>>))
SetAddresses(i, as) == Each(as, LAMBDA a : <<Set(Address(i, a))>>)
SetRelay(x) == IF x.relay = "" THEN <<>> ELSE <<Set(Relay(x.name, x.relay))>>
DelRelay(x) == IF x.relay = "" THEN <<>> ELSE <<Del(Relay(x.name, x.relay))>>

EtcdVrfAddressAdd(v, ifs) ==
    Each(ifs, LAMBDA x : <<Wait(x.name), Set(IfVrf(x.name, v))>> \o SetAddresses(x.name, x.addrs)
                         \o SetRelay(x) \o <<Commit>>)

ProcessInterfacesAdd(v, ifs) ==
    SetVlans(ifs) \o <<Commit>>
    \o Each(ifs, LAMBDA x : <<Wait(x.name), Set(IfVrf(x.name, v)), Commit>>
                            \o SetAddresses(x.name, x.addrs) \o SetRelay(x))

\* Also EtcdVrfAddressClear and EtcdVrfVlanSubinterfacesDelete
ProcessInterfacesDelete(v, ifs) ==
    Each(ifs, LAMBDA x : <<Del(<<"if", x.name, "ipv4">>), Commit, Del(IfVrf(x.name, v))>> \o DelRelay(x))
    \o DelVlans(ifs) \o <<Commit>>

InterfaceChange(x, y) ==
    Each(Missing(x.addrs, y.addrs), LAMBDA a : <<Del(Address(x.name, a))>>)
    \o Each(Missing(x.vlans, y.vlans), LAMBDA n : <<Del(Vlan(x.name, n))>>) \o <<Commit>>
    \o Each(Missing(y.vlans, x.vlans), LAMBDA n : <<Set(Vlan(x.name, n))>>) \o <<Commit>>
    \o SetAddresses(x.name, Missing(y.addrs, x.addrs))
    \o (IF x.relay = y.relay THEN <<>> ELSE DelRelay(x) \o SetRelay(y))

ProcessVrfInterfaceChanges(v, old, new) ==
    Each(old, LAMBDA x : IF x.name \in IfNames(new) THEN InterfaceChange(x, ByName(new, x.name)) ELSE <<>>)
    \o ProcessInterfacesAdd(v, SelectSeq(new, LAMBDA y : y.name \notin IfNames(old)))
    \o ProcessInterfacesDelete(v, SelectSeq(old, LAMBDA x : x.name \notin IfNames(new)))

\* Mutant: a VRF that has not changed is deleted and added.
ProcessVrfUpdateForced(v, c) ==
    IF ~cache[v].present THEN SetVlans(c.ifs) \o <<Commit>> \o EtcdVrfAddressAdd(v, c.ifs)
    ELSE IF c = cache[v] THEN ProcessInterfacesDelete(v, c.ifs) \o ProcessInterfacesAdd(v, c.ifs)
    ELSE ProcessVrfInterfaceChanges(v, cache[v].ifs, c.ifs)

ProcessVrfUpdate(v, c) ==
    IF ~cache[v].present THEN SetVlans(c.ifs) \o <<Commit>> \o EtcdVrfAddressAdd(v, c.ifs)
    ELSE IF c = cache[v] THEN <<>>
    ELSE ProcessVrfInterfaceChanges(v, cache[v].ifs, c.ifs)

\* The handler's next call is that of f.
Turn(f) == script = <<>> /\ todo # <<>> /\ Head(todo) = f

\* The handler calls the function f, which makes these calls.
Call(f, calls) ==
    /\ Turn(f)
    /\ todo' = Tail(todo)
    /\ script' = calls
    /\ UNCHANGED <<active, candidate, cache, vrf, cfg, clearing, ribdVars, happened, undone>>

\* No module has the leaves pair-backup and region-backup: what is sent for
\* them does not match and changes nothing.
EtcdVrfSync ==
    /\ Call("EtcdVrfSync", <<Set(<<"vrf", vrf>>), Commit>> \o ProcessVrfUpdate(vrf, cfg) \o <<Commit>>)
    /\ UNCHANGED <<statics, quagga, ospf, bare, unwatched, daemonVars>>

DhcpVrfClear(v) == Each(cache[v].pools, LAMBDA p : <<Del(<<"pool", p>>)>>)

DhcpVrfSync ==
    /\ Call("DhcpVrfSync", DhcpVrfClear(vrf) \o Each(cfg.pools, LAMBDA p : <<Set(<<"pool", p>>)>>)
                           \o Each(cfg.groups, LAMBDA g : <<Del(<<"group", g>>), Set(<<"group", g>>)>>)
                           \o <<Commit>>)
    /\ UNCHANGED <<statics, quagga, ospf, bare, unwatched, daemonVars>>

VrrpVrfSync ==
    /\ Call("VrrpVrfSync", EachOf(vrrp[vrf], LAMBDA id : <<Del(<<"vrf", vrf, "vrrp", id>>)>>)
                           \o Each(cfg.vrrp, LAMBDA id : <<Set(<<"vrf", vrf, "vrrp", id>>)>>) \o <<Commit>>)
    /\ UNCHANGED <<statics, quagga, ospf, bare, unwatched, daemonVars>>

Bgpd(v, i) == <<"bgpd", v, i>>
Ospfd(v) == <<"ospfd", v>>

\* Mutant: OspfProcessMap is not counted.
NexthopWalkerUpdateBgp ==
    <<IF \A v \in Vrfs : quagga'[v] = <<>> THEN Del(Walker) ELSE Set(Walker), Commit>>

NexthopWalkerUpdate ==
    <<IF ospf' = {} /\ \A v \in Vrfs : quagga'[v] = <<>> THEN Del(Walker) ELSE Set(Walker), Commit>>

\* Mutant: no QuaggaDelete first
QuaggaStartAgain(f, is) ==
    /\ Turn(f)
    /\ quagga' = [quagga EXCEPT ![vrf] = is]
    /\ procs' = Restarted({}, {Bgpd(vrf, i) : i \in Range(is)})
    /\ UNCHANGED <<statics, ospf, bare, vrrp, vrrpUp, fresh, dhcpd, relay, relayUp, groups>>
    /\ unwatched' = {}
    /\ Call(f, NexthopWalkerUpdate)

QuaggaStart(f, is) ==
    /\ Turn(f)
    /\ quagga' = [quagga EXCEPT ![vrf] = is]
    /\ procs' = Restarted({Bgpd(vrf, i) : i \in Range(quagga[vrf])}, {Bgpd(vrf, i) : i \in Range(is)})
    /\ UNCHANGED <<statics, ospf, bare, vrrp, vrrpUp, fresh, dhcpd, relay, relayUp, groups>>
    /\ unwatched' = {}
    /\ Call(f, NexthopWalkerUpdate)

OspfStart(f, on) ==
    /\ Turn(f)
    /\ ospf' = IF on THEN ospf \cup {vrf} ELSE ospf \ {vrf}
    /\ procs' = Restarted({Ospfd(v) : v \in ospf \cap {vrf}}, {Ospfd(v) : v \in ospf' \cap {vrf}})
    /\ UNCHANGED <<statics, quagga, bare, vrrp, vrrpUp, fresh, dhcpd, relay, relayUp, groups>>
    /\ unwatched' = {}
    /\ Call(f, NexthopWalkerUpdate)

QuaggaVrfSync == QuaggaStart("QuaggaVrfSync", cfg.bgp)
OspfVrfSync == OspfStart("OspfVrfSync", cfg.ospf)

DelList(v) == <<"vrf", v, "dlist">>

DistributeListSync ==
    /\ Call("DistributeListSync",
            <<Del(<<"plist", vrf>>), Del(DelList(vrf))>>
            \o (IF cfg.ospf THEN <<Set(DelList(vrf)), Set(<<"plist", vrf>>), Commit>> ELSE <<>>))
    /\ UNCHANGED <<statics, quagga, ospf, bare, unwatched, daemonVars>>

\* A static route is a prefix and its first nexthop.
RouteEntry(v, r) == <<"vrf", v, "static", r[1]>>
Nexthop(v, r) == <<"vrf", v, "static", r[1], r[2]>>
RouteEntries(v, routes) == {RouteEntry(v, r) : r \in Range(routes)}

\* The nexthops are deleted, and the entries of the prefixes stay.
EtcdVrfStaticClear(v) == Each(statics[v], LAMBDA r : <<Del(Nexthop(v, r))>>)

\* Mutant: the old routes are not cleared.
EtcdVrfStaticUpdateOnly ==
    /\ Call("EtcdVrfStaticUpdate", Each(cfg.static, LAMBDA r : <<Set(Nexthop(vrf, r))>>) \o <<Commit>>)
    /\ statics' = [statics EXCEPT ![vrf] = cfg.static]
    /\ bare' = (bare \cup RouteEntries(vrf, statics[vrf])) \ RouteEntries(vrf, cfg.static)
    /\ UNCHANGED <<quagga, ospf, unwatched, daemonVars>>

EtcdVrfStaticUpdate ==
    /\ Call("EtcdVrfStaticUpdate", EtcdVrfStaticClear(vrf)
            \o Each(cfg.static, LAMBDA r : <<Set(Nexthop(vrf, r))>>) \o <<Commit>>)
    /\ statics' = [statics EXCEPT ![vrf] = cfg.static]
    /\ bare' = (bare \cup RouteEntries(vrf, statics[vrf])) \ RouteEntries(vrf, cfg.static)
    /\ UNCHANGED <<quagga, ospf, unwatched, daemonVars>>

-----------------------------------------------------------------------------
(* The functions of VrfDelete *)

DhcpVrfDelete ==
    /\ Call("DhcpVrfDelete", DhcpVrfClear(vrf) \o <<Commit>>)
    /\ UNCHANGED <<statics, quagga, ospf, bare, unwatched, daemonVars>>

VrrpVrfDelete ==
    /\ Call("VrrpVrfDelete", EachOf(vrrp[vrf], LAMBDA id :
                                  <<StopVrrp(vrf, id), Del(<<"vrf", vrf, "vrrp", id>>), Commit>>))
    /\ fresh' = {vrf}
    /\ UNCHANGED <<statics, quagga, ospf, bare, unwatched, procs, vrrp, vrrpUp, dhcpd, relay, relayUp, groups>>

QuaggaVrfDelete == QuaggaStart("QuaggaVrfDelete", <<>>)
OspfVrfDelete == OspfStart("OspfVrfDelete", FALSE)

\* Mutant: the prefix list stays.
DistributeListDeleteHalf ==
    /\ Call("DistributeListDelete", <<Del(DelList(vrf))>>)
    /\ UNCHANGED <<statics, quagga, ospf, bare, unwatched, daemonVars>>

DistributeListDelete ==
    /\ Call("DistributeListDelete", <<Del(DelList(vrf)), Del(<<"plist", vrf>>)>>)
    /\ UNCHANGED <<statics, quagga, ospf, bare, unwatched, daemonVars>>

\* Mutant: the VRF is taken out of VrfIfDeleteCache too late.
EtcdVrfDeleteLate ==
    /\ Call("EtcdVrfDelete",
            IF ~cache[vrf].present THEN <<>>
            ELSE ProcessInterfacesDelete(vrf, cache[vrf].ifs) \o EtcdVrfStaticClear(vrf)
                 \o <<Del(<<"vrf", vrf>>), Commit>> \o (IF vrf \in clearing THEN <<Unlist(vrf)>> ELSE <<>>))
    /\ statics' = IF cache[vrf].present THEN [statics EXCEPT ![vrf] = <<>>] ELSE statics
    /\ bare' = IF cache[vrf].present THEN {p \in bare : p[2] # vrf} ELSE bare
    /\ UNCHANGED <<quagga, ospf, unwatched, daemonVars>>

\* Nothing for a VRF that is not cached.  For ClearVrfCache ribd is not sent
\* the `delete vrf name'.
EtcdVrfDelete ==
    /\ Call("EtcdVrfDelete",
            IF ~cache[vrf].present THEN <<>>
            ELSE ProcessInterfacesDelete(vrf, cache[vrf].ifs) \o EtcdVrfStaticClear(vrf)
                 \o (IF vrf \in clearing THEN <<Unlist(vrf)>> ELSE <<>>)
                 \o <<Del(<<"vrf", vrf>>), Commit>>)
    /\ statics' = IF cache[vrf].present THEN [statics EXCEPT ![vrf] = <<>>] ELSE statics
    /\ bare' = IF cache[vrf].present THEN {p \in bare : p[2] # vrf} ELSE bare
    /\ UNCHANGED <<quagga, ospf, unwatched, daemonVars>>

-----------------------------------------------------------------------------
(* The handlers *)

\* The paths a VRF's configuration stands for
Goal(v, c) ==
    IF ~c.present THEN {} ELSE
    {<<"vrf", v>>} \cup (IF c.ospf THEN {DelList(v), <<"plist", v>>} ELSE {})
    \cup RouteEntries(v, c.static) \cup {Nexthop(v, r) : r \in Range(c.static)}
    \cup {<<"vrf", v, "vrrp", id>> : id \in Range(c.vrrp)}
    \cup {<<"pool", p>> : p \in Range(c.pools)}
    \cup UNION {{IfVrf(x.name, v)}
             \cup {Address(x.name, a) : a \in Range(x.addrs)}
             \cup {Vlan(x.name, n) : n \in Range(x.vlans)}
             \cup (IF x.relay = "" THEN {} ELSE {Relay(x.name, x.relay)}) : x \in Range(c.ifs)}

\* The paths of interfaces of this configuration that another VRF still has:
\* when an interface moves, the handler of its old VRF undoes the new one's.
Contested(v, c) ==
    LET others == UNION {Goal(w, cache[w]) : w \in Vrfs \ {v}}
        ifs == IfNames(c.ifs) \cap {p[2] : p \in {q \in others : q[1] = "if"}}
    IN  {p \in Goal(v, c) \cup others : p[1] = "if" /\ p[2] \in ifs}

Begin(v, c, functions) ==
    /\ Idle
    /\ vrf' = v /\ cfg' = c /\ todo' = functions
    /\ LostPaths(Contested(v, c))
    /\ UNCHANGED <<active, candidate, mapVars, script, clearing, ribdVars, happened, unwatched, daemonVars>>

\* Bound: none after a loss
VrfParse(v, c) ==
    /\ clearing = {} /\ ~Lost
    /\ Begin(v, c, <<"EtcdVrfSync", "DhcpVrfSync", "VrrpVrfSync", "QuaggaVrfSync", "OspfVrfSync",
                     "DistributeListSync", "EtcdVrfStaticUpdate", "cache">>)

\* From EtcdKeyDelete or from ClearVrfCache
VrfDelete(v) ==
    /\ clearing = {} \/ v \in clearing
    /\ Begin(v, NoCfg, <<"DhcpVrfDelete", "VrrpVrfDelete", "QuaggaVrfDelete", "OspfVrfDelete",
                         "DistributeListDelete", "EtcdVrfDelete", "cache">>)

\* The end of VrfParse or VrfDelete
Cached ==
    /\ Turn("cache")
    /\ cache' = [cache EXCEPT ![vrf] = cfg]
    /\ clearing' = clearing \ {vrf}
    /\ todo' = <<>> /\ cfg' = NoCfg /\ vrf' = CHOOSE v \in Vrfs : TRUE
    /\ fresh' = {}
    /\ UNCHANGED <<active, candidate, statics, quagga, ospf, bare, script, ribdVars, happened, undone, unwatched,
                   procs, vrrp, vrrpUp, dhcpd, relay, relayUp, groups>>

\* EtcdKeyDelete of a key .../vrf/<id>/bgp: QuaggaDelete alone
BgpKeyDelete(v) ==
    /\ Idle /\ clearing = {} /\ quagga[v] # <<>>
    /\ quagga' = [quagga EXCEPT ![v] = <<>>]
    /\ procs' = Restarted({Bgpd(v, i) : i \in Range(quagga[v])}, {})
    /\ unwatched' = unwatched \cup {v}
    /\ UNCHANGED <<active, candidate, cache, statics, ospf, bare, jobVars, ribdVars, happened, undone,
                   vrrp, vrrpUp, fresh, dhcpd, relay, relayUp, groups>>

\* ribd connects again.
ClearVrfCache ==
    /\ Idle /\ clearing = {}
    /\ clearing' = {v \in Vrfs : cache[v].present}
    /\ UNCHANGED <<active, candidate, mapVars, vrf, cfg, todo, script, ribdVars, happened, undone, unwatched, daemonVars>>

Handler ==
    \/ ExecLine \/ ExecLineWaitIfNoMatch \/ StopInstance \/ UnlistVrf \/ HandlerCommit
    \/ EtcdVrfSync \/ DhcpVrfSync \/ VrrpVrfSync \/ QuaggaVrfSync \/ OspfVrfSync
    \/ DistributeListSync \/ EtcdVrfStaticUpdate
    \/ DhcpVrfDelete \/ VrrpVrfDelete \/ QuaggaVrfDelete \/ OspfVrfDelete
    \/ DistributeListDelete \/ EtcdVrfDelete \/ Cached

Next ==
    \/ Handler
    \/ \E v \in Vrfs : (\E c \in Cfgs[v] : VrfParse(v, c)) \/ VrfDelete(v) \/ BgpKeyDelete(v)
    \/ ClearVrfCache
    \/ SessionCommit \/ ConfigDiscard
    \/ RibdReport

Spec == Init /\ [][Next]_vars

-----------------------------------------------------------------------------
(* Properties *)

\* Relay groups are never withdrawn, and interfaces are ribd's.
Tracked(c) == {p \in c : ~(p[1] = "if" /\ Len(p) = 2) /\ p[1] # "group"}

Quiet == Idle /\ clearing = {}

Ops == {"set", "delete", "wait", "stop", "unlist", "commit"}

\* The shape of the state
TypeOK ==
    /\ \A p \in active \cup candidate : Len(p) \in 2..5
    /\ cache \in [Vrfs -> UNION {Cfgs[v] : v \in Vrfs} \cup {NoCfg}]
    /\ cfg \in Cfgs[vrf] \cup {NoCfg}
    /\ vrf \in Vrfs /\ clearing \subseteq Vrfs
    /\ ospf \subseteq Vrfs /\ vrfDevs \subseteq Vrfs /\ sent \subseteq vrfDevs
    /\ reports \subseteq {"SET", "DELETE"} \X DOMAIN VlanOf
    /\ \A k \in DOMAIN script : script[k].op \in Ops
    /\ \A d \in DOMAIN procs : procs[d] > 0
    /\ \A v \in Vrfs : vrrpUp[v] \subseteq vrrp[v]

\* Between two handlers the candidate holds exactly what EtcdVrfMap says, and
\* it is committed unless a commit has failed: whatever sequence of keys has
\* been put, changed, deleted and resynced, and whenever a session has
\* committed a half done edit.  A static route that is withdrawn leaves its
\* prefix behind, without a nexthop, until the route is back or the VRF is
\* deleted (EtcdVrfStaticClear).  Nothing repeats an edit that a session has
\* discarded or that was lost with an interface; the damage is those paths.
Converged ==
    Quiet => /\ (Tracked(candidate) \ {Walker}) \ undone
                  = (bare \cup UNION {Goal(v, cache[v]) : v \in Vrfs}) \ undone
             /\ "failed" \notin happened => active \ undone = candidate \ undone

\* A VRF that is deleted leaves nothing behind in the candidate, even if an
\* interface was lost while it was there (VrfDelete works from the cache); if
\* a session has discarded edits, at most what they were to remove.
Withdrawn ==
    Idle => \A v \in Vrfs : ~cache[v].present =>
                \A p \in candidate \ (IF "discard" \in happened THEN undone ELSE {}) :
                    /\ p[1] \in {"vrf", "plist"} => p[2] # v
                    /\ p[1] = "if" /\ Len(p) = 4 /\ p[3] = "in" => p[4] # v

Wanted ==
    UNION {{Keepalived(v, id) : id \in Range(cache[v].vrrp)}
        \cup {Dhcpd(p) : p \in Range(cache[v].pools)}
        \cup {Bgpd(v, i) : i \in Range(quagga[v])}
        \cup (IF cache[v].ospf THEN {Ospfd(v)} ELSE {})
        \cup {Dhcrelay(x.name, <<x.relay, v>>) : x \in {y \in Range(cache[v].ifs) : y.relay \in groups}}
        : v \in Vrfs}

\* The daemons that depend on an undone edit: a relay whose interface ribd has
\* removed is not stopped, an instance that VrrpVrfDelete has stopped stays
\* down when the deletion is discarded.
Uncertain(d) ==
    \/ d[1] = "keepalived" /\ <<"vrf", d[2], "vrrp", d[3]>> \in undone
    \/ d[1] = "dhcpd" /\ <<"pool", d[2]>> \in undone
    \/ d[1] = "dhcrelay" /\ \/ \E p \in undone : p[1] = "if" /\ p[2] = d[2]
                            \/ <<"group", d[3][1]>> \in undone

\* The processes that the code's maps know
Keepaliveds(up) == UNION {{Keepalived(v, id) : id \in up[v]} : v \in Vrfs}
Bgpds(interfaces) == UNION {{Bgpd(v, i) : i \in Range(interfaces[v])} : v \in Vrfs}
Dhcrelays(up, instance) == {Dhcrelay(i, instance[i]) : i \in up}

Registered ==
    Keepaliveds(vrrpUp) \cup {Dhcpd(p) : p \in dhcpd} \cup Dhcrelays(relayUp, relay)
    \cup Bgpds(quagga) \cup {Ospfd(v) : v \in ospf}

\* At any moment, whatever fails, exactly the processes run that the code's
\* maps know, once each: none is started over a running one, and none is
\* forgotten while it runs.  Between two handlers there is an ospfd for the
\* VRFs that EtcdVrfMap has with OSPF, and the bgpd of a VRF are those of its
\* configuration unless its bgp key was deleted.
Remembered ==
    /\ procs = Once(Registered)
    /\ Idle => /\ ospf = {v \in Vrfs : cache[v].ospf}
               /\ \A v \in Vrfs : quagga[v] \in {<<>>, cache[v].bgp}

\* The running daemons are those that are remembered; between two handlers,
\* those of the configuration, once each: none is left over by a restart,
\* started twice, or missing, and a relay runs in the VRF of its interface.
Daemons ==
    /\ Remembered
    /\ Quiet /\ "failed" \notin happened =>
           \A d \in DOMAIN procs \cup Wanted : Uncertain(d) \/ (d \in Wanted /\ Running(d) = 1)

\* The nexthop walker is configured exactly while a routing daemon runs
\* (NexthopWalkerUpdate), except between the deletion of a VRF's bgp key and
\* the next update of any VRF, and after its own edit was discarded.
WalkerRight ==
    Quiet /\ unwatched = {} /\ Walker \notin undone =>
        (Walker \in candidate <=> ospf # {} \/ \E v \in Vrfs : quagga[v] # <<>>)

\* While a VRF is updated, what its old and its new configuration have in
\* common stays in the active configuration; the VRF and its interfaces do so
\* even if a session commits the watcher's half done edits.
Hitless ==
    cfg.present /\ cache[vrf].present /\ ~Lost /\ happened \subseteq {"session"} =>
        LET common == Goal(vrf, cache[vrf]) \cap Goal(vrf, cfg)
        IN {p \in common : happened = {} \/ p[1] = "if" \/ p = <<"vrf", vrf>>} \subseteq active

\* A resynchronisation takes none of its VRFs from ribd: ClearVrfCache deletes
\* the configuration of the VRFs but not the devices, whoever commits it.
VrfKept == [][clearing \cap vrfDevs \subseteq vrfDevs']_vars

=============================================================================
