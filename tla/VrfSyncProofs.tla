--------------------------- MODULE VrfSyncProofs ---------------------------
(***************************************************************************)
(* The processes that run are those that the maps of the handlers record,  *)
(* for any VRFs, interfaces and configurations, and any number of etcd     *)
(* keys, commits, failed commits, discards and reports of ribd.            *)
(*                                                                         *)
(* Every step is shown to be an exchange: the processes it stops are       *)
(* among those recorded, the ones it starts are not running, and the maps  *)
(* record what results.  The rest of the invariant says how far the        *)
(* handler has come, so that the routing daemons of its VRF are those of   *)
(* the cached configuration until their function is called, and those of   *)
(* the new one from then on.                                               *)
(***************************************************************************)
EXTENDS VrfSync, TLAPS

\* Zenon unless a leaf says otherwise: most need no arithmetic.
USE Zenon

-----------------------------------------------------------------------------
(* Processes that are stopped and started *)

\* In a set of processes those in `stop' are replaced by those in `start',
\* none of which is left running.
Swap(old, stop, start, new) ==
    /\ stop \subseteq old
    /\ \A x \in start : x \in old => x \in stop
    /\ new = (old \ stop) \cup start

\* Nothing is stopped and nothing started.
LEMMA SwapNone == ASSUME NEW old PROVE Swap(old, {}, {}, old)
BY DEF Swap

\* All are replaced.
LEMMA SwapAll == ASSUME NEW old, NEW new PROVE Swap(old, old, new, new)
BY DEF Swap

\* Two sets that have nothing in common, before and after
LEMMA SwapBoth ==
    ASSUME NEW a, NEW s, NEW t, NEW a2, Swap(a, s, t, a2),
           NEW b, NEW u, NEW w, NEW b2, Swap(b, u, w, b2),
           \A x \in a \cup a2 : x \notin b \cup b2
    PROVE  Swap(a \cup b, s \cup u, t \cup w, a2 \cup b2)
<1>1. t \subseteq a2 /\ w \subseteq b2
  BY DEF Swap
<1>2. s \cup u \subseteq a \cup b
  BY DEF Swap
<1>3. ASSUME NEW x \in t \cup w, x \in a \cup b PROVE x \in s \cup u
  <2>1. CASE x \in t
    BY <1>1, <1>3, <2>1 DEF Swap
  <2>2. CASE x \in w
    BY <1>1, <1>3, <2>2 DEF Swap
  <2> QED BY <2>1, <2>2
<1>4. ASSUME NEW x PROVE x \in a2 \cup b2 <=> x \in ((a \cup b) \ (s \cup u)) \cup (t \cup w)
  BY DEF Swap
<1>5. a2 \cup b2 = ((a \cup b) \ (s \cup u)) \cup (t \cup w)
  BY <1>4
<1> QED BY <1>2, <1>3, <1>5 DEF Swap

\* Each process runs once.
LEMMA SwapOnce ==
    ASSUME NEW old, procs = Once(old), NEW stop, NEW start, NEW new, Swap(old, stop, start, new)
    PROVE  Restarted(stop, start) = Once(new)
<1> DEFINE left(d) == IF d \in stop /\ Running(d) > 0 THEN Running(d) - 1 ELSE Running(d)
           all == [d \in old \cup start |-> left(d) + (IF d \in start THEN 1 ELSE 0)]
           some == {d \in DOMAIN all : all[d] > 0}
<1>1. stop \subseteq old /\ (\A x \in start : x \in old => x \in stop) /\ new = (old \ stop) \cup start
  BY DEF Swap
<1>2. DOMAIN procs = old /\ \A d \in old : procs[d] = 1
  BY DEF Once
<1>3. \A d : Running(d) = IF d \in old THEN 1 ELSE 0
  BY <1>2 DEF Running
<1>4. ASSUME NEW d \in old \cup start PROVE all[d] = IF d \in new THEN 1 ELSE 0
  <2>1. left(d) = IF d \in old /\ d \notin stop THEN 1 ELSE 0
    BY SMT, <1>1, <1>3
  <2> HIDE DEF left
  <2>2. all[d] = left(d) + (IF d \in start THEN 1 ELSE 0)
    OBVIOUS
  <2> HIDE DEF all
  <2> QED BY SMT, <1>1, <2>1, <2>2
<1>5. DOMAIN all = old \cup start
  OBVIOUS
<1>6. Restarted(stop, start) = [d \in some |-> all[d]]
  BY <1>2 DEF Restarted, RestrictValues, Restrict
<1> HIDE DEF all
<1>7. some = new
  BY SMT, <1>1, <1>4, <1>5
<1>8. \A d \in new : all[d] = 1
  BY <1>1, <1>4
<1> HIDE DEF some
<1> QED BY <1>6, <1>7, <1>8 DEF Once

\* All the processes of a kind have its name.
Named(set, name) == \A x \in set : x[1] = name

\* Each kind of process has a name of its own.
LEMMA Kinds ==
    /\ \A up : Named(Keepaliveds(up), "keepalived")
    /\ \A pools : Named({Dhcpd(p) : p \in pools}, "dhcpd")
    /\ \A up, instance : Named(Dhcrelays(up, instance), "dhcrelay")
    /\ \A interfaces : Named(Bgpds(interfaces), "bgpd")
    /\ \A vs : Named({Ospfd(v) : v \in vs}, "ospfd")
<1>1. \A up : Named(Keepaliveds(up), "keepalived")
  BY SMT DEF Named, Keepaliveds, Keepalived
<1>2. \A pools : Named({Dhcpd(p) : p \in pools}, "dhcpd")
  BY SMT DEF Named, Dhcpd
<1>3. \A up, instance : Named(Dhcrelays(up, instance), "dhcrelay")
  BY SMT DEF Named, Dhcrelays, Dhcrelay
<1>4. \A interfaces : Named(Bgpds(interfaces), "bgpd")
  BY SMT DEF Named, Bgpds, Bgpd
<1>5. \A vs : Named({Ospfd(v) : v \in vs}, "ospfd")
  BY SMT DEF Named, Ospfd
<1> QED BY <1>1, <1>2, <1>3, <1>4, <1>5

\* In a step the maps replace these processes of each kind.
Replaced(k, k2, d, d2, r, r2, b, b2, o, o2) ==
    /\ Swap(Keepaliveds(vrrpUp), k, k2, Keepaliveds(vrrpUp)')
    /\ Swap({Dhcpd(p) : p \in dhcpd}, d, d2, {Dhcpd(p) : p \in dhcpd'})
    /\ Swap(Dhcrelays(relayUp, relay), r, r2, Dhcrelays(relayUp, relay)')
    /\ Swap(Bgpds(quagga), b, b2, Bgpds(quagga)')
    /\ Swap({Ospfd(v) : v \in ospf}, o, o2, {Ospfd(v) : v \in ospf'})

\* The kinds have nothing in common, so that what is replaced in each is
\* replaced in all of them, and every process still runs once.
LEMMA RegisteredSwap ==
    ASSUME procs = Once(Registered),
           NEW k, NEW k2, NEW d, NEW d2, NEW r, NEW r2, NEW b, NEW b2, NEW o, NEW o2,
           Replaced(k, k2, d, d2, r, r2, b, b2, o, o2)
    PROVE  Restarted(k \cup d \cup r \cup b \cup o, k2 \cup d2 \cup r2 \cup b2 \cup o2) = Once(Registered)'
<1> DEFINE K == Keepaliveds(vrrpUp)
           D == {Dhcpd(p) : p \in dhcpd}
           R == Dhcrelays(relayUp, relay)
           B == Bgpds(quagga)
           O == {Ospfd(v) : v \in ospf}
<1>1. /\ Named(K \cup K', "keepalived") /\ Named(D \cup D', "dhcpd") /\ Named(R \cup R', "dhcrelay")
      /\ Named(B \cup B', "bgpd") /\ Named(O \cup O', "ospfd")
  BY Kinds DEF Named
<1>2. Registered = K \cup D \cup R \cup B \cup O /\ Registered' = K' \cup D' \cup R' \cup B' \cup O'
  BY DEF Registered
<1>3. Swap(K, k, k2, K') /\ Swap(D, d, d2, D') /\ Swap(R, r, r2, R') /\ Swap(B, b, b2, B') /\ Swap(O, o, o2, O')
  BY DEF Replaced
<1> HIDE DEF K, D, R, B, O
<1>4. /\ \A x \in K \cup K' : x \notin D \cup D'
      /\ \A x \in (K \cup D) \cup (K' \cup D') : x \notin R \cup R'
      /\ \A x \in (K \cup D \cup R) \cup (K' \cup D' \cup R') : x \notin B \cup B'
      /\ \A x \in (K \cup D \cup R \cup B) \cup (K' \cup D' \cup R' \cup B') : x \notin O \cup O'
  BY SMT, <1>1 DEF Named
<1>5. Swap(K \cup D, k \cup d, k2 \cup d2, K' \cup D')
  BY <1>3, <1>4, SwapBoth
<1>6. Swap(K \cup D \cup R, k \cup d \cup r, k2 \cup d2 \cup r2, K' \cup D' \cup R')
  BY <1>3, <1>4, <1>5, SwapBoth
<1>7. Swap(K \cup D \cup R \cup B, k \cup d \cup r \cup b, k2 \cup d2 \cup r2 \cup b2, K' \cup D' \cup R' \cup B')
  BY <1>3, <1>4, <1>6, SwapBoth
<1>8. Swap(Registered, k \cup d \cup r \cup b \cup o, k2 \cup d2 \cup r2 \cup b2 \cup o2, Registered')
  BY <1>2, <1>3, <1>4, <1>7, SwapBoth
<1>9. Once(Registered)' = Once(Registered')
  BY DEF Once
<1> QED BY <1>8, <1>9, SwapOnce

-----------------------------------------------------------------------------
(* The invariant *)

\* What a handler can have left to do
HandlerFunctions ==
    {"EtcdVrfSync", "DhcpVrfSync", "VrrpVrfSync", "QuaggaVrfSync", "OspfVrfSync", "DistributeListSync",
     "EtcdVrfStaticUpdate", "DhcpVrfDelete", "VrrpVrfDelete", "QuaggaVrfDelete", "OspfVrfDelete",
     "DistributeListDelete", "EtcdVrfDelete", "cache"}

\* f is still to be called.
Pending(f) == \E k \in 1..Len(todo) : todo[k] = f

\* OspfProcessMap and QuaggaProc are what a configuration of the VRF asks for.
OspfAs(v, c) == v \in ospf <=> c.ospf
BgpAs(v, c) == quagga[v] \in {<<>>, c.bgp}

\* The maps are about the VRFs and interfaces there are.
MapsTypeOK ==
    /\ DOMAIN vrrpUp = Vrfs
    /\ quagga = [v \in Vrfs |-> quagga[v]] /\ cache = [v \in Vrfs |-> cache[v]]
    /\ ospf \subseteq Vrfs /\ relayUp \subseteq Ifs /\ fresh \subseteq Vrfs
    /\ todo \in Seq(HandlerFunctions)

\* Where the handler is: it has come to its VRF's routing daemons or not, and
\* what it does last is to write the cache.
HandlerInv ==
    /\ \A v \in Vrfs : todo = <<>> \/ v # vrf => OspfAs(v, cache[v]) /\ BgpAs(v, cache[v])
    /\ todo = <<>> => script = <<>>
    /\ todo # <<>> =>
          /\ vrf \in Vrfs
          /\ \A k \in 1..Len(todo) : todo[k] = "cache" <=> k = Len(todo)
          /\ Pending("OspfVrfSync") \/ Pending("OspfVrfDelete") \/ OspfAs(vrf, cfg)
          /\ Pending("QuaggaVrfSync") \/ Pending("QuaggaVrfDelete") \/ BgpAs(vrf, cfg)
          /\ Pending("OspfVrfDelete") \/ Pending("QuaggaVrfDelete") => cfg = NoCfg

\* Each process that the maps record runs once, and no other runs.
ProcsInv == procs = Once(Registered)

RememberInv == MapsTypeOK /\ HandlerInv /\ ProcsInv

-----------------------------------------------------------------------------
(* What is replaced *)

\* The processes of a kind that each VRF has several of
PerVrf(kind, f) == UNION {{<<kind, v, x>> : x \in f[v]} : v \in Vrfs}

\* Those of some VRFs are replaced.
LEMMA PerVrfSwap ==
    ASSUME NEW kind, NEW f, NEW g, NEW vs \in SUBSET Vrfs, \A v \in Vrfs \ vs : f[v] = g[v]
    PROVE  Swap(PerVrf(kind, f), UNION {{<<kind, v, x>> : x \in f[v]} : v \in vs},
                UNION {{<<kind, v, x>> : x \in g[v]} : v \in vs}, PerVrf(kind, g))
<1> DEFINE stop == UNION {{<<kind, v, x>> : x \in f[v]} : v \in vs}
           start == UNION {{<<kind, v, x>> : x \in g[v]} : v \in vs}
           old == PerVrf(kind, f)
           new == PerVrf(kind, g)
<1>1. \A v, w, x, y : <<kind, v, x>> = <<kind, w, y>> => v = w /\ x = y
  BY SMT
<1>2. \A p : p \in old <=> \E v \in Vrfs : \E x \in f[v] : p = <<kind, v, x>>
  BY SMT DEF PerVrf
<1>3. \A p : p \in new <=> \E v \in Vrfs : \E x \in g[v] : p = <<kind, v, x>>
  BY SMT DEF PerVrf
<1>4. \A p : p \in stop <=> \E v \in vs : \E x \in f[v] : p = <<kind, v, x>>
  BY SMT
<1>5. \A p : p \in start <=> \E v \in vs : \E x \in g[v] : p = <<kind, v, x>>
  BY SMT
<1> HIDE DEF stop, start, old, new
<1>6. stop \subseteq old
  BY <1>2, <1>4
<1>7. ASSUME NEW p \in start, p \in old PROVE p \in stop
  <2>1. PICK v, x : v \in vs /\ x \in g[v] /\ p = <<kind, v, x>>
    BY <1>5, <1>7
  <2>2. PICK w, y : w \in Vrfs /\ y \in f[w] /\ p = <<kind, w, y>>
    BY <1>2, <1>7
  <2>3. <<kind, v, x>> = <<kind, w, y>>
    BY <2>1, <2>2
  <2>4. v = w
    BY <1>1, <2>3
  <2> QED BY <1>4, <2>1, <2>2, <2>4
<1>8. ASSUME NEW p \in new, p \notin start PROVE p \in old \ stop
  <2>1. PICK v \in Vrfs : \E x \in g[v] : p = <<kind, v, x>>
    BY <1>3, <1>8
  <2>2. v \notin vs
    BY <1>5, <1>8, <2>1
  <2>3. \E x \in f[v] : p = <<kind, v, x>>
    BY <2>1, <2>2
  <2>4. ASSUME p \in stop PROVE FALSE
    <3>1. PICK w, y : w \in vs /\ y \in f[w] /\ p = <<kind, w, y>>
      BY <1>4, <2>4
    <3>2. PICK x : p = <<kind, v, x>>
      BY <2>3
    <3>3. <<kind, v, x>> = <<kind, w, y>>
      BY <3>1, <3>2
    <3>4. v = w
      BY <1>1, <3>3
    <3> QED BY <2>2, <3>1, <3>4
  <2> QED BY <1>2, <2>3, <2>4
<1>9. start \subseteq new
  BY <1>3, <1>5
<1>10. ASSUME NEW p \in old, p \notin stop PROVE p \in new
  <2>1. PICK v \in Vrfs : \E x \in f[v] : p = <<kind, v, x>>
    BY <1>2, <1>10
  <2>2. v \notin vs
    BY <1>4, <1>10, <2>1
  <2> QED BY <1>3, <2>1, <2>2
<1>11. new = (old \ stop) \cup start
  BY <1>8, <1>9, <1>10
<1>12. Swap(old, stop, start, new)
  BY <1>6, <1>7, <1>11 DEF Swap
<1> QED BY <1>12 DEF old, new, stop, start

\* The keepalived of some VRFs
LEMMA KeepalivedsSwap ==
    ASSUME NEW vs \in SUBSET Vrfs, NEW up, \A v \in Vrfs \ vs : vrrpUp[v] = up[v]
    PROVE  Swap(Keepaliveds(vrrpUp), UNION {{Keepalived(v, id) : id \in vrrpUp[v]} : v \in vs},
                UNION {{Keepalived(v, id) : id \in up[v]} : v \in vs}, Keepaliveds(up))
<1>1. /\ PerVrf("keepalived", vrrpUp) = Keepaliveds(vrrpUp)
      /\ PerVrf("keepalived", up) = Keepaliveds(up)
  BY DEF PerVrf, Keepaliveds, Keepalived
<1>2. Swap(PerVrf("keepalived", vrrpUp), UNION {{<<"keepalived", v, x>> : x \in vrrpUp[v]} : v \in vs},
           UNION {{<<"keepalived", v, x>> : x \in up[v]} : v \in vs}, PerVrf("keepalived", up))
  BY PerVrfSwap
<1> QED BY <1>1, <1>2 DEF Keepalived

\* The bgpd of a VRF
LEMMA BgpdsSwap ==
    ASSUME NEW v \in Vrfs, quagga = [w \in Vrfs |-> quagga[w]], NEW is
    PROVE  Swap(Bgpds(quagga), {Bgpd(v, i) : i \in Range(quagga[v])}, {Bgpd(v, i) : i \in Range(is)},
                Bgpds([quagga EXCEPT ![v] = is]))
<1> DEFINE q == [quagga EXCEPT ![v] = is]
           f == [w \in Vrfs |-> Range(quagga[w])]
           g == [w \in Vrfs |-> Range(q[w])]
<1>1. q[v] = is /\ \A w \in Vrfs \ {v} : q[w] = quagga[w]
  BY SMT
<1> HIDE DEF q
<1>2. \A w \in Vrfs \ {v} : f[w] = g[w]
  BY <1>1
<1>3. PerVrf("bgpd", f) = Bgpds(quagga) /\ PerVrf("bgpd", g) = Bgpds(q)
  BY SMT DEF PerVrf, Bgpds, Bgpd
<1>4. /\ UNION {{<<"bgpd", w, x>> : x \in f[w]} : w \in {v}} = {Bgpd(v, i) : i \in Range(quagga[v])}
      /\ UNION {{<<"bgpd", w, x>> : x \in g[w]} : w \in {v}} = {Bgpd(v, i) : i \in Range(is)}
  BY SMT, <1>1 DEF Bgpd
<1> HIDE DEF f, g
<1>5. Swap(PerVrf("bgpd", f), UNION {{<<"bgpd", w, x>> : x \in f[w]} : w \in {v}},
           UNION {{<<"bgpd", w, x>> : x \in g[w]} : w \in {v}}, PerVrf("bgpd", g))
  BY <1>2, PerVrfSwap
<1> QED BY <1>3, <1>4, <1>5 DEF q

\* The ospfd of a VRF
LEMMA OspfdsSwap ==
    ASSUME NEW v, NEW vs, vs = ospf \cup {v} \/ vs = ospf \ {v}
    PROVE  Swap({Ospfd(w) : w \in ospf}, {Ospfd(w) : w \in ospf \cap {v}},
                {Ospfd(w) : w \in vs \cap {v}}, {Ospfd(w) : w \in vs})
<1>1. \A w, x : Ospfd(w) = Ospfd(x) => w = x
  BY SMT DEF Ospfd
<1> QED BY <1>1 DEF Swap

\* The relays of some interfaces
LEMMA DhcrelaysSwap ==
    ASSUME NEW again, NEW up, NEW instance,
           \A i : i \notin again => (i \in up <=> i \in relayUp),
           \A i \in relayUp : i \notin again => instance[i] = relay[i]
    PROVE  Swap(Dhcrelays(relayUp, relay), {Dhcrelay(i, relay[i]) : i \in again \cap relayUp},
                {Dhcrelay(i, instance[i]) : i \in again \cap up}, Dhcrelays(up, instance))
<1> DEFINE stop == {Dhcrelay(i, relay[i]) : i \in again \cap relayUp}
           start == {Dhcrelay(i, instance[i]) : i \in again \cap up}
           old == Dhcrelays(relayUp, relay)
           new == Dhcrelays(up, instance)
<1>1. \A i, j, x, y : Dhcrelay(i, x) = Dhcrelay(j, y) => i = j /\ x = y
  BY SMT DEF Dhcrelay
<1>2. \A p : p \in old <=> \E i \in relayUp : p = Dhcrelay(i, relay[i])
  BY DEF Dhcrelays
<1>3. \A p : p \in new <=> \E i \in up : p = Dhcrelay(i, instance[i])
  BY DEF Dhcrelays
<1>4. \A p : p \in stop <=> \E i \in again \cap relayUp : p = Dhcrelay(i, relay[i])
  OBVIOUS
<1>5. \A p : p \in start <=> \E i \in again \cap up : p = Dhcrelay(i, instance[i])
  OBVIOUS
<1> HIDE DEF stop, start, old, new
<1>6. stop \subseteq old
  BY <1>2, <1>4
<1>7. ASSUME NEW p \in start, p \in old PROVE p \in stop
  <2>1. PICK i \in again \cap up : p = Dhcrelay(i, instance[i])
    BY <1>5, <1>7
  <2>2. PICK j \in relayUp : p = Dhcrelay(j, relay[j])
    BY <1>2, <1>7
  <2>3. i = j
    BY <1>1, <2>1, <2>2
  <2> QED BY <1>4, <2>1, <2>2, <2>3
<1>8. ASSUME NEW p \in new, p \notin start PROVE p \in old \ stop
  <2>1. PICK i \in up : p = Dhcrelay(i, instance[i])
    BY <1>3, <1>8
  <2>2. i \notin again
    BY <1>5, <1>8, <2>1
  <2>3. i \in relayUp /\ p = Dhcrelay(i, relay[i])
    BY <2>1, <2>2
  <2>4. ASSUME p \in stop PROVE FALSE
    <3>1. PICK j \in again \cap relayUp : p = Dhcrelay(j, relay[j])
      BY <1>4, <2>4
    <3>2. i = j
      BY <1>1, <2>3, <3>1
    <3> QED BY <2>2, <3>1, <3>2
  <2> QED BY <1>2, <2>3, <2>4
<1>9. start \subseteq new
  BY <1>3, <1>5
<1>10. ASSUME NEW p \in old, p \notin stop PROVE p \in new
  <2>1. PICK i \in relayUp : p = Dhcrelay(i, relay[i])
    BY <1>2, <1>10
  <2>2. i \notin again
    BY <1>4, <1>10, <2>1
  <2> QED BY <1>3, <2>1, <2>2
<1>11. new = (old \ stop) \cup start
  BY <1>8, <1>9, <1>10
<1>12. Swap(old, stop, start, new)
  BY <1>6, <1>7, <1>11 DEF Swap
<1> QED BY <1>12 DEF old, new, stop, start

-----------------------------------------------------------------------------
(* The handler *)

\* A function is called.
LEMMA Taken ==
    ASSUME todo \in Seq(HandlerFunctions), todo # <<>>, todo' = Tail(todo)
    PROVE  /\ todo' \in Seq(HandlerFunctions)
           /\ \A g : Pending(g) => g = Head(todo) \/ Pending(g)'
           /\ \A g : Pending(g)' => Pending(g)
           /\ (\A k \in 1..Len(todo) : todo[k] = "cache" <=> k = Len(todo)) /\ Head(todo) # "cache" =>
                  /\ todo' # <<>>
                  /\ \A k \in 1..Len(todo') : todo'[k] = "cache" <=> k = Len(todo')
<1>1. /\ todo' \in Seq(HandlerFunctions) /\ Len(todo) \in Nat \ {0} /\ Len(todo') = Len(todo) - 1
      /\ Head(todo) = todo[1]
      /\ \A k \in 1..Len(todo') : todo'[k] = todo[k + 1]
  BY SMT
<1>2. ASSUME NEW g, Pending(g) PROVE g = Head(todo) \/ Pending(g)'
  <2>1. PICK k \in 1..Len(todo) : todo[k] = g
    BY <1>2 DEF Pending
  <2>2. CASE k = 1
    BY <1>1, <2>1, <2>2
  <2>3. CASE k # 1
    <3>1. k - 1 \in 1..Len(todo') /\ todo'[k - 1] = g
      BY SMT, <1>1, <2>1, <2>3
    <3> QED BY <3>1 DEF Pending
  <2> QED BY <2>2, <2>3
<1>3. ASSUME NEW g, Pending(g)' PROVE Pending(g)
  <2>1. PICK k \in 1..Len(todo') : todo'[k] = g
    BY <1>3 DEF Pending
  <2>2. k + 1 \in 1..Len(todo) /\ todo[k + 1] = g
    BY SMT, <1>1, <2>1
  <2> QED BY <2>2 DEF Pending
<1>4. ASSUME \A k \in 1..Len(todo) : todo[k] = "cache" <=> k = Len(todo), Head(todo) # "cache"
      PROVE  /\ todo' # <<>>
             /\ \A k \in 1..Len(todo') : todo'[k] = "cache" <=> k = Len(todo')
  <2>1. Len(todo) # 1
    <3>1. 1 \in 1..Len(todo)
      BY SMT, <1>1
    <3>2. todo[1] = "cache" <=> 1 = Len(todo)
      BY <1>4, <3>1
    <3> QED BY <1>1, <1>4, <3>2
  <2>2. todo' # <<>>
    <3>1. Len(todo') # 0
      BY SMT, <1>1, <2>1
    <3>2. Len(<<>>) = 0
      BY SMT
    <3> QED BY <3>1, <3>2
  <2>3. ASSUME NEW k \in 1..Len(todo') PROVE todo'[k] = "cache" <=> k = Len(todo')
    <3>1. k + 1 \in 1..Len(todo) /\ todo'[k] = todo[k + 1] /\ (k = Len(todo') <=> k + 1 = Len(todo))
      BY SMT, <1>1
    <3> QED BY <1>4, <3>1
  <2> QED BY <2>2, <2>3
<1> QED BY <1>1, <1>2, <1>3, <1>4

\* Nothing that the invariant is about changes but the script.
LEMMA HandlerSame ==
    ASSUME HandlerInv, UNCHANGED <<todo, vrf, cfg, cache, quagga, ospf>>, script' = script \/ script # <<>>
    PROVE  HandlerInv'
<1>1. \A f : Pending(f)' <=> Pending(f)
  BY DEF Pending
<1>2. \A v, c : (OspfAs(v, c)' <=> OspfAs(v, c)) /\ (BgpAs(v, c)' <=> BgpAs(v, c))
  BY DEF OspfAs, BgpAs
<1>3. todo' = <<>> => script' = <<>>
  BY DEF HandlerInv
<1>4. \A v \in Vrfs : todo' = <<>> \/ v # vrf' => OspfAs(v, cache[v])' /\ BgpAs(v, cache[v])'
  BY DEF HandlerInv, OspfAs, BgpAs
<1>5. todo' # <<>> =>
          /\ vrf' \in Vrfs
          /\ \A k \in 1..Len(todo') : todo'[k] = "cache" <=> k = Len(todo')
  BY DEF HandlerInv
<1>6. todo' # <<>> =>
          /\ Pending("OspfVrfSync")' \/ Pending("OspfVrfDelete")' \/ OspfAs(vrf, cfg)'
          /\ Pending("QuaggaVrfSync")' \/ Pending("QuaggaVrfDelete")' \/ BgpAs(vrf, cfg)'
          /\ Pending("OspfVrfDelete")' \/ Pending("QuaggaVrfDelete")' => cfg' = NoCfg
  <2>1. (OspfAs(vrf, cfg)' <=> OspfAs(vrf, cfg)) /\ (BgpAs(vrf, cfg)' <=> BgpAs(vrf, cfg))
    BY DEF OspfAs, BgpAs
  <2> QED BY <1>1, <2>1 DEF HandlerInv
<1> QED BY <1>3, <1>4, <1>5, <1>6 DEF HandlerInv

\* QuaggaProc stays: so do its processes.
LEMMA BgpdsSame ==
    ASSUME quagga' = quagga
    PROVE  Bgpds(quagga)' = Bgpds(quagga)
<1>1. Bgpds(quagga)' = Bgpds(quagga')
  BY DEF Bgpds, Range
<1> QED BY <1>1

\* The VRRP instances and the relays stay: so do their processes.
LEMMA MapsStay ==
    ASSUME UNCHANGED <<vrrpUp, relay, relayUp>>
    PROVE  /\ Keepaliveds(vrrpUp)' = Keepaliveds(vrrpUp)
           /\ Dhcrelays(relayUp, relay)' = Dhcrelays(relayUp, relay)
<1>1. Keepaliveds(vrrpUp)' = Keepaliveds(vrrpUp')
  BY DEF Keepaliveds
<1>2. Dhcrelays(relayUp, relay)' = Dhcrelays(relayUp', relay')
  BY DEF Dhcrelays
<1> QED BY <1>1, <1>2

\* Neither the processes nor the maps change.
LEMMA ProcsSame ==
    ASSUME ProcsInv, UNCHANGED <<procs, vrrpUp, dhcpd, relayUp, relay, quagga, ospf>>
    PROVE  ProcsInv'
<1>1. /\ Keepaliveds(vrrpUp)' = Keepaliveds(vrrpUp) /\ Bgpds(quagga)' = Bgpds(quagga)
      /\ Dhcrelays(relayUp, relay)' = Dhcrelays(relayUp, relay)
  BY BgpdsSame, MapsStay
<1>2. Registered' = Registered
  BY <1>1 DEF Registered
<1>3. Once(Registered)' = Once(Registered')
  BY DEF Once
<1> QED BY <1>2, <1>3 DEF ProcsInv

\* The maps keep their types when they do not change.
LEMMA MapsSame ==
    ASSUME MapsTypeOK, UNCHANGED <<vrrpUp, relayUp, fresh, todo, cache, quagga, ospf>>
    PROVE  MapsTypeOK'
BY DEF MapsTypeOK

-----------------------------------------------------------------------------
(* The steps *)

\* A call that is not about daemons, a report, a discard, or a failed commit
LEMMA OtherStep ==
    ASSUME RememberInv, script' = script \/ script # <<>>,
           UNCHANGED <<todo, vrf, cfg, cache, quagga, ospf, procs, vrrpUp, fresh, dhcpd, relay, relayUp>>
    PROVE  RememberInv'
BY HandlerSame, ProcsSame, MapsSame DEF RememberInv

\* A commit replaces keepalived, dhcpd and dhcrelay.
LEMMA CommitStep ==
    ASSUME RememberInv, CommitDaemons(active, candidate), UNCHANGED <<quagga, ospf>>
    PROVE  /\ ProcsInv'
           /\ DOMAIN vrrpUp' = Vrfs /\ relayUp' \subseteq Ifs /\ fresh' \subseteq Vrfs
<1> DEFINE vs == {v \in Vrfs : VrrpOf(active, v) # VrrpOf(candidate, v)}
           dhcp == \/ Entries(active, <<"pool">>) # Entries(candidate, <<"pool">>)
                   \/ Entries(active, <<"group">>) # Entries(candidate, <<"group">>)
           changed == {i \in Ifs : RelayOf(active, i) # RelayOf(candidate, i)}
           again == IF dhcp THEN Ifs ELSE changed
           Instances(up) == UNION {{Keepalived(v, id) : id \in up[v]} : v \in vs}
           Relays(up, instance) == {Dhcrelay(i, instance[i]) : i \in again \cap up}
           Servers(pools) == IF dhcp THEN {Dhcpd(p) : p \in pools} ELSE {}
<1>1. /\ VrrpJsonConfig(candidate, vs)
      /\ ~dhcp => dhcpd' = dhcpd
      /\ relay' = RelayApi(candidate, changed)
      /\ RelayGroupUpdate(again)
      /\ procs' = Restarted(Instances(vrrpUp) \cup Relays(relayUp, relay) \cup Servers(dhcpd),
                            Instances(vrrpUp') \cup Relays(relayUp', relay') \cup Servers(dhcpd'))
  BY DEF CommitDaemons
<1>2. vs \in SUBSET Vrfs /\ changed \subseteq again /\ again \subseteq Ifs
  OBVIOUS
<1>3. MapsTypeOK /\ procs = Once(Registered)
  BY DEF RememberInv, ProcsInv
<1> HIDE DEF vs, dhcp, changed, again
<1>4. DOMAIN vrrpUp' = Vrfs /\ fresh' \subseteq Vrfs /\ \A v \in Vrfs \ vs : vrrpUp[v] = vrrpUp'[v]
  BY <1>1, <1>3 DEF VrrpJsonConfig, MapsTypeOK
<1>5. relayUp' = (relayUp \ again) \cup {i \in again : relay'[i] # NoRelay /\ relay'[i][1] \in groups'}
  BY <1>1 DEF RelayGroupUpdate
<1>6. relayUp' \subseteq Ifs /\ \A i : i \notin again => (i \in relayUp' <=> i \in relayUp)
  BY <1>2, <1>3, <1>5 DEF MapsTypeOK
<1>7. ASSUME NEW i \in relayUp, i \notin again PROVE relay'[i] = relay[i]
  BY <1>1, <1>2, <1>3, <1>7 DEF RelayApi, MapsTypeOK
<1>8. Swap(Keepaliveds(vrrpUp), Instances(vrrpUp), Instances(vrrpUp'), Keepaliveds(vrrpUp)')
  <2>1. Swap(Keepaliveds(vrrpUp), Instances(vrrpUp), Instances(vrrpUp'), Keepaliveds(vrrpUp'))
    BY <1>2, <1>4, KeepalivedsSwap
  <2> QED BY <2>1 DEF Keepaliveds
<1>9. Swap({Dhcpd(p) : p \in dhcpd}, Servers(dhcpd), Servers(dhcpd'), {Dhcpd(p) : p \in dhcpd'})
  <2>1. CASE dhcp
    BY <2>1, SwapAll
  <2>2. CASE ~dhcp
    BY <1>1, <2>2, SwapNone
  <2> QED BY <2>1, <2>2
<1>10. Swap(Dhcrelays(relayUp, relay), Relays(relayUp, relay), Relays(relayUp', relay'), Dhcrelays(relayUp, relay)')
  <2>1. Swap(Dhcrelays(relayUp, relay), Relays(relayUp, relay), Relays(relayUp', relay'), Dhcrelays(relayUp', relay'))
    BY <1>6, <1>7, DhcrelaysSwap
  <2> QED BY <2>1 DEF Dhcrelays
<1>11. Swap(Bgpds(quagga), {}, {}, Bgpds(quagga)') /\ Swap({Ospfd(v) : v \in ospf}, {}, {}, {Ospfd(v) : v \in ospf'})
  BY SwapNone, BgpdsSame
<1> HIDE DEF Instances, Servers, Relays
<1>12. PICK k, k2, d, d2, r, r2 :
           /\ k = Instances(vrrpUp) /\ k2 = Instances(vrrpUp')
           /\ d = Servers(dhcpd) /\ d2 = Servers(dhcpd')
           /\ r = Relays(relayUp, relay) /\ r2 = Relays(relayUp', relay')
  OBVIOUS
<1>13. Restarted(k \cup d \cup r \cup {} \cup {}, k2 \cup d2 \cup r2 \cup {} \cup {}) = Once(Registered)'
  <2>1. Replaced(k, k2, d, d2, r, r2, {}, {}, {}, {})
    BY <1>8, <1>9, <1>10, <1>11, <1>12 DEF Replaced
  <2> QED BY SMT, <1>3, <2>1, RegisteredSwap
<1>14. k \cup d \cup r \cup {} \cup {} = k \cup r \cup d /\ k2 \cup d2 \cup r2 \cup {} \cup {} = k2 \cup r2 \cup d2
  OBVIOUS
<1>15. procs' = Restarted(k \cup r \cup d, k2 \cup r2 \cup d2)
  BY <1>1, <1>12
<1>16. ProcsInv'
  BY <1>13, <1>14, <1>15 DEF ProcsInv
<1> QED BY <1>4, <1>6, <1>16

\* HandlerCommit or a session's commit
LEMMA CommittedStep ==
    ASSUME RememberInv, Committed, UNCHANGED <<mapVars, vrf, cfg, todo>>, script' = script \/ script # <<>>
    PROVE  RememberInv'
<1>1. UNCHANGED <<cache, quagga, ospf>> /\ CommitDaemons(active, candidate)
  BY DEF mapVars, Committed
<1>2. HandlerInv'
  BY <1>1, HandlerSame DEF RememberInv
<1>3. ProcsInv' /\ DOMAIN vrrpUp' = Vrfs /\ relayUp' \subseteq Ifs /\ fresh' \subseteq Vrfs
  BY <1>1, CommitStep
<1>4. MapsTypeOK'
  BY <1>1, <1>3 DEF MapsTypeOK, RememberInv
<1> QED BY <1>2, <1>3, <1>4 DEF RememberInv

\* VrrpVrfDelete stops an instance itself.
LEMMA StopStep ==
    ASSUME RememberInv, StopInstance
    PROVE  RememberInv'
<1> DEFINE v == Head(script).path[1]
           id == Head(script).path[2]
<1>1. VrrpStop(v, id) /\ script # <<>> /\ UNCHANGED <<vrf, cfg, todo, cache, quagga, ospf>>
  BY DEF StopInstance, mapVars
<1> HIDE DEF v, id
<1>2. UNCHANGED <<fresh, dhcpd, relay, relayUp>>
  BY <1>1 DEF VrrpStop
<1>3. HandlerInv'
  BY <1>1, HandlerSame DEF RememberInv
<1>4. MapsTypeOK /\ procs = Once(Registered)
  BY DEF RememberInv, ProcsInv
<1>5. CASE ~(v \in fresh /\ id \in vrrpUp[v])
  <2>1. UNCHANGED <<vrrpUp, procs>>
    BY <1>1, <1>5 DEF VrrpStop
  <2> QED BY <1>1, <1>2, <2>1, OtherStep
<1>6. CASE v \in fresh /\ id \in vrrpUp[v]
  <2>1. vrrpUp' = [vrrpUp EXCEPT ![v] = @ \ {id}] /\ procs' = Restarted({Keepalived(v, id)}, {})
    BY <1>1, <1>6 DEF VrrpStop
  <2>2. v \in Vrfs /\ DOMAIN vrrpUp = Vrfs
    BY <1>4, <1>6 DEF MapsTypeOK
  <2>3. DOMAIN vrrpUp' = Vrfs /\ vrrpUp'[v] = vrrpUp[v] \ {id} /\ \A w \in Vrfs \ {v} : vrrpUp'[w] = vrrpUp[w]
    BY <2>1, <2>2
  <2>4. Swap(Keepaliveds(vrrpUp), {Keepalived(v, id)}, {}, Keepaliveds(vrrpUp)')
    <3>1. Keepaliveds(vrrpUp)' = Keepaliveds(vrrpUp')
      BY DEF Keepaliveds
    <3>2. \A p : p \in Keepaliveds(vrrpUp) <=> \E w \in Vrfs : \E x \in vrrpUp[w] : p = Keepalived(w, x)
      BY SMT DEF Keepaliveds
    <3>3. \A p : p \in Keepaliveds(vrrpUp') <=> \E w \in Vrfs : \E x \in vrrpUp'[w] : p = Keepalived(w, x)
      BY SMT DEF Keepaliveds
    <3>4. \A a, b, x, y : Keepalived(a, x) = Keepalived(b, y) => a = b /\ x = y
      BY SMT DEF Keepalived
    <3>5. Keepalived(v, id) \in Keepaliveds(vrrpUp)
      BY <1>6, <2>2, <3>2
    <3>6. ASSUME NEW p \in Keepaliveds(vrrpUp) PROVE p = Keepalived(v, id) \/ p \in Keepaliveds(vrrpUp')
      <4>1. PICK w \in Vrfs : \E x \in vrrpUp[w] : p = Keepalived(w, x)
        BY <3>2
      <4>2. PICK x \in vrrpUp[w] : p = Keepalived(w, x)
        BY <4>1
      <4> QED BY <2>3, <3>3, <4>1, <4>2
    <3>7. ASSUME NEW p \in Keepaliveds(vrrpUp') PROVE p \in Keepaliveds(vrrpUp) /\ p # Keepalived(v, id)
      <4>1. PICK w \in Vrfs : \E x \in vrrpUp'[w] : p = Keepalived(w, x)
        BY <3>3
      <4>2. PICK x \in vrrpUp'[w] : p = Keepalived(w, x)
        BY <4>1
      <4>3. x \in vrrpUp[w] /\ ~(w = v /\ x = id)
        BY <2>3, <4>1, <4>2
      <4>4. ASSUME p = Keepalived(v, id) PROVE FALSE
        <5>1. Keepalived(w, x) = Keepalived(v, id)
          BY <4>2, <4>4
        <5>2. w = v /\ x = id
          BY SMT, <5>1 DEF Keepalived
        <5> QED BY <4>3, <5>2
      <4>5. p \in Keepaliveds(vrrpUp)
        BY <3>2, <4>2, <4>3
      <4> QED BY <4>4, <4>5
    <3>8. Keepaliveds(vrrpUp') = (Keepaliveds(vrrpUp) \ {Keepalived(v, id)}) \cup {}
      BY <3>6, <3>7
    <3> QED BY <3>1, <3>5, <3>8 DEF Swap
  <2>5. Swap(Dhcrelays(relayUp, relay), {}, {}, Dhcrelays(relayUp, relay)')
    BY <1>2, SwapNone DEF Dhcrelays
  <2>6. /\ Swap(Bgpds(quagga), {}, {}, Bgpds(quagga)') /\ Swap({Ospfd(w) : w \in ospf}, {}, {}, {Ospfd(w) : w \in ospf'})
        /\ Swap({Dhcpd(p) : p \in dhcpd}, {}, {}, {Dhcpd(p) : p \in dhcpd'})
    BY <1>1, <1>2, SwapNone, BgpdsSame
  <2>7. PICK k : k = {Keepalived(v, id)}
    OBVIOUS
  <2>8. Restarted(k \cup {} \cup {} \cup {} \cup {}, {} \cup {} \cup {} \cup {} \cup {}) = Once(Registered)'
    <3>1. Replaced(k, {}, {}, {}, {}, {}, {}, {}, {}, {})
      BY <2>4, <2>5, <2>6, <2>7 DEF Replaced
    <3> QED BY SMT, <1>4, <3>1, RegisteredSwap
  <2>9. k \cup {} \cup {} \cup {} \cup {} = k /\ {} \cup {} \cup {} \cup {} \cup {} = {}
    OBVIOUS
  <2>10. ProcsInv'
    BY <2>1, <2>7, <2>8, <2>9 DEF ProcsInv
  <2>11. MapsTypeOK'
    BY <1>1, <1>2, <1>4, <2>3 DEF MapsTypeOK
  <2> QED BY <1>3, <2>10, <2>11 DEF RememberInv
<1> QED BY <1>5, <1>6

\* The handler calls a function other than the last: those of the routing
\* daemons leave the maps as the configuration asks for, the others leave them
\* alone.
LEMMA CallStep ==
    ASSUME MapsTypeOK, HandlerInv, NEW f, f # "cache", Turn(f),
           todo' = Tail(todo), UNCHANGED <<vrf, cfg, cache>>,
           \A v \in Vrfs \ {vrf} : (v \in ospf' <=> v \in ospf) /\ quagga'[v] = quagga[v],
           f \in {"OspfVrfSync", "OspfVrfDelete"} \/ ospf' = ospf,
           f \in {"OspfVrfSync", "OspfVrfDelete"} => OspfAs(vrf, cfg)',
           f \in {"QuaggaVrfSync", "QuaggaVrfDelete"} \/ quagga' = quagga,
           f \in {"QuaggaVrfSync", "QuaggaVrfDelete"} => BgpAs(vrf, cfg)'
    PROVE  HandlerInv' /\ todo' \in Seq(HandlerFunctions)
<1>1. todo # <<>> /\ Head(todo) = f /\ todo \in Seq(HandlerFunctions)
  BY DEF Turn, MapsTypeOK
<1>2. /\ vrf \in Vrfs
      /\ \A k \in 1..Len(todo) : todo[k] = "cache" <=> k = Len(todo)
      /\ Pending("OspfVrfSync") \/ Pending("OspfVrfDelete") \/ OspfAs(vrf, cfg)
      /\ Pending("QuaggaVrfSync") \/ Pending("QuaggaVrfDelete") \/ BgpAs(vrf, cfg)
      /\ Pending("OspfVrfDelete") \/ Pending("QuaggaVrfDelete") => cfg = NoCfg
  BY <1>1 DEF HandlerInv
<1>3. /\ todo' \in Seq(HandlerFunctions)
      /\ \A g : Pending(g) => g = f \/ Pending(g)'
      /\ \A g : Pending(g)' => Pending(g)
  BY <1>1, Taken
<1>4. todo' # <<>> /\ \A k \in 1..Len(todo') : todo'[k] = "cache" <=> k = Len(todo')
  BY <1>1, <1>2, Taken
<1>5. Pending("OspfVrfSync")' \/ Pending("OspfVrfDelete")' \/ OspfAs(vrf, cfg)'
  <2>1. CASE f \in {"OspfVrfSync", "OspfVrfDelete"}
    BY <2>1
  <2>2. CASE f \notin {"OspfVrfSync", "OspfVrfDelete"}
    <3>1. OspfAs(vrf, cfg) => OspfAs(vrf, cfg)'
      BY <2>2 DEF OspfAs
    <3> QED BY <1>2, <1>3, <2>2, <3>1
  <2> QED BY <2>1, <2>2
<1>6. Pending("QuaggaVrfSync")' \/ Pending("QuaggaVrfDelete")' \/ BgpAs(vrf, cfg)'
  <2>1. CASE f \in {"QuaggaVrfSync", "QuaggaVrfDelete"}
    BY <2>1
  <2>2. CASE f \notin {"QuaggaVrfSync", "QuaggaVrfDelete"}
    <3>1. BgpAs(vrf, cfg) => BgpAs(vrf, cfg)'
      BY <2>2 DEF BgpAs
    <3> QED BY <1>2, <1>3, <2>2, <3>1
  <2> QED BY <2>1, <2>2
<1>7. Pending("OspfVrfDelete")' \/ Pending("QuaggaVrfDelete")' => cfg' = NoCfg
  BY <1>2, <1>3
<1>8. ASSUME NEW v \in Vrfs, v # vrf' PROVE OspfAs(v, cache[v])' /\ BgpAs(v, cache[v])'
  <2>1. OspfAs(v, cache[v]) /\ BgpAs(v, cache[v])
    BY <1>8 DEF HandlerInv
  <2>2. v \in Vrfs \ {vrf}
    BY <1>8
  <2> QED BY <2>1, <2>2 DEF OspfAs, BgpAs
<1> QED BY <1>2, <1>3, <1>4, <1>5, <1>6, <1>7, <1>8 DEF HandlerInv

\* A function that leaves the routing daemons alone
LEMMA PlainCall ==
    ASSUME RememberInv, NEW f, f \notin {"cache", "OspfVrfSync", "OspfVrfDelete", "QuaggaVrfSync", "QuaggaVrfDelete"},
           Turn(f), todo' = Tail(todo), fresh' \subseteq Vrfs,
           UNCHANGED <<vrf, cfg, cache, quagga, ospf, procs, vrrpUp, dhcpd, relay, relayUp>>
    PROVE  RememberInv'
<1>1. MapsTypeOK /\ HandlerInv /\ ProcsInv
  BY DEF RememberInv
<1>2. HandlerInv' /\ todo' \in Seq(HandlerFunctions)
  BY <1>1, CallStep
<1>3. MapsTypeOK'
  BY <1>1, <1>2 DEF MapsTypeOK
<1> QED BY <1>1, <1>2, <1>3, ProcsSame DEF RememberInv

\* The bgpd of a VRF are replaced.
LEMMA BgpdsStep ==
    ASSUME MapsTypeOK, ProcsInv, NEW v \in Vrfs, NEW is, quagga' = [quagga EXCEPT ![v] = is],
           procs' = Restarted({Bgpd(v, i) : i \in Range(quagga[v])}, {Bgpd(v, i) : i \in Range(is)}),
           UNCHANGED <<ospf, vrrpUp, dhcpd, relay, relayUp>>
    PROVE  /\ ProcsInv'
           /\ quagga' = [w \in Vrfs |-> quagga'[w]] /\ quagga'[v] = is
           /\ \A w \in Vrfs \ {v} : quagga'[w] = quagga[w]
<1>1. quagga = [w \in Vrfs |-> quagga[w]] /\ procs = Once(Registered)
  BY DEF MapsTypeOK, ProcsInv
<1>2. /\ quagga' = [w \in Vrfs |-> quagga'[w]] /\ quagga'[v] = is
      /\ \A w \in Vrfs \ {v} : quagga'[w] = quagga[w]
  BY SMT, <1>1
<1>3. PICK b, b2 : b = {Bgpd(v, i) : i \in Range(quagga[v])} /\ b2 = {Bgpd(v, i) : i \in Range(is)}
  OBVIOUS
<1>4. Swap(Bgpds(quagga), b, b2, Bgpds(quagga)')
  <2>1. Swap(Bgpds(quagga), b, b2, Bgpds(quagga'))
    BY <1>1, <1>3, BgpdsSwap
  <2>2. Bgpds(quagga)' = Bgpds(quagga')
    BY DEF Bgpds, Range
  <2> QED BY <2>1, <2>2
<1>5. /\ Keepaliveds(vrrpUp)' = Keepaliveds(vrrpUp) /\ Dhcrelays(relayUp, relay)' = Dhcrelays(relayUp, relay)
  BY MapsStay
<1>6. Replaced({}, {}, {}, {}, {}, {}, b, b2, {}, {})
  BY <1>4, <1>5, SwapNone DEF Replaced
<1>7. Restarted({} \cup {} \cup {} \cup b \cup {}, {} \cup {} \cup {} \cup b2 \cup {}) = Once(Registered)'
  BY SMT, <1>1, <1>6, RegisteredSwap
<1>8. {} \cup {} \cup {} \cup b \cup {} = b /\ {} \cup {} \cup {} \cup b2 \cup {} = b2
  OBVIOUS
<1>9. ProcsInv'
  BY <1>3, <1>7, <1>8 DEF ProcsInv
<1> QED BY <1>2, <1>9

\* The call of a function that deletes: the configuration is empty.
LEMMA DeleteCall ==
    ASSUME RememberInv, NEW f \in {"QuaggaVrfDelete", "OspfVrfDelete"}, Turn(f)
    PROVE  cfg = NoCfg
<1>1. todo # <<>> /\ Head(todo) = f /\ todo \in Seq(HandlerFunctions)
  BY DEF Turn, RememberInv, MapsTypeOK
<1>2. 1 \in 1..Len(todo) /\ todo[1] = f
  BY SMT, <1>1
<1>3. Pending("OspfVrfDelete") \/ Pending("QuaggaVrfDelete")
  BY <1>2 DEF Pending
<1> QED BY <1>1, <1>3 DEF RememberInv, HandlerInv

\* QuaggaVrfSync and QuaggaVrfDelete
LEMMA QuaggaCall ==
    ASSUME RememberInv, NEW f \in {"QuaggaVrfSync", "QuaggaVrfDelete"}, Turn(f),
           quagga' = [quagga EXCEPT ![vrf] = cfg.bgp],
           procs' = Restarted({Bgpd(vrf, i) : i \in Range(quagga[vrf])}, {Bgpd(vrf, i) : i \in Range(cfg.bgp)}),
           UNCHANGED <<ospf, vrrpUp, fresh, dhcpd, relay, relayUp>>,
           todo' = Tail(todo), UNCHANGED <<vrf, cfg, cache>>
    PROVE  RememberInv'
<1>1. MapsTypeOK /\ HandlerInv /\ ProcsInv /\ vrf \in Vrfs
  BY DEF RememberInv, HandlerInv, Turn
<1>2. /\ ProcsInv'
      /\ quagga' = [w \in Vrfs |-> quagga'[w]] /\ quagga'[vrf] = cfg.bgp
      /\ \A w \in Vrfs \ {vrf} : quagga'[w] = quagga[w]
  BY <1>1, BgpdsStep
<1>3. BgpAs(vrf, cfg)'
  BY <1>2 DEF BgpAs
<1>4. f \notin {"cache", "OspfVrfSync", "OspfVrfDelete"}
  OBVIOUS
<1>5. HandlerInv' /\ todo' \in Seq(HandlerFunctions)
  BY <1>1, <1>2, <1>3, <1>4, CallStep
<1>6. MapsTypeOK'
  BY <1>1, <1>2, <1>5 DEF MapsTypeOK
<1> QED BY <1>2, <1>5, <1>6 DEF RememberInv

\* What is deleted has no BGP.
LEMMA QuaggaStep ==
    ASSUME RememberInv, QuaggaVrfSync \/ QuaggaVrfDelete
    PROVE  RememberInv'
<1>1. CASE QuaggaVrfSync
  <2>1. /\ Turn("QuaggaVrfSync") /\ quagga' = [quagga EXCEPT ![vrf] = cfg.bgp]
        /\ procs' = Restarted({Bgpd(vrf, i) : i \in Range(quagga[vrf])}, {Bgpd(vrf, i) : i \in Range(cfg.bgp)})
        /\ UNCHANGED <<ospf, vrrpUp, fresh, dhcpd, relay, relayUp>>
        /\ todo' = Tail(todo) /\ UNCHANGED <<vrf, cfg, cache>>
    BY <1>1 DEF QuaggaVrfSync, QuaggaStart, Call
  <2> QED BY <2>1, QuaggaCall
<1>2. CASE QuaggaVrfDelete
  <2>1. /\ Turn("QuaggaVrfDelete") /\ quagga' = [quagga EXCEPT ![vrf] = <<>>]
        /\ procs' = Restarted({Bgpd(vrf, i) : i \in Range(quagga[vrf])}, {Bgpd(vrf, i) : i \in Range(<<>>)})
        /\ UNCHANGED <<ospf, vrrpUp, fresh, dhcpd, relay, relayUp>>
        /\ todo' = Tail(todo) /\ UNCHANGED <<vrf, cfg, cache>>
    BY <1>2 DEF QuaggaVrfDelete, QuaggaStart, Call
  <2>2. cfg.bgp = <<>>
    <3>1. cfg = NoCfg
      BY <2>1, DeleteCall
    <3> QED BY <3>1 DEF NoCfg
  <2> QED BY <2>1, <2>2, QuaggaCall
<1> QED BY <1>1, <1>2

\* The ospfd of a VRF is stopped, and started if it is to run.
LEMMA OspfdsStep ==
    ASSUME MapsTypeOK, ProcsInv, NEW v \in Vrfs, ospf' = ospf \cup {v} \/ ospf' = ospf \ {v},
           procs' = Restarted({Ospfd(w) : w \in ospf \cap {v}}, {Ospfd(w) : w \in ospf' \cap {v}}),
           UNCHANGED <<quagga, vrrpUp, dhcpd, relay, relayUp>>
    PROVE  ProcsInv'
<1>1. procs = Once(Registered)
  BY DEF ProcsInv
<1>2. PICK o, o2 : o = {Ospfd(w) : w \in ospf \cap {v}} /\ o2 = {Ospfd(w) : w \in ospf' \cap {v}}
  OBVIOUS
<1>3. Swap({Ospfd(w) : w \in ospf}, o, o2, {Ospfd(w) : w \in ospf'})
  BY <1>2, OspfdsSwap
<1>4. Replaced({}, {}, {}, {}, {}, {}, {}, {}, o, o2)
  BY <1>3, MapsStay, BgpdsSame, SwapNone DEF Replaced
<1>5. Restarted({} \cup {} \cup {} \cup {} \cup o, {} \cup {} \cup {} \cup {} \cup o2) = Once(Registered)'
  BY SMT, <1>1, <1>4, RegisteredSwap
<1>6. {} \cup {} \cup {} \cup {} \cup o = o /\ {} \cup {} \cup {} \cup {} \cup o2 = o2
  OBVIOUS
<1> QED BY <1>2, <1>5, <1>6 DEF ProcsInv

\* OspfVrfSync and OspfVrfDelete
LEMMA OspfCall ==
    ASSUME RememberInv, NEW f \in {"OspfVrfSync", "OspfVrfDelete"}, Turn(f),
           ospf' = IF cfg.ospf THEN ospf \cup {vrf} ELSE ospf \ {vrf},
           procs' = Restarted({Ospfd(v) : v \in ospf \cap {vrf}}, {Ospfd(v) : v \in ospf' \cap {vrf}}),
           UNCHANGED <<quagga, vrrpUp, fresh, dhcpd, relay, relayUp>>,
           todo' = Tail(todo), UNCHANGED <<vrf, cfg, cache>>
    PROVE  RememberInv'
<1>1. MapsTypeOK /\ HandlerInv /\ ProcsInv /\ vrf \in Vrfs
  BY DEF RememberInv, HandlerInv, Turn
<1>2. ospf' = ospf \cup {vrf} \/ ospf' = ospf \ {vrf}
  OBVIOUS
<1>3. ProcsInv'
  BY <1>1, <1>2, OspfdsStep
<1>4. \A v \in Vrfs \ {vrf} : v \in ospf' <=> v \in ospf
  BY <1>2
<1>5. OspfAs(vrf, cfg)'
  BY DEF OspfAs
<1>6. f \notin {"cache", "QuaggaVrfSync", "QuaggaVrfDelete"}
  OBVIOUS
<1>7. HandlerInv' /\ todo' \in Seq(HandlerFunctions)
  BY <1>1, <1>4, <1>5, <1>6, CallStep
<1>8. ospf' \subseteq Vrfs
  BY <1>1, <1>2 DEF MapsTypeOK
<1>9. MapsTypeOK'
  BY <1>1, <1>7, <1>8 DEF MapsTypeOK
<1> QED BY <1>3, <1>7, <1>9 DEF RememberInv

\* What is deleted has no OSPF.
LEMMA OspfStep ==
    ASSUME RememberInv, OspfVrfSync \/ OspfVrfDelete
    PROVE  RememberInv'
<1>1. CASE OspfVrfSync
  <2>1. /\ Turn("OspfVrfSync") /\ ospf' = IF cfg.ospf THEN ospf \cup {vrf} ELSE ospf \ {vrf}
        /\ procs' = Restarted({Ospfd(v) : v \in ospf \cap {vrf}}, {Ospfd(v) : v \in ospf' \cap {vrf}})
        /\ UNCHANGED <<quagga, vrrpUp, fresh, dhcpd, relay, relayUp>>
        /\ todo' = Tail(todo) /\ UNCHANGED <<vrf, cfg, cache>>
    BY <1>1 DEF OspfVrfSync, OspfStart, Call
  <2> QED BY <2>1, OspfCall
<1>2. CASE OspfVrfDelete
  <2>1. /\ Turn("OspfVrfDelete") /\ ospf' = ospf \ {vrf}
        /\ procs' = Restarted({Ospfd(v) : v \in ospf \cap {vrf}}, {Ospfd(v) : v \in ospf' \cap {vrf}})
        /\ UNCHANGED <<quagga, vrrpUp, fresh, dhcpd, relay, relayUp>>
        /\ todo' = Tail(todo) /\ UNCHANGED <<vrf, cfg, cache>>
    BY <1>2 DEF OspfVrfDelete, OspfStart, Call
  <2>2. ~cfg.ospf
    <3>1. cfg = NoCfg
      BY <2>1, DeleteCall
    <3> QED BY <3>1 DEF NoCfg
  <2>3. ospf' = IF cfg.ospf THEN ospf \cup {vrf} ELSE ospf \ {vrf}
    BY <2>1, <2>2
  <2> QED BY <2>1, <2>3, OspfCall
<1> QED BY <1>1, <1>2

\* The functions that are about none of the routing daemons
LEMMA PlainStep ==
    ASSUME RememberInv,
           \/ EtcdVrfSync \/ DhcpVrfSync \/ VrrpVrfSync \/ DistributeListSync \/ EtcdVrfStaticUpdate
           \/ DhcpVrfDelete \/ VrrpVrfDelete \/ DistributeListDelete \/ EtcdVrfDelete
    PROVE  RememberInv'
<1>1. PICK f :
          /\ f \notin {"cache", "OspfVrfSync", "OspfVrfDelete", "QuaggaVrfSync", "QuaggaVrfDelete"}
          /\ Turn(f) /\ todo' = Tail(todo) /\ UNCHANGED <<vrf, cfg, cache>>
          /\ fresh' = fresh \/ fresh' = {vrf}
          /\ UNCHANGED <<quagga, ospf, procs, vrrpUp, dhcpd, relay, relayUp>>
  <2>1. CASE EtcdVrfSync
    BY <2>1 DEF EtcdVrfSync, daemonVars, Call
  <2>2. CASE DhcpVrfSync
    BY <2>2 DEF DhcpVrfSync, daemonVars, Call
  <2>3. CASE VrrpVrfSync
    BY <2>3 DEF VrrpVrfSync, daemonVars, Call
  <2>4. CASE DistributeListSync
    BY <2>4 DEF DistributeListSync, daemonVars, Call
  <2>5. CASE EtcdVrfStaticUpdate
    BY <2>5 DEF EtcdVrfStaticUpdate, daemonVars, Call
  <2>6. CASE DhcpVrfDelete
    BY <2>6 DEF DhcpVrfDelete, daemonVars, Call
  <2>7. CASE VrrpVrfDelete
    BY <2>7 DEF VrrpVrfDelete, daemonVars, Call
  <2>8. CASE DistributeListDelete
    BY <2>8 DEF DistributeListDelete, daemonVars, Call
  <2>9. CASE EtcdVrfDelete
    BY <2>9 DEF EtcdVrfDelete, daemonVars, Call
  <2> QED BY <2>1, <2>2, <2>3, <2>4, <2>5, <2>6, <2>7, <2>8, <2>9
<1>2. vrf \in Vrfs /\ fresh \subseteq Vrfs
  BY <1>1 DEF RememberInv, MapsTypeOK, HandlerInv, Turn
<1> QED BY <1>1, <1>2, PlainCall

\* The end of the handler: the cache says what the maps say.
LEMMA CachedStep ==
    ASSUME RememberInv, Cached
    PROVE  RememberInv'
<1>1. /\ Turn("cache") /\ cache' = [cache EXCEPT ![vrf] = cfg] /\ todo' = <<>> /\ fresh' = {}
      /\ UNCHANGED <<quagga, ospf, script, procs, vrrpUp, dhcpd, relay, relayUp>>
  BY DEF Cached
<1>2. MapsTypeOK /\ HandlerInv /\ ProcsInv
  BY DEF RememberInv
<1>3. todo # <<>> /\ Head(todo) = "cache" /\ todo \in Seq(HandlerFunctions) /\ script = <<>> /\ vrf \in Vrfs
  BY <1>1, <1>2 DEF Turn, MapsTypeOK, HandlerInv
<1>4. Len(todo) = 1 /\ todo[1] = "cache"
  <2>1. 1 \in 1..Len(todo) /\ todo[1] = "cache"
    BY SMT, <1>3
  <2>2. todo[1] = "cache" <=> 1 = Len(todo)
    BY <1>2, <1>3, <2>1 DEF HandlerInv
  <2> QED BY <2>1, <2>2
<1>5. \A f : f # "cache" => ~Pending(f)
  BY SMT, <1>4 DEF Pending
<1>6. OspfAs(vrf, cfg) /\ BgpAs(vrf, cfg)
  BY <1>2, <1>3, <1>5 DEF HandlerInv
<1>7. /\ cache' = [v \in Vrfs |-> cache'[v]] /\ cache'[vrf] = cfg
      /\ \A v \in Vrfs \ {vrf} : cache'[v] = cache[v]
  <2>1. cache = [v \in Vrfs |-> cache[v]]
    BY <1>2 DEF MapsTypeOK
  <2>2. cache' = [cache EXCEPT ![vrf] = cfg] /\ vrf \in Vrfs
    BY <1>1, <1>3
  <2> QED BY SMT, <2>1, <2>2
<1>8. ASSUME NEW v \in Vrfs PROVE OspfAs(v, cache[v])' /\ BgpAs(v, cache[v])'
  <2>1. CASE v = vrf
    BY <1>1, <1>6, <1>7, <2>1 DEF OspfAs, BgpAs
  <2>2. CASE v # vrf
    <3>1. OspfAs(v, cache[v]) /\ BgpAs(v, cache[v]) /\ cache'[v] = cache[v]
      BY <1>2, <1>7, <2>2 DEF HandlerInv
    <3> QED BY <1>1, <3>1 DEF OspfAs, BgpAs
  <2> QED BY <2>1, <2>2
<1>9. HandlerInv'
  BY <1>1, <1>3, <1>8 DEF HandlerInv
<1>10. todo' \in Seq(HandlerFunctions)
  BY SMT, <1>1
<1>11. MapsTypeOK'
  BY <1>1, <1>2, <1>7, <1>10 DEF MapsTypeOK
<1>12. ProcsInv'
  BY <1>1, <1>2, ProcsSame
<1> QED BY <1>9, <1>11, <1>12 DEF RememberInv


\* The functions of a handler that is given c: the last one writes the cache,
\* and those of the routing daemons are among them.
Plan(functions, c) ==
    /\ functions \in Seq(HandlerFunctions) /\ functions # <<>>
    /\ \A k \in 1..Len(functions) : functions[k] = "cache" <=> k = Len(functions)
    /\ \/ /\ \E k \in 1..Len(functions) : functions[k] = "OspfVrfSync"
          /\ \E k \in 1..Len(functions) : functions[k] = "QuaggaVrfSync"
          /\ \A k \in 1..Len(functions) : functions[k] \notin {"OspfVrfDelete", "QuaggaVrfDelete"}
       \/ /\ \E k \in 1..Len(functions) : functions[k] = "OspfVrfDelete"
          /\ \E k \in 1..Len(functions) : functions[k] = "QuaggaVrfDelete"
          /\ c = NoCfg

\* A handler begins: its VRF's routing daemons are still to come.
LEMMA BeginStep ==
    ASSUME RememberInv, NEW v \in Vrfs, NEW c, NEW functions, Begin(v, c, functions), Plan(functions, c)
    PROVE  RememberInv'
<1>1. /\ todo = <<>> /\ vrf' = v /\ cfg' = c /\ todo' = functions
      /\ UNCHANGED <<cache, quagga, ospf, script, procs, vrrpUp, fresh, dhcpd, relay, relayUp>>
  BY DEF Begin, Idle, mapVars, daemonVars
<1>2. MapsTypeOK /\ HandlerInv /\ ProcsInv
  BY DEF RememberInv
<1>3. \A f : Pending(f)' <=> \E k \in 1..Len(functions) : functions[k] = f
  BY <1>1 DEF Pending
<1>4. ASSUME NEW w \in Vrfs PROVE OspfAs(w, cache[w])' /\ BgpAs(w, cache[w])'
  <2>1. OspfAs(w, cache[w]) /\ BgpAs(w, cache[w])
    BY <1>1, <1>2 DEF HandlerInv
  <2> QED BY <1>1, <2>1 DEF OspfAs, BgpAs
<1>5. /\ Pending("OspfVrfSync")' \/ Pending("OspfVrfDelete")'
      /\ Pending("QuaggaVrfSync")' \/ Pending("QuaggaVrfDelete")'
      /\ Pending("OspfVrfDelete")' \/ Pending("QuaggaVrfDelete")' => cfg' = NoCfg
  BY <1>1, <1>3 DEF Plan
<1>6. HandlerInv'
  BY <1>1, <1>4, <1>5 DEF HandlerInv, Plan
<1>7. MapsTypeOK'
  BY <1>1, <1>2 DEF MapsTypeOK, Plan
<1>8. ProcsInv'
  BY <1>1, <1>2, ProcsSame
<1> QED BY <1>6, <1>7, <1>8 DEF RememberInv

\* A key is put.
LEMMA ParseStep ==
    ASSUME RememberInv, NEW v \in Vrfs, NEW c, VrfParse(v, c)
    PROVE  RememberInv'
<1>1. PICK functions : functions = <<"EtcdVrfSync", "DhcpVrfSync", "VrrpVrfSync", "QuaggaVrfSync", "OspfVrfSync",
                                     "DistributeListSync", "EtcdVrfStaticUpdate", "cache">>
  OBVIOUS
<1>2. Begin(v, c, functions)
  BY <1>1 DEF VrfParse
<1>3. /\ functions \in Seq(HandlerFunctions) /\ functions # <<>> /\ Len(functions) = 8
      /\ functions[1] = "EtcdVrfSync" /\ functions[2] = "DhcpVrfSync" /\ functions[3] = "VrrpVrfSync" /\ functions[4] = "QuaggaVrfSync"
      /\ functions[5] = "OspfVrfSync" /\ functions[6] = "DistributeListSync" /\ functions[7] = "EtcdVrfStaticUpdate" /\ functions[8] = "cache"
  <2>4. Len(functions) = 8 /\ functions = [k \in 1..8 |-> functions[k]]
    BY SMT, <1>1
  <2>5. functions # <<>>
    BY SMT, <2>4
  <2>2. functions[1] = "EtcdVrfSync" /\ functions[2] = "DhcpVrfSync" /\ functions[3] = "VrrpVrfSync" /\ functions[4] = "QuaggaVrfSync"
    BY SMT, <1>1
  <2>3. functions[5] = "OspfVrfSync" /\ functions[6] = "DistributeListSync" /\ functions[7] = "EtcdVrfStaticUpdate" /\ functions[8] = "cache"
    BY SMT, <1>1
  <2>6. \A k \in 1..8 : k = 1 \/ k = 2 \/ k = 3 \/ k = 4 \/ k = 5 \/ k = 6 \/ k = 7 \/ k = 8
    BY SMT
  <2>7. \A k \in 1..8 : functions[k] \in HandlerFunctions
    BY <2>2, <2>3, <2>6 DEF HandlerFunctions
  <2>8. functions \in Seq(HandlerFunctions)
    BY SMT, <2>4, <2>7
  <2> QED BY <2>2, <2>3, <2>4, <2>5, <2>8
<1>4. /\ 4 \in 1..8 /\ 5 \in 1..8
      /\ \A k \in 1..8 : k = 1 \/ k = 2 \/ k = 3 \/ k = 4 \/ k = 5 \/ k = 6 \/ k = 7 \/ k = 8
      /\ 1 # 8 /\ 2 # 8 /\ 3 # 8 /\ 4 # 8 /\ 5 # 8 /\ 6 # 8 /\ 7 # 8
  BY SMT
<1>5. ASSUME NEW k \in 1..8
      PROVE  (functions[k] = "cache" <=> k = 8) /\ functions[k] \notin {"OspfVrfDelete", "QuaggaVrfDelete"}
  BY <1>3, <1>4
<1>6. /\ \E k \in 1..Len(functions) : functions[k] = "OspfVrfSync"
      /\ \E k \in 1..Len(functions) : functions[k] = "QuaggaVrfSync"
  BY <1>3, <1>4
<1>7. \A k \in 1..Len(functions) : functions[k] = "cache" <=> k = Len(functions)
  BY <1>3, <1>5
<1>8. \A k \in 1..Len(functions) : functions[k] \notin {"OspfVrfDelete", "QuaggaVrfDelete"}
  BY <1>3, <1>5
<1>9. Plan(functions, c)
  BY <1>3, <1>6, <1>7, <1>8 DEF Plan
<1> QED BY <1>2, <1>9, BeginStep

\* A key is deleted, or ribd has connected again.
LEMMA DeleteStep ==
    ASSUME RememberInv, NEW v \in Vrfs, VrfDelete(v)
    PROVE  RememberInv'
<1>1. PICK functions : functions = <<"DhcpVrfDelete", "VrrpVrfDelete", "QuaggaVrfDelete", "OspfVrfDelete",
                                     "DistributeListDelete", "EtcdVrfDelete", "cache">>
  OBVIOUS
<1>2. Begin(v, NoCfg, functions)
  BY <1>1 DEF VrfDelete
<1>3. /\ functions \in Seq(HandlerFunctions) /\ functions # <<>> /\ Len(functions) = 7
      /\ functions[1] = "DhcpVrfDelete" /\ functions[2] = "VrrpVrfDelete" /\ functions[3] = "QuaggaVrfDelete" /\ functions[4] = "OspfVrfDelete"
      /\ functions[5] = "DistributeListDelete" /\ functions[6] = "EtcdVrfDelete" /\ functions[7] = "cache"
  <2>4. Len(functions) = 7 /\ functions = [k \in 1..7 |-> functions[k]]
    BY SMT, <1>1
  <2>5. functions # <<>>
    BY SMT, <2>4
  <2>2. functions[1] = "DhcpVrfDelete" /\ functions[2] = "VrrpVrfDelete" /\ functions[3] = "QuaggaVrfDelete" /\ functions[4] = "OspfVrfDelete"
    BY SMT, <1>1
  <2>3. functions[5] = "DistributeListDelete" /\ functions[6] = "EtcdVrfDelete" /\ functions[7] = "cache"
    BY SMT, <1>1
  <2>6. \A k \in 1..7 : k = 1 \/ k = 2 \/ k = 3 \/ k = 4 \/ k = 5 \/ k = 6 \/ k = 7
    BY SMT
  <2>7. \A k \in 1..7 : functions[k] \in HandlerFunctions
    BY <2>2, <2>3, <2>6 DEF HandlerFunctions
  <2>8. functions \in Seq(HandlerFunctions)
    BY SMT, <2>4, <2>7
  <2> QED BY <2>2, <2>3, <2>4, <2>5, <2>8
<1>4. /\ 3 \in 1..7 /\ 4 \in 1..7
      /\ \A k \in 1..7 : k = 1 \/ k = 2 \/ k = 3 \/ k = 4 \/ k = 5 \/ k = 6 \/ k = 7
      /\ 1 # 7 /\ 2 # 7 /\ 3 # 7 /\ 4 # 7 /\ 5 # 7 /\ 6 # 7
  BY SMT
<1>5. ASSUME NEW k \in 1..7 PROVE functions[k] = "cache" <=> k = 7
  BY <1>3, <1>4
<1>6. /\ \E k \in 1..Len(functions) : functions[k] = "OspfVrfDelete"
      /\ \E k \in 1..Len(functions) : functions[k] = "QuaggaVrfDelete"
  BY <1>3, <1>4
<1>7. \A k \in 1..Len(functions) : functions[k] = "cache" <=> k = Len(functions)
  BY <1>3, <1>5
<1>8. Plan(functions, NoCfg)
  BY <1>3, <1>6, <1>7 DEF Plan
<1> QED BY <1>2, <1>8, BeginStep

\* QuaggaDelete between two handlers: the VRF's bgpd are gone until its next key.
LEMMA BgpDeleteStep ==
    ASSUME RememberInv, NEW v \in Vrfs, BgpKeyDelete(v)
    PROVE  RememberInv'
<1>1. /\ todo = <<>> /\ script = <<>> /\ quagga' = [quagga EXCEPT ![v] = <<>>]
      /\ procs' = Restarted({Bgpd(v, i) : i \in Range(quagga[v])}, {})
      /\ UNCHANGED <<cache, ospf, todo, script, vrrpUp, fresh, dhcpd, relay, relayUp>>
  BY DEF BgpKeyDelete, Idle, jobVars
<1>2. MapsTypeOK /\ HandlerInv /\ ProcsInv
  BY DEF RememberInv
<1>3. {Bgpd(v, i) : i \in Range(<<>>)} = {}
  BY SMT DEF Range
<1>4. /\ ProcsInv'
      /\ quagga' = [w \in Vrfs |-> quagga'[w]] /\ quagga'[v] = <<>>
      /\ \A w \in Vrfs \ {v} : quagga'[w] = quagga[w]
  BY <1>1, <1>2, <1>3, BgpdsStep
<1>5. ASSUME NEW w \in Vrfs PROVE OspfAs(w, cache[w])' /\ BgpAs(w, cache[w])'
  <2>1. OspfAs(w, cache[w]) /\ BgpAs(w, cache[w])
    BY <1>1, <1>2 DEF HandlerInv
  <2>2. quagga'[w] = quagga[w] \/ quagga'[w] = <<>>
    BY <1>4
  <2> QED BY <1>1, <2>1, <2>2 DEF OspfAs, BgpAs
<1>6. HandlerInv'
  BY <1>1, <1>5 DEF HandlerInv
<1>7. MapsTypeOK'
  BY <1>1, <1>2, <1>4 DEF MapsTypeOK
<1> QED BY <1>4, <1>6, <1>7 DEF RememberInv

\* openconfigd starts with no process and empty maps.
LEMMA RememberInit ==
    ASSUME Init
    PROVE  RememberInv
<1>1. /\ cache = [v \in Vrfs |-> NoCfg] /\ quagga = [v \in Vrfs |-> <<>>] /\ ospf = {}
      /\ todo = <<>> /\ script = <<>> /\ vrrpUp = [v \in Vrfs |-> {}] /\ fresh = {} /\ dhcpd = {}
      /\ relayUp = {} /\ procs = Once({})
  BY DEF Init, DaemonsInit
<1>2. todo \in Seq(HandlerFunctions)
  BY SMT, <1>1
<1>3. MapsTypeOK
  BY <1>1, <1>2 DEF MapsTypeOK
<1>4. ASSUME NEW v \in Vrfs PROVE OspfAs(v, cache[v]) /\ BgpAs(v, cache[v])
  <2>1. cache[v] = NoCfg /\ quagga[v] = <<>>
    BY <1>1
  <2>2. ~NoCfg.ospf
    BY DEF NoCfg
  <2> QED BY <1>1, <2>1, <2>2 DEF OspfAs, BgpAs
<1>5. HandlerInv
  BY <1>1, <1>4 DEF HandlerInv
<1>6. Registered = {}
  <2>1. \A v \in Vrfs : vrrpUp[v] = {}
    BY <1>1
  <2>2. Keepaliveds(vrrpUp) = {}
    BY <2>1 DEF Keepaliveds
  <2>3. \A v \in Vrfs : Range(quagga[v]) = {}
    <3>1. Range(<<>>) = {}
      BY SMT DEF Range
    <3> QED BY <1>1, <3>1
  <2>4. Bgpds(quagga) = {}
    BY <2>3 DEF Bgpds
  <2>5. Dhcrelays(relayUp, relay) = {}
    BY <1>1 DEF Dhcrelays
  <2> QED BY <1>1, <2>2, <2>4, <2>5 DEF Registered
<1>7. ProcsInv
  BY <1>1, <1>6 DEF ProcsInv
<1> QED BY <1>3, <1>5, <1>7 DEF RememberInv

\* Every step preserves the invariant.
LEMMA RememberInductive ==
    ASSUME RememberInv, [Next]_vars
    PROVE  RememberInv'
<1>1. CASE ExecLine
  BY <1>1, OtherStep DEF ExecLine, mapVars, daemonVars
<1>2. CASE ExecLineWaitIfNoMatch
  BY <1>2, OtherStep DEF ExecLineWaitIfNoMatch, mapVars, daemonVars
<1>3. CASE UnlistVrf
  BY <1>3, OtherStep DEF UnlistVrf, mapVars, daemonVars
<1>4. CASE HandlerCommit
  <2>1. script # <<>> /\ UNCHANGED <<mapVars, vrf, cfg, todo>>
    BY <1>4 DEF HandlerCommit
  <2>2. CASE Committed
    BY <2>1, <2>2, CommittedStep
  <2>3. CASE UNCHANGED daemonVars
    BY <2>1, <2>3, OtherStep DEF mapVars, daemonVars
  <2> QED BY <1>4, <2>2, <2>3 DEF HandlerCommit
<1>5. CASE SessionCommit
  <2>1. Committed /\ UNCHANGED <<mapVars, vrf, cfg, todo>> /\ script' = script
    BY <1>5 DEF SessionCommit, jobVars
  <2> QED BY <2>1, CommittedStep
<1>6. CASE ConfigDiscard
  BY <1>6, OtherStep DEF ConfigDiscard, mapVars, jobVars, daemonVars
<1>7. CASE RibdReport
  BY <1>7, OtherStep DEF RibdReport, mapVars, jobVars, daemonVars
<1>8. CASE ClearVrfCache
  BY <1>8, OtherStep DEF ClearVrfCache, mapVars, daemonVars
<1>9. CASE UNCHANGED vars
  BY <1>9, OtherStep DEF vars, mapVars, jobVars, daemonVars
<1>10. CASE Handler
  <2>1. CASE QuaggaVrfSync \/ QuaggaVrfDelete
    BY <2>1, QuaggaStep
  <2>2. CASE OspfVrfSync \/ OspfVrfDelete
    BY <2>2, OspfStep
  <2>3. CASE \/ EtcdVrfSync \/ DhcpVrfSync \/ VrrpVrfSync \/ DistributeListSync \/ EtcdVrfStaticUpdate
             \/ DhcpVrfDelete \/ VrrpVrfDelete \/ DistributeListDelete \/ EtcdVrfDelete
    BY <2>3, PlainStep
  <2> QED BY <1>1, <1>2, <1>3, <1>4, <1>10, <2>1, <2>2, <2>3, StopStep, CachedStep DEF Handler
<1>11. ASSUME NEW v \in Vrfs, (\E c \in Cfgs[v] : VrfParse(v, c)) \/ VrfDelete(v) \/ BgpKeyDelete(v)
       PROVE  RememberInv'
  <2>1. ASSUME NEW c, VrfParse(v, c) PROVE RememberInv'
    BY <2>1, ParseStep
  <2>2. CASE VrfDelete(v)
    BY <2>2, DeleteStep
  <2>3. CASE BgpKeyDelete(v)
    BY <2>3, BgpDeleteStep
  <2> QED BY <1>11, <2>1, <2>2, <2>3
<1> QED BY <1>5, <1>6, <1>7, <1>8, <1>9, <1>10, <1>11 DEF Next

\* The invariant is stronger than what is promised.
LEMMA RememberImplies ==
    ASSUME RememberInv
    PROVE  Remembered
<1>1. MapsTypeOK /\ HandlerInv /\ procs = Once(Registered)
  BY DEF RememberInv, ProcsInv
<1>2. ASSUME Idle PROVE ospf = {v \in Vrfs : cache[v].ospf} /\ \A v \in Vrfs : quagga[v] \in {<<>>, cache[v].bgp}
  <2>1. \A v \in Vrfs : OspfAs(v, cache[v]) /\ BgpAs(v, cache[v])
    BY <1>1, <1>2 DEF Idle, HandlerInv
  <2>2. ospf = {v \in Vrfs : cache[v].ospf}
    BY <1>1, <2>1 DEF OspfAs, MapsTypeOK
  <2>3. \A v \in Vrfs : quagga[v] \in {<<>>, cache[v].bgp}
    BY <2>1 DEF BgpAs
  <2> QED BY <2>2, <2>3
<1> QED BY <1>1, <1>2 DEF Remembered

\* No process is forgotten or started twice, whatever the sequence of keys, the
\* sessions' commits and discards, failed commits and ribd's reports: after
\* every step the running processes are exactly those that the maps of VRRP
\* instances, DHCP servers and relays, QuaggaProc and OspfProcessMap know, and
\* between two handlers the routing daemons are those of EtcdVrfMap.
THEOREM ProcessesRemembered == Spec => []Remembered
<1>1. Init => RememberInv
  BY RememberInit
<1>2. RememberInv /\ [Next]_vars => RememberInv'
  BY RememberInductive
<1>3. RememberInv => Remembered
  BY RememberImplies
<1> QED BY <1>1, <1>2, <1>3, PTL DEF Spec

=============================================================================
