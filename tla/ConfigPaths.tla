---------------------------- MODULE ConfigPaths ----------------------------
(***************************************************************************)
(* A configuration as the set of its paths: list entries and leaves, the   *)
(* value of a leaf being the last element.  Containers are there as long   *)
(* as something is below them, which is what Set and the pruning of Delete *)
(* make of them; an entry of a list stays when its last child goes.  The   *)
(* paths used are                                                          *)
(*    <<"vrf", v>>  <<"vrf", v, "dlist">>  <<"vrf", v, "vrrp", id>>        *)
(*    <<"vrf", v, "static", prefix>>                                       *)
(*    <<"vrf", v, "static", prefix, nexthop>>                              *)
(*    <<"if", i>>  <<"if", i, "in", v>>  <<"if", i, "ipv4", address>>      *)
(*    <<"if", i, "vlan", n>>  <<"if", i, "relay", group>>                  *)
(*    <<"pool", i>>  <<"group", g>>  <<"plist", v>>  <<"opt", "walker">>   *)
(***************************************************************************)
EXTENDS Naturals, Sequences

\* The last elements of the paths of c that extend p by one
Entries(c, p) == {q[Len(q)] : q \in {r \in c : SubSeq(r, 1, Len(r) - 1) = p}}

\* A leaf has one value.
Leaves == {"in", "relay"}

OtherValues(c, p) ==
    {q \in c : Len(q) = 4 /\ q[3] \in Leaves /\ SubSeq(q, 1, 3) = SubSeq(p, 1, 3)}

\* The list entries a path is in: that of a route, and a VRF or an interface
EntriesOf(p) == {SubSeq(p, 1, 2)} \cup (IF Len(p) = 5 THEN {SubSeq(p, 1, 4)} ELSE {})

\* `set': the path, and the list entries it is in
SetPath(c, p) == (IF Len(p) = 4 THEN c \ OtherValues(c, p) ELSE c) \cup {p} \cup EntriesOf(p)

\* `delete': everything from p on; nothing when there is no match.  The list
\* entries that p is in stay, even if nothing is left below them.
DeletePath(c, p) == {q \in c : Len(q) < Len(p) \/ SubSeq(q, 1, Len(p)) # p}

=============================================================================
