----------------------------- MODULE MCQuaggad -----------------------------
(***************************************************************************)
(* Quaggad for TLC.  The configurations of a behaviour are either those    *)
(* with a prefix list that changes, an access list, and a neighbour that   *)
(* applies the prefix list, or those with route maps, one of which calls   *)
(* the other.  Two of each are invalid.                                    *)
(***************************************************************************)
EXTENDS Quaggad

VARIABLE scope

Tree(ps) == UNION {Parents(p) : p \in ps}

Prefix(rule, action) == <<"prefix-list", "l", rule, "action", action>>
Permit == {Prefix("1", "permit")}
Deny == {Prefix("1", "deny"), Prefix("2", "permit")}
Access == {<<"access-list", "l", "1", "action", "permit">>}
Neighbor == {<<"neighbor", "l">>}

ListScope == {Tree(c) : c \in {{}, Permit, Deny, Permit \cup Access,
                               Permit \cup Neighbor, Neighbor, {<<"prefix-list", "l", "1">>}}}

Map(leaf, v) == <<"route-map", "l", "1", leaf, v>>
Accept == {Map("action", "permit")}
Refuse == {Map("action", "deny")}
Metric == {Map("metric", "5")}
Second == {<<"route-map", "l", "2", "action", "deny">>}
Call == {Map("call", "m")}
Called == {<<"route-map", "m", "1", "action", "permit">>}
Source == {<<"prefix-list", "l">>, Map("source", "l"), Map("nexthop", "l")}

MapScope == {Tree(c) : c \in {{}, Accept \cup Metric, Refuse \cup Metric \cup Second,
                              Accept \cup {Map("metric", "6")} \cup Source, Accept \cup Call \cup Called,
                              Accept \cup Call, Metric}}

MCConfigs == ListScope \cup MapScope

MCInit == Init /\ scope \in {"lists", "maps"}
MCNext ==
    /\ Next /\ UNCHANGED scope
    /\ commits' # commits => {active, target}' \subseteq (IF scope = "lists" THEN ListScope ELSE MapScope)
MCSpec == MCInit /\ [][MCNext]_<<vars, scope>>
=============================================================================
