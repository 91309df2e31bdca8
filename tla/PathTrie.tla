------------------------------ MODULE PathTrie ------------------------------
(***************************************************************************)
(* The tree of subscription paths (Path, RegisterPath, UnregisterPath in   *)
(* config/subscribe.go) and the way a command finds its subscribers in it  *)
(* (PathRegisterCommand).                                                  *)
(*                                                                         *)
(* A node is the sequence of words from the root, and is in nodes when it  *)
(* is reachable through the Maps.  A Subscriber lives once: a module that  *)
(* connects again is a new one.                                            *)
(***************************************************************************)
EXTENDS Integers, Sequences, FiniteSets

CONSTANTS
    Subs,        \* subscribers
    PathSet,     \* paths they subscribe to: non-empty sequences of words
    Commands     \* commands: sequences of words

Prefixes(p) == {SubSeq(p, 1, i) : i \in 1 .. Len(p)}
Nodes == UNION {Prefixes(p) : p \in PathSet}

ASSUME SubsFinite == IsFiniteSet(Subs)
ASSUME PathsFinite == IsFiniteSet(PathSet) /\ \A p \in PathSet : p \in Prefixes(p)
ASSUME Words == PathSet \cup Commands \subseteq Seq(STRING)

VARIABLES
    alive,       \* subscribers in SubscribeMap
    fresh,       \* subscribers that have not connected yet
    sub,         \* the paths of sub.SubPath
    nodes,       \* the nodes in the tree
    refcnt,      \* Refcnt of each node
    at           \* the owners of Path.SubPath of each node

vars == <<alive, fresh, sub, nodes, refcnt, at>>

TypeOK ==
    /\ alive \subseteq Subs
    /\ fresh \subseteq Subs
    /\ sub \in [Subs -> SUBSET PathSet]
    /\ nodes \subseteq Nodes
    /\ refcnt \in [Nodes -> Nat]
    /\ at \in [Nodes -> SUBSET Subs]

Init ==
    /\ alive = {}
    /\ fresh = Subs
    /\ sub = [s \in Subs |-> {}]
    /\ nodes = {}
    /\ refcnt = [n \in Nodes |-> 0]
    /\ at = [n \in Nodes |-> {}]

-----------------------------------------------------------------------------
(* Subscribing and leaving *)

\* Only the last node of the path is counted.
RegisterPathLeaf(s, p) ==
    /\ p \notin sub[s]
    /\ sub' = [sub EXCEPT ![s] = @ \cup {p}]
    /\ nodes' = nodes \cup Prefixes(p)
    /\ refcnt' = [n \in Nodes |-> IF n = p THEN refcnt[n] + 1 ELSE refcnt[n]]
    /\ at' = [at EXCEPT ![p] = @ \cup {s}]

RegisterPath(s, p) ==
    /\ p \notin sub[s]
    /\ sub' = [sub EXCEPT ![s] = @ \cup {p}]
    /\ nodes' = nodes \cup Prefixes(p)
    /\ refcnt' = [n \in Nodes |-> IF n \in Prefixes(p) THEN refcnt[n] + 1 ELSE refcnt[n]]
    /\ at' = [at EXCEPT ![p] = @ \cup {s}]

SubscribeRemoteAdd(s, p) ==
    /\ s \in alive \cup fresh
    /\ alive' = alive \cup {s}
    /\ fresh' = fresh \ {s}
    /\ RegisterPath(s, p)

\* UnregisterPath for every SubPath of s, each from its node to the root: a
\* node whose count reaches zero is taken out of its parent's Map, and with
\* it what was attached to it.  From any other node nothing is detached.
Uses(s, n) == {x \in {s} \X sub[s] : n \in Prefixes(x[2])}

UnregisterPath(s) ==
    LET left == [n \in Nodes |-> refcnt[n] - Cardinality(Uses(s, n))]
    IN  /\ refcnt' = left
        /\ nodes' = {n \in nodes : left[n] # 0}
        /\ at' = [n \in Nodes |-> IF left[n] # 0 THEN at[n] ELSE {}]

SubscribeDelete(s) ==
    /\ s \in alive
    /\ alive' = alive \ {s}
    /\ sub' = [sub EXCEPT ![s] = {}]
    /\ UnregisterPath(s)
    /\ UNCHANGED fresh

Next == \E s \in Subs :
            \/ \E p \in PathSet : SubscribeRemoteAdd(s, p)
            \/ SubscribeDelete(s)

Spec == Init /\ [][Next]_vars

-----------------------------------------------------------------------------
(* PathRegisterCommand *)

\* The wildcard is preferred to the word itself.
StepWildcard(n, lit) ==
    IF Append(n, "*") \in nodes THEN {Append(n, "*")} ELSE {Append(n, lit)} \cap nodes

\* The child for a word: its own, or that of the wildcard, or none.
Step(n, lit) ==
    IF Append(n, lit) \in nodes THEN {Append(n, lit)} ELSE {Append(n, "*")} \cap nodes

\* Where the loop is after each word, at one node or nowhere.
Walk(cmd) ==
    LET walk[i \in 0 .. Len(cmd)] ==
            IF i = 0 THEN {<< >>} ELSE UNION {Step(n, cmd[i]) : n \in walk[i - 1]}
    IN  walk

\* The nodes the loop visits.
Visited(cmd) == UNION {Walk(cmd)[i] : i \in 1 .. Len(cmd)}

Deepest(N) == {n \in N : \A m \in N : Len(m) <= Len(n)}

\* The owners of the SubPaths lastMatch holds
PathRegisterCommand(cmd) ==
    UNION {at[n] : n \in Deepest({m \in Visited(cmd) : at[m] # {}})}

-----------------------------------------------------------------------------
(* Properties *)

Through(n) == {x \in Subs \X PathSet : x[2] \in sub[x[1]] /\ n \in Prefixes(x[2])}

\* Refcnt is the number of subscriptions of connected modules that pass
\* through the node, and the tree holds exactly the nodes that have any, after
\* any order of RegisterPath and UnregisterPath: no node is freed under a
\* subscriber and none is kept for ever.
RefcntExact ==
    /\ \A n \in Nodes : refcnt[n] = Cardinality(Through(n))
    /\ nodes = {n \in Nodes : Through(n) # {}}

\* A subscription of a connected module stays attached to its node
\* (RegisterPath), whatever other modules sharing the node or its ancestors do.
LiveAttached == \A s \in Subs : \A p \in sub[s] : p \in nodes /\ s \in at[p]

\* Which path covers a command, by the subscriptions alone: word for word, a
\* wildcard standing for a word no subscription names in its place.
Covers(n, cmd) ==
    /\ Len(n) <= Len(cmd)
    /\ \A i \in 1 .. Len(n) :
          \/ n[i] = cmd[i]
          \/ n[i] = "*" /\ Through(Append(SubSeq(n, 1, i - 1), cmd[i])) = {}
LiveAt(n) == {s \in Subs : n \in sub[s]}
Entitled(cmd) ==
    UNION {LiveAt(n) : n \in Deepest({p \in PathSet : LiveAt(p) # {} /\ Covers(p, cmd)})}

\* The walk down the tree finds the subscriptions that cover a command best,
\* as long as no SubPath of a module that has left hangs at a node it visits.
RoutedByCover ==
    \A cmd \in Commands :
        (\A n \in Visited(cmd) : at[n] = LiveAt(n)) => PathRegisterCommand(cmd) = Entitled(cmd)

=============================================================================
