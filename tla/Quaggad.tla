------------------------------ MODULE Quaggad ------------------------------
(***************************************************************************)
(* quaggad, the gateway from openconfigd to quagga, and what openconfigd   *)
(* sends it.  quaggad keeps two trees: configRunning, which follows the    *)
(* commands of commits, and configCandidate, which VALIDATE_START makes a  *)
(* copy of it and which then follows the commands of the validation.       *)
(*                                                                         *)
(* A policy list (access-list, access-list6, as-path-list, community-list, *)
(* prefix-list, prefix-list6: the Families) is not programmed command by   *)
(* command: the first command of a commit for a family compares the two    *)
(* trees and programs all that differs, from the candidate.  Route maps    *)
(* are compared at their first command too, and programmed clause by       *)
(* clause.  A neighbour that applies a list stands for the handlers that   *)
(* call vtysh themselves.                                                  *)
(*                                                                         *)
(* A tree is the set of its paths, where a family may be "route-map":      *)
(*    <<family, list>>  <<family, list, rule>>                             *)
(*    <<family, list, rule, leaf, value>>  <<"neighbor", list>>            *)
(* The leaf "action" stands for all that makes a rule of a list complete;  *)
(* a rule of a route map has other leaves too.  Values are in range.       *)
(***************************************************************************)
EXTENDS Naturals, Sequences, FiniteSetsExt

CONSTANTS
    Families,   \* kinds of policy list
    Applicable, \* the family a neighbour applies lists of
    Lists, Rules, Leaves, Values,
    Configs,    \* configurations that are committed
    TwoPhase,   \* twoPhaseCommit
    MaxCommit   \* bound: commits, including failed ones

VARIABLES
    running,    \* configRunning
    candidate,  \* configCandidate
    validating,
    commited,   \* families whose commited flag is set
    quagga,     \* what the daemons have been told: leaves of rules, neighbours
    active,     \* openconfigd's active configuration, below the subscribed paths
    target,     \* the configuration that is being validated
    awaiting,   \* a Validate waits: "commit", "sync" or "no"
    connected,
    stream,     \* messages to quaggad
    replies,    \* messages to openconfigd
    commits,    \* how many there have been
    missed,     \* history: a change did not reach quaggad
    unsynced,   \* history: it has not been sent the whole configuration since
    late        \* history: a validation has timed out

serverVars == <<active, target, awaiting, commits, missed, unsynced, late>>
daemonVars == <<running, candidate, validating, commited, quagga>>
vars == <<daemonVars, serverVars, connected, stream, replies>>

Kinds == Families \cup {"route-map"}

Nodes ==
    (Kinds \X Lists) \cup (Kinds \X Lists \X Rules) \cup (Kinds \X Lists \X Rules \X Leaves \X Values)
    \cup ({"neighbor"} \X Lists)

Parents(p) == {SubSeq(p, 1, k) : k \in {2, 3, 5} \cap 2..Len(p)}

\* A tree of openconfigd: closed under parents, one value for each leaf
Config(c) ==
    /\ \A p \in c : Parents(p) \subseteq c
    /\ \A p, q \in c : Len(p) = 5 /\ Len(q) = 5 /\ SubSeq(p, 1, 4) = SubSeq(q, 1, 4) => p = q

ASSUME FamiliesAssumption == Applicable \in Families /\ Families \cap {"neighbor", "route-map"} = {}
ASSUME ConfigsAssumption == \A c \in Configs : c \subseteq Nodes /\ Config(c)

Init ==
    /\ running = {} /\ candidate = {} /\ validating = FALSE /\ commited = {} /\ quagga = {}
    /\ active = {} /\ target = {} /\ awaiting = "no"
    /\ connected = TRUE /\ stream = <<>> /\ replies = <<>>
    /\ commits = 0 /\ missed = FALSE /\ unsynced = FALSE /\ late = FALSE

-----------------------------------------------------------------------------
(* The trees of quaggad *)

\* p and what is below it
Below(c, p) == {q \in c : \E k \in 1..Len(q) : p = SubSeq(q, 1, k)}

quaggaConfigStateSet(c, p) == c \cup Parents(p)
quaggaConfigStateDelete(c, p) == c \ Below(c, p)

quaggaConfigStateDiff(p) == Below(candidate, p) # Below(running, p)

\* nil if the leaf has several values
Nil == ""
value(c, p) ==
    LET vs == {v \in Values : Append(p, v) \in c}
    IN IF \E v \in vs : vs = {v} THEN CHOOSE v \in vs : TRUE ELSE Nil

\* Clauses of a route map that refer to a list
Matches == {"address", "nexthop", "source"}

Action(c, p) == value(c, Append(p, "action"))

\* What a rule of a route map calls and matches exists.
quaggaConfigValidRouteMapRule(c, p) ==
    LET Known(kind) == {Nil} \cup {l \in Lists : <<kind, l>> \in c}
    IN  /\ value(c, Append(p, "call")) \in Known("route-map")
        /\ \A leaf \in Leaves \cap Matches : value(c, Append(p, leaf)) \in Known(Applicable)

\* Every rule is complete, and the list that a neighbour applies exists.
quaggaConfigValid(c) ==
    /\ \A p \in c : Len(p) = 3 =>
           Action(c, p) # Nil /\ (p[1] = "route-map" => quaggaConfigValidRouteMapRule(c, p))
    /\ \A l \in Lists : <<"neighbor", l>> \in c => <<Applicable, l>> \in c

-----------------------------------------------------------------------------
(* quaggad handles a message *)

ListsOf(c, f) == {l \in Lists : <<f, l>> \in c}

\* quagga, when the lists of a family that differ are withdrawn and those in
\* the candidate programmed again
quaggaConfigCommitLists(f) ==
    LET gone == ListsOf(running, f) \ ListsOf(candidate, f)
        changed == {l \in ListsOf(candidate, f) : quaggaConfigStateDiff(<<f, l>>)}
    IN  {q \in quagga : ~(q[1] = f /\ q[2] \in gone \cup changed)}
        \cup {q \in candidate : q[1] = f /\ q[2] \in changed /\ Len(q) = 5 /\ Action(candidate, SubSeq(q, 1, 3)) # Nil}

\* `route-map M action rule': entered with another action a rule starts anew.
RuleEntered(q, p, action) ==
    LET head == p \o <<"action", action>>
    IN {head} \cup IF head \in q THEN q ELSE q \ Below(q, p)

\* Mutant: a clause that stays is not repeated when the action changes.
RuleProgrammedOnce(q, p) ==
    LET action == Action(candidate, p)
        Was(leaf) == value(running, Append(p, leaf))
        Is(leaf) == value(candidate, Append(p, leaf))
        clauses == Leaves \ {"action"}
        deleted == {leaf \in clauses : Was(leaf) # Nil /\ Is(leaf) = Nil /\ leaf # "source"}
        updated == {leaf \in clauses : Is(leaf) # Nil /\ Was(leaf) # Is(leaf) /\ leaf # "nexthop"}
        entered == RuleEntered(q, p, action)
    IN  (entered \ {x \in Below(entered, p) : x[4] \in deleted \cup updated})
        \cup {p \o <<leaf, Is(leaf)>> : leaf \in updated}

\* A rule of the candidate, clause by clause.  vtysh rejects two misspelt
\* commands: `match ip nexthop prefix-ist' and `no match ip route-source
\* prefix-ist'.
RuleProgrammed(q, p) ==
    LET action == Action(candidate, p)
        actionChanged == Action(running, p) \notin {Nil, action}
        Was(leaf) == value(running, Append(p, leaf))
        Is(leaf) == value(candidate, Append(p, leaf))
        clauses == Leaves \ {"action"}
        deleted == {leaf \in clauses : Was(leaf) # Nil /\ Is(leaf) = Nil /\ leaf # "source"}
        updated == {leaf \in clauses : /\ Is(leaf) # Nil /\ leaf # "nexthop"
                                       /\ actionChanged \/ Was(leaf) # Is(leaf)}
        entered == RuleEntered(q, p, action)
    IN  (entered \ {x \in Below(entered, p) : x[4] \in deleted \cup updated})
        \cup {p \o <<leaf, Is(leaf)>> : leaf \in updated}

RulesOf(c, l) == {p \in Below(c, <<"route-map", l>>) : Len(p) = 3}

\* The rules that are gone, withdrawn with the action they have in the running
\* tree
RulesWithdrawn(l) ==
    {p \in RulesOf(running, l) \ RulesOf(candidate, l) : p \o <<"action", Action(running, p)>> \in quagga}

quaggaConfigCommitRouteMaps ==
    LET gone == ListsOf(running, "route-map") \ ListsOf(candidate, "route-map")
        changed == {l \in ListsOf(candidate, "route-map") : quaggaConfigStateDiff(<<"route-map", l>>)}
        withdrawn == {<<"route-map", l>> : l \in gone} \cup UNION {RulesWithdrawn(l) : l \in changed}
        kept == quagga \ UNION {Below(quagga, p) : p \in withdrawn}
        rules == {p \in UNION {RulesOf(candidate, l) : l \in changed} : Action(candidate, p) # Nil}
    IN FoldSet(LAMBDA p, q : RuleProgrammed(q, p), kept, rules)

\* The handler of a command for a policy list, before the tree is updated
quaggaUpdateCheck(f) ==
    IF f \notin commited /\ quaggaConfigStateDiff(<<f>>)
    THEN commited' = commited \cup {f} /\ quagga' = IF f = "route-map" THEN quaggaConfigCommitRouteMaps
                                               ELSE quaggaConfigCommitLists(f)
    ELSE UNCHANGED <<commited, quagga>>

Handler(set, p) ==
    IF p[1] \in Kinds THEN quaggaUpdateCheck(p[1])
    ELSE /\ quagga' = IF set THEN quagga \cup {p} ELSE quagga \ {p}
         /\ UNCHANGED commited

quaggaConfigStateUpdate(set, p) ==
    LET Updated(c) == IF set THEN quaggaConfigStateSet(c, p) ELSE quaggaConfigStateDelete(c, p)
    IN IF validating
       THEN candidate' = Updated(candidate) /\ UNCHANGED running
       ELSE running' = Updated(running) /\ UNCHANGED candidate

quaggaConfig(set, p) ==
    /\ IF validating THEN UNCHANGED <<commited, quagga>> ELSE Handler(set, p)
    /\ quaggaConfigStateUpdate(set, p)
    /\ UNCHANGED <<validating, replies>>

\* With quaggaConfigStateSync
ValidateStart ==
    /\ validating' = TRUE
    /\ candidate' = running
    /\ UNCHANGED <<running, commited, quagga, replies>>

\* Mutant: validating is not reset.
ValidateEndForgets ==
    /\ replies' = Append(replies, quaggaConfigValid(candidate))
    /\ UNCHANGED <<running, candidate, validating, commited, quagga>>

\* Mutant: the running tree is validated.
ValidateEndRunning ==
    /\ replies' = Append(replies, quaggaConfigValid(running))
    /\ validating' = FALSE
    /\ UNCHANGED <<running, candidate, commited, quagga>>

ValidateEnd ==
    /\ replies' = Append(replies, quaggaConfigValid(candidate))
    /\ validating' = FALSE
    /\ UNCHANGED <<running, candidate, commited, quagga>>

CommitStart ==
    /\ commited' = {}
    /\ UNCHANGED <<running, candidate, validating, quagga, replies>>

\* A message of a command has one path: what has the paths of several commands
\* in the model is handled one by one, parents before their children.
First(paths) == CHOOSE p \in paths : \A q \in paths : Len(p) <= Len(q)

Rest(m, p) == IF m.paths \ {p} = {} THEN <<>> ELSE <<[m EXCEPT !.paths = @ \ {p}]>>

grpcLoop ==
    /\ stream # <<>>
    /\ LET m == Head(stream)
           p == First(m.paths)
       IN  \/ m.type = "VALIDATE_START" /\ ValidateStart /\ stream' = Tail(stream)
           \/ m.type = "VALIDATE_END" /\ ValidateEnd /\ stream' = Tail(stream)
           \/ m.type = "COMMIT_START" /\ CommitStart /\ stream' = Tail(stream)
           \/ m.type = "COMMIT_END" /\ UNCHANGED <<daemonVars, replies>> /\ stream' = Tail(stream)
           \/ m.type \in {"SET", "DELETE"} /\ quaggaConfig(m.type = "SET", p) /\ stream' = Rest(m, p) \o Tail(stream)
    /\ UNCHANGED <<serverVars, connected>>

-----------------------------------------------------------------------------
(* openconfigd *)

Message(type, paths) == [type |-> type, paths |-> paths]

\* The commands of one kind, if there are any
Batch(type, paths) == IF paths = {} THEN <<>> ELSE <<Message(type, paths)>>

Commands(old, new) == Batch("DELETE", old \ new) \o Batch("SET", new \ old)

Validation(old, new) == <<Message("VALIDATE_START", {})>> \o Commands(old, new) \o <<Message("VALIDATE_END", {})>>
Commitment(old, new) == <<Message("COMMIT_START", {})>> \o Commands(old, new) \o <<Message("COMMIT_END", {})>>

\* For the histories: quaggad does not get what it should have.
Missing(now) == missed' = (missed \/ now) /\ unsynced' = (unsynced \/ now)

\* Commit, up to the wait in Validate
Commit(c) ==
    /\ awaiting = "no" /\ commits < MaxCommit /\ c # active
    /\ commits' = commits + 1
    /\ IF connected /\ TwoPhase
       THEN /\ awaiting' = "commit" /\ target' = c
            /\ stream' = stream \o Validation(active, c)
            /\ UNCHANGED <<active, missed, unsynced>>
       ELSE /\ active' = c
            /\ stream' = IF connected THEN stream \o Commitment(active, c) ELSE stream
            /\ Missing(~connected)
            /\ UNCHANGED <<target, awaiting>>
    /\ UNCHANGED <<late, daemonVars, connected, replies>>

\* What the commands were relative to
Base == IF awaiting = "sync" THEN {} ELSE active

\* The result arrives in time.
Validated ==
    /\ awaiting # "no" /\ replies # <<>>
    /\ replies' = Tail(replies)
    /\ awaiting' = "no" /\ target' = {}
    /\ IF Head(replies)
       THEN /\ active' = target /\ stream' = stream \o Commitment(Base, target)
            /\ unsynced' = (unsynced /\ awaiting # "sync") /\ UNCHANGED missed
       ELSE Missing(awaiting = "sync") /\ UNCHANGED <<active, stream>>
    /\ UNCHANGED <<commits, late, daemonVars, connected>>

\* Three seconds pass, or the subscriber is gone.
ValidateTimeout ==
    /\ awaiting # "no"
    /\ awaiting' = "no" /\ target' = {}
    /\ late' = TRUE
    /\ Missing(awaiting = "sync")
    /\ UNCHANGED <<active, commits, daemonVars, connected, stream, replies>>

\* Nobody waits for this result (any more).
ResultIgnored ==
    /\ awaiting = "no" /\ replies # <<>>
    /\ replies' = Tail(replies)
    /\ UNCHANGED <<serverVars, daemonVars, connected, stream>>

Disconnect ==
    /\ connected
    /\ connected' = FALSE
    /\ Missing(stream # <<>>)
    /\ stream' = <<>> /\ replies' = <<>>
    /\ UNCHANGED <<active, target, awaiting, commits, late, daemonVars>>

\* Mutant: nothing is sent.
SubscribeSilent ==
    /\ ~connected /\ awaiting = "no"
    /\ connected' = TRUE /\ unsynced' = FALSE
    /\ UNCHANGED <<active, target, awaiting, commits, missed, late, daemonVars, stream, replies>>

\* grpcSubscribe and SubscribeRemoteAddMulti: SubscribeSync sends the whole
\* active configuration as `set' commands.
Subscribe ==
    /\ ~connected /\ awaiting = "no"
    /\ connected' = TRUE
    /\ IF active = {} THEN UNCHANGED <<stream, target, awaiting>> /\ unsynced' = FALSE
       ELSE IF TwoPhase
       THEN stream' = Validation({}, active) /\ target' = active /\ awaiting' = "sync" /\ UNCHANGED unsynced
       ELSE stream' = Commitment({}, active) /\ unsynced' = FALSE /\ UNCHANGED <<target, awaiting>>
    /\ UNCHANGED <<active, commits, missed, late, daemonVars, replies>>

Next ==
    \/ grpcLoop
    \/ \E c \in Configs : Commit(c)
    \/ Validated \/ ValidateTimeout \/ ResultIgnored
    \/ Disconnect \/ Subscribe

Spec == Init /\ [][Next]_vars

-----------------------------------------------------------------------------
(* Properties *)

\* The shape of the state
TypeOK ==
    /\ running \in SUBSET Nodes /\ candidate \in SUBSET Nodes
    /\ quagga \subseteq Nodes /\ commited \subseteq Kinds
    /\ active \in Configs \cup {{}} /\ target \in Configs \cup {{}}
    /\ awaiting \in {"no", "commit", "sync"}
    /\ commits \in 0..MaxCommit
    /\ validating \in BOOLEAN

Settled == connected /\ stream = <<>> /\ awaiting = "no" /\ ~missed

\* Once quaggad has handled what it was sent, its mirror is openconfigd's
\* active configuration: validations, successful or not, timed out or cut off,
\* leave no trace in it.
Mirror == Settled => running = active

\* What is to be programmed: neighbours, complete rules, and the route maps
\* but for the two clauses with misspelt commands.  A rule of a route map that
\* has become incomplete, which takes a late result, is not withdrawn.
Exact(c) ==
    {p \in c : \/ p[1] = "neighbor"
               \/ /\ Len(p) = 5 /\ Action(c, SubSeq(p, 1, 3)) # Nil
                  /\ p[1] = "route-map" => ~late /\ p[4] \notin {"nexthop", "source"}}

\* quaggad has handled the configuration that a reconnection sent it, and all
\* that came after it, whatever it has missed before.
Resynced == connected /\ stream = <<>> /\ awaiting = "no" /\ ~unsynced

\* Once quaggad has handled what it was sent, the daemons have the complete
\* rules, the route maps with all their clauses and the neighbours of the
\* active configuration: comparing the two trees at the first command of a
\* commit programs neither too little nor too much.  After a reconnection they
\* lack none of the lists and neighbours, except leaves that have two values in
\* the mirror since a change was missed.  Route maps can lose clauses: they are
\* compared with a mirror that is half updated.
Applied ==
    /\ Settled => Exact(quagga) = Exact(active)
    /\ Resynced => {p \in Exact(running) \cap active : p[1] # "route-map"} \subseteq quagga

\* Whatever quaggad has missed, once it has handled the configuration that a
\* reconnection sends it, nothing of it is missing in its mirror, through all
\* later commits.
CaughtUp == Resynced => active \subseteq running

\* As long as no validation has timed out, only configurations that quaggad
\* accepts become active while it is connected.
ActiveValid == TwoPhase /\ ~missed /\ ~late => quaggaConfigValid(active)

=============================================================================
