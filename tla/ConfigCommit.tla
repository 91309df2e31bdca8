---------------------------- MODULE ConfigCommit ----------------------------
(***************************************************************************)
(* The configuration store and its subscribers: config/subscribe.go with   *)
(* the callers in config/yang.go, config/grpc.go and config/config.go.     *)
(*                                                                         *)
(* A configuration is the set of its command lines (Config.CommandList).   *)
(* Every handler below runs under SubscribeMutex from its first to its     *)
(* last step, so each is one action; what runs without the mutex inside    *)
(* Commit (the answers of a validation round, the API sync channel) is in  *)
(* ValidateRound and ApiSync.  Subscriptions are to one-word paths, as     *)
(* SubscribeAdd and SubscribeRemoteAddMulti register them; longer paths    *)
(* and wildcards are in PathTrie.  The three-word `vrf name X' lines,      *)
(* which SendCommand filters, are not among Lines.                         *)
(*                                                                         *)
(* A module applies its messages in order and each sets or deletes one     *)
(* line, so the queue of a SubPath is the last command of every line, and  *)
(* view[s] is what module s has made of all it was sent.                   *)
(***************************************************************************)
CONSTANTS
    Lines,        \* command lines
    Paths,        \* subscription paths
    PathOf,       \* the path a line is below
    Mandatory,    \* <<a, b>>: a configuration with line a needs line b
    Streams,      \* DoConfig streams
    JsonStreams,  \* those that subscribe with SubscribeType_JSON
    Local,        \* the subscriber SubscribeLocalAdd makes
    LocalPaths,   \* the paths it is registered at
    Requests,     \* the sets of paths modules subscribe to with one message
    PushLines,    \* lines modules send with SET and DELETE
    TwoPhase,     \* option -2
    ZeroConfig    \* option -z

ASSUME LinesAssumption == PathOf \in [Lines -> Paths] /\ PushLines \subseteq Lines
ASSUME MandatoryAssumption == Mandatory \subseteq Lines \X Lines
ASSUME StreamsAssumption ==
    /\ JsonStreams \subseteq Streams
    /\ Local \notin Streams
    /\ LocalPaths \subseteq Paths
    /\ Requests \subseteq SUBSET Paths
ASSUME OptionsAssumption == TwoPhase \in BOOLEAN /\ ZeroConfig \in BOOLEAN

Subscribers == Streams \cup {Local}

VARIABLES
    active, candidate,  \* configActive, configCandidate
    saved,              \* the configuration in the file Start would load
    status,             \* of each stream
    pending,            \* SUBSCRIBE goroutines that have not run yet
    inMap,              \* SubscribeMap
    sub,                \* the paths of each subscriber's SubPaths
    queue,              \* the commands waiting in them
    view,               \* what each module has been told to run with
    pushed,             \* history: lines changed behind the commit
    leaked,             \* history: lines a JSON sync took from the candidate
    failed              \* history: some validation round was not unanimous

config == <<active, candidate, saved, pushed>>
subscription == <<inMap, sub, queue, view, leaked, failed>>
vars == <<active, candidate, saved, status, pending, inMap, sub, queue, view,
          pushed, leaked, failed>>

Command == {"none", "set", "delete"}

TypeOK ==
    /\ active \subseteq Lines
    /\ candidate \subseteq Lines
    /\ saved \subseteq Lines
    /\ status \in [Streams -> {"none", "open", "closed"}]
    /\ pending \subseteq Streams \X Requests
    /\ inMap \subseteq Subscribers
    /\ sub \in [Subscribers -> SUBSET Paths]
    /\ queue \in [Subscribers -> [Lines -> Command]]
    /\ view \in [Subscribers -> SUBSET Lines]
    /\ pushed \subseteq Lines
    /\ leaked \in [Subscribers -> SUBSET Lines]
    /\ failed \in BOOLEAN

NoCommand == [l \in Lines |-> "none"]

Init ==
    /\ active = {} /\ candidate = {} /\ saved = {}
    /\ status = [s \in Streams |-> "none"]
    /\ pending = {}
    /\ inMap = {Local}
    /\ sub = [s \in Subscribers |-> IF s = Local THEN LocalPaths ELSE {}]
    /\ queue = [s \in Subscribers |-> NoCommand]
    /\ view = [s \in Subscribers |-> {}]
    /\ pushed = {}
    /\ leaked = [s \in Subscribers |-> {}]
    /\ failed = FALSE

-----------------------------------------------------------------------------
(* Editing the candidate *)

YangSet(l) ==
    /\ candidate' = candidate \cup {l}
    /\ UNCHANGED <<active, saved, pushed, status, pending>>
    /\ UNCHANGED subscription

YParseDelete(l) ==
    /\ l \in candidate
    /\ candidate' = candidate \ {l}
    /\ UNCHANGED <<active, saved, pushed, status, pending>>
    /\ UNCHANGED subscription

ConfigDiscard ==
    /\ candidate' = active
    /\ UNCHANGED <<active, saved, pushed, status, pending>>
    /\ UNCHANGED subscription

YangConfigPush(l) ==
    /\ active' = active \cup {l}
    /\ candidate' = candidate \cup {l}
    /\ pushed' = pushed \cup {l}
    /\ UNCHANGED <<saved, status, pending>>
    /\ UNCHANGED subscription

YangConfigPull(l) ==
    /\ active' = active \ {l}
    /\ candidate' = candidate \ {l}
    /\ pushed' = pushed \cup {l}
    /\ UNCHANGED <<saved, status, pending>>
    /\ UNCHANGED subscription

-----------------------------------------------------------------------------
(* Queueing commands and sending them *)

\* Only the first half of the commit checks the candidate.
MandatoryUnchecked(c) == TRUE

MandatoryCheck(c) == \A m \in Mandatory : m[1] \in c => m[2] \in c

CompareCommand ==
    [l \in Lines |-> IF l \in active \ candidate THEN "delete"
                     ELSE IF l \in candidate \ active THEN "set" ELSE "none"]

PathRegisterCommand(cmds, paths) ==
    [s \in Subscribers |->
        [l \in Lines |-> IF cmds[l] # "none" /\ PathOf[l] \in paths[s]
                         THEN cmds[l] ELSE queue[s][l]]]

HasCommand(q) == \E l \in Lines : q[l] # "none"

SendCommands(q, v) ==
    {l \in Lines : q[l] = "set" \/ (q[l] = "none" /\ l \in v)}

\* The JSON of a path is that of the candidate, whole, whatever was queued.
JsonPaths(q) == {p \in Paths : \E l \in Lines : PathOf[l] = p /\ q[l] # "none"}
SendJSON(q, v) ==
    {l \in Lines : IF PathOf[l] \in JsonPaths(q) THEN l \in candidate ELSE l \in v}

SubPathCommit(s, q, v) ==
    IF s \in JsonStreams THEN SendJSON(q, v) ELSE SendCommands(q, v)

\* Lines a module is told differently from what the active configuration
\* will be; conf is the active configuration at the end of the handler.
Leak(s, q, conf) ==
    IF s \in JsonStreams
    THEN {l \in Lines : IF PathOf[l] \in JsonPaths(q)
                        THEN (l \in candidate) # (l \in conf) ELSE l \in leaked[s]}
    ELSE leaked[s]

\* What is sent on a stream that has closed is lost: Send's error is ignored.
Reached(map) == {s \in map : s = Local \/ status[s] = "open"}

\* for _, sub := range SubscribeMap { sub.Commit() } on the queues q
CommitAll(q, map, conf) ==
    /\ view' = [s \in Subscribers |->
          IF s \in Reached(map) THEN SubPathCommit(s, q[s], view[s]) ELSE view[s]]
    /\ leaked' = [s \in Subscribers |->
          IF s \in Reached(map) THEN Leak(s, q[s], conf) ELSE leaked[s]]
    /\ queue' = [s \in Subscribers |-> IF s \in map THEN NoCommand ELSE q[s]]

-----------------------------------------------------------------------------
(* Validate: what ValidateRound promises of a round *)

Voters(q, map) == {s \in map \ {Local} : TwoPhase /\ HasCommand(q[s])}

\* In a round exactly the members of yes answered VALIDATE_SUCCESS in time.
\* With more than one voter ValidateCount is updated without a lock, and the
\* result need not say whether all of them did.
Racy(voters) == \E a, b \in voters : a # b
MayPass(yes, voters) == yes = voters \/ Racy(voters)
MayFail(yes, voters) == yes # voters \/ Racy(voters)

AfterValidate(q, yes, voters) ==
    [s \in Subscribers |-> IF s \in voters \ yes THEN NoCommand ELSE q[s]]

\* The configuration being replaced is what is written.
PersistOld(conf) == saved' = IF ZeroConfig THEN saved ELSE active

Persist(conf) == saved' = IF ZeroConfig THEN saved ELSE conf

Commit ==
    LET q == PathRegisterCommand(CompareCommand, sub)
        voters == Voters(q, inMap)
    IN  /\ MandatoryCheck(candidate)
        /\ active # candidate
        /\ \E yes \in SUBSET voters :
              \/ /\ MayPass(yes, voters)
                 /\ CommitAll(AfterValidate(q, yes, voters), inMap, candidate)
                 /\ active' = candidate
                 /\ Persist(candidate)
                 /\ failed' = (failed \/ yes # voters)
              \/ /\ MayFail(yes, voters)
                 /\ queue' = AfterValidate(q, yes, voters)
                 /\ failed' = TRUE
                 /\ UNCHANGED <<view, leaked, active, saved>>
        /\ UNCHANGED <<candidate, pushed, status, pending, inMap, sub>>

-----------------------------------------------------------------------------
(* Streams *)

Connect(s) ==
    /\ status[s] = "none"
    /\ s \notin inMap
    /\ \A g \in pending : g[1] # s
    /\ status' = [status EXCEPT ![s] = "open"]
    /\ UNCHANGED <<pending>>
    /\ UNCHANGED config
    /\ UNCHANGED subscription

\* DoConfig receives a subscription and starts a goroutine for it.
Request(s, paths) ==
    /\ status[s] = "open"
    /\ pending' = pending \cup {<<s, paths>>}
    /\ UNCHANGED <<status>>
    /\ UNCHANGED config
    /\ UNCHANGED subscription

\* The subscription is taken; nothing of the active configuration is sent.
SubscribeAddNoSync(s, paths) ==
    /\ <<s, paths>> \in pending
    /\ pending' = pending \ {<<s, paths>>}
    /\ inMap' = inMap \cup {s}
    /\ sub' = [sub EXCEPT ![s] = @ \cup paths]
    /\ UNCHANGED <<status, queue, view, leaked, failed>>
    /\ UNCHANGED config

SubscribeAdd(s, paths) ==
    LET map == inMap \cup {s}
        sync == [x \in Subscribers |-> IF x = s THEN paths ELSE {}]
        all == [l \in Lines |-> IF l \in active THEN "set" ELSE "none"]
        q == PathRegisterCommand(all, sync)
        voters == Voters(q, map)
    IN  /\ <<s, paths>> \in pending
        /\ pending' = pending \ {<<s, paths>>}
        /\ inMap' = map
        /\ sub' = [sub EXCEPT ![s] = @ \cup paths]
        /\ \E yes \in SUBSET voters :
              \/ /\ MayPass(yes, voters)
                 /\ CommitAll(AfterValidate(q, yes, voters), map, active)
                 /\ failed' = (failed \/ yes # voters)
              \/ /\ MayFail(yes, voters)
                 /\ queue' = AfterValidate(q, yes, voters)
                 /\ failed' = TRUE
                 /\ UNCHANGED <<view, leaked>>
        /\ UNCHANGED <<status>>
        /\ UNCHANGED config

\* The module is gone, and with it what it had been told.
Eof(s) ==
    /\ status[s] = "open"
    /\ status' = [status EXCEPT ![s] = "closed"]
    /\ view' = [view EXCEPT ![s] = {}]
    /\ leaked' = [leaked EXCEPT ![s] = {}]
    /\ UNCHANGED <<pending, inMap, sub, queue, failed>>
    /\ UNCHANGED config

SubscribeDelete(s) ==
    /\ status[s] = "closed"
    /\ status' = [status EXCEPT ![s] = "none"]
    /\ inMap' = inMap \ {s}
    /\ sub' = [sub EXCEPT ![s] = {}]
    /\ queue' = [queue EXCEPT ![s] = NoCommand]
    /\ UNCHANGED <<pending, view, leaked, failed>>
    /\ UNCHANGED config

-----------------------------------------------------------------------------
(* ConfigComponent.Start in a new process: Load fills the candidate, and   *)
(* Commit, which meets no stream yet, brings it to the local subscriber.   *)

Restart ==
    LET ok == MandatoryCheck(saved)
        mine == [s \in Subscribers |-> IF s = Local THEN LocalPaths ELSE {}]
    IN  /\ candidate' = saved
        /\ active' = IF ok THEN saved ELSE {}
        /\ view' = [s \in Subscribers |->
                       {l \in saved : ok /\ PathOf[l] \in mine[s]}]
        /\ status' = [s \in Streams |-> "none"]
        /\ pending' = {}
        /\ inMap' = {Local}
        /\ sub' = mine
        /\ queue' = [s \in Subscribers |-> NoCommand]
        /\ pushed' = {}
        /\ leaked' = [s \in Subscribers |-> {}]
        /\ failed' = FALSE
        /\ UNCHANGED saved

Edit == \/ \E l \in Lines : YangSet(l) \/ YParseDelete(l)
        \/ \E l \in PushLines : YangConfigPush(l) \/ YangConfigPull(l)
        \/ ConfigDiscard

Next == \/ Edit
        \/ Commit
        \/ \E s \in Streams :
              \/ Connect(s) \/ Eof(s) \/ SubscribeDelete(s)
              \/ \E paths \in Requests :
                    Request(s, paths) \/ SubscribeAdd(s, paths)
        \/ Restart

Spec == Init /\ [][Next]_vars

-----------------------------------------------------------------------------
(* Properties *)

\* What a module runs with, on the paths it subscribed to, is the active
\* configuration, whatever commits, discards, restarts, subscriptions and
\* disconnections went before (Subscriber.Commit, SubscribeSync), except for
\* lines another module pushed into the store (YangConfigPush announces them
\* to nobody) and lines a JSON sync took from an uncommitted candidate.  It
\* is promised until a validation round has failed.
ViewsAgree ==
    ~failed =>
        \A s \in Reached(inMap) :
            \A l \in Lines \ (pushed \cup leaked[s]) :
                PathOf[l] \in sub[s] => (l \in view[s] <=> l \in active)

\* The file the next Start loads is the active configuration (the end of
\* Commit), up to what modules pushed since.
SavedIsActive ==
    ~ZeroConfig => \A l \in Lines \ pushed : l \in saved <=> l \in active

\* The active configuration and the saved one have all their mandatory lines:
\* Commit checks the candidate, Start commits what it loads, and nothing but
\* a module's push or pull changes the active configuration otherwise.
NothingMissing ==
    \A m \in Mandatory :
        /\ m[1] \in saved => m[2] \in saved
        /\ m[1] \in active /\ pushed = {} => m[2] \in active

\* Two phase commit: a configuration some module did not validate is applied
\* by no module, so that no module runs with a line that is not active.
AllOrNothing ==
    \A s \in Reached(inMap) :
        \A l \in Lines \ (pushed \cup leaked[s]) : l \in view[s] => l \in active

=============================================================================
