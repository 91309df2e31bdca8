------------------------- MODULE ConfigCommitProofs -------------------------
(* What ConfigCommit guarantees for any lines, paths, streams and options.  *)
EXTENDS ConfigCommit, TLAPS

\* Zenon unless a leaf says otherwise: most need no arithmetic.
USE Zenon

USE DEF Subscribers

\* Sending leaves every view and every queue well typed.
LEMMA CommitAllType ==
    ASSUME TypeOK, NEW q \in [Subscribers -> [Lines -> Command]],
           NEW map, NEW conf, CommitAll(q, map, conf)
    PROVE  /\ view' \in [Subscribers -> SUBSET Lines]
           /\ leaked' \in [Subscribers -> SUBSET Lines]
           /\ queue' \in [Subscribers -> [Lines -> Command]]
<1>1. NoCommand \in [Lines -> Command]
  BY DEF NoCommand, Command
<1>2. ASSUME NEW s \in Subscribers
      PROVE  SubPathCommit(s, q[s], view[s]) \subseteq Lines
  BY DEF SubPathCommit, SendJSON, SendCommands
<1>3. ASSUME NEW s \in Subscribers
      PROVE  Leak(s, q[s], conf) \subseteq Lines
  BY DEF Leak, TypeOK
<1> QED
  BY <1>1, <1>2, <1>3 DEF CommitAll, TypeOK

\* Registering commands leaves every queue well typed.
LEMMA RegisterType ==
    ASSUME TypeOK, NEW cmds \in [Lines -> Command], NEW paths
    PROVE  PathRegisterCommand(cmds, paths) \in [Subscribers -> [Lines -> Command]]
BY DEF PathRegisterCommand, TypeOK

\* Dropping the commands of those that did not validate does so too.
LEMMA ValidateType ==
    ASSUME NEW q \in [Subscribers -> [Lines -> Command]], NEW yes, NEW voters
    PROVE  AfterValidate(q, yes, voters) \in [Subscribers -> [Lines -> Command]]
<1>1. NoCommand \in [Lines -> Command]
  BY DEF NoCommand, Command
<1> QED
  BY <1>1 DEF AfterValidate

\* Every handler keeps the type of the state.
THEOREM TypeStep ==
    ASSUME TypeOK, [Next]_vars
    PROVE  TypeOK'
<1>1. NoCommand \in [Lines -> Command]
  BY DEF NoCommand, Command
<1>2. CASE Edit
  BY <1>2, LinesAssumption
  DEF Edit, YangSet, YParseDelete, ConfigDiscard, YangConfigPush, YangConfigPull,
      subscription, TypeOK
<1>3. CASE Commit
  <2>1. CompareCommand \in [Lines -> Command]
    BY DEF CompareCommand, Command
  <2> DEFINE q == PathRegisterCommand(CompareCommand, sub)
             voters == Voters(q, inMap)
  <2>2. q \in [Subscribers -> [Lines -> Command]]
    BY <2>1, RegisterType
  <2>3. PICK yes \in SUBSET voters :
           \/ /\ CommitAll(AfterValidate(q, yes, voters), inMap, candidate)
              /\ active' = candidate
              /\ Persist(candidate)
              /\ failed' = (failed \/ yes # voters)
           \/ /\ queue' = AfterValidate(q, yes, voters)
              /\ failed' = TRUE
              /\ UNCHANGED <<view, leaked, active, saved>>
    BY <1>3 DEF Commit
  <2>4. AfterValidate(q, yes, voters) \in [Subscribers -> [Lines -> Command]]
    BY <2>2, ValidateType
  <2>5. UNCHANGED <<candidate, pushed, status, pending, inMap, sub>>
    BY <1>3 DEF Commit
  <2> HIDE DEF q, voters
  <2>6. CASE CommitAll(AfterValidate(q, yes, voters), inMap, candidate)
             /\ active' = candidate /\ Persist(candidate)
             /\ failed' = (failed \/ yes # voters)
    <3>1. /\ view' \in [Subscribers -> SUBSET Lines]
          /\ leaked' \in [Subscribers -> SUBSET Lines]
          /\ queue' \in [Subscribers -> [Lines -> Command]]
      BY <2>4, <2>6, CommitAllType
    <3>2. failed' \in BOOLEAN
      BY <2>6
    <3> QED
      BY <2>5, <2>6, <3>1, <3>2 DEF TypeOK, Persist
  <2>7. CASE queue' = AfterValidate(q, yes, voters) /\ failed' = TRUE
             /\ UNCHANGED <<view, leaked, active, saved>>
    BY <2>4, <2>5, <2>7 DEF TypeOK
  <2> QED
    BY <2>3, <2>6, <2>7
<1>4. ASSUME NEW s \in Streams, Connect(s) \/ Eof(s) \/ SubscribeDelete(s)
      PROVE  TypeOK'
  <2>1. CASE Connect(s)
    BY <2>1 DEF Connect, config, subscription, TypeOK
  <2>2. CASE Eof(s)
    BY <2>2 DEF Eof, config, TypeOK
  <2>3. CASE SubscribeDelete(s)
    BY <1>1, <2>3 DEF SubscribeDelete, config, TypeOK
  <2> QED
    BY <1>4, <2>1, <2>2, <2>3
<1>5. CASE \E s \in Streams : \E paths \in Requests : Request(s, paths)
  BY SMT, <1>5 DEF Request, config, subscription, TypeOK
<1>6. ASSUME NEW s \in Streams, NEW paths \in Requests, SubscribeAdd(s, paths)
      PROVE  TypeOK'
  <2> DEFINE map == inMap \cup {s}
             sync == [x \in Subscribers |-> IF x = s THEN paths ELSE {}]
             all == [l \in Lines |-> IF l \in active THEN "set" ELSE "none"]
             q == PathRegisterCommand(all, sync)
             voters == Voters(q, map)
  <2>1. all \in [Lines -> Command]
    BY DEF Command
  <2>2. q \in [Subscribers -> [Lines -> Command]]
    BY <2>1, RegisterType
  <2>3. PICK yes \in SUBSET voters :
           \/ /\ CommitAll(AfterValidate(q, yes, voters), map, active)
              /\ failed' = (failed \/ yes # voters)
           \/ /\ queue' = AfterValidate(q, yes, voters)
              /\ failed' = TRUE
              /\ UNCHANGED <<view, leaked>>
    BY <1>6 DEF SubscribeAdd
  <2>4. AfterValidate(q, yes, voters) \in [Subscribers -> [Lines -> Command]]
    BY <2>2, ValidateType
  <2>5. /\ pending' = pending \ {<<s, paths>>}
        /\ inMap' = map
        /\ sub' = [sub EXCEPT ![s] = @ \cup paths]
        /\ UNCHANGED <<status, active, candidate, saved, pushed>>
    BY <1>6 DEF SubscribeAdd, config
  <2>6. sub' \in [Subscribers -> SUBSET Paths]
    BY <2>5, StreamsAssumption DEF TypeOK
  <2>7. inMap' \subseteq Subscribers
    BY <2>5 DEF TypeOK
  <2>8. /\ view' \in [Subscribers -> SUBSET Lines]
        /\ leaked' \in [Subscribers -> SUBSET Lines]
        /\ queue' \in [Subscribers -> [Lines -> Command]]
    <3> HIDE DEF q, voters, map
    <3>1. CASE CommitAll(AfterValidate(q, yes, voters), map, active)
      BY <2>4, <3>1, CommitAllType
    <3>2. CASE queue' = AfterValidate(q, yes, voters) /\ UNCHANGED <<view, leaked>>
      BY <2>4, <3>2 DEF TypeOK
    <3> QED
      BY <2>3, <3>1, <3>2
  <2>9. failed' \in BOOLEAN
    <3> HIDE DEF q, voters, map
    <3> QED
      BY <2>3
  <2> HIDE DEF q, voters, map, sync, all
  <2> QED
    BY <2>5, <2>6, <2>7, <2>8, <2>9 DEF TypeOK
<1>7. CASE Restart
  BY <1>1, <1>7, StreamsAssumption DEF Restart, TypeOK
<1>8. CASE UNCHANGED vars
  BY <1>8 DEF vars, TypeOK
<1> QED
  BY <1>2, <1>3, <1>4, <1>5, <1>6, <1>7, <1>8 DEF Next

-----------------------------------------------------------------------------
\* While no validation has failed: nothing is left in a queue, and a module
\* has been told nothing outside its subscription.
Drained == ~failed => \A s \in Subscribers : queue[s] = NoCommand

Within ==
    ~failed => \A s \in Subscribers : \A l \in view[s] :
                  s \in Reached(inMap) /\ PathOf[l] \in sub[s]

Unsubscribed == \A s \in Subscribers : s \notin inMap => sub[s] = {}

IInv ==
    /\ TypeOK /\ Drained /\ Within /\ Unsubscribed
    /\ ViewsAgree /\ SavedIsActive /\ NothingMissing

\* A subscriber whose queue holds, for a line, what brings it to conf agrees
\* with conf on that line after SubPath.Commit, or the line is counted as
\* leaked.
LEMMA Delivered ==
    ASSUME NEW s, NEW l \in Lines, NEW q \in [Lines -> Command], NEW conf,
           q[l] = "set" => l \in conf,
           q[l] = "delete" => l \notin conf,
           q[l] = "none" /\ l \notin leaked[s] => (l \in view[s] <=> l \in conf),
           l \notin Leak(s, q, conf)
    PROVE  l \in SubPathCommit(s, q, view[s]) <=> l \in conf
<1>1. CASE s \notin JsonStreams
  <2>1. q[l] \in {"none", "set", "delete"}
    BY DEF Command
  <2> QED
    BY <1>1, <2>1 DEF SubPathCommit, SendCommands, Leak
<1>2. CASE s \in JsonStreams
  <2>1. CASE PathOf[l] \in JsonPaths(q)
    BY <1>2, <2>1 DEF SubPathCommit, SendJSON, Leak
  <2>2. CASE PathOf[l] \notin JsonPaths(q)
    <3>1. l \notin leaked[s]
      BY <1>2, <2>2 DEF Leak
    <3>2. q[l] = "none"
      BY <2>2, LinesAssumption DEF JsonPaths
    <3> QED
      BY <1>2, <2>2, <3>1, <3>2 DEF SubPathCommit, SendJSON
  <2> QED
    BY <2>1, <2>2
<1> QED
  BY <1>1, <1>2

\* What is sent to a subscriber lies below the paths it has commands for.
LEMMA SentWithin ==
    ASSUME NEW s, NEW q \in [Lines -> Command], NEW v, NEW paths,
           \A l \in Lines : q[l] # "none" => PathOf[l] \in paths,
           \A l \in v : PathOf[l] \in paths
    PROVE  \A l \in SubPathCommit(s, q, v) : PathOf[l] \in paths
<1>1. CASE s \notin JsonStreams
  BY <1>1 DEF SubPathCommit, SendCommands
<1>2. CASE s \in JsonStreams
  BY <1>2 DEF SubPathCommit, SendJSON, JsonPaths
<1> QED
  BY <1>1, <1>2

\* A commit that goes through without a failed validation.
LEMMA CommitInv ==
    ASSUME IInv, TypeOK', Commit, ~failed'
    PROVE  Drained' /\ Within' /\ ViewsAgree'
<1> DEFINE q == PathRegisterCommand(CompareCommand, sub)
           voters == Voters(q, inMap)
<1>1. PICK yes \in SUBSET voters :
         /\ CommitAll(AfterValidate(q, yes, voters), inMap, candidate)
         /\ active' = candidate
         /\ failed' = (failed \/ yes # voters)
  BY DEF Commit
<1>2. ~failed /\ yes = voters
  BY <1>1
<1>3. UNCHANGED <<candidate, pushed, status, pending, inMap, sub>>
  BY DEF Commit
<1>4. AfterValidate(q, yes, voters) = q
  <2> HIDE DEF voters
  <2> QED
    BY <1>2 DEF AfterValidate, PathRegisterCommand
<1>5. \A s \in Subscribers : queue[s] = NoCommand
  BY <1>2 DEF IInv, Drained
<1>6. ASSUME NEW s \in Subscribers
      PROVE  /\ q[s] \in [Lines -> Command]
             /\ \A l \in Lines : q[s][l] = IF PathOf[l] \in sub[s]
                                           THEN CompareCommand[l] ELSE "none"
  BY <1>5 DEF PathRegisterCommand, CompareCommand, NoCommand, Command
<1> HIDE DEF q, voters
<1>7. ASSUME NEW s \in Subscribers
      PROVE  /\ view'[s] = IF s \in Reached(inMap)
                            THEN SubPathCommit(s, q[s], view[s]) ELSE view[s]
             /\ leaked'[s] = IF s \in Reached(inMap)
                              THEN Leak(s, q[s], candidate) ELSE leaked[s]
             /\ queue'[s] = IF s \in inMap THEN NoCommand ELSE q[s]
  BY <1>1, <1>4 DEF CommitAll
<1>8. Reached(inMap)' = Reached(inMap)
  BY <1>3 DEF Reached
<1>9. Drained'
  <2> SUFFICES ASSUME NEW s \in Subscribers, s \notin inMap
               PROVE  q[s] = NoCommand
    BY <1>7 DEF Drained, NoCommand
  <2>1. sub[s] = {}
    BY DEF IInv, Unsubscribed
  <2> QED
    BY <1>6, <2>1 DEF NoCommand
<1>10. Within'
  <2> SUFFICES ASSUME NEW s \in Subscribers, NEW l \in view'[s]
               PROVE  s \in Reached(inMap) /\ PathOf[l] \in sub[s]
    BY <1>3, <1>8 DEF Within
  <2>1. \A k \in view[s] : s \in Reached(inMap) /\ PathOf[k] \in sub[s]
    BY <1>2 DEF IInv, Within
  <2>2. CASE s \in Reached(inMap)
    <3>1. q[s] \in [Lines -> Command]
      BY <1>6
    <3>2. \A k \in Lines : q[s][k] # "none" => PathOf[k] \in sub[s]
      BY <1>6
    <3>3. \A k \in view[s] : PathOf[k] \in sub[s]
      BY <2>1
    <3>4. \A k \in SubPathCommit(s, q[s], view[s]) : PathOf[k] \in sub[s]
      BY <3>1, <3>2, <3>3, SentWithin
    <3> QED
      BY <1>7, <2>2, <3>4
  <2>3. CASE s \notin Reached(inMap)
    BY <1>7, <2>1, <2>3
  <2> QED
    BY <2>2, <2>3
<1>11. ViewsAgree'
  <2> SUFFICES ASSUME NEW s \in Reached(inMap), NEW l \in Lines \ (pushed \cup leaked'[s]),
                      PathOf[l] \in sub[s]
               PROVE  l \in view'[s] <=> l \in candidate
    BY <1>1, <1>3, <1>8 DEF ViewsAgree
  <2>1. s \in Subscribers
    BY DEF Reached, IInv, TypeOK
  <2>2. l \notin leaked[s] => (l \in view[s] <=> l \in active)
    BY <1>2 DEF IInv, ViewsAgree
  <2>3. q[s] \in [Lines -> Command] /\ q[s][l] = CompareCommand[l]
    BY <1>6, <2>1
  <2>4. /\ q[s][l] = "set" => l \in candidate
        /\ q[s][l] = "delete" => l \notin candidate
        /\ q[s][l] = "none" => (l \in active <=> l \in candidate)
    BY <2>3 DEF CompareCommand
  <2>5. l \notin Leak(s, q[s], candidate)
    BY <1>7, <2>1
  <2>6. l \in SubPathCommit(s, q[s], view[s]) <=> l \in candidate
    BY <2>2, <2>3, <2>4, <2>5, Delivered
  <2> QED
    BY <1>7, <2>1, <2>6
<1> QED
  BY <1>9, <1>10, <1>11

\* A subscription that is taken and synchronised without a failed validation.
LEMMA SubscribeInv ==
    ASSUME IInv, TypeOK', NEW s \in Streams, NEW paths \in Requests,
           SubscribeAdd(s, paths), ~failed'
    PROVE  Drained' /\ Within' /\ ViewsAgree'
<1> DEFINE map == inMap \cup {s}
           sync == [x \in Subscribers |-> IF x = s THEN paths ELSE {}]
           all == [l \in Lines |-> IF l \in active THEN "set" ELSE "none"]
           q == PathRegisterCommand(all, sync)
           voters == Voters(q, map)
<1>1. PICK yes \in SUBSET voters :
         /\ CommitAll(AfterValidate(q, yes, voters), map, active)
         /\ failed' = (failed \/ yes # voters)
  BY DEF SubscribeAdd
<1>2. ~failed /\ yes = voters
  BY <1>1
<1>3. /\ UNCHANGED <<active, candidate, pushed, status>>
      /\ inMap' = map
      /\ sub' = [sub EXCEPT ![s] = @ \cup paths]
  BY DEF SubscribeAdd, config
<1>4. AfterValidate(q, yes, voters) = q
  <2> HIDE DEF voters
  <2> QED
    BY <1>2 DEF AfterValidate, PathRegisterCommand
<1>5. \A x \in Subscribers : queue[x] = NoCommand
  BY <1>2 DEF IInv, Drained
<1>6. ASSUME NEW x \in Subscribers
      PROVE  /\ q[x] \in [Lines -> Command]
             /\ \A l \in Lines : q[x][l] = IF x = s /\ PathOf[l] \in paths /\ l \in active
                                           THEN "set" ELSE "none"
  BY <1>5 DEF PathRegisterCommand, NoCommand, Command
<1>7. ASSUME NEW x \in Subscribers
      PROVE  sub'[x] = IF x = s THEN sub[x] \cup paths ELSE sub[x]
  BY <1>3 DEF IInv, TypeOK
<1> HIDE DEF q, voters, sync, all
<1>8. ASSUME NEW x \in Subscribers
      PROVE  /\ view'[x] = IF x \in Reached(map)
                            THEN SubPathCommit(x, q[x], view[x]) ELSE view[x]
             /\ leaked'[x] = IF x \in Reached(map)
                              THEN Leak(x, q[x], active) ELSE leaked[x]
             /\ queue'[x] = IF x \in map THEN NoCommand ELSE q[x]
  BY <1>1, <1>4 DEF CommitAll
<1>9. Reached(inMap)' = Reached(map)
  BY <1>3 DEF Reached
<1>10. \A x \in Reached(map) : x # s => x \in Reached(inMap)
  BY DEF Reached
<1>11. Reached(inMap) \subseteq Reached(map)
  BY DEF Reached
<1>12. ASSUME NEW x \in Subscribers
       PROVE  \A k \in view[x] : x \in Reached(inMap) /\ PathOf[k] \in sub[x]
  BY <1>2 DEF IInv, Within
<1>13. Drained'
  BY SMT, <1>6, <1>8 DEF Drained, NoCommand
<1>14. Within'
  <2> SUFFICES ASSUME NEW x \in Subscribers, NEW l \in view'[x]
               PROVE  x \in Reached(map) /\ PathOf[l] \in sub'[x]
    BY <1>9 DEF Within
  <2>1. \A k \in view[x] : PathOf[k] \in sub'[x]
    BY <1>7, <1>12
  <2>2. \A k \in Lines : q[x][k] # "none" => PathOf[k] \in sub'[x]
    BY <1>6, <1>7
  <2>3. CASE x \in Reached(map)
    <3>1. q[x] \in [Lines -> Command]
      BY <1>6
    <3>2. \A k \in SubPathCommit(x, q[x], view[x]) : PathOf[k] \in sub'[x]
      BY <2>1, <2>2, <3>1, SentWithin
    <3> QED
      BY <1>8, <2>3, <3>2
  <2>4. CASE x \notin Reached(map)
    BY <1>8, <1>11, <1>12, <2>4
  <2> QED
    BY <2>3, <2>4
<1>15. ViewsAgree'
  <2> SUFFICES ASSUME NEW x \in Reached(map), NEW l \in Lines \ (pushed \cup leaked'[x]),
                      PathOf[l] \in sub'[x]
               PROVE  l \in view'[x] <=> l \in active
    BY <1>3, <1>9 DEF ViewsAgree
  <2>1. x \in Subscribers
    BY DEF Reached, IInv, TypeOK
  <2>2. x \in Reached(inMap) /\ PathOf[l] \in sub[x] /\ l \notin leaked[x]
        => (l \in view[x] <=> l \in active)
    BY <1>2 DEF IInv, ViewsAgree
  <2>3. x \notin Reached(inMap) \/ PathOf[l] \notin sub[x] => l \notin view[x]
    BY <1>12, <2>1
  <2>4. q[x] \in [Lines -> Command]
    BY <1>6, <2>1
  <2>5. q[x][l] = "set" => l \in active
    BY <1>6, <2>1
  <2>6. q[x][l] # "delete"
    BY <1>6, <2>1
  <2>7. q[x][l] = "none" /\ l \notin leaked[x] => (l \in view[x] <=> l \in active)
    <3>1. SUFFICES ASSUME q[x][l] = "none", l \notin leaked[x],
                          x \notin Reached(inMap) \/ PathOf[l] \notin sub[x]
                   PROVE  l \notin active
      BY <2>2, <2>3
    <3>2. x = s
      <4>1. CASE x # s
        BY <1>7, <1>10, <2>1, <3>1, <4>1
      <4> QED
        BY <4>1
    <3>3. PathOf[l] \in paths
      <4>1. CASE PathOf[l] \in sub[x]
        <5>1. x \in inMap
          BY <2>1, <4>1 DEF IInv, Unsubscribed
        <5>2. x \in Reached(inMap)
          BY <5>1 DEF Reached
        <5> QED
          BY <3>1, <4>1, <5>2
      <4>2. CASE PathOf[l] \notin sub[x]
        BY <1>7, <2>1, <3>2, <4>2
      <4> QED
        BY <4>1, <4>2
    <3> QED
      BY <1>6, <2>1, <3>1, <3>2, <3>3
  <2>8. l \notin Leak(x, q[x], active)
    BY <1>8, <2>1
  <2>9. l \in SubPathCommit(x, q[x], view[x]) <=> l \in active
    BY <2>4, <2>5, <2>6, <2>7, <2>8, Delivered
  <2> QED
    BY <1>8, <2>1, <2>9
<1> QED
  BY <1>13, <1>14, <1>15

\* Every handler keeps the inductive invariant.
LEMMA InvStep ==
    ASSUME IInv, [Next]_vars
    PROVE  IInv'
<1>1. TypeOK'
  BY TypeStep DEF IInv
<1>2. CASE Edit
  <2>1. Drained' /\ Unsubscribed'
    BY <1>2 DEF Edit, YangSet, YParseDelete, ConfigDiscard, YangConfigPush, YangConfigPull,
               subscription, IInv, Drained, Unsubscribed
  <2>2. Within'
    BY <1>2 DEF Edit, YangSet, YParseDelete, ConfigDiscard, YangConfigPush, YangConfigPull,
               subscription, IInv, Within, Reached
  <2>3. ViewsAgree'
    BY <1>2 DEF Edit, YangSet, YParseDelete, ConfigDiscard, YangConfigPush, YangConfigPull,
               subscription, IInv, ViewsAgree, Reached
  <2>4. SavedIsActive' /\ NothingMissing'
    BY <1>2 DEF Edit, YangSet, YParseDelete, ConfigDiscard, YangConfigPush, YangConfigPull,
               IInv, SavedIsActive, NothingMissing
  <2> QED
    BY <1>1, <2>1, <2>2, <2>3, <2>4 DEF IInv
<1>3. CASE Commit
  <2>1. Drained' /\ Within' /\ ViewsAgree'
    <3>1. CASE failed'
      BY <3>1 DEF Drained, Within, ViewsAgree
    <3>2. CASE ~failed'
      BY <1>1, <1>3, <3>2, CommitInv
    <3> QED
      BY <3>1, <3>2
  <2>2. Unsubscribed'
    BY <1>3 DEF Commit, IInv, Unsubscribed
  <2>3. UNCHANGED pushed
    BY <1>3 DEF Commit
  <2>4. \/ UNCHANGED <<active, saved>>
        \/ active' = candidate /\ saved' = IF ZeroConfig THEN saved ELSE candidate
    BY <1>3 DEF Commit, Persist
  <2>5. MandatoryCheck(candidate)
    BY <1>3 DEF Commit
  <2>6. SavedIsActive'
    BY <2>3, <2>4, OptionsAssumption DEF IInv, SavedIsActive
  <2>7. NothingMissing'
    BY <2>3, <2>4, <2>5 DEF IInv, NothingMissing, MandatoryCheck
  <2> QED
    BY <1>1, <2>1, <2>2, <2>6, <2>7 DEF IInv
<1>4. ASSUME NEW s \in Streams, NEW paths \in Requests, SubscribeAdd(s, paths)
      PROVE  IInv'
  <2>1. Drained' /\ Within' /\ ViewsAgree'
    <3>1. CASE failed'
      BY <3>1 DEF Drained, Within, ViewsAgree
    <3>2. CASE ~failed'
      BY <1>1, <1>4, <3>2, SubscribeInv
    <3> QED
      BY <3>1, <3>2
  <2>2. inMap' = inMap \cup {s} /\ sub' = [sub EXCEPT ![s] = @ \cup paths]
    BY <1>4 DEF SubscribeAdd
  <2>3. Unsubscribed'
    BY <2>2 DEF IInv, TypeOK, Unsubscribed
  <2>4. SavedIsActive' /\ NothingMissing'
    BY <1>4 DEF SubscribeAdd, config, IInv, SavedIsActive, NothingMissing
  <2> QED
    BY <1>1, <2>1, <2>3, <2>4 DEF IInv
<1>5. ASSUME NEW s \in Streams, Connect(s)
      PROVE  IInv'
  <2>1. UNCHANGED <<pending, active, candidate, saved, pushed, inMap, sub, queue, view,
                    leaked, failed>>
    BY <1>5 DEF Connect, config, subscription
  <2>2. Reached(inMap)' = Reached(inMap)
    BY <1>5, <2>1, StreamsAssumption DEF Connect, Reached, IInv, TypeOK
  <2> QED
    BY SMT, <1>1, <2>1, <2>2
    DEF IInv, Drained, Within, Unsubscribed, ViewsAgree, SavedIsActive, NothingMissing
<1>6. ASSUME NEW s \in Streams, Eof(s)
      PROVE  IInv'
  <2>1. UNCHANGED <<pending, active, candidate, saved, pushed, inMap, sub, queue, failed>>
    BY <1>6 DEF Eof, config
  <2>2. Reached(inMap)' = Reached(inMap) \ {s}
    BY <1>6, <2>1, StreamsAssumption DEF Eof, Reached, IInv, TypeOK
  <2>3. \A x \in Subscribers : /\ view'[x] = IF x = s THEN {} ELSE view[x]
                               /\ leaked'[x] = IF x = s THEN {} ELSE leaked[x]
    BY <1>6 DEF Eof, IInv, TypeOK
  <2>4. Within'
    BY <2>1, <2>2, <2>3 DEF IInv, Within
  <2>5. ViewsAgree'
    BY <2>1, <2>2, <2>3 DEF IInv, TypeOK, ViewsAgree, Reached
  <2> QED
    BY <1>1, <2>1, <2>4, <2>5
    DEF IInv, Drained, Unsubscribed, SavedIsActive, NothingMissing
<1>7. ASSUME NEW s \in Streams, SubscribeDelete(s)
      PROVE  IInv'
  <2>1. UNCHANGED <<active, candidate, saved, pushed, view, leaked, failed>>
    BY <1>7 DEF SubscribeDelete, config
  <2>2. /\ s \notin Reached(inMap)
        /\ Reached(inMap)' = Reached(inMap)
    BY <1>7, StreamsAssumption DEF SubscribeDelete, Reached, IInv, TypeOK
  <2>3. \A x \in Subscribers : /\ sub'[x] = IF x = s THEN {} ELSE sub[x]
                               /\ queue'[x] = IF x = s THEN NoCommand ELSE queue[x]
    BY <1>7 DEF SubscribeDelete, IInv, TypeOK
  <2>4. inMap' = inMap \ {s}
    BY <1>7 DEF SubscribeDelete
  <2>5. Drained' /\ Unsubscribed'
    BY <2>1, <2>3, <2>4 DEF IInv, Drained, Unsubscribed
  <2>6. Within'
    BY <2>1, <2>2, <2>3 DEF IInv, Within
  <2>7. ViewsAgree'
    BY <2>1, <2>2, <2>3 DEF IInv, TypeOK, ViewsAgree, Reached
  <2> QED
    BY <1>1, <2>1, <2>5, <2>6, <2>7 DEF IInv, SavedIsActive, NothingMissing
<1>8. ASSUME NEW s \in Streams, NEW paths \in Requests, Request(s, paths)
      PROVE  IInv'
  BY <1>1, <1>8 DEF Request, config, subscription, IInv, Drained, Within, Unsubscribed,
     ViewsAgree, SavedIsActive, NothingMissing, Reached
<1>9. CASE Restart
  <2>1. MandatoryCheck(saved)
    BY MandatoryAssumption DEF IInv, NothingMissing, MandatoryCheck
  <2> DEFINE mine == [s \in Subscribers |-> IF s = Local THEN LocalPaths ELSE {}]
  <2>2. /\ active' = saved /\ saved' = saved /\ inMap' = {Local} /\ sub' = mine
        /\ queue' = [s \in Subscribers |-> NoCommand]
        /\ view' = [s \in Subscribers |-> {l \in saved : PathOf[l] \in mine[s]}]
    BY <1>9, <2>1 DEF Restart
  <2>3. Drained' /\ Unsubscribed'
    BY <2>2 DEF Drained, Unsubscribed
  <2>4. Reached(inMap)' = {Local}
    BY <2>2 DEF Reached
  <2>5. Within'
    BY <2>2, <2>4 DEF Within
  <2>6. ViewsAgree'
    BY <2>2, <2>4 DEF ViewsAgree
  <2>7. SavedIsActive' /\ NothingMissing'
    BY <2>2 DEF IInv, SavedIsActive, NothingMissing
  <2> QED
    BY <1>1, <2>3, <2>5, <2>6, <2>7 DEF IInv
<1>10. CASE UNCHANGED vars
  BY <1>1, <1>10 DEF vars, IInv, Drained, Within, Unsubscribed, ViewsAgree,
     SavedIsActive, NothingMissing, Reached
<1> QED
  BY <1>2, <1>3, <1>4, <1>5, <1>6, <1>7, <1>8, <1>9, <1>10 DEF Next

\* The invariant holds initially: nothing is configured and nobody subscribed.
LEMMA InvInit == Init => IInv
<1> SUFFICES ASSUME Init PROVE IInv
  OBVIOUS
<1>1. TypeOK
  BY StreamsAssumption DEF Init, TypeOK, NoCommand, Command
<1>2. Reached(inMap) = {Local}
  BY DEF Init, Reached
<1> QED
  BY <1>1, <1>2 DEF Init, IInv, Drained, Within, Unsubscribed, ViewsAgree,
     SavedIsActive, NothingMissing

\* The invariant holds in every reachable state.
LEMMA Invariance == Spec => []IInv
BY InvInit, InvStep, PTL DEF Spec

\* The state keeps its type, for any number of streams, paths and lines.
THEOREM TypeCorrect == Spec => []TypeOK
<1>1. IInv => TypeOK
  BY DEF IInv
<1> QED
  BY <1>1, Invariance, PTL

\* Until a validation fails, every module runs with the active configuration.
THEOREM ModulesAgree == Spec => []ViewsAgree
<1>1. IInv => ViewsAgree
  BY DEF IInv
<1> QED
  BY <1>1, Invariance, PTL

\* The saved configuration is the active one, up to pushed lines.
THEOREM NothingUnsaved == Spec => []SavedIsActive
<1>1. IInv => SavedIsActive
  BY DEF IInv
<1> QED
  BY <1>1, Invariance, PTL

\* No committed configuration lacks a mandatory line.
THEOREM Complete == Spec => []NothingMissing
<1>1. IInv => NothingMissing
  BY DEF IInv
<1> QED
  BY <1>1, Invariance, PTL

=============================================================================
