--------------------------- MODULE WatcherProofs ---------------------------
(***************************************************************************)
(* The etcd watcher, for any set of keys and any number of revisions,      *)
(* interruptions, restarts, sessions and subscriptions.                    *)
(*                                                                         *)
(* EtcdWatcher: no put is lost and no value goes back.                     *)
(*                                                                         *)
(* WatchLocks: EtcdWatchUpdate keeps to one watcher.  The invariant says   *)
(* who may hold EtcdEventMutex, that only the goroutine last started can   *)
(* be running, and that none runs between the wait for it and the next     *)
(* start.                                                                  *)
(***************************************************************************)
EXTENDS EtcdWatcher, WatchLocks, TLAPS

\* Zenon unless a leaf says otherwise: most need no arithmetic.
USE Zenon

-----------------------------------------------------------------------------
(* EtcdWatcher *)

\* The watcher before EtcdWatchUpdate is first called.
LEMMA TypeInit == WatcherInit => WatcherTypeOK
BY SMT DEF WatcherInit, WatcherTypeOK, WatcherState

\* Every revision of etcd is an event of a key below etcdPath.
LEMMA LogEntry ==
    ASSUME WatcherTypeOK, NEW i \in 1 .. Len(log)
    PROVE  log[i] \in Event /\ log[i].key \in Keys
<1>1. log[i] \in Event
  BY SMT DEF WatcherTypeOK
<1> QED
  BY <1>1 DEF Event

\* Every variable keeps its type: revision arithmetic and the handlers' effect
\* stay within the naturals.
THEOREM TypeCorrect == WatcherSpec => []WatcherTypeOK
<1>1. WatcherInit => WatcherTypeOK
  BY TypeInit
<1>2. WatcherTypeOK /\ [WatcherNext]_watcherVars => WatcherTypeOK'
  <2> SUFFICES ASSUME WatcherTypeOK, [WatcherNext]_watcherVars
               PROVE  WatcherTypeOK'
    OBVIOUS
  <2> USE DEF WatcherTypeOK, Event, WatcherState, etcdVars
  <2>1. ASSUME NEW k \in Keys, EtcdPut(k)
        PROVE  WatcherTypeOK'
    BY SMT, <2>1 DEF EtcdPut, Write
  <2>2. ASSUME NEW k \in Keys, EtcdDelete(k)
        PROVE  WatcherTypeOK'
    BY SMT, <2>2 DEF EtcdDelete, Write
  <2>3. CASE EtcdCompact
    BY SMT, <2>3 DEF EtcdCompact
  <2>4. CASE Retry \/ WatchOpen \/ WatchCompacted \/ BackOff
    BY <2>4 DEF Retry, WatchOpen, WatchCompacted, BackOff
  <2>5. CASE Get
    BY SMT, <2>5 DEF Get
  <2>6. CASE WatchRecv
    <3>1. next \in 1 .. Len(log)
      BY SMT, <2>6 DEF WatchRecv
    <3>2. log[next].key \in Keys
      BY <3>1, LogEntry
    <3> QED
      BY SMT, <2>6, <3>2 DEF WatchRecv
  <2>7. CASE GetFail \/ WatchClosed
    BY SMT, <2>7 DEF GetFail, WatchClosed
  <2>8. CASE EtcdWatchUpdate
    BY SMT, <2>8 DEF EtcdWatchUpdate
  <2>9. CASE UNCHANGED watcherVars
    BY <2>9 DEF watcherVars
  <2> QED
    BY <2>1, <2>2, <2>3, <2>4, <2>5, <2>6, <2>7, <2>8, <2>9 DEF WatcherNext, Watcher
<1> QED
  BY <1>1, <1>2, PTL DEF WatcherSpec

-----------------------------------------------------------------------------

\* What etcd guarantees: a key's current state is that of its last event.
KvMatchesLog ==
    \A k \in Keys :
        /\ mod[k] <= Len(log)
        /\ \A i \in 1 .. Len(log) : log[i].key = k => i <= mod[k]
        /\ k \in live => log[mod[k]] = [key |-> k, type |-> "PUT"] /\ mod[k] >= 1

\* What the watcher keeps: it never runs ahead of etcd, and while a watch is
\* open or about to be, everything it has processed is older than what the
\* watch will deliver.
WatcherInStep ==
    /\ revision <= Len(log) + 1
    /\ \A k \in Keys : view[k] <= mod[k]
    /\ stage = "open" => \A k \in Keys : view[k] < revision
    /\ stage = "watching" =>
          /\ revision <= next
          /\ next <= Len(log) + 1
          /\ \A k \in Keys : view[k] < next

WatcherInv == WatcherTypeOK /\ KvMatchesLog /\ WatcherInStep /\ NoPutLost

\* A new event extends the log and nothing else: what was true of the older
\* revisions stays true, and the key's state is that of the new event.
LEMMA WriteStep ==
    ASSUME WatcherInv, NEW k \in Keys, NEW type \in {"PUT", "DELETE"}, Write(k, type), WatcherTypeOK'
    PROVE  WatcherInv'
<1> DEFINE e == [key |-> k, type |-> type]
<1>1. /\ Len(log') = Len(log) + 1
      /\ \A i \in 1 .. Len(log) : log'[i] = log[i]
      /\ log'[Len(log) + 1] = e
      /\ Len(log) \in Nat
  BY SMT DEF Write, WatcherInv, WatcherTypeOK
<1>2. \A x \in Keys :
        IF x = k THEN mod'[x] = Len(log) + 1 /\ (x \in live' => type = "PUT")
                 ELSE mod'[x] = mod[x] /\ (x \in live' => x \in live)
  BY DEF Write, WatcherInv, WatcherTypeOK
<1>3. \A x \in Keys : mod[x] \in Nat /\ view[x] \in Nat
  BY DEF WatcherInv, WatcherTypeOK
<1>4. UNCHANGED <<stage, revision, next, view>>
  BY DEF Write
<1>5. KvMatchesLog'
  <2> SUFFICES ASSUME NEW x \in Keys
               PROVE  /\ mod'[x] <= Len(log')
                      /\ \A i \in 1 .. Len(log') : log'[i].key = x => i <= mod'[x]
                      /\ x \in live' =>
                           log'[mod'[x]] = [key |-> x, type |-> "PUT"] /\ mod'[x] >= 1
    BY DEF KvMatchesLog
  <2>1. CASE x = k
    <3>1. mod'[x] = Len(log) + 1 /\ (x \in live' => type = "PUT")
      BY <1>2, <2>1
    <3>2. \A i \in 1 .. Len(log') : i <= mod'[x]
      BY SMT, <1>1, <3>1
    <3>3. x \in live' => log'[mod'[x]] = [key |-> x, type |-> "PUT"]
      BY <1>1, <2>1, <3>1
    <3> QED
      BY SMT, <1>1, <3>1, <3>2, <3>3
  <2>2. CASE x # k
    <3>1. mod'[x] = mod[x] /\ (x \in live' => x \in live)
      BY <1>2, <2>2
    <3>2. x \in live => mod[x] \in 1 .. Len(log)
      <4>1. mod[x] <= Len(log) /\ (x \in live => mod[x] >= 1)
        BY DEF WatcherInv, KvMatchesLog
      <4> QED
        BY SMT, <1>1, <1>3, <4>1
    <3>3. /\ mod[x] <= Len(log)
          /\ \A i \in 1 .. Len(log) : log[i].key = x => i <= mod[x]
          /\ x \in live => log[mod[x]] = [key |-> x, type |-> "PUT"]
      BY DEF WatcherInv, KvMatchesLog
    <3>4. \A i \in 1 .. Len(log') : log'[i].key = x => i <= mod[x]
      <4> SUFFICES ASSUME NEW i \in 1 .. Len(log'), log'[i].key = x
                   PROVE  i <= mod[x]
        OBVIOUS
      <4>1. i # Len(log) + 1
        <5>1. e.key = k
          BY SMT
        <5> QED
          BY <1>1, <2>2, <5>1
      <4>2. i \in 1 .. Len(log)
        BY SMT, <1>1, <4>1
      <4> QED
        BY <1>1, <3>3, <4>2
    <3>5. x \in live => log'[mod[x]] = [key |-> x, type |-> "PUT"]
      BY <1>1, <3>2, <3>3
    <3>6. mod[x] <= Len(log') /\ (x \in live => mod[x] >= 1)
      BY SMT, <1>1, <1>3, <3>2, <3>3
    <3> QED
      BY <3>1, <3>4, <3>5, <3>6
  <2> QED
    BY <2>1, <2>2
<1>6. WatcherInStep'
  <2>1. \A x \in Keys : view[x] <= mod[x] /\ mod[x] <= Len(log)
    BY DEF WatcherInv, KvMatchesLog, WatcherInStep
  <2>2. \A x \in Keys : view[x] <= mod'[x]
    BY SMT, <1>1, <1>2, <1>3, <2>1
  <2>3. revision \in Nat /\ next \in Nat
    BY DEF WatcherInv, WatcherTypeOK
  <2> QED
    BY SMT, <1>1, <1>4, <2>2, <2>3 DEF WatcherInv, WatcherInStep
<1>7. NoPutLost'
  <2>1. Processed' = Processed
    BY <1>4 DEF Processed
  <2>2. Processed \in Nat /\ Processed <= Len(log) + 1
    BY DEF WatcherInv, WatcherTypeOK, WatcherInStep, Processed
  <2> SUFFICES ASSUME NEW x \in Keys, x \in live', mod'[x] < Processed
               PROVE  view[x] = mod'[x]
    BY <1>4, <2>1 DEF NoPutLost
  <2>3. x # k
    <3>1. x = k => Len(log) + 1 < Processed
      BY <1>2
    <3> QED
      BY SMT, <1>1, <2>2, <3>1
  <2>4. mod'[x] = mod[x] /\ x \in live
    BY <1>2, <2>3
  <2> QED
    BY <2>4 DEF WatcherInv, NoPutLost
<1> QED
  BY <1>5, <1>6, <1>7 DEF WatcherInv

\* One event handled: the only key touched is the event's, which becomes
\* exactly as new as the event, and no other live key was last written by it.
LEMMA RecvStep ==
    ASSUME WatcherInv, WatchRecv, WatcherTypeOK'
    PROVE  WatcherInv' /\ \A k \in Keys : view'[k] # 0 => view'[k] >= view[k]
<1>1. next \in 1 .. Len(log) /\ log[next] \in Event
  <2>1. next \in 1 .. Len(log)
    BY SMT DEF WatcherInv, WatcherTypeOK, WatchRecv
  <2> QED
    BY SMT, <2>1 DEF WatcherInv, WatcherTypeOK
<1>2. \A x \in Keys : view'[x] = IF x = log[next].key
                                  THEN (IF log[next].type = "PUT" THEN next ELSE 0)
                                  ELSE view[x]
  BY <1>1 DEF WatcherInv, WatcherTypeOK, WatchRecv, Event
<1>3. \A x \in Keys : mod[x] \in Nat /\ view[x] \in Nat
  BY DEF WatcherInv, WatcherTypeOK
<1>4. UNCHANGED <<log, live, mod, stage>> /\ revision' = next /\ next' = next + 1 /\ stage = "watching"
  BY DEF WatchRecv, etcdVars
<1>5. KvMatchesLog'
  BY <1>4 DEF WatcherInv, KvMatchesLog
<1>6. WatcherInStep'
  <2>1. next <= mod[log[next].key] /\ log[next].key \in Keys
    BY <1>1 DEF WatcherInv, KvMatchesLog, Event
  <2>2. \A x \in Keys : view[x] < next
    BY <1>4 DEF WatcherInv, WatcherInStep
  <2>3. \A x \in Keys : view'[x] <= mod[x] /\ view'[x] < next + 1
    BY SMT, <1>1, <1>2, <1>3, <2>1, <2>2 DEF WatcherInv, WatcherInStep
  <2> QED
    BY SMT, <1>1, <1>4, <2>3 DEF WatcherInStep
<1>7. NoPutLost'
  <2> SUFFICES ASSUME NEW x \in Keys, x \in live, mod[x] < next + 1
               PROVE  view'[x] = mod[x]
    BY <1>4 DEF NoPutLost, Processed
  <2>1. CASE mod[x] = next
    <3>1. log[next] = [key |-> x, type |-> "PUT"]
      BY <2>1 DEF WatcherInv, KvMatchesLog
    <3> QED
      BY SMT, <1>2, <2>1, <3>1
  <2>2. CASE mod[x] < next
    <3>1. log[next].key # x
      <4>1. log[next].key = x => next <= mod[x]
        BY <1>1 DEF WatcherInv, KvMatchesLog
      <4> QED
        BY SMT, <1>1, <1>3, <2>2, <4>1
    <3>2. view[x] = mod[x]
      BY <1>4, <2>2 DEF WatcherInv, NoPutLost, Processed
    <3> QED
      BY <1>2, <3>1, <3>2
  <2> QED
    BY SMT, <1>1, <1>3, <2>1, <2>2
<1>8. \A k \in Keys : view'[k] # 0 => view'[k] >= view[k]
  BY SMT, <1>1, <1>2, <1>3, <1>4 DEF WatcherInv, WatcherInStep
<1> QED
  BY <1>5, <1>6, <1>7, <1>8 DEF WatcherInv

\* A step keeps the invariant and never replaces a value by an older one.
LEMMA InvStep ==
    ASSUME WatcherInv, [WatcherNext]_watcherVars, WatcherTypeOK'
    PROVE  WatcherInv' /\ \A k \in Keys : view'[k] # 0 => view'[k] >= view[k]
<1> USE DEF WatcherInv
<1>0. \A k \in Keys : mod[k] \in Nat /\ view[k] \in Nat
  BY DEF WatcherTypeOK
<1>1. ASSUME NEW k \in Keys, EtcdPut(k) \/ EtcdDelete(k)
      PROVE  WatcherInv' /\ view' = view
  BY <1>1, WriteStep DEF EtcdPut, EtcdDelete, Write
<1>2. CASE EtcdCompact
  BY SMT, <1>0, <1>2 DEF EtcdCompact, KvMatchesLog, WatcherInStep, NoPutLost, Processed
<1>3. CASE Retry \/ BackOff \/ GetFail
  BY SMT, <1>0, <1>3 DEF Retry, BackOff, GetFail, etcdVars,
                    KvMatchesLog, WatcherInStep, NoPutLost, Processed
<1>4. CASE Get
  <2>1. \A k \in Keys : view'[k] = IF k \in live /\ mod[k] >= revision
                                    THEN mod[k] ELSE view[k]
    BY <1>4 DEF Get
  <2>2. UNCHANGED <<log, live, mod>> /\ revision' = Len(log) + 1 /\ stage = "resync" /\ stage' = "open"
    BY <1>4 DEF Get, etcdVars
  <2>3. Len(log) \in Nat /\ revision \in Nat
    BY SMT DEF WatcherTypeOK
  <2>4. \A k \in Keys : view[k] <= mod[k] /\ mod[k] <= Len(log)
    BY DEF WatcherInStep, KvMatchesLog
  <2>5. KvMatchesLog'
    BY <2>2 DEF KvMatchesLog
  <2>6. \A k \in Keys : view'[k] <= mod[k] /\ view'[k] >= view[k]
    BY SMT, <1>0, <2>1, <2>4
  <2>7. WatcherInStep'
    BY SMT, <1>0, <2>1, <2>2, <2>3, <2>4, <2>6 DEF WatcherInStep
  <2>8. NoPutLost'
    BY SMT, <1>0, <2>1, <2>2, <2>3 DEF NoPutLost, Processed
  <2> QED
    BY <2>5, <2>6, <2>7, <2>8
<1>5. CASE WatchOpen
  BY SMT, <1>0, <1>5 DEF WatchOpen, etcdVars, WatcherTypeOK, KvMatchesLog, WatcherInStep, NoPutLost, Processed
<1>6. CASE WatchRecv
  BY <1>6, RecvStep
<1>7. CASE WatchCompacted \/ WatchClosed
  <2>1. /\ UNCHANGED <<log, live, mod, revision, next, view>>
        /\ stage = "watching" /\ stage' = "backoff"
    BY <1>7 DEF WatchCompacted, WatchClosed, etcdVars
  <2>2. KvMatchesLog'
    BY <2>1 DEF KvMatchesLog
  <2>3. stage' # "open" /\ stage' # "watching"
    BY <2>1
  <2>4. WatcherInStep'
    BY <2>1, <2>3 DEF WatcherInStep
  <2>5. Processed' = revision /\ Processed = next /\ revision <= next
    BY <2>1, <2>3 DEF Processed, WatcherInStep
  <2>6. revision \in Nat /\ next \in Nat
    BY DEF WatcherTypeOK
  <2>7. \A k \in Keys : mod[k] < Processed' => mod[k] < Processed
    BY SMT, <1>0, <2>5, <2>6
  <2>8. NoPutLost'
    BY <2>1, <2>7 DEF NoPutLost
  <2>9. \A k \in Keys : view'[k] >= view[k]
    BY SMT, <1>0, <2>1
  <2> QED
    BY <2>2, <2>4, <2>8, <2>9
<1>8. CASE EtcdWatchUpdate
  <2>1. /\ UNCHANGED <<log, live, mod>>
        /\ revision' = 0
        /\ stage' \in {"stopped", "retry"}
    BY <1>8 DEF EtcdWatchUpdate, etcdVars
  <2>2. \A k \in Keys : view'[k] = 0 \/ view'[k] = view[k]
    BY <1>8 DEF EtcdWatchUpdate
  <2>3. Len(log) \in Nat
    BY SMT DEF WatcherTypeOK
  <2>4. stage' # "open" /\ stage' # "watching"
    BY <2>1
  <2>5. KvMatchesLog'
    BY <2>1 DEF KvMatchesLog
  <2>6. WatcherInStep'
    <3>1. \A k \in Keys : view[k] <= mod[k]
      BY DEF WatcherInStep
    <3>2. \A k \in Keys : view'[k] <= mod'[k]
      BY SMT, <1>0, <2>1, <2>2, <3>1
    <3>3. revision' <= Len(log') + 1
      BY SMT, <2>1, <2>3
    <3> QED
      BY <2>4, <3>2, <3>3 DEF WatcherInStep
  <2>7. NoPutLost'
    <3>1. Processed' = 0
      BY <2>1, <2>4 DEF Processed
    <3>2. \A k \in Keys : ~(mod'[k] < Processed')
      BY SMT, <1>0, <2>1, <3>1
    <3> QED
      BY <3>2 DEF NoPutLost
  <2>8. \A k \in Keys : view'[k] # 0 => view'[k] >= view[k]
    BY SMT, <1>0, <2>2
  <2> QED
    BY <2>5, <2>6, <2>7, <2>8
<1>9. CASE UNCHANGED watcherVars
  BY SMT, <1>0, <1>9 DEF watcherVars, KvMatchesLog, WatcherInStep, NoPutLost, Processed
<1> QED
  BY SMT, <1>0, <1>1, <1>2, <1>3, <1>4, <1>5, <1>6, <1>7, <1>8, <1>9 DEF WatcherNext, Watcher

\* Every reachable state of the watcher satisfies the invariant.
LEMMA Invariance == WatcherSpec => []WatcherInv
<1>1. WatcherInit => KvMatchesLog /\ WatcherInStep /\ NoPutLost
  BY SMT DEF WatcherInit, KvMatchesLog, WatcherInStep, NoPutLost, Processed
<1>2. WatcherInit => WatcherTypeOK
  BY TypeInit
<1>3. WatcherInv /\ [WatcherNext]_watcherVars /\ WatcherTypeOK' => WatcherInv'
  BY InvStep
<1> QED
  BY <1>1, <1>2, <1>3, TypeCorrect, PTL DEF WatcherSpec, WatcherInv

\* No put is lost by ResyncAndWatch, for any keys and any interruptions.
THEOREM NoPutIsLost == WatcherSpec => []NoPutLost
BY Invariance, PTL DEF WatcherInv

\* A redelivered event never replaces a newer value by an older one.
THEOREM NeverGoesBack == WatcherSpec => NeverOlder
<1>1. WatcherInv /\ [WatcherNext]_watcherVars /\ WatcherTypeOK' =>
        [\A k \in Keys : view'[k] # 0 => view'[k] >= view[k]]_watcherVars
  BY InvStep
<1> QED
  BY <1>1, Invariance, TypeCorrect, PTL DEF WatcherSpec, NeverOlder

-----------------------------------------------------------------------------
(* WatchLocks *)

\* Inside EtcdWatchUpdate with EtcdEventMutex held
Inside == {"stop", "wait", "clear", "clearlock", "clearcommit", "start"}

\* After the wait for the watcher
Stopped == {"clear", "clearlock", "clearcommit", "start"}

PcType == pc \in [Threads -> {"none", "idle", "lock", "commit", "event", "stop",
                              "wait", "clear", "clearlock", "clearcommit", "start", "done"}]

IInv ==
    /\ PcType
    /\ current \in 0 .. MaxWatch
    /\ \A t \in Threads : pc[t] \in Inside => event = t
    /\ \A w \in Watchers : Alive(w) => w = current
    /\ \A t \in Threads : pc[t] \in Stopped => \A w \in Watchers : ~Alive(w)

\* Initially nobody updates and no goroutine has been started.
LEMMA InvInit == Init => IInv
  <1> USE BoundsAssumption, ThreadsAssumption
  <1> SUFFICES ASSUME Init PROVE IInv
      OBVIOUS
  <1>1. PcType
      BY DEF Init, PcType, Threads
  <1>2. current \in 0 .. MaxWatch
      BY SMT DEF Init, None
  <1>3. \A t \in Threads : pc[t] \notin Inside
      BY DEF Init, Inside
  <1>4. \A w \in Watchers : ~Alive(w)
      BY DEF Init, Alive, Threads
  <1> QED
      BY <1>1, <1>2, <1>3, <1>4 DEF IInv, Stopped, Inside

\* A thread that moves to a place outside the critical region of
\* EtcdWatchUpdate, and is no goroutine that starts or revives, preserves IInv.
LEMMA MoveOutside ==
    ASSUME IInv, NEW t \in Threads, NEW l \in {"idle", "lock", "commit", "event", "done"},
           pc[t] \notin {"none", "done"}, Goto(t, l), UNCHANGED <<event, current>>
    PROVE  IInv'
  <1>1. PcType'
      BY DEF IInv, PcType, Goto
  <1>2. \A s \in Threads : pc'[s] \in Inside => pc[s] = pc'[s]
      BY DEF IInv, PcType, Goto, Inside
  <1>3. \A w \in Watchers : Alive(w)' => Alive(w)
      BY DEF IInv, PcType, Goto, Alive, Threads
  <1>4. \A s \in Threads : pc'[s] \in Stopped => pc[s] \in Stopped
      BY <1>2 DEF Stopped, Inside
  <1> QED
      BY <1>1, <1>2, <1>3, <1>4 DEF IInv

\* A thread that moves on inside the critical region preserves IInv, if no
\* goroutine runs when it passes the wait.
LEMMA MoveInside ==
    ASSUME IInv, NEW t \in Threads, NEW l \in Inside,
           event' = t, UNCHANGED current, pc[t] \notin {"none", "done"},
           event \in {None, t}, Goto(t, l),
           l \in Stopped => \A w \in Watchers : ~Alive(w)
    PROVE  IInv'
  <1> USE ThreadsAssumption
  <1>1. PcType'
      BY DEF IInv, PcType, Goto, Inside
  <1>2. None \notin Threads
      BY SMT, BoundsAssumption DEF None, Threads, Watchers
  <1>3. \A s \in Threads : pc'[s] \in Inside => s = t
      BY <1>2 DEF IInv, PcType, Goto
  <1>4. \A w \in Watchers : Alive(w)' => Alive(w)
      BY DEF IInv, PcType, Goto, Alive, Threads
  <1>5. \A s \in Threads : pc'[s] \in Stopped => \A w \in Watchers : ~Alive(w)
      <2> TAKE s \in Threads
      <2> HAVE pc'[s] \in Stopped
      <2>1. s = t
          BY <1>3 DEF Stopped, Inside
      <2>2. l \in Stopped
          BY <2>1 DEF IInv, PcType, Goto
      <2> QED
          BY <2>2
  <1> QED
      BY <1>1, <1>3, <1>4, <1>5 DEF IInv

\* A thread that leaves EtcdWatchUpdate releases EtcdEventMutex; the goroutine
\* it may have started is the only one.
LEMMA Leave ==
    ASSUME IInv, NEW t \in Threads, StartWatch(t) \/ NoWatch(t)
    PROVE  IInv'
  <1> USE ThreadsAssumption, BoundsAssumption
  <1>1. pc[t] = "start" /\ event = t /\ \A w \in Watchers : ~Alive(w)
      BY DEF IInv, StartWatch, NoWatch, Inside, Stopped
  <1>2. t \notin Watchers
      BY <1>1 DEF Alive
  <1>3. \A s \in Threads : s # t => pc[s] \notin Inside
      BY <1>1 DEF IInv
  <1>4. CASE NoWatch(t)
      <2>1. \E l \in {"idle", "commit"} : pc' = [pc EXCEPT ![t] = l]
          BY <1>4 DEF NoWatch, Return
      <2>2. PICK l \in {"idle", "commit"} : pc' = [pc EXCEPT ![t] = l]
          BY <2>1
      <2>3. PcType'
          BY <2>2 DEF IInv, PcType
      <2>4. \A s \in Threads : pc'[s] \notin Inside
          BY <2>2, <1>3 DEF IInv, PcType, Inside
      <2>5. \A w \in Watchers : ~Alive(w)'
          BY SMT, <2>2, <1>1, <1>2 DEF IInv, PcType, Alive
      <2>6. current' \in 0 .. MaxWatch
          BY <1>4 DEF NoWatch, IInv
      <2> QED
          BY <2>3, <2>4, <2>5, <2>6 DEF IInv, Stopped, Inside
  <1>5. CASE StartWatch(t)
      <2> DEFINE l == IF t \in Ribds THEN "idle" ELSE "commit"
      <2>1. current' \in Watchers /\ current' = current + 1 /\ current' \in Threads
          BY SMT, <1>5 DEF StartWatch, IInv, Watchers, Threads
      <2>2. pc' = [[pc EXCEPT ![t] = l] EXCEPT ![current'] = "idle"]
          BY <1>5 DEF StartWatch, Return
      <2>3. l \in {"idle", "commit"}
          OBVIOUS
      <2> HIDE DEF l
      <2>4. PcType'
          BY <2>1, <2>2, <2>3 DEF IInv, PcType
      <2>5. \A s \in Threads : pc'[s] \notin Inside
          BY <2>1, <2>2, <2>3, <1>3 DEF IInv, PcType, Inside
      <2>6. \A w \in Watchers : w # current' => ~Alive(w)'
          BY <2>1, <2>2, <1>1, <1>2 DEF IInv, PcType, Alive, Threads
      <2>7. current' \in 0 .. MaxWatch
          BY SMT, <2>1 DEF Watchers
      <2> QED
          BY <2>4, <2>5, <2>6, <2>7 DEF IInv, Stopped, Inside
  <1> QED
      BY <1>4, <1>5

\* Every step preserves IInv.
LEMMA InvNext == IInv /\ [Next]_vars => IInv'
  <1> SUFFICES ASSUME IInv, [Next]_vars PROVE IInv'
      OBVIOUS
  <1>1. CASE EnterEtcdCommand \/ ConfigDiscard \/ UNCHANGED vars
      <2>1. UNCHANGED <<pc, event, current>>
          BY <1>1 DEF EnterEtcdCommand, ConfigDiscard, vars
      <2> QED
          BY <2>1 DEF IInv, PcType, Alive
  <1>2. ASSUME NEW t \in Threads, BeginCommit(t) PROVE IInv'
      BY <1>2, MoveOutside DEF BeginCommit
  <1>3. ASSUME NEW t \in Threads, SubscribeAddRibd(t) PROVE IInv'
      BY <1>3, MoveOutside DEF SubscribeAddRibd
  <1>4. ASSUME NEW t \in Threads, LockSubscribe(t) PROVE IInv'
      <2>1. CASE pc[t] = "lock"
          <3>1. Goto(t, "commit") /\ UNCHANGED <<event, current>>
              BY <1>4, <2>1 DEF LockSubscribe
          <3> QED
              BY <3>1, <2>1, MoveOutside
      <2>2. CASE pc[t] = "clearlock"
          <3>1. Goto(t, "clearcommit") /\ UNCHANGED <<event, current>>
              BY <1>4, <2>2 DEF LockSubscribe
          <3>2. event = t /\ \A w \in Watchers : ~Alive(w)
              BY <2>2 DEF IInv, Inside, Stopped
          <3>3. "clearcommit" \in Inside
              BY DEF Inside
          <3> QED
              BY <3>1, <3>2, <3>3, <2>2, MoveInside
      <2> QED
          BY <1>4, <2>1, <2>2 DEF LockSubscribe
  <1>5. ASSUME NEW t \in Threads, ExecEtcdCommand(t) PROVE IInv'
      BY <1>5, MoveOutside DEF ExecEtcdCommand
  <1>6. ASSUME NEW t \in Threads, CommitEnd(t) PROVE IInv'
      <2>1. pc[t] = "commit" /\ UNCHANGED <<event, current>> /\ (Goto(t, "idle") \/ Goto(t, "lock"))
          BY <1>6 DEF CommitEnd
      <2> QED
          BY <2>1, MoveOutside
  <1>7. ASSUME NEW t \in Threads, LockEvent(t) PROVE IInv'
      <2>1. pc[t] = "event" /\ event = None /\ event' = t /\ Goto(t, "stop") /\ UNCHANGED current
          BY <1>7 DEF LockEvent
      <2>2. "stop" \in Inside /\ "stop" \notin Stopped
          BY DEF Inside, Stopped
      <2> QED
          BY <2>1, <2>2, MoveInside
  <1>8. ASSUME NEW t \in Threads, EtcdWatchStop(t) PROVE IInv'
      <2>1. pc[t] = "stop" /\ Goto(t, "wait") /\ UNCHANGED <<event, current>>
          BY <1>8 DEF EtcdWatchStop
      <2>2. event = t
          BY <2>1 DEF IInv, Inside
      <2>3. "wait" \in Inside /\ "wait" \notin Stopped
          BY DEF Inside, Stopped
      <2> QED
          BY <2>1, <2>2, <2>3, MoveInside
  <1>9. ASSUME NEW t \in Threads, WatchWait(t) PROVE IInv'
      <2>1. /\ pc[t] = "wait" /\ Goto(t, "clear") /\ UNCHANGED <<event, current>>
            /\ \A w \in Watchers : ~Alive(w)
          BY <1>9 DEF WatchWait
      <2>2. event = t /\ "clear" \in Inside
          BY <2>1 DEF IInv, Inside
      <2> QED
          BY <2>1, <2>2, MoveInside
  <1>10. ASSUME NEW t \in Threads, ClearVrfCache(t) \/ VrfDelete(t) PROVE IInv'
      <2>1. /\ pc[t] \in {"clear", "clearcommit"}
            /\ UNCHANGED <<event, current>>
            /\ \E l \in Stopped : Goto(t, l)
          BY <1>10 DEF ClearVrfCache, VrfDelete, Stopped
      <2>2. PICK l \in Stopped : Goto(t, l)
          BY <2>1
      <2>3. event = t /\ \A w \in Watchers : ~Alive(w)
          BY <2>1 DEF IInv, Inside, Stopped
      <2>4. l \in Inside
          BY DEF Inside, Stopped
      <2> QED
          BY <2>1, <2>2, <2>3, <2>4, MoveInside
  <1>11. ASSUME NEW t \in Threads, StartWatch(t) \/ NoWatch(t) PROVE IInv'
      BY <1>11, Leave
  <1>12. ASSUME NEW w \in Watchers, Handle(w) \/ WatchDone(w) PROVE IInv'
      <2>1. /\ pc[w] = "idle" /\ UNCHANGED <<event, current>>
            /\ Goto(w, "lock") \/ Goto(w, "done")
          BY <1>12 DEF Handle, WatchDone
      <2>2. w \in Threads
          BY DEF Threads
      <2> QED
          BY <2>1, <2>2, MoveOutside
  <1>13. CASE Next
      BY <1>13, <1>1, <1>2, <1>3, <1>4, <1>5, <1>6, <1>7, <1>8, <1>9, <1>10, <1>11, <1>12
         DEF Next, Step, Run
  <1> QED
      BY <1>1, <1>13

\* Whatever restarts the watcher and however often, at most one goroutine
\* handles etcd events, and none while ClearVrfCache withdraws the VRFs.
THEOREM WatcherUnique == Spec => []OneWatcher
  <1>1. IInv => OneWatcher
      BY DEF IInv, OneWatcher, Stopped
  <1> QED
      BY <1>1, InvInit, InvNext, PTL DEF Spec


\* Who holds a mutex is where it is used, until a Commit runs EtcdWatchUpdate
\* again: SubscribeMutex in a Commit, or in an EtcdWatchUpdate below a Commit
\* unless it was called by a subscription; EtcdEventMutex in EtcdWatchUpdate.
\* VRFs are cached and withdrawn only after a watcher has been started.
Holders ==
    /\ \A t \in Threads : subscribe = t =>
           IF t \in Ribds THEN pc[t] = "clearcommit" ELSE pc[t] = "commit" \/ Updating(t)
    /\ \A t \in Threads : pc[t] \in {"commit", "clearcommit"} => subscribe = t
    /\ \A t \in Threads \ Ribds : Updating(t) => subscribe = t
    /\ \A t \in Threads : event = t => pc[t] \in Inside
    /\ \A t \in Threads : pc[t] \in {"clearlock", "clearcommit"} => current # None
    /\ vrfs > 0 => current # None
    /\ \A t \in Ribds : pc[t] \notin {"lock", "commit"}

LockInv == ~again => Holders /\ ~UpdatesAgain

\* Nobody is thread 0.
LEMMA NoneIsNoThread == None \notin Threads
  BY SMT, BoundsAssumption, ThreadsAssumption DEF None, Threads, Watchers

\* What a step of one thread does to the places of all.
LEMMA Moved ==
    ASSUME PcType, NEW t \in Threads, NEW l, Goto(t, l)
    PROVE  pc'[t] = l /\ \A s \in Threads : s # t => pc'[s] = pc[s]
  BY DEF PcType, Goto

\* A step of a thread that takes and releases no mutex keeps Holders, if it
\* stays on its side of both, and withdraws VRFs only after a start.
LEMMA KeepsMutexes ==
    ASSUME IInv, Holders, NEW t \in Threads, NEW l, Goto(t, l),
           UNCHANGED <<subscribe, event, current>>,
           vrfs' > 0 => current # None,
           pc[t] \in Inside <=> l \in Inside,
           subscribe = t => t \notin Ribds /\ (l = "commit" \/ Updating(t)'),
           l \in {"commit", "clearcommit"} => subscribe = t,
           t \notin Ribds /\ Updating(t)' => subscribe = t,
           l \in {"clearlock", "clearcommit"} => current # None,
           t \in Ribds => l \notin {"lock", "commit"}
    PROVE  Holders'
  <1>1. pc'[t] = l /\ \A s \in Threads : s # t => pc'[s] = pc[s]
      BY Moved DEF IInv
  <1>2. \A s \in Threads : subscribe' = s =>
            IF s \in Ribds THEN pc'[s] = "clearcommit" ELSE pc'[s] = "commit" \/ Updating(s)'
      BY <1>1 DEF Holders, Updating
  <1>3. \A s \in Threads : pc'[s] \in {"commit", "clearcommit"} => subscribe' = s
      BY <1>1 DEF Holders
  <1>4. \A s \in Threads \ Ribds : Updating(s)' => subscribe' = s
      BY <1>1 DEF Holders, Updating
  <1>5. \A s \in Threads : event' = s => pc'[s] \in Inside
      BY <1>1 DEF Holders
  <1>6. \A s \in Threads : pc'[s] \in {"clearlock", "clearcommit"} => current' # None
      BY <1>1 DEF Holders
  <1>7. \A s \in Ribds : pc'[s] \notin {"lock", "commit"}
      BY <1>1 DEF Holders, Threads
  <1> QED
      BY <1>2, <1>3, <1>4, <1>5, <1>6, <1>7 DEF Holders

\* Taking or releasing SubscribeMutex keeps Holders.
LEMMA SubscribeMutexStep ==
    ASSUME IInv, Holders, NEW t \in Threads,
           LockSubscribe(t) \/ CommitEnd(t) \/ VrfDelete(t)
    PROVE  Holders'
  <1>1. UNCHANGED <<event, current>>
      BY DEF LockSubscribe, CommitEnd, VrfDelete
  <1> DEFINE Does(l) ==
            /\ Goto(t, l)
            /\ \/ /\ <<pc[t], l>> \in {<<"lock", "commit">>, <<"clearlock", "clearcommit">>}
                  /\ subscribe = None /\ subscribe' = t /\ vrfs' = vrfs
               \/ pc[t] = "commit" /\ l \in {"idle", "lock"} /\ subscribe' = None
               \/ pc[t] = "clearcommit" /\ l = "clear" /\ subscribe' = None
  <1>2. PICK l : Does(l)
      <2>1. CASE LockSubscribe(t)
          <3>1. CASE pc[t] = "lock"
              <4>1. Does("commit")
                  BY <2>1, <3>1 DEF LockSubscribe
              <4> QED
                  BY <4>1
          <3>2. CASE pc[t] = "clearlock"
              <4>1. Does("clearcommit")
                  BY <2>1, <3>2 DEF LockSubscribe
              <4> QED
                  BY <4>1
          <3> QED
              BY <2>1, <3>1, <3>2 DEF LockSubscribe
      <2>2. CASE CommitEnd(t)
          <3>1. Does("idle") \/ Does("lock")
              BY <2>2 DEF CommitEnd, Executed
          <3> QED
              BY <3>1
      <2>3. CASE VrfDelete(t)
          <3>1. Does("clear")
              BY <2>3 DEF VrfDelete, Executed
          <3> QED
              BY <3>1
      <2> QED
          BY <2>1, <2>2, <2>3
  <1>3. pc'[t] = l /\ \A s \in Threads : s # t => pc'[s] = pc[s]
      BY <1>2, Moved DEF IInv
  <1>4. pc[t] \in {"commit", "clearcommit"} => subscribe = t
      BY DEF Holders
  <1>5. t \in Ribds <=> pc[t] \in {"clearlock", "clearcommit"}
      BY <1>2, <1>4, NoneIsNoThread DEF Holders, Updating
  <1>6. pc[t] \in Inside <=> l \in Inside
      BY <1>2 DEF Inside
  <1>7. vrfs' > 0 => current # None
      <2>1. CASE pc[t] = "commit" /\ t \in Watchers
          <3>1. t = current
              BY <2>1 DEF IInv, Alive
          <3> QED
              BY <3>1, NoneIsNoThread
      <2>2. CASE pc[t] = "commit" /\ t \notin Watchers
          BY <2>2 DEF LockSubscribe, CommitEnd, VrfDelete, Holders
      <2> QED
          BY <1>2, <2>1, <2>2 DEF Holders
  <1>8. \A s \in Threads : subscribe' = s =>
            IF s \in Ribds THEN pc'[s] = "clearcommit" ELSE pc'[s] = "commit" \/ Updating(s)'
      BY <1>2, <1>3, <1>5, NoneIsNoThread DEF Updating
  <1>9. \A s \in Threads : pc'[s] \in {"commit", "clearcommit"} => subscribe' = s
      BY <1>2, <1>3, <1>4, NoneIsNoThread DEF Holders
  <1>10. \A s \in Threads \ Ribds : Updating(s)' => subscribe' = s
      BY <1>2, <1>3, <1>4, <1>5, NoneIsNoThread DEF Holders, Updating
  <1>11. \A s \in Threads : event' = s => pc'[s] \in Inside
      BY <1>1, <1>3, <1>6 DEF Holders
  <1>12. \A s \in Threads : pc'[s] \in {"clearlock", "clearcommit"} => current' # None
      BY <1>1, <1>2, <1>3 DEF Holders
  <1>13. \A s \in Ribds : pc'[s] \notin {"lock", "commit"}
      BY <1>2, <1>3, <1>5 DEF Holders, Threads
  <1> QED
      BY <1>1, <1>7, <1>8, <1>9, <1>10, <1>11, <1>12, <1>13 DEF Holders

\* Releasing EtcdEventMutex at the end of EtcdWatchUpdate keeps Holders.
LEMMA UpdateEnds ==
    ASSUME IInv, Holders, NEW t \in Threads, StartWatch(t) \/ NoWatch(t)
    PROVE  Holders'
  <1>1. /\ pc[t] = "start" /\ event' = None /\ UNCHANGED <<subscribe, vrfs>>
        /\ event = t /\ \A w \in Watchers : ~Alive(w)
      BY DEF IInv, StartWatch, NoWatch, Inside, Stopped
  <1>2. t \notin Ribds <=> subscribe = t
      BY <1>1 DEF Holders, Updating
  <1> DEFINE l == IF t \in Ribds THEN "idle" ELSE "commit"
  <1>l. l \in {"idle", "commit"} /\ (l = "idle" <=> t \in Ribds)
      OBVIOUS
  <1>r. Return(t) = [pc EXCEPT ![t] = l]
      BY DEF Return
  <1> HIDE DEF l
  <1>3. /\ current # None => current' # None
        /\ pc'[t] = l
        /\ \A s \in Threads \ {t} : pc'[s] = pc[s] \/ (s \in Watchers /\ pc'[s] = "idle")
      <2>1. CASE NoWatch(t)
          <3>1. pc' = [pc EXCEPT ![t] = l] /\ current' = current
              BY <1>r, <2>1 DEF NoWatch
          <3> QED
              BY <3>1 DEF IInv, PcType
      <2>2. CASE StartWatch(t)
          <3>1. current' \in Watchers /\ current' # None
              BY SMT, <2>2, BoundsAssumption DEF StartWatch, IInv, Watchers, None
          <3>2. current' # t
              BY <1>1, <3>1 DEF Alive
          <3>3. pc' = [[pc EXCEPT ![t] = l] EXCEPT ![current'] = "idle"]
              BY <1>r, <2>2 DEF StartWatch
          <3>4. pc'[t] = l
              BY <3>2, <3>3 DEF IInv, PcType
          <3>5. \A s \in Threads \ {t} : pc'[s] = pc[s] \/ (s = current' /\ pc'[s] = "idle")
              BY <3>2, <3>3 DEF IInv, PcType
          <3> QED
              BY <3>1, <3>4, <3>5
      <2> QED
          BY <2>1, <2>2
  <1>4. \A w \in Watchers : subscribe # w /\ event # w
      BY <1>1 DEF Holders, Alive, Updating, Inside, Threads
  <1>5. \A s \in Threads : subscribe' = s =>
            IF s \in Ribds THEN pc'[s] = "clearcommit" ELSE pc'[s] = "commit" \/ Updating(s)'
      BY <1>1, <1>2, <1>3, <1>4, <1>l DEF Holders, Updating
  <1>6. \A s \in Threads : pc'[s] \in {"commit", "clearcommit"} => subscribe' = s
      BY <1>1, <1>2, <1>3, <1>l DEF Holders
  <1>7. \A s \in Threads \ Ribds : Updating(s)' => subscribe' = s
      BY <1>1, <1>2, <1>3, <1>l DEF Holders, Updating
  <1>8. \A s \in Threads : event' # s
      BY <1>1, NoneIsNoThread
  <1>9. \A s \in Threads : pc'[s] \in {"clearlock", "clearcommit"} => current' # None
      BY <1>3, <1>l DEF Holders
  <1>10. \A s \in Ribds : pc'[s] \notin {"lock", "commit"}
      BY <1>3, <1>l DEF Holders, Threads
  <1>11. vrfs' > 0 => current' # None
      BY <1>1, <1>3 DEF Holders
  <1> QED
      BY <1>5, <1>6, <1>7, <1>8, <1>9, <1>10, <1>11 DEF Holders

\* Every step keeps Holders until a Commit runs EtcdWatchUpdate again.
LEMMA HoldersStep ==
    ASSUME IInv, Holders, Next, ~again'
    PROVE  Holders'
  <1> USE NoneIsNoThread
  <1>1. ~UpdatesAgain'
      BY DEF Next, Noted
  <1>2. \A w \in Watchers : w \in Threads \ Ribds
      BY SMT, ThreadsAssumption DEF Threads, Watchers
  <1>3. CASE EnterEtcdCommand \/ ConfigDiscard
      <2>1. UNCHANGED <<pc, subscribe, event, current, vrfs>>
          BY <1>3 DEF EnterEtcdCommand, ConfigDiscard
      <2> QED
          BY <2>1 DEF Holders, Updating
  <1>4. ASSUME NEW t \in Threads, BeginCommit(t) PROVE Holders'
      <2>1. /\ pc[t] = "idle" /\ t \notin Ribds /\ Goto(t, "lock")
            /\ UNCHANGED <<subscribe, event, current, vrfs>>
          BY <1>4, ThreadsAssumption DEF BeginCommit
      <2>2. subscribe # t /\ pc'[t] = "lock"
          BY <2>1, Moved DEF IInv, Holders, Updating
      <2> QED
          BY <2>1, <2>2, KeepsMutexes DEF Holders, Updating, Inside
  <1>5. ASSUME NEW t \in Threads, SubscribeAddRibd(t) PROVE Holders'
      <2>1. /\ pc[t] = "idle" /\ t \in Ribds /\ Goto(t, "event")
            /\ UNCHANGED <<subscribe, event, current, vrfs>>
          BY <1>5 DEF SubscribeAddRibd
      <2>2. subscribe # t
          BY <2>1 DEF Holders
      <2> QED
          BY <2>1, <2>2, KeepsMutexes DEF Holders, Inside
  <1>6. ASSUME NEW t \in Threads, LockSubscribe(t) \/ CommitEnd(t) \/ VrfDelete(t) PROVE Holders'
      BY <1>6, SubscribeMutexStep
  <1>7. ASSUME NEW t \in Threads, ExecEtcdCommand(t) PROVE Holders'
      <2>1. /\ pc[t] \in {"commit", "clearcommit"} /\ subscribe = t /\ Goto(t, "event")
            /\ UNCHANGED <<subscribe, event, current, vrfs>>
          BY <1>7 DEF ExecEtcdCommand, Holders
      <2>2. pc'[t] = "event" /\ Updating(t)'
          BY <2>1, Moved DEF IInv, Updating
      <2>3. pc[t] = "commit" /\ t \notin Ribds
          BY <1>1, <2>1, <2>2 DEF UpdatesAgain, Holders
      <2> QED
          BY <2>1, <2>2, <2>3, KeepsMutexes DEF Holders, Inside
  <1>8. ASSUME NEW t \in Threads, LockEvent(t) PROVE Holders'
      <2>1. /\ pc[t] = "event" /\ event = None /\ event' = t /\ Goto(t, "stop")
            /\ UNCHANGED <<subscribe, current, vrfs>>
          BY <1>8 DEF LockEvent
      <2>2. pc'[t] = "stop" /\ \A s \in Threads : s # t => pc'[s] = pc[s]
          BY <2>1, Moved DEF IInv
      <2>3. \A s \in Threads : Updating(s)' <=> Updating(s)
          BY <2>1, <2>2 DEF Updating
      <2>4. \A s \in Threads : event' = s => pc'[s] \in Inside
          BY <2>1, <2>2 DEF Inside
      <2> QED
          BY <2>1, <2>2, <2>3, <2>4 DEF Holders, Threads
  <1>9. ASSUME NEW t \in Threads, EtcdWatchStop(t) \/ WatchWait(t) \/ ClearVrfCache(t) PROVE Holders'
      <2>1. PICK l \in {"wait", "clear", "clearlock", "start"} :
                /\ Goto(t, l) /\ UNCHANGED <<subscribe, event, current, vrfs>>
                /\ pc[t] \in {"stop", "wait", "clear"}
                /\ l = "clearlock" => vrfs > 0
          BY <1>9 DEF EtcdWatchStop, WatchWait, ClearVrfCache
      <2>2. pc'[t] = l /\ Updating(t) /\ Updating(t)'
          BY <2>1, Moved DEF IInv, Updating
      <2>3. subscribe = t <=> t \notin Ribds
          BY <2>1, <2>2 DEF Holders
      <2> QED
          BY <2>1, <2>2, <2>3, KeepsMutexes DEF Holders, Inside
  <1>10. ASSUME NEW t \in Threads, StartWatch(t) \/ NoWatch(t) PROVE Holders'
      BY <1>10, UpdateEnds
  <1>11. ASSUME NEW w \in Watchers, Handle(w) \/ WatchDone(w) PROVE Holders'
      <2>1. PICK l \in {"lock", "done"} :
                Goto(w, l) /\ pc[w] = "idle" /\ UNCHANGED <<subscribe, event, current, vrfs>>
          BY <1>11 DEF Handle, WatchDone
      <2>2. w \in Threads \ Ribds
          BY <1>2
      <2>3. subscribe # w /\ pc'[w] = l
          BY <2>1, <2>2, Moved DEF IInv, Holders, Updating
      <2> QED
          BY <2>1, <2>2, <2>3, KeepsMutexes DEF Holders, Updating, Inside
  <1> QED
      BY <1>3, <1>4, <1>5, <1>6, <1>7, <1>8, <1>9, <1>10, <1>11 DEF Next, Step, Run

\* Initially nobody holds a mutex; every step preserves LockInv.
LEMMA LockInvariance == Spec => []LockInv
  <1>1. Init => LockInv
      <2> SUFFICES ASSUME Init PROVE Holders /\ ~UpdatesAgain
          BY DEF LockInv
      <2>1. \A t \in Threads : pc[t] \in {"none", "idle"}
          BY DEF Init
      <2>2. subscribe = None /\ event = None /\ vrfs = 0
          BY DEF Init
      <2> QED
          BY SMT, <2>1, <2>2, NoneIsNoThread DEF Holders, UpdatesAgain, Updating, Threads
  <1>2. IInv /\ LockInv /\ [Next]_vars => LockInv'
      <2> SUFFICES ASSUME IInv, LockInv, [Next]_vars, ~again' PROVE Holders' /\ ~UpdatesAgain'
          BY DEF LockInv
      <2>1. CASE Next
          <3>1. ~again /\ ~UpdatesAgain'
              BY <2>1 DEF Next, Noted
          <3> QED
              BY <2>1, <3>1, HoldersStep DEF LockInv
      <2>2. CASE UNCHANGED vars
          BY <2>2 DEF vars, LockInv, Holders, UpdatesAgain, Updating
      <2> QED
          BY <2>1, <2>2
  <1> QED
      BY <1>1, <1>2, InvInit, InvNext, PTL DEF Spec

\* Whoever holds SubscribeMutex waits for nobody: it is in a Commit, or in the
\* EtcdWatchUpdate of the first one, when there is no watcher and nobody else
\* has EtcdEventMutex.
LEMMA HolderRuns ==
    ASSUME IInv, Holders, ~UpdatesAgain, NEW t \in Threads, subscribe = t
    PROVE  WaitsFor(t) = {}
  <1> USE NoneIsNoThread
  <1>1. CASE pc[t] \in {"commit", "clearcommit"}
      BY <1>1 DEF WaitsFor
  <1>2. CASE Updating(t)
      <2>1. current = None /\ event \in {t, None}
          BY <1>2 DEF UpdatesAgain
      <2>2. pc[t] # "clearlock"
          BY <2>1 DEF Holders
      <2>3. pc[t] = "event" => event = None
          BY <2>1 DEF Holders, Inside
      <2>4. \A w \in Watchers : ~Alive(w)
          BY <2>1 DEF IInv, Threads
      <2> QED
          BY <1>2, <2>2, <2>3, <2>4 DEF Updating, WaitsFor
  <1> QED
      BY <1>1, <1>2 DEF Holders

\* For any number of sessions, subscriptions and restarts: nobody waits in a
\* circle for SubscribeMutex, EtcdEventMutex and the watcher until a Commit
\* runs EtcdWatchUpdate again (Commit, EtcdWatchUpdate, EtcdWatchStop).
\* In a set of threads that all wait for one of the set, nobody waits for
\* SubscribeMutex, since its holder waits for nobody; so no watcher waits, as it
\* would for that; so nobody waits for a watcher; so nobody has EtcdEventMutex
\* and waits.
THEOREM NobodyInCircle == Spec => []NoCircle
  <1>1. IInv /\ LockInv => NoCircle
      <2> SUFFICES ASSUME IInv, Holders, ~UpdatesAgain, NEW S \in (SUBSET Threads) \ {{}},
                          \A t \in S : WaitsFor(t) \cap S # {}
                   PROVE  FALSE
          BY DEF LockInv, NoCircle
      <2>1. \A t \in S : t \in Threads
          OBVIOUS
      <2>2. \A t \in S : pc[t] \notin {"lock", "clearlock"}
          <3> SUFFICES ASSUME NEW t \in S, pc[t] \in {"lock", "clearlock"} PROVE FALSE
              OBVIOUS
          <3>1. WaitsFor(t) = {subscribe} \cap Threads
              BY DEF WaitsFor
          <3>2. subscribe \in S /\ subscribe \in Threads
              BY <3>1
          <3>3. PICK s \in S : s = subscribe
              BY <3>2
          <3>4. WaitsFor(s) = {}
              BY <2>1, <3>3, HolderRuns
          <3> QED
              BY <3>4
      <2>3. \A w \in Watchers : ~(w \in S /\ Alive(w))
          <3> SUFFICES ASSUME NEW w \in Watchers, w \in S, Alive(w) PROVE FALSE
              OBVIOUS
          <3>1. w \in Threads \ Ribds /\ w # None
              BY SMT, ThreadsAssumption, NoneIsNoThread DEF Threads, Watchers
          <3>2. current # None
              BY <3>1 DEF IInv
          <3>3. ~Updating(w)
              BY <3>1, <3>2 DEF Holders, UpdatesAgain
          <3>4. pc[w] \in {"idle", "commit", "clearcommit"}
              BY <2>2, <3>1, <3>3 DEF IInv, PcType, Alive, Updating
          <3>5. WaitsFor(w) = {}
              BY <3>4 DEF WaitsFor
          <3> QED
              BY <3>5
      <2>4. \A t \in S : pc[t] # "wait"
          <3> SUFFICES ASSUME NEW t \in S, pc[t] = "wait" PROVE FALSE
              OBVIOUS
          <3>1. WaitsFor(t) = {w \in Watchers : Alive(w)}
              BY DEF WaitsFor
          <3> QED
              BY <2>3, <3>1
      <2>5. PICK t \in S : TRUE
          OBVIOUS
      <2>6. pc[t] = "event" /\ event \in S
          BY <2>1, <2>2, <2>4 DEF WaitsFor
      <2>7. PICK s \in S : s = event
          BY <2>6
      <2>8. pc[s] \in Inside
          BY <2>1, <2>7 DEF Holders
      <2>9. WaitsFor(s) = {}
          BY <2>2, <2>4, <2>8 DEF Inside, WaitsFor
      <2> QED
          BY <2>9
  <1> QED
      BY <1>1, LockInvariance, InvInit, InvNext, PTL DEF Spec

=============================================================================
