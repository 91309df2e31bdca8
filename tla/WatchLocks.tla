----------------------------- MODULE WatchLocks -----------------------------
(***************************************************************************)
(* Who waits for whom between commits and the etcd watcher.  Commit holds  *)
(* SubscribeMutex while it executes local commands, and two of these,      *)
(* `system etcd path' and `system etcd endpoints', call EtcdWatchUpdate.   *)
(* That takes EtcdEventMutex, cancels the watcher and waits for it, and    *)
(* withdraws the cached VRFs with commits of its own; so does the          *)
(* subscription of an asynchronous ribd, without SubscribeMutex.  The      *)
(* watcher's handlers edit and commit the configuration too.               *)
(*                                                                         *)
(* All of them edit the one candidate, so that any Commit executes the     *)
(* etcd commands anybody has entered.  A handler is the sequence of its    *)
(* critical sections: each ExecLine or Commit locks and unlocks            *)
(* SubscribeMutex.                                                         *)
(***************************************************************************)
EXTENDS Integers

CONSTANTS
    Clis,        \* sessions that commit, and subscriptions of other modules
    Ribds,       \* subscriptions of an asynchronous ribd
    MaxWatch,    \* bound: watcher goroutines started
    MaxEdit,     \* bound: etcd commands in the candidate at a time
    MaxEntered,  \* bound: etcd commands entered
    MaxVrf,      \* bound: cached VRFs
    Sections     \* how many critical sections a handler may have

ASSUME BoundsAssumption ==
    /\ MaxWatch \in Nat /\ MaxEdit \in Nat /\ MaxEntered \in Nat /\ MaxVrf \in Nat
    /\ Sections \subseteq Nat

\* Watchers are numbered; sessions and subscriptions are not numbers.
ASSUME ThreadsAssumption == Clis \cap Ribds = {} /\ (Clis \cup Ribds) \cap Nat = {}

Watchers == 1 .. MaxWatch
Threads == Clis \cup Ribds \cup Watchers
None == 0

VARIABLES
    pc,          \* where each thread is
    sections,    \* critical sections the watcher's handler has left
    subscribe,   \* the holder of SubscribeMutex
    event,       \* the holder of EtcdEventMutex
    edits,       \* etcd commands in the candidate that are not active
    todo,        \* etcd commands the current Commit has still to execute
    entered,     \* etcd commands entered so far
    ready,       \* etcdPath and etcdEndpoints are not empty
    current,     \* the goroutine etcdWatchContextCanceler cancels, None for nil
    cancelled,   \* goroutines whose context is cancelled
    vrfs,        \* size of EtcdVrfMap
    again        \* history: a Commit ran EtcdWatchUpdate when a watcher had been
                 \* started or another EtcdWatchUpdate was under way

vars == <<pc, sections, subscribe, event, edits, todo, entered, ready, current, cancelled, vrfs, again>>

TypeOK ==
    /\ pc \in [Threads -> {"none", "idle", "lock", "commit", "event", "stop",
                           "wait", "clear", "clearlock", "clearcommit", "start", "done"}]
    /\ sections \in [Watchers -> Nat]
    /\ subscribe \in Threads \cup {None} /\ event \in Threads \cup {None}
    /\ edits \in 0 .. MaxEdit /\ todo \in 0 .. MaxEdit /\ entered \in 0 .. MaxEntered
    /\ ready \in BOOLEAN
    /\ current \in 0 .. MaxWatch
    /\ cancelled \subseteq Watchers
    /\ vrfs \in 0 .. MaxVrf
    /\ again \in BOOLEAN

Init ==
    /\ pc = [t \in Threads |-> IF t \in Watchers THEN "none" ELSE "idle"]
    /\ sections = [w \in Watchers |-> 0]
    /\ subscribe = None /\ event = None
    /\ edits = 0 /\ todo = 0 /\ entered = 0 /\ ready = FALSE
    /\ current = None /\ cancelled = {}
    /\ vrfs = 0 /\ again = FALSE

Goto(t, label) == pc' = [pc EXCEPT ![t] = label]

-----------------------------------------------------------------------------
(* Sessions *)

\* `set system etcd ...': YParseSet, under SubscribeMutex
EnterEtcdCommand ==
    /\ subscribe = None
    /\ edits < MaxEdit /\ entered < MaxEntered
    /\ edits' = edits + 1
    /\ entered' = entered + 1
    /\ UNCHANGED <<pc, sections, subscribe, event, todo, ready, current, cancelled, vrfs>>

ConfigDiscard ==
    /\ subscribe = None
    /\ edits' = 0
    /\ UNCHANGED <<pc, sections, subscribe, event, todo, entered, ready, current, cancelled, vrfs>>

BeginCommit(t) ==
    /\ t \in Clis /\ pc[t] = "idle"
    /\ Goto(t, "lock")
    /\ UNCHANGED <<sections, subscribe, event, edits, todo, entered, ready, current, cancelled, vrfs>>

-----------------------------------------------------------------------------
(* Commit *)

LockSubscribe(t) ==
    /\ pc[t] \in {"lock", "clearlock"}
    /\ subscribe = None
    /\ subscribe' = t
    /\ todo' = edits
    /\ Goto(t, IF pc[t] = "lock" THEN "commit" ELSE "clearcommit")
    /\ UNCHANGED <<sections, event, edits, entered, ready, current, cancelled, vrfs>>

\* The next etcd command: EtcdPathApi or EtcdEndpointsApi
ExecEtcdCommand(t) ==
    /\ pc[t] \in {"commit", "clearcommit"}
    /\ todo > 0
    /\ todo' = todo - 1
    /\ ready' \in BOOLEAN          \* a path or an endpoint is set or deleted
    /\ Goto(t, "event")
    /\ UNCHANGED <<sections, subscribe, event, edits, entered, current, cancelled, vrfs>>

\* All commands are executed and the candidate is active, or the validation
\* has failed before the first one and the candidate stays as it is.
Executed(t) ==
    /\ \/ todo = 0 /\ edits' = 0
       \/ todo = edits /\ UNCHANGED edits
    /\ todo' = 0
    /\ subscribe' = None

\* The handler has more to do, or the VRF it has brought or withdrawn is in
\* the cache or out of it.
CommitEnd(t) ==
    /\ pc[t] = "commit"
    /\ Executed(t)
    /\ \/ t \in Clis /\ Goto(t, "idle") /\ UNCHANGED <<sections, vrfs>>
       \/ /\ t \in Watchers
          /\ sections' = [sections EXCEPT ![t] = @ - 1]
          /\ \/ sections[t] > 1 /\ Goto(t, "lock") /\ UNCHANGED vrfs
             \/ /\ sections[t] = 1
                /\ Goto(t, "idle")
                /\ vrfs' \in {vrfs - 1, vrfs, vrfs + 1} \cap 0 .. MaxVrf
    /\ UNCHANGED <<event, entered, ready, current, cancelled>>

-----------------------------------------------------------------------------
(* EtcdWatchUpdate *)

\* The subscription of ribd: RIBD_SYNCHRONIZED, and no SubscribeMutex
SubscribeAddRibd(t) ==
    /\ t \in Ribds /\ pc[t] = "idle"
    /\ current < MaxWatch
    /\ Goto(t, "event")
    /\ UNCHANGED <<sections, subscribe, event, edits, todo, entered, ready, current, cancelled, vrfs>>

LockEvent(t) ==
    /\ pc[t] = "event"
    /\ event = None
    /\ event' = t
    /\ Goto(t, "stop")
    /\ UNCHANGED <<sections, subscribe, edits, todo, entered, ready, current, cancelled, vrfs>>

Alive(w) == pc[w] \notin {"none", "done"}

\* The context is cancelled and the goroutine is left to end by itself.
EtcdWatchStopAtOnce(t) ==
    /\ pc[t] = "stop"
    /\ cancelled' = IF current = None THEN cancelled ELSE cancelled \cup {current}
    /\ Goto(t, "clear")
    /\ UNCHANGED <<sections, subscribe, event, edits, todo, entered, ready, current, vrfs>>

\* The goroutine is waited for and its context never cancelled.
EtcdWatchStopNoCancel(t) ==
    /\ pc[t] = "stop"
    /\ Goto(t, "wait")
    /\ UNCHANGED <<sections, subscribe, event, edits, todo, entered, ready, current, cancelled, vrfs>>

EtcdWatchStop(t) ==
    /\ pc[t] = "stop"
    /\ cancelled' = IF current = None THEN cancelled ELSE cancelled \cup {current}
    /\ Goto(t, "wait")
    /\ UNCHANGED <<sections, subscribe, event, edits, todo, entered, ready, current, vrfs>>

WatchWait(t) ==
    /\ pc[t] = "wait"
    /\ \A w \in Watchers : ~Alive(w)
    /\ Goto(t, "clear")
    /\ UNCHANGED <<sections, subscribe, event, edits, todo, entered, ready, current, cancelled, vrfs>>

ClearVrfCache(t) ==
    /\ pc[t] = "clear"
    /\ Goto(t, IF vrfs > 0 THEN "clearlock" ELSE "start")
    /\ UNCHANGED <<sections, subscribe, event, edits, todo, entered, ready, current, cancelled, vrfs>>

\* The Commit of a VrfDelete ends.
VrfDelete(t) ==
    /\ pc[t] = "clearcommit"
    /\ Executed(t)
    /\ vrfs' = vrfs - 1
    /\ Goto(t, "clear")
    /\ UNCHANGED <<sections, event, entered, ready, current, cancelled>>

\* Back to Commit, or to the end of the subscription
Return(t) == [pc EXCEPT ![t] = IF t \in Ribds THEN "idle" ELSE "commit"]

StartWatch(t) ==
    /\ pc[t] = "start" /\ ready
    /\ current < MaxWatch
    /\ event' = None
    /\ current' = current + 1
    /\ pc' = [Return(t) EXCEPT ![current'] = "idle"]
    /\ UNCHANGED <<sections, subscribe, edits, todo, entered, ready, cancelled, vrfs>>

\* No path or no endpoints
NoWatch(t) ==
    /\ pc[t] = "start" /\ ~ready
    /\ event' = None
    /\ pc' = Return(t)
    /\ UNCHANGED <<sections, subscribe, edits, todo, entered, ready, current, cancelled, vrfs>>

-----------------------------------------------------------------------------
(* The watcher goroutine *)

\* Handlers, too, are serialised by EtcdEventMutex.
HandleUnderEventMutex(w) ==
    /\ pc[w] = "idle"
    /\ \E n \in Sections : sections' = [sections EXCEPT ![w] = n]
    /\ Goto(w, "event")
    /\ UNCHANGED <<subscribe, event, edits, todo, entered, ready, current, cancelled, vrfs>>

\* An event arrives and its handler starts.
Handle(w) ==
    /\ pc[w] = "idle"
    /\ \E n \in Sections : sections' = [sections EXCEPT ![w] = n]
    /\ Goto(w, "lock")
    /\ UNCHANGED <<subscribe, event, edits, todo, entered, ready, current, cancelled, vrfs>>

\* ctx.Done(), looked at between events
WatchDone(w) ==
    /\ pc[w] = "idle" /\ w \in cancelled
    /\ Goto(w, "done")
    /\ UNCHANGED <<sections, subscribe, event, edits, todo, entered, ready, current, cancelled, vrfs>>

-----------------------------------------------------------------------------

Run(t) ==
    \/ LockSubscribe(t) \/ ExecEtcdCommand(t) \/ CommitEnd(t)
    \/ LockEvent(t) \/ EtcdWatchStop(t) \/ WatchWait(t) \/ ClearVrfCache(t)
    \/ VrfDelete(t) \/ StartWatch(t) \/ NoWatch(t)

\* In EtcdWatchUpdate, and not in a Commit that ClearVrfCache makes there
Updating(t) == pc[t] \in {"event", "stop", "wait", "clear", "clearlock", "start"}

\* A Commit is in EtcdWatchUpdate when a watcher has been started, or together
\* with somebody else.
UpdatesAgain ==
    \E t \in Threads :
        subscribe = t /\ Updating(t) /\ (current # None \/ event \notin {t, None})

Step ==
    \/ EnterEtcdCommand \/ ConfigDiscard
    \/ \E t \in Threads : BeginCommit(t) \/ SubscribeAddRibd(t) \/ Run(t)
    \/ \E w \in Watchers : Handle(w) \/ WatchDone(w)

Noted == again' = (again \/ UpdatesAgain')

Next == Step /\ Noted

Spec == Init /\ [][Next]_vars

\* Goroutines run; a mutex is not kept from one that waits for it (Go's
\* mutexes hand over to a starving waiter); a cancelled context is noticed
\* although events keep arriving, as select chooses at random.
FairSpec ==
    /\ Spec
    /\ \A t \in Threads : SF_vars(Run(t) /\ Noted)
    /\ \A w \in Watchers : SF_vars(WatchDone(w) /\ Noted)

-----------------------------------------------------------------------------
(* Properties *)

\* EtcdEventMutex serialises etcd event handling: whatever restarts the
\* watcher, from a commit or from ribd's subscription, at most one goroutine
\* handles events, and none while the VRF cache is being withdrawn.
OneWatcher ==
    /\ \A v, w \in Watchers : Alive(v) /\ Alive(w) => v = w
    /\ (\E t \in Threads : pc[t] \in {"clear", "clearlock", "clearcommit"})
       => \A w \in Watchers : ~Alive(w)

WaitsFor(t) ==
    CASE pc[t] \in {"lock", "clearlock"} -> {subscribe} \cap Threads
      [] pc[t] = "event" -> {event} \cap Threads
      [] pc[t] = "wait" -> {w \in Watchers : Alive(w)}
      [] OTHER -> {}

\* Commits, handlers and ribd's resynchronisations never wait for each other
\* in a circle, nor one of them for itself, as long as no Commit runs
\* EtcdWatchUpdate after a watcher has been started or while another one runs.
NoCircle ==
    ~again => \A S \in (SUBSET Threads) \ {{}} : \E t \in S : WaitsFor(t) \cap S = {}

\* Until such a command, everyone gets through: a commit, the handling of an
\* event and a resynchronisation for ribd all end.
EveryoneEnds ==
    \A t \in Threads :
        pc[t] \notin {"none", "idle", "done"} ~> (pc[t] \in {"idle", "done"} \/ again)

=============================================================================
