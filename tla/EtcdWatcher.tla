---------------------------- MODULE EtcdWatcher ----------------------------
(***************************************************************************)
(* The etcd side of openconfigd: config/etcdwatcher.go (ResyncAndWatch,    *)
(* Watch) and the goroutine EtcdWatchUpdate starts in config/etcd.go.      *)
(*                                                                         *)
(* etcd itself (a library and a service) is modelled from how the code     *)
(* uses it: every Put or Delete makes one new revision, Get returns the    *)
(* live keys modified at or after a revision together with the current     *)
(* revision, Watch delivers the events from a revision on, in order, and   *)
(* ends with an error when it is interrupted or when what it would deliver *)
(* has been compacted.  A value is abstracted to the revision that wrote   *)
(* it; view[k] is what putHandler and deleteHandler have last made of k,   *)
(* 0 when the key is absent.                                               *)
(***************************************************************************)
EXTENDS Integers, Sequences

CONSTANTS
    Keys,        \* the keys below etcdPath
    VrfKeys,     \* those whose effect ClearVrfCache withdraws
    MaxRev,      \* bound: revisions etcd reaches
    MaxFail,     \* bound: interruptions (failed Get, closed channel)
    MaxUpdate    \* bound: calls of EtcdWatchUpdate

ASSUME KeysAssumption == VrfKeys \subseteq Keys
ASSUME RevisionsAssumption == MaxRev \in Nat /\ MaxFail \in Nat /\ MaxUpdate \in Nat

VARIABLES
    log,         \* etcd: log[i] is the event of revision i
    live,        \* etcd: the keys that exist
    mod,         \* etcd: the revision of each key's last event
    compacted,   \* etcd: revisions up to this one are gone
    stage,       \* where the watcher goroutine is
    revision,    \* the variable revision of ResyncAndWatch and Watch
    next,        \* etcd: the next revision the open watch delivers
    view,        \* the effect of the handler calls made so far
    fails, updates

etcdVars == <<log, live, mod, compacted>>
watcherVars == <<log, live, mod, compacted, stage, revision, next, view, fails, updates>>

Event == [key : Keys, type : {"PUT", "DELETE"}]

\* "stopped"  no goroutine runs      "retry"    outer loop, before NewWatcher
\* "resync"   before client.Get      "open"     before client.Watch
\* "watching" in the select          "backoff"  after the watch broke
WatcherState == {"stopped", "retry", "resync", "open", "watching", "backoff"}

WatcherTypeOK ==
    /\ log \in Seq(Event)
    /\ live \subseteq Keys
    /\ mod \in [Keys -> Nat]
    /\ compacted \in Nat
    /\ stage \in WatcherState
    /\ revision \in Nat
    /\ next \in Nat
    /\ view \in [Keys -> Nat]
    /\ fails \in Nat
    /\ updates \in Nat

WatcherInit ==
    /\ log = << >>
    /\ live = {}
    /\ mod = [k \in Keys |-> 0]
    /\ compacted = 0
    /\ stage = "stopped"
    /\ revision = 0
    /\ next = 0
    /\ view = [k \in Keys |-> 0]
    /\ fails = 0
    /\ updates = 0

-----------------------------------------------------------------------------
(* etcd *)

Write(k, type) ==
    /\ Len(log) < MaxRev
    /\ log' = Append(log, [key |-> k, type |-> type])
    /\ live' = IF type = "PUT" THEN live \cup {k} ELSE live \ {k}
    /\ mod' = [mod EXCEPT ![k] = Len(log) + 1]
    /\ UNCHANGED <<compacted, stage, revision, next, view, fails, updates>>

EtcdPut(k) == Write(k, "PUT")

EtcdDelete(k) == k \in live /\ Write(k, "DELETE")

EtcdCompact ==
    /\ \E c \in (compacted + 1) .. Len(log) : compacted' = c
    /\ UNCHANGED <<log, live, mod, stage, revision, next, view, fails, updates>>

-----------------------------------------------------------------------------
(* The watcher goroutine *)

\* The outer loop of EtcdWatchUpdate's goroutine comes round: NewWatcher
\* succeeds and ResyncAndWatch is entered with the revision it last returned.
Retry ==
    /\ stage = "retry"
    /\ stage' = "resync"
    /\ UNCHANGED <<etcdVars, revision, next, view, fails, updates>>

\* Mutation: the watch starts one revision too late.
GetSkipsOne ==
    /\ stage = "resync"
    /\ view' = [k \in Keys |-> IF k \in live /\ mod[k] >= revision
                                 THEN mod[k] ELSE view[k]]
    /\ revision' = Len(log) + 2
    /\ stage' = "open"
    /\ UNCHANGED <<etcdVars, next, fails, updates>>

\* Get succeeds: putHandler for every live key modified since revision, then
\* revision is the one after the answer's header.
Get ==
    /\ stage = "resync"
    /\ view' = [k \in Keys |-> IF k \in live /\ mod[k] >= revision
                                 THEN mod[k] ELSE view[k]]
    /\ revision' = Len(log) + 1
    /\ stage' = "open"
    /\ UNCHANGED <<etcdVars, next, fails, updates>>

\* Get fails: ResyncAndWatch returns revision and the error.
GetFail ==
    /\ stage = "resync"
    /\ fails < MaxFail
    /\ fails' = fails + 1
    /\ stage' = "retry"
    /\ UNCHANGED <<etcdVars, revision, next, view, updates>>

\* Mutation: the watch is opened without WithRev's start, from the oldest event.
WatchOpenReplays ==
    /\ stage = "open"
    /\ next' = compacted + 1
    /\ stage' = "watching"
    /\ UNCHANGED <<etcdVars, revision, view, fails, updates>>

WatchOpen ==
    /\ stage = "open"
    /\ next' = revision
    /\ stage' = "watching"
    /\ UNCHANGED <<etcdVars, revision, view, fails, updates>>

\* One event arrives: its handler is called and revision becomes the header's.
WatchRecv ==
    /\ stage = "watching"
    /\ next > compacted
    /\ next <= Len(log)
    /\ view' = [view EXCEPT ![log[next].key] = IF log[next].type = "PUT" THEN next ELSE 0]
    /\ revision' = next
    /\ next' = next + 1
    /\ UNCHANGED <<etcdVars, stage, fails, updates>>

\* The answer carries ErrCompacted.
WatchCompacted ==
    /\ stage = "watching"
    /\ next <= compacted
    /\ stage' = "backoff"
    /\ UNCHANGED <<etcdVars, revision, next, view, fails, updates>>

\* The channel is closed, or carries another error.
WatchClosed ==
    /\ stage = "watching"
    /\ fails < MaxFail
    /\ fails' = fails + 1
    /\ stage' = "backoff"
    /\ UNCHANGED <<etcdVars, revision, next, view, updates>>

\* Mutation: the back-off timer is waited for without being armed.
BackOffHangs == stage = "backoff" /\ UNCHANGED watcherVars

\* backOffTime is over: round the loop of ResyncAndWatch.
BackOff ==
    /\ stage = "backoff"
    /\ stage' = "resync"
    /\ UNCHANGED <<etcdVars, revision, next, view, fails, updates>>

\* EtcdWatchUpdate: the running goroutine is cancelled and waited for, the VRF
\* cache is withdrawn, and a new goroutine starts from revision 0, unless the
\* path or the endpoints are empty.
EtcdWatchUpdate ==
    /\ updates < MaxUpdate
    /\ updates' = updates + 1
    /\ view' = [k \in Keys |-> IF k \in VrfKeys THEN 0 ELSE view[k]]
    /\ revision' = 0
    /\ stage' \in {"stopped", "retry"}
    /\ UNCHANGED <<etcdVars, next, fails>>

Watcher == Retry \/ Get \/ WatchOpen \/ WatchRecv \/ WatchCompacted \/ BackOff

WatcherNext ==
    \/ \E k \in Keys : EtcdPut(k) \/ EtcdDelete(k)
    \/ EtcdCompact
    \/ Watcher
    \/ GetFail \/ WatchClosed
    \/ EtcdWatchUpdate

WatcherSpec == WatcherInit /\ [][WatcherNext]_watcherVars

\* The goroutine is scheduled by the Go runtime and only waits for timers and
\* for etcd, which answers except in the steps GetFail and WatchClosed.
FairWatcherSpec == WatcherSpec /\ WF_watcherVars(Watcher)

-----------------------------------------------------------------------------
(* Properties *)

\* The revision up to which (exclusive) the handlers have seen every live key.
Processed == IF stage = "watching" THEN next ELSE revision

\* No put is lost, whatever is interrupted or compacted in between: a key that
\* is live in etcd and was last written before the revision the watcher has
\* reached has been given to putHandler with that last value.
NoPutLost ==
    \A k \in Keys : k \in live /\ mod[k] < Processed => view[k] = mod[k]

\* putHandler is called again for what it has already seen (Get asks from the
\* last revision processed, inclusive), but never with an older value: the
\* effect of a newer write is not undone by a redelivered older one.
NeverOlder ==
    [][\A k \in Keys : view'[k] # 0 => view'[k] >= view[k]]_watcherVars

\* Once etcd is left alone and answers, a running watcher ends up with the
\* last value of every live key, after any interruptions and restarts.
PutsArrive ==
    <>[](stage # "stopped" => \A k \in Keys : k \in live => view[k] = mod[k])

\* "Resync": the handlers end up with etcd's content, so a key that is gone
\* from etcd is gone from the configuration.
Resynced ==
    <>[](stage # "stopped" => \A k \in Keys : k \notin live => view[k] = 0)

=============================================================================
