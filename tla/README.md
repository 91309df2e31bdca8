# openconfigd in TLA+

openconfigd is a YANG driven configuration daemon. Sessions and etcd edit one
candidate configuration; a commit sends the difference to the modules that
subscribed to it, starts and stops local daemons, and makes the candidate the
active configuration. This directory holds TLA+ modules for its parts, the TLC
configurations that check them on small instances, and proofs that TLAPS checks.
`PROJECT.json` maps every definition to the lines it models and lists the runs,
the hazards they are aimed at, the findings and the theorems.

## Parts of the system

| part | source | module | state |
|---|---|---|---|
| etcd watcher | `config/etcdwatcher.go`, `etcd.go` | `EtcdWatcher` | modelled |
| store, commit, subscriptions | `config/subscribe.go`, `config.go`, `yang.go`, `grpc.go` | `ConfigCommit` | modelled |
| two phase validation | `config/subscribe.go`, `grpc.go` | `ValidateRound`, `Validation` | modelled |
| API synchronisation | `config/subscribe.go`, `grpc.go` | `ApiSync` | modelled |
| tree of subscription paths | `config/subscribe.go` | `PathTrie` | modelled |
| locks and watcher restarts | `config/etcd.go`, `subscribe.go`, `vrf.go` | `WatchLocks` | modelled |
| VRFs from etcd | `config/vrf.go`, `ospf.go`, `quagga.go`, `dlist.go` | `VrfSync`, `ConfigPaths` | partly |
| local daemons | `config/vrrp.go`, `dhcp.go`, `relay.go` | `LocalDaemons` | partly |
| GoBGP | `config/gobgp.go` | `Gobgp`, `GobgpWan` | partly |
| quagga instance manager | `config/quagga_manager.go` | `QuaggaManager` | modelled |
| etcd lock, VRRP states | `config/etcd.go`, `vrrp.go` | `VrrpState` | modelled |
| quaggad | `quagga/quagga.go`, `grpc.go`, `config_policy.go` | `Quaggad` | partly |
| configuration tree, YANG commands | `config/config.go`, `yang.go`, `load.go` | `ConfigTree` | partly |
| files: load, compare, revisions | `config/load.go`, `compare.go`, `rollback.go` | `CommitFiles` | partly |

How they interact. `EtcdWatcher` delivers keys to handlers: those of `VrfSync`,
which edit and commit, and those of `Gobgp`, `GobgpWan`, `QuaggaManager` and
`VrrpState`, composed in `EtcdServices`. A commit is one step of `ConfigCommit`,
because it runs under `SubscribeMutex`; what happens inside that step without
the mutex is in `ValidateRound` (first phase) and in `CommitFiles`, which composes
`ApiSync` (second phase) with the files of the commit. `ConfigCommit` takes a
validation round to be what `Validation` promises, and `ValidateRound` is proved
to implement `Validation`. `PathTrie` decides which subscriber a command goes to;
`ConfigTree` is what `set` and `delete` do to the candidate. `WatchLocks` looks at
the same actors as waiters for mutexes. `Quaggad` is the module at the far end of
the commit protocol.

## Modules

**EtcdWatcher.** The goroutine of `EtcdWatchUpdate`, `ResyncAndWatch` and
`Watch`, a step per call to etcd. etcd is external: a log of revisions that can
be compacted. A value is the revision that wrote it.

**ConfigCommit.** Configurations are sets of command lines. Actions: `Edit`,
`Commit`, connecting, subscribing and leaving, `Restart`. The histories `pushed`,
`leaked` and `failed` name what the code does not promise: lines modules push
behind the commit, candidate lines a JSON sync sends, and failed rounds.

**ValidateRound, Validation.** The committer, a goroutine per subscriber and
round and the `DoConfig` handlers. `ValidateCount` and `sub.done` are unprotected
in the code, so each read and each write is a step. Closing a closed channel and
the like set `panicked`, after which nothing happens.

**ApiSync.** `Subscriber.Commit`'s wait on the global `ApiSyncCh`, its timer, and
the handlers that close the channel.

**CommitFiles.** A commit step by step around `ApiSync`: the two temporary files
that `diff` compares, which `show` and `compare` use without the mutex, the
renaming of revisions and the writing of the new one, and what a start loads. The
process may die between any two steps. Histories: `overlap` (somebody used the
temporary files meanwhile), `gap` (a crash between the first rename and the last
write), `done` and `age` (what was committed to the end, and how long ago).

**ConfigTree.** Trees of `Config` nodes with lists, several keys, choices, presence
containers and leaf lists; `Parse`, `Delete`, `Copy`, `CommandList`, the mandatory
check, the file and `LoadConfig`. `copied` says that the candidate has been a copy
of the active configuration, which lacks part of what the schema gave the
original.

**PathTrie.** `RegisterPath`, `UnregisterPath` and reference counts; the walk of
`PathRegisterCommand` as a function, compared with a definition of the best
cover that uses only the subscriptions.

**WatchLocks.** `SubscribeMutex`, `EtcdEventMutex` and the wait for the watcher.

**VrfSync, LocalDaemons, ConfigPaths.** A VRF handler is a list of functions,
each a script of `ExecLine` and `Commit` calls; a session may commit or discard
the candidate between any two calls. `LocalDaemons` is what a commit does to
keepalived, dhcpd and dhcrelay, `ConfigPaths` is `set` and `delete` on paths.

`undone` holds the paths of edits that were discarded, lost with an interface, or
contested because an interface moves between VRFs. `bare` holds the list entries of
static routes whose nexthop was deleted and not set again: `EtcdVrfStaticClear`
deletes the nexthop, and `Config.Delete` takes away empty containers but no entry
of a list that has leaves. The leaves `pair-backup` and `region-backup` that
`EtcdVrfSync` sets are in no YANG module, so that those commands match nothing.

**Gobgp, GobgpWan.** `gobgpConfig` and the server it is meant to describe; the
watcher, the zebra retry and the CLI change both without a lock, in batches of
calls. The server is vendored (`osrg/gobgp/server`): nothing works without an AS,
what exists is not added again, a VRF is not deleted while a neighbour is in it
(`VrfOf` is the VRF of a neighbour's parameters), and a neighbour is not added if
its VRF is not there. `GobgpUpdate` updates VRFs before neighbours and looks at no
error. Histories: `kept` (VRFs the server has refused to delete or replace),
`unadded` (neighbours it has refused to add), `stale` (a call did not arrive, or two
threads overlapped). `GobgpWan` adds the second gobgpd, whose zebra client shares the retry.

**QuaggaManager.** The cache, the process map and the running bgpds of a VRF. Each
handler holds `LocalCacheLock` and is one action. `departed` names the ways in
which the processes leave the configuration.

**VrrpState.** `EtcdLock`, the read and the write of the shared map, `EtcdUnlock`,
as separate steps, with a lease that may run out under its holder.

**EtcdServices.** The four above, below one watcher.

**Quaggad.** The running and candidate trees of quaggad, and the stream between
it and openconfigd. The policy lists are programmed as a whole at the first
command of a commit, route maps rule by rule and clause by clause; one abstract
neighbour stands for the handlers that call vtysh themselves. As in the code, a
leaf with two values has none that can be read (`value`). The `delete` and
the `set` commands of a commit are one message of the stream each, of which quaggad
handles one command at a time, parents first.

Operators commented as mutants are plausible bugs; each property is violated
when its mutant takes the place of the definition it is named after.

## Runs

| run | shows |
|---|---|
| `etcd_watcher` | no put is lost or undone by an older one, and the last values arrive, over failures, compaction and restarts |
| `etcd_lost_delete` | **violated**: a delete that happens while no watch is open is never seen |
| `commit` | modules, file and active configuration agree; no mandatory line is missing |
| `commit_all_or_nothing` | **violated**: what one module refused stays queued for the others and is sent later |
| `validate_round` | a round implements `Validation`; only accepted commands are committed while answers are in time |
| `commit_files` | modules are told the difference and configured one at a time; the last commit survives crashes; every commit returns |
| `trees` | `set` and `delete` do exactly what they say, and the file brings the configuration back; exact reference counts, and commands reach their best cover |
| `watch_locks` | one watcher at a time; no circular wait and no starvation, under the condition below |
| `vrf_sync` | configuration and daemons follow etcd; updates are hitless; a resync keeps ribd's VRFs |
| `etcd_services` | gobgpd has what openconfigd believes it has, and that is what etcd sent; the WAN gobgpd and the bgpds follow their keys; VRRP states are not lost |
| `quaggad` | with `-2`: quaggad mirrors the active configuration and programs exactly its lists and route maps |
| `quaggad_single_phase` | **violated**: without `-2`, policy lists are not programmed |

Each module states its type invariant. It is proved for `EtcdWatcher`,
`ConfigCommit`, `ApiSync`, `CommitFiles` and `PathTrie` and, as a part of other
invariants, for most of the state of `ValidateRound`, `WatchLocks` and
`EtcdServices` and for the maps of `VrfSync`; the runs are spent on properties that take several steps to
violate.

Many properties have a condition, and it is part of the result:

* `NoCircle` and `EveryoneEnds` hold until a commit runs `EtcdWatchUpdate` when
  a watcher has been started or another update is under way (`again`). After
  that the commit may hold `SubscribeMutex` and wait for a watcher whose handler
  wants it, or commit again inside itself through `ClearVrfCache`.
* `AcceptedOnly` and `PanicNeedsOverlap` hold while no answer is late; `OneAtATime`
  and `PanicNeedsTimeout` until a wait times out.
* `ToldIsActive` and `RestartKeeps` exclude a `show` or `compare` that had the
  temporary files at the same time. `RestartKeeps` also excludes a crash between
  the first rename and the last write, when the newest revision is missing or
  half written; `RevisionKept` then still finds the configuration one revision
  back, if option `-p` names the directory that is renamed in.
* `LinesComplete` and `EditsExact` hold until the candidate has been a copy, that
  is, until the first discard: `Copy` keeps neither the cases nor the keys that
  only hold keys. A restart does not end this, because half a command that was
  committed is in the file. `EditsExact` and `Reloads` exclude two first keys of a list that share a second key, which
  `lookupKey` confuses.
* `Converged`, `Withdrawn`, `Daemons` and `WalkerRight` except the paths in `undone`,
  which nothing repeats, and the daemons that depend on them; `Hitless` asks that
  there are none. `Converged` also says that the entries in `bare` are still there: a
  static route that is withdrawn leaves its prefix in the configuration until its
  VRF is deleted. The first half of `Daemons` (`Remembered`) has no exception: it
  compares the processes with the maps of the code, not with the configuration.
* `GobgpMirrors` fails from a call that did not reach gobgpd, or from two threads
  at it at once, until an undisturbed reset. It excepts single entries that the
  server has refused: a VRF that was changed or withdrawn while a neighbour was
  in it (and one that comes back after that) stays as it was, and a neighbour that
  came before its VRF is missing, until the server accepts a change of that
  entry or there is a reset. `GobgpRemembers` excludes addresses
  that a neighbour has moved away from, and what `clear gobgp` removed.
  `ZebraRetried` excludes a retry that gobgpd did not answer or that was refused
  again in the reset after a success. `WanFollows` excludes an unreadable value.
* `BgpdsFollowKey` has four exceptions, stated at the property; `BgpdsStop` has
  only the first of them. `StatesExact` holds until a lease runs out.
* `Mirror` and the first half of `Applied` exclude a quaggad that has missed a
  change: a reconnection sends no deletes. What it does repair is `CaughtUp`,
  everything active is in the running tree again, and the second half of
  `Applied`, lists and neighbours with one value are in quagga. `Applied` excludes leaves with two values and the two clauses
  whose vtysh commands are misspelt in `config_policy.go` (`prefix-ist`).
  `ActiveValid` excludes behaviours with a validation timeout too.

### Bounds

Two keys, four revisions and two interruptions let a key be written, deleted
and written again around a compaction. Two lines on two paths with a mandatory
pair give every combination of refusing and accepting modules; after a round
that was not unanimous, `commit` follows only modules that subscribe to
everything, one subscription at a time (`AfterFailure`). Two rounds are what a leftover goroutine needs to
meet its successor, and a subscriber alone has a third, because an answer that
one round's goroutine lost can be taken in the round after the next. At any time
one of the subscribers has goroutines left over from earlier rounds
(`OneLeftover`): these are past `SubscribeWg.Done` (`RoundInv`, which is proved), so
that they touch neither `ValidateCount` nor another subscriber's channel. Two
commits are what a late report needs to meet the wrong wait. `commit_files` has two commits, two crashes, one `show` or `compare` and three
revisions, so that a crash may hit the commit after the one whose file it
orphaned. Four overlapping paths include a prefix and a wildcard. The schema of
`trees` is put together from those of the repository's tests, with one leaf below
the first of each pair of second keys; a behaviour works
on one part of it, without a bound on its length. In `vrf_sync`, two VRFs with two
configurations each share the walker and the DHCP configuration, and one
interface moves between them, and a static route is withdrawn and comes back; one fault (`MaxFault`), which comes before any edit
is lost. In `etcd_services`, services that share no state are looked at apart
(`MCRoles`); three keys of gobgpd, one CLI command and two faults let a reset or
the zebra retry fall between any two batches of a handler, and a neighbour come
before its VRF or outlive it; a VRF's routes may
change with its parameters or without them; and the values of a `quagga` key,
over two interfaces and two instances, reach each way out of step. In `quaggad`, three commits of seven
configurations of lists, or of seven of route maps, let a failed or timed out
validation fall between two that succeed.

`SYMMETRY` is used in `validate_round`, for modules, and in `etcd_services`, for ids
of neighbours: they are interchangeable there, and the only temporal property is
a safety refinement.

Deadlock is not checked where the bounds or a panic stop the system.

### Fairness

`etcd_watcher`: weak fairness of the watcher's own steps; failures are never
required. `commit_files`: weak fairness of the committer, whose timer fires, and
none of modules, sessions and crashes: no module has to answer. `watch_locks`: strong fairness of each thread, as Go's mutexes hand
over to a starving waiter and `select` chooses at random among ready cases.

## Findings

1. `etcd_lost_delete`: the resync asks for keys modified since a revision, and a
   deleted key is in no answer (`config/etcdwatcher.go:58`).
2. `commit_all_or_nothing`: a failed validation leaves commands queued
   (`config/subscribe.go:443`).
3. `quaggad_single_phase`: policy lists are programmed from `configCandidate`,
   which only `VALIDATE_START` fills; `quagga/README.md:12` starts openconfigd
   without `-2`.

## Proofs

All theorems hold for every value of the constants that meets the named
assumptions of the module (types, and finiteness in `PathTrie`).

* `WatcherProofs`, of `EtcdWatcher`: `TypeCorrect`, `NoPutIsLost`, `NeverGoesBack`. `NoPutLost`
  is not inductive alone. `KvMatchesLog` ties etcd's keys to its log, so that a
  delivered event is known to be the key's last or followed by a later one;
  `WatcherInStep` says the watcher never runs ahead of etcd and an open watch
  delivers only what is newer than the view.
  Of `WatchLocks`: `WatcherUnique`, `NobodyInCircle`. Whoever is inside
  `EtcdWatchUpdate` holds `EtcdEventMutex`, and a goroutine that is alive is the
  current one. `LockInv`: until a commit updates again, a mutex has its holder where
  it is used, and VRFs are cached only after a start; so the holder of
  `SubscribeMutex` waits for nobody, a watcher waits at most for it, and whoever
  waits for a watcher or for `EtcdEventMutex` waits for somebody who goes on.
* `ConfigCommitProofs`: `TypeCorrect`, `ModulesAgree`, `NothingUnsaved`,
  `Complete`. Until a round fails, queues are empty between actions (`Drained`),
  a module has only lines it subscribed to (`Within`), and a subscriber that has
  left has no paths (`Unsubscribed`); so the commands of a commit bring each
  view from the old to the new active configuration.
* `CommitFilesProofs`: `TypeCorrect`, `InTurn`, `NoPanicInTime` for `ApiSync` alone,
  where exactly one of report, close and wake-up is outstanding while the
  committer waits; `FilesTypeCorrect`, `FilesInTurn`, `FilesNoPanicInTime`,
  `ModulesTold`, `RevisionsKept`, `RestartsKeep` with the files, crashes and
  restarts around it. `OwnFiles`: until somebody else has used the temporary files,
  each holds what its user wrote. `Vacated`: the revision about to be renamed onto
  is free. `Kept`: the last finished commit is in a revision `r` no older than its
  age, strictly younger while the renaming has still to pass `r`, and not the
  newest one while that is open for writing; `RevisionKept` alone does not survive
  the next rename. `Loaded`: without a gap the newest revision is the last commit,
  and a start that is under way has it as its candidate.
* `PathTrieProofs`: `TypeCorrect`, `CountsExact`, `NeverDetached`, `CommandsRouted`.
  Registering or removing a path changes the set of subscriptions through a node
  by one; so the tree is closed under prefixes. The walk of `PathRegisterCommand`
  is a recursion over the words of the command: at each depth it is at the node
  that covers the words so far (`LayerStep`), because a smallest depth at which it
  is not cannot exist.
* `ValidateRoundProofs`: `RoundsAreValidations`, `SentIsAccepted`,
  `PanicsAreOverlaps`. `RoundInv`: a goroutine that is not past `SubscribeWg.Done`
  is one of this round, a subscriber is asked at most once, and with a single
  voter `ValidateCount` is what its goroutine has left of it. `WgExact`:
  `SubscribeWg` counts those goroutines, so that `Wait` returns after everyone has
  been counted. `AnswersInv`: until an answer is late, an answer on its way is
  the one to this round's question. `DoneInv`: until two goroutines of a subscriber
  meet, `sub.done` is the channel of the one that uses it, and is open.
* `EtcdServicesProofs`: `StatesKept`, `WanFollowsKeys`, `BgpdsAreStopped`,
  `BgpdsAreTheKeys`, `ZebraIsRetried`, `KeysRemembered`, `ServerMirrors`. `VrrpInv`: until a lease runs
  out, the copy in the hands of the lock's holder is the current map. `WanInv`:
  the two configurations are the two keys. `QuaggaInv`: a
  process in the map has its interface in key and cache, and until the VRF
  departs map, cache and key are the same. `ZebraInv`: somebody owes the retry, or it has given up.
  `RememberInv`: while a handler is at work it is the `cfg` it is about to assign
  that has the last values, no address has two owners, and none with an owner
  is in the value of the key `bgp` (assumption `OwnKeys`).
  `MirrorInv`: while all threads are quiet the server has
  what `gobgpConfig` says, but for the VRFs in `kept`, of which it has some form, and
  the neighbours in `unadded`, which it lacks; before the update of a handler that is alone its VRFs
  have the new routes already, which is why comparing only their number
  (`VrfConfig.Equal`) does no harm; after it the server has what the handler will
  assign; and a server that was cleared and not touched since is blank, with nothing refused. Nothing
  is claimed while two threads are busy: the first to go on makes it stale.
* `QuaggadProofs`: `RunningMirrors`, `ActiveIsValid`. `MirrorInv` speaks of what
  quaggad will be once it has handled all that is on its way: the messages, one
  after the other, lead from its trees and its flag to a running tree that is the
  active configuration, with the flag reset (`Leads`). A message that is handled
  goes over from the stream to the trees and changes nothing in this; a
  validation or a commit that is sent continues from the end, where the commands from
  one configuration to another make the one of the other (`CommandsMake`: a path
  that is deleted is above none that stays, since configurations contain the
  parents of their paths), and where the whole configuration, which a reconnection
  sends, makes it of itself. `Answer`: until a validation times out there is one
  result on its way exactly while one is waited for, and it is about the target.
  A change that never reached quaggad (`missed`) voids all this.
  `ReconnectionCatchesUp` needs less: what is on its way leads to a running tree
  that contains the active configuration (`CoverInv`). Commands from one
  configuration to another keep this, whatever else the tree contains, because
  they delete nothing that the new one has; it is lost by a change that is not
  sent, and regained when a reconnection sends the whole configuration.
* `VrfSyncProofs`: `ProcessesRemembered` (`Remembered`, the first half of `Daemons`).
  A step stops processes that are recorded and starts ones that are not running
  (`Swap`); the five kinds have different names, so that the exchanges of a step add
  up, and a process that is recorded runs once (`SwapOnce`). For a commit this
  compares the old and the new instances of keepalived, dhcpd and dhcrelay; for the
  handlers' functions, the old and the new entry of `QuaggaProc` or
  `OspfProcessMap`. `HandlerInv` says how far the handler is: until `OspfVrfSync` or
  `QuaggaVrfSync` is called the VRF's routing daemons are those of the cached
  configuration, then those of the new one, and the last thing a handler does is
  to cache it.

Zenon is the prover unless a leaf names another (`USE Zenon` at the head of each
module): few leaves need arithmetic, and those are kept small.

Only model-checked:

* liveness (`PutsArrive`, `CommitReturns`, `EveryoneEnds`), which is beyond the prover;
* `LinesComplete`, `EditsExact` and `Reloads` of `ConfigTree`, whose edits and printing
  are recursions over trees (`RECURSIVE` operators);
* `Converged`, `Withdrawn`, `Hitless`, `WalkerRight` and the second half of `Daemons`, of
  `VrfSync`: they are about the candidate at the end of a whole script, which is
  put together by folds over the configuration;
* `VrfKept`, which rests on the bounds of the faults: a fault comes at most once,
  and none after an edit was lost;
* `Applied` of `Quaggad`, where route maps are programmed by a fold over their rules.

## Not modelled

The models are of the Go code. The mapped definitions stand for about 4400 of its
lines: half of `config/` without its tests, and an eighth when quaggad is
counted, where `quagga/config.go` alone has some 16000 lines of handlers of one
shape, each formatting one vtysh command, and `quagga/command.go` is a table of show
commands of 7700 lines. No C code is modelled: `cli/` is a fork of bash, changed
in how it completes words when it runs as the shell of openconfigd.

* Completion, abbreviated and ambiguous words, the types of values, JSON, the
  lexer of the configuration file.
* What quaggad's validators check of a rule beyond the clauses of `Quaggad`: ranges,
  formats, and the checks of one clause against another
  (`config_policy.go:1160-1166, 1212-1219, 1349-1354, 1365-1379`). Its show and exec
  commands.
* A subscription of ribd through `IsRibdAsync` is in `WatchLocks` alone.
* A configuration file that cannot be created (`config.go:499-503, 836-841`): the
  commit goes on without it.
* Hub monitoring of GoBGP, and the queries of its status; VRFs in the value of the
  key `bgp`, which have keys of their own (`GobgpAssumption`); a VRF whose RD, route
  targets or prefixes cannot be parsed, which `GobgpAddVrf` leaves out. The branch
  of `GobgpVrfUpdate` and `GobgpVrfDelete` for another AS is never taken: the AS is
  copied from `gobgpConfig`.
* What the component does when it is stopped (`ConfigComponent.Stop`): the exit
  functions of the daemons, and `VrrpServerStopAll`, which removes the VRRP states
  without the lock.
* Contents of the daemons' configuration files, their status, host name and NTP.
* The shell, generated code and option parsing.

## Plan

1. Proofs: `WalkerRight`, then `Converged` for a single handler, of `VrfSync`.
2. Hub monitoring of GoBGP.
