--------------------------- MODULE ValidateRound ---------------------------
(***************************************************************************)
(* The first phase of a two phase commit, step by step: Validate and       *)
(* SubscribeValidateResult, the goroutine Subscriber.Validate starts for   *)
(* each subscriber, the DoConfig handlers that bring the modules' answers  *)
(* (SubscribeValidateProcess), and SubscribeDelete.  config/subscribe.go.  *)
(*                                                                         *)
(* The committer holds SubscribeMutex; the goroutines and the handlers     *)
(* hold nothing.  ValidateCount and sub.done are shared by all of them     *)
(* without synchronisation: an increment or decrement is a read and a      *)
(* write, and every use of sub.done reads it again.  A channel is named by *)
(* the round that made it, 0 is nil; the queue of a subscriber is the set  *)
(* of the rounds whose commands are in it.                                 *)
(***************************************************************************)
EXTENDS Integers, Sequences, FiniteSets

CONSTANTS
    Subs,       \* subscribers with a stream
    MaxRound    \* bound: calls of Validate

ASSUME RoundAssumption == MaxRound \in Nat /\ IsFiniteSet(Subs)

Rounds == 1 .. MaxRound

VARIABLES
    round, mpc, todo, cur, tmp,   \* the committer
    count, wg,                    \* ValidateCount, SubscribeWg
    pc, reg,                      \* the goroutine of each subscriber and round
    done, closed,                 \* sub.done; the closed channels
    h, hv, hch,                   \* the DoConfig handler of each stream
    out,                          \* what each module was asked and has not answered
    queue, members,               \* commands queued; SubscribeMap
    panicked,                     \* "no", or where the process died
    asked, outcome,               \* history: who was asked, and counted as what
    truth,                        \* history: what each module answered in this round
    overlap,                      \* history: subscribers with two goroutines at once
    late                          \* history: an answer missed its goroutine's select

main == <<round, mpc, todo, cur, tmp>>
chans == <<done, closed>>
handler == <<h, hv, hch>>
goroutine == <<pc, reg>>
history == <<asked, outcome, truth, overlap, late>>
vars == <<round, mpc, todo, cur, tmp, count, wg, pc, reg, done, closed, h, hv, hch,
          out, queue, members, panicked, asked, outcome, truth, overlap, late>>

GoroutineState == {"none", "make", "enter", "select", "read", "write",
                   "wgdone", "close", "nil", "end"}

TypeOK ==
    /\ round \in 0 .. MaxRound
    /\ mpc \in {"idle", "loop", "inc", "commit"}
    /\ todo \subseteq Subs
    /\ cur \subseteq Subs
    /\ tmp \in Int /\ count \in Int
    /\ wg \in Nat
    /\ pc \in [Subs -> [Rounds -> GoroutineState]]
    /\ reg \in [Subs -> [Rounds -> Int]]
    /\ done \in [Subs -> 0 .. MaxRound]
    /\ closed \subseteq Subs \X Rounds
    /\ h \in [Subs -> {"recv", "send", "blocked", "stuck", "gone"}]
    /\ hv \in [Subs -> {"yes", "no"}]
    /\ hch \in [Subs -> 0 .. MaxRound]
    /\ out \in [Subs -> Seq(Rounds)]
    /\ queue \in [Subs -> SUBSET Rounds]
    /\ members \subseteq Subs
    /\ panicked \in {"no", "close", "send", "delete"}
    /\ asked \subseteq Subs
    /\ outcome \in [Subs -> {"none", "yes", "no"}]
    /\ truth \in [Subs -> {"none", "yes", "no"}]
    /\ overlap \subseteq Subs
    /\ late \in BOOLEAN

Init ==
    /\ round = 0 /\ mpc = "idle" /\ todo = {} /\ cur = {} /\ tmp = 0
    /\ count = 0 /\ wg = 0
    /\ pc = [s \in Subs |-> [r \in Rounds |-> "none"]]
    /\ reg = [s \in Subs |-> [r \in Rounds |-> 0]]
    /\ done = [s \in Subs |-> 0] /\ closed = {}
    /\ h = [s \in Subs |-> "recv"] /\ hv = [s \in Subs |-> "no"]
    /\ hch = [s \in Subs |-> 0]
    /\ out = [s \in Subs |-> << >>]
    /\ queue = [s \in Subs |-> {}] /\ members = Subs
    /\ panicked = "no"
    /\ asked = {} /\ outcome = [s \in Subs |-> "none"]
    /\ truth = [s \in Subs |-> "none"]
    /\ overlap = {} /\ late = FALSE

-----------------------------------------------------------------------------
(* The committer *)

Goto(s, r, label) == pc' = [pc EXCEPT ![s][r] = label]

\* Commit has registered commands for the members of targets and calls Validate.
Begin(targets) ==
    /\ mpc = "idle" /\ round < MaxRound
    /\ round' = round + 1
    /\ queue' = [s \in Subs |-> IF s \in targets THEN queue[s] \cup {round'} ELSE queue[s]]
    /\ count' = 0
    /\ todo' = {s \in members : queue'[s] # {}}
    /\ mpc' = "loop"
    /\ asked' = todo'
    /\ outcome' = [s \in Subs |-> "none"]
    /\ truth' = [s \in Subs |-> "none"]
    /\ UNCHANGED <<cur, tmp, wg, out, members, panicked, overlap, late>>
    /\ UNCHANGED <<goroutine, chans, handler>>

\* Subscriber.Validate: SubscribeWg.Add(1) and the read of ValidateCount++
Visit(s) ==
    /\ mpc = "loop" /\ s \in todo
    /\ todo' = todo \ {s}
    /\ cur' = {s}
    /\ wg' = wg + 1
    /\ tmp' = count
    /\ mpc' = "inc"
    /\ UNCHANGED <<round, count, out, queue, members, panicked>>
    /\ UNCHANGED <<goroutine, chans, handler, history>>

\* The write of ValidateCount++, and the go statement
Spawn ==
    /\ mpc = "inc"
    /\ count' = tmp + 1
    /\ tmp' = 0
    /\ \E s \in cur : Goto(s, round, "make")
    /\ cur' = {}
    /\ mpc' = "loop"
    /\ UNCHANGED <<round, todo, wg, reg, out, queue, members, panicked>>
    /\ UNCHANGED <<chans, handler, history>>

\* What the round was about is forgotten when it is over.
RoundOver ==
    /\ mpc' = "idle"
    /\ asked' = {}
    /\ outcome' = [s \in Subs |-> "none"]
    /\ truth' = [s \in Subs |-> "none"]
    /\ UNCHANGED <<overlap, late>>

Result ==
    /\ \/ count = 0 /\ mpc' = "commit" /\ UNCHANGED history
       \/ count # 0 /\ RoundOver
    /\ UNCHANGED <<round, todo, cur, tmp, count, wg, out, queue, members, panicked>>
    /\ UNCHANGED <<goroutine, chans, handler>>

\* SubscribeWg is not waited for.
ResultAtOnce == mpc = "loop" /\ todo = {} /\ Result

SubscribeValidateResult == mpc = "loop" /\ todo = {} /\ wg = 0 /\ Result

\* The second phase: each subscriber is sent what is queued for it.
CommitQueues ==
    /\ mpc = "commit"
    /\ queue' = [s \in Subs |-> {}]
    /\ RoundOver
    /\ UNCHANGED <<round, todo, cur, tmp, count, wg, out, members, panicked>>
    /\ UNCHANGED <<goroutine, chans, handler>>

-----------------------------------------------------------------------------
(* The goroutine of subscriber s in round r *)

\* sub.done = make(...), then ValidateStart, the commands and ValidateEnd: that
\* they are sent shows only in the module's answer, a step of its own.
SendValidate(s, r) ==
    /\ pc[s][r] = "make"
    /\ done' = [done EXCEPT ![s] = r]
    /\ out' = [out EXCEPT ![s] = Append(@, r)]
    /\ Goto(s, r, "enter")
    /\ overlap' = IF \E q \in Rounds \ {r} : pc[s][q] \notin {"none", "end"}
                  THEN overlap \cup {s} ELSE overlap
    /\ UNCHANGED <<count, wg, reg, closed, queue, members, panicked, asked, outcome, truth, late>>
    /\ UNCHANGED <<main, handler>>

\* The select statement evaluates sub.done.
EnterSelect(s, r) ==
    /\ pc[s][r] = "enter"
    /\ reg' = [reg EXCEPT ![s][r] = done[s]]
    /\ Goto(s, r, "select")
    /\ UNCHANGED <<count, wg, out, queue, members, panicked>>
    /\ UNCHANGED <<main, chans, handler, history>>

Counted(s, how) ==
    /\ outcome' = [outcome EXCEPT ![s] = how]
    /\ queue' = IF how = "yes" THEN queue ELSE [queue EXCEPT ![s] = {}]

\* The timer closes the channel, which is closed again at the end.
TimeoutCloses(s, r) ==
    /\ pc[s][r] = "select"
    /\ Counted(s, "no")
    /\ closed' = closed \cup {<<s, reg[s][r]>>}
    /\ Goto(s, r, "wgdone")
    /\ UNCHANGED <<done, count, wg, reg, out, members, panicked, asked, truth, overlap, late>>
    /\ UNCHANGED <<main, handler>>

\* case <-timer.C, whether or not the answer is on its way
Timeout(s, r) ==
    /\ pc[s][r] = "select"
    /\ Counted(s, "no")
    /\ late' = (late \/ h[s] \in {"send", "blocked"})
    /\ Goto(s, r, "wgdone")
    /\ UNCHANGED <<count, wg, reg, out, members, panicked, asked, truth, overlap>>
    /\ UNCHANGED <<main, chans, handler>>

\* case done := <-sub.done, from the handler that is sending on the channel;
\* the commands of a subscriber that says no stay queued.
ReceiveKeeps(s, r) ==
    /\ pc[s][r] = "select"
    /\ h[s] = "blocked" /\ hch[s] = reg[s][r]
    /\ h' = [h EXCEPT ![s] = "recv"]
    /\ hv' = [hv EXCEPT ![s] = "no"]
    /\ hch' = [hch EXCEPT ![s] = 0]
    /\ outcome' = [outcome EXCEPT ![s] = hv[s]]
    /\ Goto(s, r, IF hv[s] = "yes" THEN "read" ELSE "wgdone")
    /\ UNCHANGED <<count, wg, reg, out, queue, members, panicked, asked, truth, overlap, late>>
    /\ UNCHANGED <<main, chans>>

Receive(s, r) ==
    /\ pc[s][r] = "select"
    /\ h[s] = "blocked" /\ hch[s] = reg[s][r]
    /\ h' = [h EXCEPT ![s] = "recv"]
    /\ hv' = [hv EXCEPT ![s] = "no"]
    /\ hch' = [hch EXCEPT ![s] = 0]
    /\ Counted(s, hv[s])
    /\ Goto(s, r, IF hv[s] = "yes" THEN "read" ELSE "wgdone")
    /\ UNCHANGED <<count, wg, reg, out, members, panicked, asked, truth, overlap, late>>
    /\ UNCHANGED <<main, chans>>

\* The same case on a channel that has been closed gives the zero ConfigType.
ReceiveClosed(s, r) ==
    /\ pc[s][r] = "select"
    /\ <<s, reg[s][r]>> \in closed
    /\ Counted(s, "no")
    /\ late' = (late \/ h[s] \in {"send", "blocked"})
    /\ Goto(s, r, "wgdone")
    /\ UNCHANGED <<count, wg, reg, out, members, panicked, asked, truth, overlap>>
    /\ UNCHANGED <<main, chans, handler>>

\* ValidateCount--
ReadCount(s, r) ==
    /\ pc[s][r] = "read"
    /\ reg' = [reg EXCEPT ![s][r] = count]
    /\ Goto(s, r, "write")
    /\ UNCHANGED <<count, wg, out, queue, members, panicked>>
    /\ UNCHANGED <<main, chans, handler, history>>

WriteCount(s, r) ==
    /\ pc[s][r] = "write"
    /\ count' = reg[s][r] - 1
    /\ Goto(s, r, "wgdone")
    /\ UNCHANGED <<wg, reg, out, queue, members, panicked>>
    /\ UNCHANGED <<main, chans, handler, history>>

WgDone(s, r) ==
    /\ pc[s][r] = "wgdone"
    /\ wg' = wg - 1
    /\ reg' = [reg EXCEPT ![s][r] = 0]
    /\ Goto(s, r, "close")
    /\ UNCHANGED <<count, out, queue, members, panicked>>
    /\ UNCHANGED <<main, chans, handler, history>>

\* close(sub.done): of nil or of a closed channel it panics, and so does a
\* handler that is sending on the channel.
CloseDone(s, r) ==
    /\ pc[s][r] = "close"
    /\ Goto(s, r, "nil")
    /\ LET bad == done[s] = 0 \/ <<s, done[s]>> \in closed
       IN  /\ panicked' = IF bad THEN "close"
                          ELSE IF h[s] = "blocked" /\ hch[s] = done[s] THEN "send" ELSE "no"
           /\ closed' = IF bad THEN closed ELSE closed \cup {<<s, done[s]>>}
    /\ UNCHANGED <<count, wg, reg, done, out, queue, members>>
    /\ UNCHANGED <<main, handler, history>>

\* sub.done = nil
ClearDone(s, r) ==
    /\ pc[s][r] = "nil"
    /\ done' = [done EXCEPT ![s] = 0]
    /\ Goto(s, r, "end")
    /\ UNCHANGED <<count, wg, reg, closed, out, queue, members, panicked>>
    /\ UNCHANGED <<main, handler, history>>

Goroutine(s, r) ==
    \/ SendValidate(s, r) \/ EnterSelect(s, r)
    \/ Timeout(s, r) \/ Receive(s, r) \/ ReceiveClosed(s, r)
    \/ ReadCount(s, r) \/ WriteCount(s, r)
    \/ WgDone(s, r) \/ CloseDone(s, r) \/ ClearDone(s, r)

-----------------------------------------------------------------------------
(* The DoConfig handler of s *)

\* The module's answer to its oldest question: dropped when sub.done is nil.
SubscribeValidateProcess(s, vote) ==
    /\ h[s] = "recv" /\ s \in members /\ out[s] # << >>
    /\ out' = [out EXCEPT ![s] = Tail(@)]
    /\ late' = (late \/ pc[s][Head(out[s])] \notin {"enter", "select"})
    /\ truth' = IF Head(out[s]) = round THEN [truth EXCEPT ![s] = vote] ELSE truth
    /\ \/ /\ done[s] # 0
          /\ h' = [h EXCEPT ![s] = "send"]
          /\ hv' = [hv EXCEPT ![s] = vote]
       \/ /\ done[s] = 0
          /\ UNCHANGED <<h, hv>>
    /\ UNCHANGED <<hch, count, wg, queue, members, panicked, asked, outcome, overlap>>
    /\ UNCHANGED <<main, goroutine, chans>>

\* sub.done <- typ: nil blocks for ever, a closed channel panics.
SendDone(s) ==
    /\ h[s] = "send"
    /\ hch' = [hch EXCEPT ![s] = done[s]]
    /\ panicked' = IF <<s, done[s]>> \in closed THEN "send" ELSE "no"
    /\ h' = [h EXCEPT ![s] = IF done[s] = 0 THEN "stuck" ELSE "blocked"]
    /\ UNCHANGED <<hv, count, wg, out, queue, members>>
    /\ UNCHANGED <<main, goroutine, chans, history>>

\* The stream ends and its subscriber goes.  With a sub.done that is not nil
\* nobody receives what SubscribeDelete sends, until close makes it panic.
SubscribeDelete(s) ==
    /\ mpc = "idle" /\ h[s] = "recv" /\ s \in members
    /\ h' = [h EXCEPT ![s] = "gone"]
    /\ out' = [out EXCEPT ![s] = << >>]
    /\ members' = members \ {s}
    /\ queue' = [queue EXCEPT ![s] = {}]
    /\ panicked' = IF done[s] # 0 THEN "delete" ELSE "no"
    /\ UNCHANGED <<hv, hch, count, wg>>
    /\ UNCHANGED <<main, goroutine, chans, history>>

-----------------------------------------------------------------------------

Committer ==
    \/ \E targets \in SUBSET members : Begin(targets)
    \/ \E s \in Subs : Visit(s)
    \/ Spawn \/ SubscribeValidateResult \/ CommitQueues

Next ==
    /\ panicked = "no"
    /\ \/ Committer
       \/ \E s \in Subs :
             \/ \E r \in Rounds : Goroutine(s, r)
             \/ \E vote \in {"yes", "no"} : SubscribeValidateProcess(s, vote)
             \/ SendDone(s) \/ SubscribeDelete(s)

Spec == Init /\ [][Next]_vars

-----------------------------------------------------------------------------
(* Properties *)

Contract == INSTANCE Validation WITH
    phase <- IF mpc = "idle" THEN "idle"
             ELSE IF mpc = "commit" THEN "committing" ELSE "voting",
    voters <- asked,
    yes <- {s \in Subs : outcome[s] = "yes"},
    no <- {s \in Subs : outcome[s] = "no"},
    full <- {s \in members : queue[s] # {}}

\* The goroutines, channels and timers of a round implement the round its
\* caller sees (Validation): everyone asked is counted exactly once before
\* the result is taken, who did not say yes has nothing left to commit, and
\* with one voter ValidateCount tells the truth.
ImplementsValidation == Contract!Spec

\* As long as each goroutine that stops waiting has its module's answer, or no
\* answer is on its way or comes later, what the second phase sends to a module
\* is only what that module itself accepted in this very round, no matter how
\* the other subscribers' goroutines, the leftovers of earlier rounds and the
\* shared counter interfere (Subscriber.Validate).
AcceptedOnly ==
    ~late /\ mpc = "commit" => \A s \in members : queue[s] # {} => truth[s] = "yes"

\* With such answers closing and sending on sub.done only panics when a
\* goroutine of an earlier round, past SubscribeWg.Done but not yet at its
\* end, met the next round of the same subscriber.
PanicNeedsOverlap == ~late /\ panicked \in {"close", "send"} => overlap # {}

=============================================================================
