------------------------------ MODULE ApiSync ------------------------------
(***************************************************************************)
(* The second phase of a commit: Subscriber.Commit sends a module its      *)
(* commands and then waits, for twenty seconds at most, until some stream  *)
(* brings API_CALL_FINISHED (DoConfig closes the global ApiSyncCh).        *)
(* config/subscribe.go, config/grpc.go.                                    *)
(*                                                                         *)
(* The committer holds SubscribeMutex; the handlers read and close the     *)
(* channel without it.  A module finishes once for every COMMIT_END it     *)
(* gets, sooner or later or never.                                         *)
(***************************************************************************)
EXTENDS Naturals

CONSTANTS
    Subs,        \* subscribers with a stream
    MaxCommit    \* bound: commits

ASSUME CommitsAssumption == MaxCommit \in Nat

VARIABLES
    commits, mpc, todo, cur,   \* the committer
    ch,                        \* ApiSyncCh: nil, open or closed
    h,                         \* the DoConfig handler of each stream
    owed,                      \* API_CALL_FINISHED messages each module still owes
    panicked,
    timedOut                   \* history: some wait has timed out

vars == <<commits, mpc, todo, cur, ch, h, owed, panicked, timedOut>>

TypeOK ==
    /\ commits \in 0 .. MaxCommit
    /\ mpc \in {"idle", "loop", "wait", "done", "timeout"}
    /\ todo \subseteq Subs
    /\ cur \in Subs
    /\ ch \in {"nil", "open", "closed"}
    /\ h \in [Subs -> {"recv", "close"}]
    /\ owed \in [Subs -> Nat]
    /\ panicked \in BOOLEAN
    /\ timedOut \in BOOLEAN

Init ==
    /\ commits = 0 /\ mpc = "idle" /\ todo = {} /\ cur \in Subs
    /\ ch = "nil"
    /\ h = [s \in Subs |-> "recv"]
    /\ owed = [s \in Subs |-> 0]
    /\ panicked = FALSE /\ timedOut = FALSE

-----------------------------------------------------------------------------
(* The committer: for _, sub := range SubscribeMap { sub.Commit() } *)

Begin(targets) ==
    /\ mpc = "idle" /\ commits < MaxCommit
    /\ commits' = commits + 1
    /\ todo' = targets
    /\ mpc' = "loop"
    /\ UNCHANGED <<cur, ch, h, owed, panicked, timedOut>>

\* A new channel, then CommitStart, the commands and CommitEnd.
CommitSend(s) ==
    /\ mpc = "loop" /\ s \in todo
    /\ todo' = todo \ {s}
    /\ cur' = s
    /\ ch' = "open"
    /\ owed' = [owed EXCEPT ![s] = @ + 1]
    /\ mpc' = "wait"
    /\ UNCHANGED <<commits, h, panicked, timedOut>>

\* The channel is not waited for.
DoneAtOnce ==
    /\ mpc = "wait"
    /\ mpc' = "done"
    /\ UNCHANGED <<commits, todo, cur, ch, h, owed, panicked, timedOut>>

Done ==
    /\ mpc = "wait" /\ ch = "closed"
    /\ mpc' = "done"
    /\ UNCHANGED <<commits, todo, cur, ch, h, owed, panicked, timedOut>>

\* The wait has no limit.
TimeoutNever ==
    /\ FALSE
    /\ UNCHANGED vars

Timeout ==
    /\ mpc = "wait"
    /\ mpc' = "timeout"
    /\ timedOut' = TRUE
    /\ UNCHANGED <<commits, todo, cur, ch, h, owed, panicked>>

\* ApiSyncCh = nil
ClearCh ==
    /\ mpc \in {"done", "timeout"}
    /\ ch' = "nil"
    /\ mpc' = "loop"
    /\ UNCHANGED <<commits, todo, cur, h, owed, panicked, timedOut>>

End ==
    /\ mpc = "loop" /\ todo = {}
    /\ mpc' = "idle"
    /\ UNCHANGED <<commits, todo, cur, ch, h, owed, panicked, timedOut>>

-----------------------------------------------------------------------------
(* DoConfig, case API_CALL_FINISHED *)

\* if ApiSyncCh != nil
Finished(s) ==
    /\ h[s] = "recv" /\ owed[s] > 0
    /\ owed' = [owed EXCEPT ![s] = @ - 1]
    /\ h' = [h EXCEPT ![s] = IF ch # "nil" THEN "close" ELSE "recv"]
    /\ UNCHANGED <<commits, mpc, todo, cur, ch, panicked, timedOut>>

\* close(ApiSyncCh): of nil or of a closed channel it panics.
CloseCh(s) ==
    /\ h[s] = "close"
    /\ h' = [h EXCEPT ![s] = "recv"]
    /\ panicked' = (ch # "open")
    /\ ch' = IF ch = "open" THEN "closed" ELSE ch
    /\ UNCHANGED <<commits, mpc, todo, cur, owed, timedOut>>

-----------------------------------------------------------------------------

Committer ==
    \/ \E s \in Subs : CommitSend(s)
    \/ Done \/ Timeout \/ ClearCh \/ End

Next ==
    /\ ~panicked
    /\ \/ \E targets \in (SUBSET Subs) \ {{}} : Begin(targets)
       \/ Committer
       \/ \E s \in Subs : Finished(s) \/ CloseCh(s)

Spec == Init /\ [][Next]_vars

-----------------------------------------------------------------------------
(* Properties *)

\* As long as no wait has timed out, the wait for a module ends by that
\* module's own API_CALL_FINISHED although any stream can close the channel,
\* so that modules are configured strictly one after the other.
OneAtATime ==
    ~timedOut /\ mpc = "done" => \A s \in Subs : owed[s] = 0

\* Nor does the channel, which is read and closed without a lock, bring the
\* process down: closing nil or closing twice takes a timeout first.
PanicNeedsTimeout == panicked => timedOut

=============================================================================
