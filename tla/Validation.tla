----------------------------- MODULE Validation -----------------------------
(***************************************************************************)
(* What a validation round of a two phase commit promises its caller,      *)
(* without the goroutines and channels it is made of: every voter ends up  *)
(* among those that said yes, whose commands stay queued, or among the     *)
(* others, whose commands are dropped; and the result is exact when there  *)
(* is at most one voter.  ConfigCommit takes rounds to be like this, and   *)
(* ValidateRound shows that the code's rounds are.                         *)
(***************************************************************************)

CONSTANT Subs      \* the subscribers that have a stream

VARIABLES
    phase,         \* "idle", "voting", "committing"
    voters,        \* who was asked in this round
    yes, no,       \* who has been counted as what
    full           \* the subscribers that have commands queued

avars == <<phase, voters, yes, no, full>>

Init ==
    /\ phase = "idle"
    /\ voters = {} /\ yes = {} /\ no = {}
    /\ full = {}

\* Commands are queued, and everyone who has some is asked.
Start ==
    /\ phase = "idle"
    /\ phase' = "voting"
    /\ full \subseteq full'
    /\ full' \subseteq Subs
    /\ voters' = full'
    /\ yes' = {} /\ no' = {}

VoteYes(s) ==
    /\ phase = "voting" /\ s \in voters \ (yes \cup no)
    /\ yes' = yes \cup {s}
    /\ UNCHANGED <<phase, voters, no, full>>

VoteNo(s) ==
    /\ phase = "voting" /\ s \in voters \ (yes \cup no)
    /\ no' = no \cup {s}
    /\ full' = full \ {s}
    /\ UNCHANGED <<phase, voters, yes>>

Over == phase' = "idle" /\ voters' = {} /\ yes' = {} /\ no' = {}

Racy == \E a, b \in voters : a # b

Pass ==
    /\ phase = "voting" /\ voters = yes \cup no
    /\ no = {} \/ Racy
    /\ phase' = "committing"
    /\ UNCHANGED <<voters, yes, no, full>>

Fail ==
    /\ phase = "voting" /\ voters = yes \cup no
    /\ no # {} \/ Racy
    /\ Over
    /\ UNCHANGED full

\* Subscriber.Commit sends and clears what is queued, which is for yes only.
Deliver ==
    /\ phase = "committing"
    /\ Over
    /\ full' = {}

\* A subscriber leaves between rounds, with its queue.
Leave(s) ==
    /\ phase = "idle"
    /\ full' = full \ {s}
    /\ UNCHANGED <<phase, voters, yes, no>>

Next == \/ Start \/ Pass \/ Fail \/ Deliver
        \/ \E s \in Subs : VoteYes(s) \/ VoteNo(s) \/ Leave(s)

Spec == Init /\ [][Next]_avars

=============================================================================
