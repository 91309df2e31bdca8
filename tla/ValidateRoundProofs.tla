------------------------ MODULE ValidateRoundProofs ------------------------
(***************************************************************************)
(* A validation round implements Validation, whatever the goroutines of    *)
(* this round and of earlier ones do to ValidateCount and sub.done; and    *)
(* what its answers and panics depend on.                                  *)
(***************************************************************************)
EXTENDS ValidateRound, TLAPS

\* Zenon unless a leaf says otherwise: most need no arithmetic.
USE Zenon

\* Where a goroutine has not called SubscribeWg.Done, and where it uses sub.done
Pending == {"make", "enter", "select", "read", "write", "wgdone"}
Using == {"enter", "select", "read", "write", "wgdone", "close", "nil"}

\* What SubscribeWg counts
Waiting == cur \cup {s \in Subs : \E r \in Rounds : pc[s][r] \in Pending}

RoundTypeOK ==
    /\ round \in 0 .. MaxRound
    /\ mpc \in {"idle", "loop", "inc", "commit"}
    /\ cur \subseteq Subs
    /\ tmp \in Int /\ count \in Int
    /\ pc \in [Subs -> [Rounds -> GoroutineState]]
    /\ reg \in [Subs -> [Rounds -> Int]]
    /\ done \in [Subs -> 0 .. MaxRound]
    /\ h \in [Subs -> {"recv", "send", "blocked", "stuck", "gone"}]
    /\ hv \in [Subs -> {"yes", "no"}]
    /\ out \in [Subs -> Seq(Rounds)]
    /\ queue \in [Subs -> SUBSET Rounds]
    /\ members \subseteq Subs
    /\ outcome \in [Subs -> {"none", "yes", "no"}]
    /\ truth \in [Subs -> {"none", "yes", "no"}]
    /\ late \in BOOLEAN

\* Only goroutines of this round are pending, and where the goroutine of a
\* subscriber is tells how the subscriber has been counted.
RoundShape ==
    /\ mpc = "idle" => asked = {}
    /\ mpc # "idle" => round \in Rounds
    /\ mpc \in {"idle", "commit"} => todo = {}
    /\ mpc # "inc" => cur = {}
    /\ mpc = "inc" => \E s \in asked \ todo : cur = {s}
    /\ todo \subseteq asked /\ asked \subseteq members
    /\ \A s \in Subs \ asked : outcome[s] = "none"
    /\ \A s \in Subs, r \in Rounds :
          /\ r > round => pc[s][r] = "none"
          /\ pc[s][r] \in Pending => r = round /\ mpc \in {"loop", "inc"} /\ s \in asked
    /\ mpc # "idle" => \A s \in asked :
          /\ s \in todo \cup cur <=> pc[s][round] = "none"
          /\ outcome[s] = "none" <=> pc[s][round] \in {"none", "make", "enter", "select"}
          /\ pc[s][round] \in {"read", "write"} => outcome[s] = "yes"

WgExact == wg = Cardinality(Waiting)

\* What SubscribeWg.Wait relies on
WgTold == wg = 0 => Waiting = {}

\* With one voter ValidateCount is 1 from its goroutine's start until a yes
\* has been counted; with none it is 0.
CountExact ==
    mpc \in {"loop", "inc"} =>
        /\ asked = {} => count = 0
        /\ \A v \in Subs : asked = {v} =>
              /\ count = IF \/ pc[v][round] = "none"
                            \/ outcome[v] = "yes" /\ pc[v][round] \notin {"read", "write"}
                         THEN 0 ELSE 1
              /\ mpc = "inc" => tmp = 0
              /\ pc[v][round] = "write" => reg[v][round] = 1

\* Only a subscriber that has not been counted as a no has commands queued.
QueuesVoted ==
    mpc # "idle" => \A s \in members : queue[s] # {} => s \in asked /\ outcome[s] # "no"

RoundInv == RoundTypeOK /\ RoundShape /\ WgTold /\ CountExact /\ QueuesVoted

\* A handler that has an answer has this round's, for a goroutine that waits.
AnswersInv ==
    ~late => \A s \in Subs :
        /\ h[s] \in {"send", "blocked"} =>
              hv[s] = truth[s] /\ mpc \in {"loop", "inc"} /\ pc[s][round] \in {"enter", "select"}
        /\ outcome[s] = "yes" => truth[s] = "yes"

\* A subscriber whose goroutines never met: what one of them uses is its own
\* sub.done, which is closed at its end.
OwnDone == \A s \in Subs, r \in Rounds : s \notin overlap /\ pc[s][r] \in Using => done[s] = r

ClosedPast ==
    \A s \in Subs, r \in Rounds : s \notin overlap /\ <<s, r>> \in closed => pc[s][r] \in {"nil", "end"}

DoneInv == OwnDone /\ ClosedPast

-----------------------------------------------------------------------------
(* Types *)

\* Where the goroutines are after one of them has moved
LEMMA GotoMoves ==
    ASSUME RoundTypeOK, NEW s \in Subs, NEW r \in Rounds, NEW label \in GoroutineState, Goto(s, r, label)
    PROVE  /\ pc' \in [Subs -> [Rounds -> GoroutineState]]
           /\ pc'[s][r] = label
           /\ \A t \in Subs, q \in Rounds : t # s \/ q # r => pc'[t][q] = pc[t][q]
BY DEF RoundTypeOK, Goto

\* From one place of a goroutine to the next
Edge(from, to) ==
    \/ from = "make" /\ to = "enter"
    \/ from = "enter" /\ to = "select"
    \/ from = "select" /\ to \in {"read", "wgdone"}
    \/ from = "read" /\ to = "write"
    \/ from = "write" /\ to = "wgdone"
    \/ from = "wgdone" /\ to = "close"
    \/ from = "close" /\ to = "nil"
    \/ from = "nil" /\ to = "end"

\* What a step of a goroutine leaves alone, by where it is
Moves(s, r, label) ==
    /\ Goto(s, r, label) /\ Edge(pc[s][r], label)
    /\ UNCHANGED <<round, mpc, todo, cur, tmp, members, asked, truth>>
    /\ pc[s][r] # "select" => UNCHANGED <<outcome, queue, h, hv, late>>
    /\ pc[s][r] = "select" => \E how \in {"yes", "no"} :
          Counted(s, how) /\ label = IF how = "yes" THEN "read" ELSE "wgdone"
    /\ pc[s][r] \notin {"make", "close", "nil"} => UNCHANGED <<done, closed, overlap>>
    /\ pc[s][r] # "write" => count' = count
    /\ pc[s][r] # "wgdone" => wg' = wg
    /\ pc[s][r] # "close" => panicked' = panicked

\* Every step of a goroutine is such a move.
LEMMA GoroutineMoves ==
    ASSUME RoundTypeOK, NEW s \in Subs, NEW r \in Rounds, Goroutine(s, r)
    PROVE  \E label \in GoroutineState : Moves(s, r, label)
<1> USE DEF GoroutineState, Moves, Edge
<1>1. CASE SendValidate(s, r)
  BY <1>1 DEF SendValidate, main, handler
<1>2. CASE EnterSelect(s, r)
  BY <1>2 DEF EnterSelect, main, chans, handler, history
<1>3. CASE Timeout(s, r)
  BY <1>3 DEF Timeout, main, chans
<1>4. CASE Receive(s, r)
  <2>1. hv[s] \in {"yes", "no"}
    BY DEF RoundTypeOK
  <2> QED
    BY <1>4, <2>1 DEF Receive, main, chans
<1>5. CASE ReceiveClosed(s, r)
  BY <1>5 DEF ReceiveClosed, main, chans
<1>6. CASE ReadCount(s, r)
  BY <1>6 DEF ReadCount, main, chans, handler, history
<1>7. CASE WriteCount(s, r)
  BY <1>7 DEF WriteCount, main, chans, handler, history
<1>8. CASE WgDone(s, r)
  BY <1>8 DEF WgDone, main, chans, handler, history
<1>9. CASE CloseDone(s, r)
  BY <1>9 DEF CloseDone, main, handler, history
<1>10. CASE ClearDone(s, r)
  BY <1>10 DEF ClearDone, main, handler, history
<1> QED
  BY <1>1, <1>2, <1>3, <1>4, <1>5, <1>6, <1>7, <1>8, <1>9, <1>10 DEF Goroutine

\* The committer keeps the types.
LEMMA CommitterTypes ==
    ASSUME RoundInv, Committer
    PROVE  RoundTypeOK'
<1> USE RoundAssumption
<1>1. ASSUME NEW targets \in SUBSET members, Begin(targets)
      PROVE  RoundTypeOK'
  <2>1. round' \in 0 .. MaxRound /\ round' \in Rounds
    BY SMT, <1>1 DEF Begin, RoundInv, RoundTypeOK, Rounds
  <2>2. queue' \in [Subs -> SUBSET Rounds]
    BY <1>1, <2>1 DEF Begin, RoundInv, RoundTypeOK
  <2> QED
    BY SMT, <1>1, <2>1, <2>2 DEF Begin, RoundInv, RoundTypeOK, goroutine, chans, handler
<1>2. ASSUME NEW s \in Subs, Visit(s)
      PROVE  RoundTypeOK'
  BY <1>2 DEF Visit, RoundInv, RoundTypeOK, goroutine, chans, handler, history
<1>3. CASE Spawn
  <2>0. mpc = "inc" /\ cur \subseteq Subs /\ \E s \in cur : Goto(s, round, "make")
    BY <1>3 DEF Spawn, RoundInv, RoundTypeOK
  <2>1. PICK s \in Subs : Goto(s, round, "make")
    BY <2>0
  <2>2. pc' \in [Subs -> [Rounds -> GoroutineState]]
    <3>1. round \in Rounds /\ "make" \in GoroutineState /\ RoundTypeOK
      BY <1>3 DEF Spawn, RoundInv, RoundShape, GoroutineState
    <3> QED
      BY <2>1, <3>1, GotoMoves
  <2> QED
    BY SMT, <1>3, <2>2 DEF Spawn, RoundInv, RoundTypeOK, chans, handler, history
<1>4. CASE SubscribeValidateResult
  BY SMT, <1>4 DEF SubscribeValidateResult, Result, RoundOver, RoundInv, RoundTypeOK, goroutine, chans, handler, history
<1>5. CASE CommitQueues
  BY <1>5 DEF CommitQueues, RoundOver, RoundInv, RoundTypeOK, goroutine, chans, handler
<1> QED
  BY <1>1, <1>2, <1>3, <1>4, <1>5 DEF Committer

\* So do the goroutines.
LEMMA GoroutineTypes ==
    ASSUME RoundInv, NEW s \in Subs, NEW r \in Rounds, Goroutine(s, r)
    PROVE  RoundTypeOK'
<1> USE RoundAssumption DEF GoroutineState
<1>0. RoundTypeOK
  BY DEF RoundInv
<1>1. CASE SendValidate(s, r)
  <2>1. out' \in [Subs -> Seq(Rounds)] /\ done' \in [Subs -> 0 .. MaxRound]
    BY SMT, <1>0, <1>1 DEF SendValidate, RoundTypeOK, Rounds
  <2> QED
    BY <1>0, <1>1, <2>1, GotoMoves DEF SendValidate, RoundTypeOK, main, handler
<1>2. CASE EnterSelect(s, r)
  <2>1. reg' \in [Subs -> [Rounds -> Int]]
    BY SMT, <1>0, <1>2 DEF EnterSelect, RoundTypeOK
  <2> QED
    BY <1>0, <1>2, <2>1, GotoMoves DEF EnterSelect, RoundTypeOK, main, chans, handler, history
<1>3. CASE Timeout(s, r)
  BY <1>0, <1>3, GotoMoves DEF Timeout, Counted, RoundTypeOK, main, chans, handler
<1>4. CASE Receive(s, r)
  BY SMT, <1>0, <1>4, GotoMoves DEF Receive, Counted, RoundTypeOK, main, chans
<1>5. CASE ReceiveClosed(s, r)
  BY <1>0, <1>5, GotoMoves DEF ReceiveClosed, Counted, RoundTypeOK, main, chans, handler
<1>6. CASE ReadCount(s, r)
  BY SMT, <1>0, <1>6, GotoMoves DEF ReadCount, RoundTypeOK, main, chans, handler, history
<1>7. CASE WriteCount(s, r)
  <2>1. count' \in Int
    BY SMT, <1>0, <1>7 DEF WriteCount, RoundTypeOK
  <2> QED
    BY <1>0, <1>7, <2>1, GotoMoves DEF WriteCount, RoundTypeOK, main, chans, handler, history
<1>8. CASE WgDone(s, r)
  BY SMT, <1>0, <1>8, GotoMoves DEF WgDone, RoundTypeOK, main, chans, handler, history
<1>9. CASE CloseDone(s, r)
  BY <1>0, <1>9, GotoMoves DEF CloseDone, RoundTypeOK, main, handler, history
<1>10. CASE ClearDone(s, r)
  BY SMT, <1>0, <1>10, GotoMoves DEF ClearDone, RoundTypeOK, main, handler, history
<1> QED
  BY <1>1, <1>2, <1>3, <1>4, <1>5, <1>6, <1>7, <1>8, <1>9, <1>10 DEF Goroutine

\* And so do the handlers.
LEMMA HandlerTypes ==
    ASSUME RoundInv, NEW s \in Subs,
           (\E vote \in {"yes", "no"} : SubscribeValidateProcess(s, vote)) \/ SendDone(s) \/ SubscribeDelete(s)
    PROVE  RoundTypeOK'
<1>0. RoundTypeOK
  BY DEF RoundInv
<1>1. ASSUME NEW vote \in {"yes", "no"}, SubscribeValidateProcess(s, vote)
      PROVE  RoundTypeOK'
  <2>1. out' \in [Subs -> Seq(Rounds)]
    BY SMT, <1>0, <1>1 DEF SubscribeValidateProcess, RoundTypeOK
  <2> QED
    BY <1>0, <1>1, <2>1 DEF SubscribeValidateProcess, RoundTypeOK, main, goroutine, chans
<1>2. CASE SendDone(s)
  BY <1>0, <1>2 DEF SendDone, RoundTypeOK, main, goroutine, chans, history
<1>3. CASE SubscribeDelete(s)
  BY SMT, <1>0, <1>3 DEF SubscribeDelete, RoundTypeOK, main, goroutine, chans, history
<1> QED
  BY <1>1, <1>2, <1>3

-----------------------------------------------------------------------------
(* Rounds and their goroutines *)

\* The goroutine of a pending subscriber belongs to this round.
LEMMA PendingNow ==
    ASSUME RoundInv, NEW s \in Subs, NEW r \in Rounds, pc[s][r] \in Pending
    PROVE  r = round /\ mpc \in {"loop", "inc"} /\ s \in asked /\ s \notin todo \cup cur
BY DEF RoundInv, RoundShape, Pending

\* The committer keeps the shape of a round.
LEMMA CommitterShape ==
    ASSUME RoundInv, RoundTypeOK', Committer
    PROVE  RoundShape'
<1> USE RoundAssumption
<1>1. ASSUME NEW targets \in SUBSET members, Begin(targets)
      PROVE  RoundShape'
  <2>1. /\ mpc = "idle" /\ mpc' = "loop" /\ round' = round + 1 /\ round' \in Rounds /\ round \in Nat
        /\ todo' = asked' /\ cur' = cur /\ cur = {} /\ members' = members /\ pc' = pc
        /\ outcome' = [s \in Subs |-> "none"]
    BY SMT, <1>1 DEF Begin, RoundInv, RoundTypeOK, RoundShape, Rounds, goroutine
  <2>2. asked' \subseteq members
    BY <1>1 DEF Begin
  <2>3. ASSUME NEW s \in Subs, NEW r \in Rounds
        PROVE  pc[s][r] \notin Pending /\ (r > round => pc[s][r] = "none")
    BY <2>1 DEF RoundInv, RoundShape
  <2>4. \A r \in Rounds : r > round' => r > round
    BY SMT, <2>1 DEF Rounds
  <2>5. \A s \in Subs : pc[s][round'] = "none"
    BY SMT, <2>1, <2>3
  <2>6. asked' \subseteq Subs
    BY <2>2 DEF RoundInv, RoundTypeOK
  <2> QED
    BY <2>1, <2>2, <2>3, <2>4, <2>5, <2>6 DEF RoundShape
<1>2. ASSUME NEW s \in Subs, Visit(s)
      PROVE  RoundShape'
  BY <1>2 DEF Visit, RoundInv, RoundShape, goroutine, history
<1>3. CASE Spawn
  <2>1. mpc = "inc" /\ round \in Rounds
    BY <1>3 DEF Spawn, RoundInv, RoundShape
  <2>2. PICK s \in asked \ todo : cur = {s} /\ Goto(s, round, "make")
    BY <1>3, <2>1 DEF Spawn, RoundInv, RoundShape
  <2>3. s \in Subs /\ "make" \in GoroutineState
    BY <2>2 DEF RoundInv, RoundShape, RoundTypeOK, GoroutineState
  <2>4. /\ pc'[s][round] = "make"
        /\ \A t \in Subs, q \in Rounds : t # s \/ q # round => pc'[t][q] = pc[t][q]
    BY SMT, <2>1, <2>2, <2>3, GotoMoves DEF RoundInv
  <2>5. /\ mpc' = "loop" /\ cur' = {} /\ UNCHANGED <<round, todo, members, asked, outcome>>
    BY <1>3 DEF Spawn, history
  <2>6. pc[s][round] = "none" /\ outcome[s] = "none"
    BY <2>1, <2>2 DEF RoundInv, RoundShape
  <2>7. asked \subseteq Subs /\ ~(round > round)
    BY SMT, <2>1 DEF RoundInv, RoundShape, RoundTypeOK, Rounds
  <2>8. \A t \in Subs, q \in Rounds :
          /\ q > round => pc'[t][q] = "none"
          /\ pc'[t][q] \in Pending => q = round /\ t \in asked
    BY SMT, <2>2, <2>4, <2>7 DEF RoundInv, RoundShape
  <2>9. \A t \in asked :
          /\ t \in todo <=> pc'[t][round] = "none"
          /\ outcome[t] = "none" <=> pc'[t][round] \in {"none", "make", "enter", "select"}
          /\ pc'[t][round] \in {"read", "write"} => outcome[t] = "yes"
    BY SMT, <2>1, <2>2, <2>4, <2>6, <2>7 DEF RoundInv, RoundShape
  <2> QED
    BY SMT, <2>1, <2>5, <2>8, <2>9 DEF RoundInv, RoundShape
<1>4. CASE SubscribeValidateResult
  <2>1. cur = {} /\ Waiting = {} /\ todo = {} /\ mpc = "loop"
    BY <1>4 DEF SubscribeValidateResult, RoundInv, RoundShape, WgTold
  <2>2. \A s \in Subs, r \in Rounds : pc[s][r] \notin Pending
    BY <2>1 DEF Waiting
  <2>3. CASE mpc' = "commit" /\ UNCHANGED history
    BY <1>4, <2>1, <2>2, <2>3 DEF SubscribeValidateResult, Result, RoundInv, RoundShape, goroutine, history
  <2>4. CASE RoundOver
    BY <1>4, <2>1, <2>2, <2>4 DEF SubscribeValidateResult, Result, RoundOver, RoundInv, RoundShape, goroutine
  <2> QED
    BY <1>4, <2>3, <2>4 DEF SubscribeValidateResult, Result
<1>5. CASE CommitQueues
  BY <1>5 DEF CommitQueues, RoundOver, RoundInv, RoundShape, goroutine
<1> QED
  BY <1>1, <1>2, <1>3, <1>4, <1>5 DEF Committer

\* A goroutine that is counted by SubscribeWg keeps the shape of the round when
\* its new place fits how its subscriber is counted.
LEMMA PendingMoves ==
    ASSUME RoundInv, NEW s \in Subs, NEW r \in Rounds, pc[s][r] \in Pending,
           NEW label \in GoroutineState \ {"none"}, Goto(s, r, label),
           UNCHANGED <<round, mpc, todo, cur, members, asked>>,
           \A t \in Subs \ {s} : outcome'[t] = outcome[t],
           outcome'[s] = "none" <=> label \in {"make", "enter", "select"},
           label \in {"read", "write"} => outcome'[s] = "yes"
    PROVE  RoundShape'
<1>1. r = round /\ mpc \in {"loop", "inc"} /\ s \in asked /\ s \notin todo \cup cur
  BY PendingNow
<1>2. /\ pc'[s][r] = label
      /\ \A t \in Subs, q \in Rounds : t # s \/ q # r => pc'[t][q] = pc[t][q]
  BY SMT, GotoMoves DEF RoundInv
<1>3. asked \subseteq Subs /\ ~(round > round)
  BY <1>1 DEF RoundInv, RoundShape, RoundTypeOK, Rounds
<1>4. \A t \in Subs, q \in Rounds :
        /\ q > round => pc'[t][q] = "none"
        /\ pc'[t][q] \in Pending => q = round /\ t \in asked
  BY SMT, <1>1, <1>2, <1>3 DEF RoundInv, RoundShape
<1>5. \A t \in asked :
        /\ t \in todo \cup cur <=> pc'[t][round] = "none"
        /\ outcome'[t] = "none" <=> pc'[t][round] \in {"none", "make", "enter", "select"}
        /\ pc'[t][round] \in {"read", "write"} => outcome'[t] = "yes"
  BY SMT, <1>1, <1>2, <1>3 DEF RoundInv, RoundShape
<1>6. \A t \in Subs \ asked : outcome'[t] = "none"
  BY <1>1 DEF RoundInv, RoundShape
<1> QED
  BY SMT, <1>1, <1>4, <1>5, <1>6 DEF RoundInv, RoundShape

\* So does one that has called SubscribeWg.Done.
LEMMA PastMoves ==
    ASSUME RoundInv, NEW s \in Subs, NEW r \in Rounds, pc[s][r] \in {"close", "nil"},
           NEW label \in {"nil", "end"}, Goto(s, r, label),
           UNCHANGED <<round, mpc, todo, cur, members, asked, outcome>>
    PROVE  RoundShape'
<1>1. /\ pc'[s][r] = label
      /\ \A t \in Subs, q \in Rounds : t # s \/ q # r => pc'[t][q] = pc[t][q]
  BY SMT, GotoMoves DEF RoundInv, GoroutineState
<1>2. label \notin Pending /\ label \notin {"none", "make", "enter", "select", "read", "write"} /\ ~(r > round)
  BY DEF Pending, RoundInv, RoundShape
<1>3. asked \subseteq Subs
  BY DEF RoundInv, RoundShape, RoundTypeOK
<1>4. \A t \in Subs, q \in Rounds :
        /\ q > round => pc'[t][q] = "none"
        /\ pc'[t][q] \in Pending => q = round /\ mpc \in {"loop", "inc"} /\ t \in asked
  BY SMT, <1>1, <1>2 DEF RoundInv, RoundShape
<1>5. mpc # "idle" => \A t \in asked :
        /\ t \in todo \cup cur <=> pc'[t][round] = "none"
        /\ outcome[t] = "none" <=> pc'[t][round] \in {"none", "make", "enter", "select"}
        /\ pc'[t][round] \in {"read", "write"} => outcome[t] = "yes"
  BY SMT, <1>1, <1>2, <1>3 DEF RoundInv, RoundShape
<1> QED
  BY SMT, <1>4, <1>5 DEF RoundInv, RoundShape

\* The goroutines keep the shape of a round.
LEMMA GoroutineShape ==
    ASSUME RoundInv, NEW s \in Subs, NEW r \in Rounds, NEW label \in GoroutineState, Moves(s, r, label)
    PROVE  RoundShape'
<1>1. CASE pc[s][r] \in {"close", "nil"}
  <2>1. Goto(s, r, label) /\ label \in {"nil", "end"} /\ UNCHANGED <<round, mpc, todo, cur, members, asked, outcome>>
    BY <1>1 DEF Moves, Edge
  <2> QED
    BY <1>1, <2>1, PastMoves
<1>2. CASE pc[s][r] \in Pending
  <2>1. /\ outcome \in [Subs -> {"none", "yes", "no"}]
        /\ outcome[s] = "none" <=> pc[s][r] \in {"make", "enter", "select"}
        /\ pc[s][r] \in {"read", "write"} => outcome[s] = "yes"
    BY SMT, <1>2, PendingNow DEF RoundInv, RoundTypeOK, RoundShape, Pending
  <2>2. /\ Goto(s, r, label) /\ label # "none" /\ UNCHANGED <<round, mpc, todo, cur, members, asked>>
        /\ label \in {"make", "enter", "select"} => pc[s][r] \in {"make", "enter"}
        /\ label \in {"read", "write"} => pc[s][r] \in {"select", "read"}
        /\ pc[s][r] \in {"make", "enter"} => label \in {"enter", "select"}
    BY DEF Moves, Edge
  <2>3. CASE pc[s][r] = "select"
    <3>1. PICK how \in {"yes", "no"} : Counted(s, how) /\ label = IF how = "yes" THEN "read" ELSE "wgdone"
      BY <2>3 DEF Moves
    <3>2. outcome'[s] = how /\ \A t \in Subs \ {s} : outcome'[t] = outcome[t]
      BY <2>1, <3>1 DEF Counted
    <3> QED
      BY <1>2, <2>2, <3>1, <3>2, PendingMoves
  <2>4. CASE pc[s][r] # "select"
    <3>1. outcome' = outcome
      BY <2>4 DEF Moves
    <3> QED
      BY <1>2, <2>1, <2>2, <2>4, <3>1, PendingMoves
  <2> QED
    BY <2>3, <2>4
<1> QED
  BY <1>1, <1>2 DEF Moves, Edge, Pending

-----------------------------------------------------------------------------
(* ValidateCount and the queues *)

\* ValidateCount with at most one voter, as a predicate of what it depends on
Told(n, place, counted) ==
    n = IF place = "none" \/ (counted = "yes" /\ place \notin {"read", "write"}) THEN 0 ELSE 1

\* The committer counts the only voter once.
LEMMA CommitterCount ==
    ASSUME RoundInv, RoundShape', Committer
    PROVE  CountExact'
<1>1. ASSUME NEW targets \in SUBSET members, Begin(targets)
      PROVE  CountExact'
  <2>1. count' = 0 /\ mpc' = "loop" /\ todo' = asked'
    BY <1>1 DEF Begin
  <2>2. \A v \in Subs : asked' = {v} => pc'[v][round'] = "none"
    BY <2>1 DEF RoundShape
  <2> QED
    BY <2>1, <2>2 DEF CountExact
<1>2. ASSUME NEW s \in Subs, Visit(s)
      PROVE  CountExact'
  <2>1. /\ mpc = "loop" /\ s \in asked /\ pc[s][round] = "none" /\ tmp' = count
        /\ UNCHANGED <<round, count, pc, reg, asked, outcome>>
    BY <1>2 DEF Visit, RoundInv, RoundShape, goroutine, history
  <2>2. \A v \in Subs : asked = {v} => v = s
    BY <2>1
  <2> QED
    BY <2>1, <2>2 DEF CountExact, RoundInv
<1>3. CASE Spawn
  <2>1. mpc = "inc" /\ round \in Rounds /\ count' = tmp + 1 /\ mpc' = "loop" /\ UNCHANGED <<round, reg, asked, outcome>>
    BY <1>3 DEF Spawn, RoundInv, RoundShape, history
  <2>2. PICK s \in asked \ todo : cur = {s} /\ Goto(s, round, "make")
    BY SMT, <1>3, <2>1 DEF Spawn, RoundInv, RoundShape
  <2>3. s \in Subs /\ "make" \in GoroutineState
    BY <2>2 DEF RoundInv, RoundShape, RoundTypeOK, GoroutineState
  <2>4. pc'[s][round] = "make"
    BY <2>1, <2>2, <2>3, GotoMoves DEF RoundInv
  <2>5. outcome[s] = "none"
    BY <2>1, <2>2 DEF RoundInv, RoundShape
  <2>6. \A v \in Subs : asked = {v} => v = s /\ tmp = 0
    BY <2>1, <2>2 DEF RoundInv, CountExact
  <2> QED
    BY SMT, <2>1, <2>2, <2>4, <2>5, <2>6 DEF CountExact
<1>4. CASE SubscribeValidateResult
  BY <1>4 DEF SubscribeValidateResult, Result, RoundOver, CountExact
<1>5. CASE CommitQueues
  BY <1>5 DEF CommitQueues, RoundOver, CountExact
<1> QED
  BY <1>1, <1>2, <1>3, <1>4, <1>5 DEF Committer

\* And its goroutine takes it back when it says yes.
LEMMA GoroutineCount ==
    ASSUME RoundInv, NEW s \in Subs, NEW r \in Rounds, Goroutine(s, r),
           NEW label \in GoroutineState, Moves(s, r, label)
    PROVE  CountExact'
<1>0. /\ UNCHANGED <<round, mpc, tmp, asked>> /\ Goto(s, r, label) /\ Edge(pc[s][r], label)
      /\ pc[s][r] # "write" => count' = count
      /\ pc[s][r] # "select" => outcome' = outcome
      /\ pc[s][r] = "select" => \E how \in {"yes", "no"} :
            Counted(s, how) /\ label = IF how = "yes" THEN "read" ELSE "wgdone"
  BY DEF Moves
<1>1. ASSUME mpc \in {"loop", "inc"}, asked = {}
      PROVE  count' = 0
  <2>1. pc[s][r] # "write"
    BY <1>1, PendingNow DEF Pending
  <2> QED
    BY <1>0, <1>1, <2>1 DEF RoundInv, CountExact
<1>2. ASSUME mpc \in {"loop", "inc"}, NEW v \in Subs, asked = {v}
      PROVE  Told(count', pc'[v][round], outcome'[v]) /\ (pc'[v][round] = "write" => reg'[v][round] = 1)
  <2>1. /\ Told(count, pc[v][round], outcome[v]) /\ (pc[v][round] = "write" => reg[v][round] = 1)
        /\ outcome[v] = "none" <=> pc[v][round] \in {"none", "make", "enter", "select"}
        /\ pc[v][round] \in {"read", "write"} => outcome[v] = "yes"
        /\ round \in Rounds
    BY <1>2 DEF RoundInv, CountExact, RoundShape, Told
  <2>2. /\ pc'[s][r] = label
        /\ \A t \in Subs, q \in Rounds : t # s \/ q # r => pc'[t][q] = pc[t][q]
    BY <1>0, GotoMoves DEF RoundInv
  <2>3. ASSUME pc[s][r] \in Pending
        PROVE  s = v /\ r = round
    BY <1>2, <2>3, PendingNow
  <2>4. CASE pc[s][r] = "write"
    <3>1. count' = reg[s][r] - 1
      BY <2>4 DEF Goroutine, SendValidate, EnterSelect, Timeout, Receive, ReceiveClosed, ReadCount, WriteCount,
                  WgDone, CloseDone, ClearDone
    <3>2. s = v /\ r = round /\ label = "wgdone"
      BY <1>0, <2>3, <2>4 DEF Pending, Edge
    <3> QED
      BY SMT, <1>0, <2>1, <2>2, <2>4, <3>1, <3>2 DEF Told
  <2>5. CASE pc[s][r] = "read"
    <3>1. reg' = [reg EXCEPT ![s][r] = count]
      BY <2>5 DEF Goroutine, SendValidate, EnterSelect, Timeout, Receive, ReceiveClosed, ReadCount, WriteCount,
                  WgDone, CloseDone, ClearDone
    <3>2. s = v /\ r = round /\ label = "write" /\ reg'[s][r] = count
      BY <1>0, <2>3, <2>5, <3>1 DEF Pending, Edge, RoundInv, RoundTypeOK
    <3> QED
      BY <1>0, <2>1, <2>2, <2>5, <3>2 DEF Told
  <2>6. CASE pc[s][r] = "select"
    <3>1. PICK how \in {"yes", "no"} : Counted(s, how) /\ label = IF how = "yes" THEN "read" ELSE "wgdone"
      BY <1>0, <2>6
    <3>2. outcome'[s] = how /\ s = v /\ r = round
      BY <2>3, <2>6, <3>1 DEF Counted, Pending, RoundInv, RoundTypeOK
    <3> QED
      BY <1>0, <2>1, <2>2, <2>6, <3>1, <3>2 DEF Told
  <2>7. CASE pc[s][r] \in {"make", "enter", "wgdone"}
    <3>1. s = v /\ r = round /\ label \in {"enter", "select", "close"} /\ label # "none"
      BY <1>0, <2>3, <2>7 DEF Pending, Edge
    <3> QED
      BY <1>0, <2>1, <2>2, <2>7, <3>1 DEF Told, Edge
  <2>8. CASE pc[s][r] \in {"close", "nil"}
    <3>1. reg' = reg
      BY <2>8 DEF Goroutine, SendValidate, EnterSelect, Timeout, Receive, ReceiveClosed, ReadCount, WriteCount,
                  WgDone, CloseDone, ClearDone
    <3>2. label \in {"nil", "end"}
      BY <1>0, <2>8 DEF Edge
    <3> QED
      BY <1>0, <2>1, <2>2, <2>8, <3>1, <3>2 DEF Told
  <2> QED
    BY <1>0, <2>4, <2>5, <2>6, <2>7, <2>8 DEF Edge
<1>3. ASSUME mpc = "inc", NEW v \in Subs, asked = {v}
      PROVE  tmp = 0
  BY <1>3 DEF RoundInv, CountExact
<1> QED
  BY <1>0, <1>1, <1>2, <1>3 DEF CountExact, Told

\* The committer asks everyone who has commands.
LEMMA CommitterQueues ==
    ASSUME RoundInv, Committer
    PROVE  QueuesVoted'
<1>1. ASSUME NEW targets \in SUBSET members, Begin(targets)
      PROVE  QueuesVoted'
  <2>1. \A s \in members' : s \in Subs /\ (queue'[s] # {} => s \in asked') /\ outcome'[s] # "no"
    BY <1>1 DEF Begin, RoundInv, RoundTypeOK
  <2> QED
    BY <2>1 DEF QueuesVoted
<1>2. ASSUME NEW s \in Subs, Visit(s)
      PROVE  QueuesVoted'
  BY <1>2 DEF Visit, RoundInv, QueuesVoted, history
<1>3. CASE Spawn
  BY <1>3 DEF Spawn, RoundInv, QueuesVoted, history
<1>4. CASE SubscribeValidateResult
  BY <1>4 DEF SubscribeValidateResult, Result, RoundOver, RoundInv, QueuesVoted, history
<1>5. CASE CommitQueues
  BY <1>5 DEF CommitQueues, RoundOver, QueuesVoted
<1> QED
  BY <1>1, <1>2, <1>3, <1>4, <1>5 DEF Committer

\* The goroutine of a subscriber that is not counted as a yes drops its commands.
LEMMA GoroutineQueues ==
    ASSUME RoundInv, NEW s \in Subs, NEW r \in Rounds, NEW label \in GoroutineState, Moves(s, r, label)
    PROVE  QueuesVoted'
<1>0. QueuesVoted /\ RoundTypeOK /\ UNCHANGED <<mpc, members, asked>>
  BY DEF RoundInv, Moves
<1>1. CASE pc[s][r] = "select"
  <2>1. \E how \in {"yes", "no"} : Counted(s, how)
    BY <1>1 DEF Moves
  <2> QED
    BY <1>0, <2>1 DEF Counted, QueuesVoted, RoundTypeOK
<1>2. CASE pc[s][r] # "select"
  BY <1>0, <1>2 DEF Moves, QueuesVoted
<1> QED
  BY <1>1, <1>2

-----------------------------------------------------------------------------
(* The invariant of a round *)

\* A step of the handler of s
Handler(s) ==
    (\E vote \in {"yes", "no"} : SubscribeValidateProcess(s, vote)) \/ SendDone(s) \/ SubscribeDelete(s)

\* The handlers change nothing of a round, and a subscriber leaves between rounds.
LEMMA HandlerRound ==
    ASSUME RoundInv, NEW s \in Subs, Handler(s)
    PROVE  RoundInv' /\ UNCHANGED <<wg, cur, pc>>
<1>1. RoundTypeOK'
  BY HandlerTypes DEF Handler
<1>2. /\ UNCHANGED <<round, mpc, todo, cur, tmp, count, wg, pc, reg, asked, outcome>>
      /\ UNCHANGED <<queue, members>> \/ (mpc = "idle" /\ members' \subseteq members)
  BY DEF Handler, SubscribeValidateProcess, SendDone, SubscribeDelete, main, goroutine, history
<1>3. RoundShape'
  BY <1>2 DEF RoundInv, RoundShape
<1>4. WgTold' /\ CountExact'
  BY <1>2 DEF RoundInv, WgTold, Waiting, CountExact
<1>5. QueuesVoted'
  BY <1>2 DEF RoundInv, QueuesVoted
<1> QED
  BY <1>1, <1>2, <1>3, <1>4, <1>5 DEF RoundInv

\* Every step keeps RoundInv, if SubscribeWg is right.
LEMMA RoundStep ==
    ASSUME RoundInv, WgTold', [Next]_vars
    PROVE  RoundInv'
<1>1. CASE Committer
  BY <1>1, CommitterTypes, CommitterShape, CommitterCount, CommitterQueues DEF RoundInv
<1>2. ASSUME NEW s \in Subs, NEW r \in Rounds, Goroutine(s, r)
      PROVE  RoundInv'
  <2>1. PICK label \in GoroutineState : Moves(s, r, label)
    BY <1>2, GoroutineMoves DEF RoundInv
  <2> QED
    BY <1>2, <2>1, GoroutineTypes, GoroutineShape, GoroutineCount, GoroutineQueues DEF RoundInv
<1>3. ASSUME NEW s \in Subs, Handler(s)
      PROVE  RoundInv'
  BY <1>3, HandlerRound
<1>4. CASE UNCHANGED vars
  <2>1. RoundTypeOK'
    BY <1>4 DEF vars, RoundInv, RoundTypeOK
  <2>2. RoundShape'
    BY <1>4 DEF vars, RoundInv, RoundShape
  <2>3. CountExact'
    BY <1>4 DEF vars, RoundInv, CountExact
  <2>4. QueuesVoted'
    BY <1>4 DEF vars, RoundInv, QueuesVoted
  <2> QED
    BY <2>1, <2>2, <2>3, <2>4 DEF RoundInv
<1> QED
  BY <1>1, <1>2, <1>3, <1>4 DEF Next, Handler

-----------------------------------------------------------------------------
(* The answers *)

\* No handler has an answer when nobody is pending.
LEMMA NoAnswers ==
    ASSUME RoundInv, AnswersInv, ~late, wg = 0 \/ mpc \in {"idle", "commit"}, NEW s \in Subs
    PROVE  h[s] \notin {"send", "blocked"}
<1>1. ASSUME h[s] \in {"send", "blocked"}
      PROVE  FALSE
  <2>1. mpc \in {"loop", "inc"} /\ pc[s][round] \in {"enter", "select"}
    BY <1>1 DEF AnswersInv
  <2>2. round \in Rounds
    BY <2>1 DEF RoundInv, RoundShape
  <2>3. s \in Waiting
    BY <2>1, <2>2 DEF Waiting, Pending
  <2> QED
    BY <2>1, <2>3 DEF RoundInv, WgTold
<1> QED
  BY <1>1

\* Only the committer starts and ends rounds.
LEMMA CommitterAnswers ==
    ASSUME RoundInv, AnswersInv, Committer
    PROVE  AnswersInv'
<1>1. ASSUME NEW targets \in SUBSET members, Begin(targets)
      PROVE  AnswersInv'
  BY <1>1, NoAnswers DEF Begin, AnswersInv, handler
<1>2. ASSUME NEW s \in Subs, Visit(s)
      PROVE  AnswersInv'
  BY <1>2 DEF Visit, AnswersInv, goroutine, handler, history
<1>3. CASE Spawn
  <2>1. mpc = "inc" /\ mpc' = "loop" /\ round \in Rounds /\ UNCHANGED <<round, h, hv, truth, outcome, late>>
    BY <1>3 DEF Spawn, RoundInv, RoundShape, handler, history
  <2>2. PICK s \in asked \ todo : cur = {s} /\ Goto(s, round, "make")
    BY <1>3, <2>1 DEF Spawn, RoundInv, RoundShape
  <2>3. s \in Subs /\ "make" \in GoroutineState /\ pc[s][round] = "none"
    BY <2>1, <2>2 DEF RoundInv, RoundShape, RoundTypeOK, GoroutineState
  <2>4. \A t \in Subs : t # s => pc'[t][round] = pc[t][round]
    BY SMT, <2>1, <2>2, <2>3, GotoMoves DEF RoundInv
  <2> QED
    BY <2>1, <2>3, <2>4 DEF AnswersInv
<1>4. CASE SubscribeValidateResult
  BY <1>4, NoAnswers DEF SubscribeValidateResult, Result, RoundOver, AnswersInv, handler, history
<1>5. CASE CommitQueues
  BY <1>5, NoAnswers DEF CommitQueues, RoundOver, AnswersInv, handler
<1> QED
  BY <1>1, <1>2, <1>3, <1>4, <1>5 DEF Committer

\* A goroutine that stops waiting takes the answer with it, or there is none.
LEMMA GoroutineAnswers ==
    ASSUME RoundInv, AnswersInv, NEW s \in Subs, NEW r \in Rounds, Goroutine(s, r)
    PROVE  AnswersInv'
<1>0. PICK label \in GoroutineState : Moves(s, r, label)
  BY GoroutineMoves DEF RoundInv
<1>1. /\ RoundTypeOK /\ UNCHANGED <<round, mpc, truth>> /\ Goto(s, r, label) /\ Edge(pc[s][r], label)
      /\ pc[s][r] # "select" => UNCHANGED <<outcome, h, hv, late>>
  BY <1>0 DEF Moves, RoundInv
<1>2. \A t \in Subs, q \in Rounds : t # s \/ q # r => pc'[t][q] = pc[t][q]
  BY <1>1, GotoMoves
<1>3. CASE pc[s][r] = "select"
  <2>1. Timeout(s, r) \/ Receive(s, r) \/ ReceiveClosed(s, r)
    BY <1>3 DEF Goroutine, SendValidate, EnterSelect, ReadCount, WriteCount, WgDone, CloseDone, ClearDone
  <2>2. \A t \in Subs \ {s} : outcome'[t] = outcome[t] /\ pc'[t] = pc[t] /\ h'[t] = h[t] /\ hv'[t] = hv[t]
    BY <1>1, <2>1 DEF Timeout, Receive, ReceiveClosed, Counted, Goto, RoundTypeOK, handler
  <2>3. CASE Receive(s, r)
    <3>1. h[s] = "blocked" /\ h'[s] = "recv" /\ outcome'[s] = hv[s] /\ late' = late
      BY <1>1, <2>3 DEF Receive, Counted, RoundTypeOK
    <3> QED
      BY SMT, <1>1, <2>2, <3>1 DEF AnswersInv
  <2>4. CASE Timeout(s, r) \/ ReceiveClosed(s, r)
    <3>1. /\ outcome'[s] = "no" /\ UNCHANGED <<h, hv>>
          /\ late' = (late \/ h[s] \in {"send", "blocked"})
      BY <1>1, <2>4 DEF Timeout, ReceiveClosed, Counted, RoundTypeOK, handler
    <3> QED
      BY <1>1, <2>2, <3>1 DEF AnswersInv
  <2> QED
    BY <2>1, <2>3, <2>4
<1>4. CASE pc[s][r] # "select"
  <2>1. ASSUME NEW t \in Subs, pc[t][round] \in {"enter", "select"}, mpc \in {"loop", "inc"}
        PROVE  pc'[t][round] \in {"enter", "select"}
    <3>1. round \in Rounds
      BY <2>1 DEF RoundInv, RoundShape
    <3>2. CASE t = s /\ round = r
      <4>1. label = "select" /\ pc'[s][r] = label
        BY <1>1, <1>4, <2>1, <3>2, GotoMoves DEF Edge
      <4> QED
        BY <3>2, <4>1
    <3>3. CASE t # s \/ round # r
      BY <1>2, <2>1, <3>1, <3>3
    <3> QED
      BY <3>2, <3>3
  <2>2. UNCHANGED <<late, h, hv, outcome, truth, mpc, round>>
    BY <1>1, <1>4
  <2> QED
    BY <2>1, <2>2 DEF AnswersInv
<1> QED
  BY <1>3, <1>4

\* An answer that is in time is this round's.
LEMMA HandlerAnswers ==
    ASSUME RoundInv, AnswersInv, NEW s \in Subs, Handler(s)
    PROVE  AnswersInv'
<1>0. RoundTypeOK
  BY DEF RoundInv
<1>1. ASSUME NEW vote \in {"yes", "no"}, SubscribeValidateProcess(s, vote)
      PROVE  AnswersInv'
  <2> DEFINE q == Head(out[s])
  <2>1. q \in Rounds
    BY SMT, <1>0, <1>1 DEF SubscribeValidateProcess, RoundTypeOK
  <2>2. /\ UNCHANGED <<round, mpc, pc, outcome>> /\ h[s] = "recv"
        /\ late' = (late \/ pc[s][q] \notin {"enter", "select"})
        /\ truth' = IF q = round THEN [truth EXCEPT ![s] = vote] ELSE truth
        /\ \/ h' = [h EXCEPT ![s] = "send"] /\ hv' = [hv EXCEPT ![s] = vote]
           \/ UNCHANGED <<h, hv>>
    BY <1>1 DEF SubscribeValidateProcess, main, goroutine
  <2> HIDE DEF q
  <2>3. ASSUME ~late'
        PROVE  /\ ~late /\ q = round /\ mpc \in {"loop", "inc"} /\ pc[s][round] \in {"enter", "select"}
               /\ outcome[s] = "none"
    <3>1. ~late /\ pc[s][q] \in {"enter", "select"}
      BY <2>2, <2>3, <1>0 DEF RoundTypeOK
    <3>2. q = round /\ mpc \in {"loop", "inc"} /\ s \in asked
      BY <2>1, <3>1, PendingNow DEF Pending
    <3>3. outcome[s] = "none"
      BY <3>1, <3>2 DEF RoundInv, RoundShape
    <3> QED
      BY <3>1, <3>2, <3>3
  <2>4. ASSUME ~late'
        PROVE  truth'[s] = vote /\ \A t \in Subs \ {s} : truth'[t] = truth[t] /\ h'[t] = h[t] /\ hv'[t] = hv[t]
    BY <1>0, <2>2, <2>3, <2>4 DEF RoundTypeOK
  <2>5. ASSUME ~late', h'[s] \in {"send", "blocked"}
        PROVE  hv'[s] = vote
    BY <1>0, <2>2, <2>5 DEF RoundTypeOK
  <2>6. ASSUME ~late', NEW t \in Subs
        PROVE  /\ h'[t] \in {"send", "blocked"} =>
                     /\ hv'[t] = truth'[t] /\ mpc' \in {"loop", "inc"}
                     /\ pc'[t][round'] \in {"enter", "select"}
               /\ outcome'[t] = "yes" => truth'[t] = "yes"
    <3>1. CASE t = s
      BY <2>2, <2>3, <2>4, <2>5, <2>6, <3>1
    <3>2. CASE t # s
      BY SMT, <2>2, <2>3, <2>4, <2>6, <3>2 DEF AnswersInv
    <3> QED
      BY <3>1, <3>2
  <2> QED
    BY <2>6 DEF AnswersInv
<1>2. CASE SendDone(s)
  BY <1>0, <1>2 DEF SendDone, AnswersInv, RoundTypeOK, main, goroutine, history
<1>3. CASE SubscribeDelete(s)
  BY <1>0, <1>3 DEF SubscribeDelete, AnswersInv, RoundTypeOK, main, goroutine, history
<1> QED
  BY <1>1, <1>2, <1>3 DEF Handler

-----------------------------------------------------------------------------
(* sub.done *)

\* The committer leaves sub.done alone, and starts a goroutine that has not been.
LEMMA CommitterDone ==
    ASSUME RoundInv, DoneInv, Committer
    PROVE  DoneInv'
<1>1. CASE Spawn
  <2>1. mpc = "inc" /\ round \in Rounds /\ UNCHANGED <<done, closed, overlap>>
    BY <1>1 DEF Spawn, RoundInv, RoundShape, chans, history
  <2>2. PICK s \in asked \ todo : cur = {s} /\ Goto(s, round, "make")
    BY <1>1, <2>1 DEF Spawn, RoundInv, RoundShape
  <2>3. s \in Subs /\ "make" \in GoroutineState /\ pc[s][round] = "none"
    BY <2>1, <2>2 DEF RoundInv, RoundShape, RoundTypeOK, GoroutineState
  <2>4. /\ pc'[s][round] = "make"
        /\ \A t \in Subs, q \in Rounds : t # s \/ q # round => pc'[t][q] = pc[t][q]
    BY <2>1, <2>2, <2>3, GotoMoves DEF RoundInv
  <2> QED
    <3>1. OwnDone'
      BY <2>1, <2>3, <2>4 DEF DoneInv, OwnDone, Using
    <3>2. ClosedPast'
      BY <2>1, <2>3, <2>4 DEF DoneInv, ClosedPast
    <3> QED
      BY <3>1, <3>2 DEF DoneInv
<1>2. CASE ~Spawn
  <2>1. UNCHANGED <<pc, done, closed, overlap>>
    BY <1>2 DEF Committer, Begin, Visit, SubscribeValidateResult, Result, RoundOver, CommitQueues,
                goroutine, chans, history
  <2> QED
    BY <2>1 DEF DoneInv, OwnDone, ClosedPast
<1> QED
  BY <1>1, <1>2

\* A goroutine that has met no other makes, uses, closes and clears its own sub.done.
LEMMA GoroutineDone ==
    ASSUME RoundInv, DoneInv, NEW s \in Subs, NEW r \in Rounds, Goroutine(s, r)
    PROVE  DoneInv'
<1> USE DEF GoroutineState
<1>0. RoundTypeOK
  BY DEF RoundInv
<1>1. CASE SendValidate(s, r)
  <2>1. /\ pc[s][r] = "make" /\ Goto(s, r, "enter") /\ done' = [done EXCEPT ![s] = r] /\ closed' = closed
        /\ overlap' = IF \E q \in Rounds \ {r} : pc[s][q] \notin {"none", "end"}
                      THEN overlap \cup {s} ELSE overlap
    BY <1>1 DEF SendValidate
  <2>2. pc'[s][r] = "enter" /\ \A t \in Subs, q \in Rounds : t # s \/ q # r => pc'[t][q] = pc[t][q]
    BY <1>0, <2>1, GotoMoves
  <2>3. done'[s] = r /\ \A t \in Subs \ {s} : done'[t] = done[t]
    BY <1>0, <2>1 DEF RoundTypeOK
  <2>4. overlap \subseteq overlap' /\ (s \notin overlap' => \A q \in Rounds \ {r} : pc[s][q] \in {"none", "end"})
    BY <2>1
  <2>5. ASSUME NEW t \in Subs \ overlap', NEW q \in Rounds, pc'[t][q] \in Using
        PROVE  done'[t] = q
    <3>1. CASE t = s
      BY <2>2, <2>3, <2>4, <2>5, <3>1 DEF Using
    <3>2. CASE t # s
      BY <2>2, <2>3, <2>4, <2>5, <3>2 DEF DoneInv, OwnDone
    <3> QED
      BY <3>1, <3>2
  <2>6. ClosedPast'
    BY <2>1, <2>2, <2>4 DEF DoneInv, ClosedPast
  <2> QED
    BY <2>5, <2>6 DEF DoneInv, OwnDone
<1>2. ASSUME NEW label \in Using \ {"nil"}, Goto(s, r, label), pc[s][r] \in Using \ {"nil"},
             UNCHANGED <<done, closed, overlap>>
      PROVE  DoneInv'
  <2>1. pc'[s][r] = label /\ \A t \in Subs, q \in Rounds : t # s \/ q # r => pc'[t][q] = pc[t][q]
    BY SMT, <1>0, <1>2, GotoMoves DEF Using
  <2>2. OwnDone'
    BY <1>2, <2>1 DEF DoneInv, OwnDone
  <2>3. ClosedPast'
    BY <1>2, <2>1 DEF DoneInv, ClosedPast, Using
  <2> QED
    BY <2>2, <2>3 DEF DoneInv
<1>3. CASE pc[s][r] \in {"enter", "select", "read", "write", "wgdone"}
  <2>1. PICK label \in GoroutineState : Moves(s, r, label)
    BY <1>0, GoroutineMoves
  <2>2. label \in Using \ {"nil"} /\ Goto(s, r, label) /\ UNCHANGED <<done, closed, overlap>>
    BY <1>3, <2>1 DEF Moves, Edge, Using
  <2> QED
    BY <1>2, <1>3, <2>2 DEF Using
<1>4. CASE CloseDone(s, r)
  <2>1. /\ pc[s][r] = "close" /\ Goto(s, r, "nil") /\ UNCHANGED <<done, overlap>>
        /\ closed' \subseteq closed \cup {<<s, done[s]>>}
    BY <1>4 DEF CloseDone, history
  <2>2. pc'[s][r] = "nil" /\ \A t \in Subs, q \in Rounds : t # s \/ q # r => pc'[t][q] = pc[t][q]
    BY <1>0, <2>1, GotoMoves
  <2>3. s \notin overlap => done[s] = r
    BY <2>1 DEF DoneInv, OwnDone, Using
  <2>4. OwnDone'
    BY <2>1, <2>2, <2>3 DEF DoneInv, OwnDone
  <2>5. ASSUME NEW t \in Subs, NEW q \in Rounds, t \notin overlap, <<t, q>> \in closed'
        PROVE  pc'[t][q] \in {"nil", "end"}
    <3>1. <<t, q>> \in closed \/ (t = s /\ q = r)
      BY <2>1, <2>3, <2>5
    <3> QED
      BY <2>1, <2>2, <2>5, <3>1 DEF DoneInv, ClosedPast
  <2>6. ClosedPast'
    BY <2>1, <2>5 DEF ClosedPast
  <2> QED
    BY <2>4, <2>6 DEF DoneInv
<1>5. CASE ClearDone(s, r)
  <2>1. pc[s][r] = "nil" /\ Goto(s, r, "end") /\ done' = [done EXCEPT ![s] = 0] /\ UNCHANGED <<closed, overlap>>
    BY <1>5 DEF ClearDone, history
  <2>2. pc'[s][r] = "end" /\ \A t \in Subs, q \in Rounds : t # s \/ q # r => pc'[t][q] = pc[t][q]
    BY <1>0, <2>1, GotoMoves
  <2>3. \A t \in Subs \ {s} : done'[t] = done[t]
    BY <1>0, <2>1 DEF RoundTypeOK
  <2>4. s \notin overlap => \A q \in Rounds : pc'[s][q] \notin Using
    BY <2>1, <2>2 DEF DoneInv, OwnDone, Using
  <2>5. OwnDone'
    BY <2>1, <2>2, <2>3, <2>4 DEF DoneInv, OwnDone
  <2>6. ClosedPast'
    BY <2>1, <2>2 DEF DoneInv, ClosedPast
  <2> QED
    BY <2>5, <2>6 DEF DoneInv
<1> QED
  BY <1>1, <1>3, <1>4, <1>5 DEF Goroutine, EnterSelect, Timeout, Receive, ReceiveClosed, ReadCount, WriteCount, WgDone

-----------------------------------------------------------------------------
(* The properties *)

\* Everything is kept by every step.
LEMMA AllSteps ==
    ASSUME RoundInv, AnswersInv, DoneInv, [Next]_vars
    PROVE  AnswersInv' /\ DoneInv'
<1>1. CASE Committer
  BY <1>1, CommitterAnswers, CommitterDone
<1>2. ASSUME NEW s \in Subs, NEW r \in Rounds, Goroutine(s, r)
      PROVE  AnswersInv' /\ DoneInv'
  BY <1>2, GoroutineAnswers, GoroutineDone
<1>3. ASSUME NEW s \in Subs, Handler(s)
      PROVE  AnswersInv' /\ DoneInv'
  <2>1. UNCHANGED <<pc, done, closed, overlap>>
    BY <1>3 DEF Handler, SubscribeValidateProcess, SendDone, SubscribeDelete, goroutine, chans, history
  <2> QED
    BY <1>3, <2>1, HandlerAnswers DEF DoneInv, OwnDone, ClosedPast
<1>4. CASE UNCHANGED vars
  <2>1. UNCHANGED <<pc, done, closed, overlap, late, h, hv, truth, mpc, round, outcome>>
    BY <1>4 DEF vars
  <2>2. AnswersInv'
    BY <2>1 DEF AnswersInv
  <2>3. OwnDone'
    BY <2>1 DEF DoneInv, OwnDone
  <2>4. ClosedPast'
    BY <2>1 DEF DoneInv, ClosedPast
  <2> QED
    BY <2>2, <2>3, <2>4 DEF DoneInv
<1> QED
  BY <1>1, <1>2, <1>3, <1>4 DEF Next, Handler

\* A process that dies at a close or at a send while no answer is late has had
\* two goroutines of one subscriber.
LEMMA PanicStep ==
    ASSUME RoundInv, AnswersInv, DoneInv, PanicNeedsOverlap, [Next]_vars
    PROVE  PanicNeedsOverlap'
<1>1. ASSUME NEW s \in Subs, NEW r \in Rounds, CloseDone(s, r), ~late, s \notin overlap
      PROVE  panicked' = "no"
  <2>1. pc[s][r] = "close" /\ done[s] = r
    BY <1>1 DEF CloseDone, DoneInv, OwnDone, Using
  <2>2. r # 0 /\ <<s, r>> \notin closed
    BY SMT, <1>1, <2>1 DEF DoneInv, ClosedPast, Rounds
  <2>3. h[s] # "blocked"
    <3>1. ASSUME h[s] = "blocked"
          PROVE  FALSE
      <4>1. mpc \in {"loop", "inc"} /\ pc[s][round] \in {"enter", "select"}
        BY <1>1, <3>1 DEF AnswersInv
      <4>2. round \in Rounds
        BY <4>1 DEF RoundInv, RoundShape
      <4> QED
        BY <1>1, <2>1, <4>1, <4>2 DEF DoneInv, OwnDone, Using
    <3> QED
      BY <3>1
  <2> QED
    BY <1>1, <2>1, <2>2, <2>3 DEF CloseDone
<1>2. ASSUME NEW s \in Subs, SendDone(s), ~late, s \notin overlap
      PROVE  panicked' = "no"
  <2>1. mpc \in {"loop", "inc"} /\ pc[s][round] \in {"enter", "select"}
    BY <1>2 DEF SendDone, AnswersInv
  <2>2. round \in Rounds
    BY <2>1 DEF RoundInv, RoundShape
  <2>3. done[s] = round /\ <<s, round>> \notin closed
    BY <1>2, <2>1, <2>2 DEF DoneInv, OwnDone, ClosedPast, Using
  <2> QED
    BY <1>2, <2>3 DEF SendDone
<1>3. CASE UNCHANGED vars
  BY <1>3 DEF vars, PanicNeedsOverlap
<1>4. ASSUME NEW s \in Subs, NEW r \in Rounds, CloseDone(s, r)
      PROVE  PanicNeedsOverlap'
  <2>1. UNCHANGED <<late, overlap>>
    BY <1>4 DEF CloseDone, history
  <2> QED
    BY <1>1, <1>4, <2>1 DEF PanicNeedsOverlap
<1>5. ASSUME NEW s \in Subs, SendDone(s)
      PROVE  PanicNeedsOverlap'
  <2>1. UNCHANGED <<late, overlap>>
    BY <1>5 DEF SendDone, history
  <2> QED
    BY <1>2, <1>5, <2>1 DEF PanicNeedsOverlap
<1>6. ASSUME NEW s \in Subs, SubscribeDelete(s)
      PROVE  PanicNeedsOverlap'
  BY <1>6 DEF SubscribeDelete, PanicNeedsOverlap
<1>7. ASSUME Next, NEW s \in Subs, NEW r \in Rounds, Goroutine(s, r), ~CloseDone(s, r)
      PROVE  PanicNeedsOverlap'
  <2>1. PICK label \in GoroutineState : Moves(s, r, label)
    BY <1>7, GoroutineMoves DEF RoundInv
  <2>2. pc[s][r] # "close"
    BY <1>7 DEF Goroutine, SendValidate, EnterSelect, Timeout, Receive, ReceiveClosed, ReadCount, WriteCount,
                WgDone, ClearDone
  <2>3. panicked' = panicked /\ panicked = "no"
    BY <1>7, <2>1, <2>2 DEF Next, Moves
  <2> QED
    BY <2>3 DEF PanicNeedsOverlap
<1>8. ASSUME Next, Committer \/ \E s \in Subs, vote \in {"yes", "no"} : SubscribeValidateProcess(s, vote)
      PROVE  PanicNeedsOverlap'
  <2>1. panicked' = panicked /\ panicked = "no"
    BY <1>8 DEF Next, Committer, Begin, Visit, Spawn, SubscribeValidateResult, Result, CommitQueues,
                SubscribeValidateProcess
  <2> QED
    BY <2>1 DEF PanicNeedsOverlap
<1> QED
  BY <1>3, <1>4, <1>5, <1>6, <1>7, <1>8 DEF Next

\* While no answer is late, the second phase only sends what was accepted.
LEMMA AcceptedNow ==
    ASSUME RoundInv, AnswersInv
    PROVE  AcceptedOnly
<1> SUFFICES ASSUME ~late, mpc = "commit", NEW s \in members, queue[s] # {}
             PROVE  truth[s] = "yes"
  BY DEF AcceptedOnly
<1>1. s \in Subs /\ s \in asked /\ outcome[s] # "no"
  BY DEF RoundInv, RoundTypeOK, QueuesVoted
<1>2. round \in Rounds /\ pc[s][round] \notin Pending /\ s \notin todo \cup cur
  BY <1>1 DEF RoundInv, RoundShape
<1>3. outcome[s] = "yes"
  BY <1>1, <1>2 DEF RoundInv, RoundTypeOK, RoundShape, Pending
<1> QED
  BY <1>1, <1>3 DEF AnswersInv

-----------------------------------------------------------------------------
(* The round its caller sees *)

\* The variables of Validation
Phase == IF mpc = "idle" THEN "idle" ELSE IF mpc = "commit" THEN "committing" ELSE "voting"
Yes == {s \in Subs : outcome[s] = "yes"}
No == {s \in Subs : outcome[s] = "no"}
Full == {s \in members : queue[s] # {}}

\* Who is counted as what when the goroutine of a subscriber stops waiting: the
\* subscriber has a vote, and has not used it.
LEMMA CountsOnce ==
    ASSUME RoundInv, NEW s \in Subs, NEW r \in Rounds, pc[s][r] = "select",
           NEW how \in {"yes", "no"}, Counted(s, how), UNCHANGED <<mpc, asked, members>>
    PROVE  Contract!Next
<1>1. Phase = "voting" /\ Phase' = Phase /\ s \in asked \ (Yes \cup No) /\ asked' = asked
  <2>1. r = round /\ mpc \in {"loop", "inc"} /\ s \in asked
    BY PendingNow DEF Pending
  <2>2. outcome[s] = "none"
    BY <2>1 DEF RoundInv, RoundShape
  <2> QED
    BY <2>1, <2>2 DEF Phase, Yes, No
<1>2. CASE how = "yes"
  <2>1. Yes' = Yes \cup {s} /\ No' = No /\ Full' = Full
    BY <1>1, <1>2 DEF Counted, Yes, No, Full, RoundInv, RoundTypeOK
  <2>2. Contract!VoteYes(s)
    BY <1>1, <2>1 DEF Contract!VoteYes, Phase, Yes, No, Full
  <2> QED
    BY <2>2 DEF Contract!Next
<1>3. CASE how = "no"
  <2>1. Yes' = Yes /\ No' = No \cup {s} /\ Full' = Full \ {s}
    BY <1>1, <1>3 DEF Counted, Yes, No, Full, RoundInv, RoundTypeOK
  <2>2. Contract!VoteNo(s)
    BY <1>1, <2>1 DEF Contract!VoteNo, Phase, Yes, No, Full
  <2> QED
    BY <2>2 DEF Contract!Next
<1> QED
  BY <1>2, <1>3

\* When the result is taken everyone has been counted, and with one voter
\* ValidateCount is 0 just when it said yes.
LEMMA ResultTrue ==
    ASSUME RoundInv, SubscribeValidateResult
    PROVE  /\ Phase = "voting" /\ asked = Yes \cup No
           /\ \/ \E a, b \in asked : a # b
              \/ count = 0 <=> No = {}
<1>1. mpc = "loop" /\ todo = {} /\ wg = 0 /\ cur = {} /\ asked \subseteq Subs /\ round \in Rounds
  BY DEF SubscribeValidateResult, RoundInv, RoundShape, RoundTypeOK
<1>2. \A s \in Subs, r \in Rounds : pc[s][r] \notin Pending
  BY <1>1 DEF Waiting, RoundInv, WgTold
<1>3. \A s \in asked : pc[s][round] \notin Pending \cup {"none"} /\ outcome[s] \in {"yes", "no"}
  BY SMT, <1>1, <1>2 DEF RoundInv, RoundShape, RoundTypeOK, Pending
<1>4. asked = Yes \cup No
  BY <1>1, <1>3 DEF Yes, No, RoundInv, RoundShape
<1>5. CASE asked = {}
  BY <1>1, <1>4, <1>5 DEF RoundInv, CountExact, Phase
<1>6. ASSUME NEW v \in asked, asked = {v}
      PROVE  count = 0 <=> No = {}
  <2>1. count = 0 <=> outcome[v] = "yes"
    BY SMT, <1>1, <1>3, <1>6 DEF RoundInv, CountExact, Pending
  <2>2. No = {} <=> outcome[v] = "yes"
    BY <1>1, <1>3, <1>4, <1>6 DEF No
  <2> QED
    BY <2>1, <2>2
<1> QED
  BY <1>1, <1>4, <1>5, <1>6 DEF Phase

\* Every step is one of the caller's round, or changes nothing the caller sees.
LEMMA StepAllowed ==
    ASSUME RoundInv, [Next]_vars
    PROVE  [Contract!Next]_(Contract!avars)
<1> DEFINE Seen == <<Phase, asked, Yes, No, Full>>
<1>0. Seen' = Seen => UNCHANGED Contract!avars
  BY DEF Contract!avars, Phase, Yes, No, Full
<1>1. ASSUME UNCHANGED <<mpc, asked, outcome, members, queue>>
      PROVE  UNCHANGED Contract!avars
  BY <1>0, <1>1 DEF Phase, Yes, No, Full
<1>2. ASSUME NEW targets \in SUBSET members, Begin(targets)
      PROVE  Contract!Next
  <2>1. /\ Phase = "idle" /\ Phase' = "voting" /\ asked' = Full'
        /\ Full \subseteq Full' /\ Full' \subseteq Subs /\ Yes' = {} /\ No' = {}
    BY <1>2 DEF Begin, Phase, Yes, No, Full, RoundInv, RoundTypeOK
  <2>2. Contract!Start
    BY <2>1 DEF Contract!Start, Phase, Yes, No, Full
  <2> QED
    BY <2>2 DEF Contract!Next
<1>3. ASSUME NEW s \in Subs, Visit(s)
      PROVE  UNCHANGED Contract!avars
  <2>1. UNCHANGED <<asked, outcome, members, queue>> /\ mpc = "loop" /\ mpc' = "inc"
    BY <1>3 DEF Visit, history
  <2> QED
    BY <1>0, <2>1 DEF Phase, Yes, No, Full
<1>4. CASE Spawn
  <2>1. UNCHANGED <<asked, outcome, members, queue>> /\ mpc = "inc" /\ mpc' = "loop"
    BY <1>4 DEF Spawn, history
  <2> QED
    BY <1>0, <2>1 DEF Phase, Yes, No, Full
<1>5. CASE SubscribeValidateResult
  <2>1. /\ Phase = "voting" /\ asked = Yes \cup No /\ Full' = Full
        /\ (\E a, b \in asked : a # b) \/ (count = 0 <=> No = {})
    BY <1>5, ResultTrue DEF SubscribeValidateResult, Result, Full
  <2>2. CASE count = 0 /\ mpc' = "commit" /\ UNCHANGED history
    <3>1. Phase' = "committing" /\ UNCHANGED <<asked, Yes, No>>
      BY <2>2 DEF Phase, Yes, No, history
    <3>2. Contract!Pass
      BY <2>1, <2>2, <3>1 DEF Contract!Pass, Contract!Racy, Phase, Yes, No, Full
    <3> QED
      BY <3>2 DEF Contract!Next
  <2>3. CASE count # 0 /\ RoundOver
    <3>1. Phase' = "idle" /\ asked' = {} /\ Yes' = {} /\ No' = {}
      BY <2>3 DEF RoundOver, Phase, Yes, No
    <3>2. Contract!Fail
      BY <2>1, <2>3, <3>1 DEF Contract!Fail, Contract!Over, Contract!Racy, Phase, Yes, No, Full
    <3> QED
      BY <3>2 DEF Contract!Next
  <2> QED
    BY <1>5, <2>2, <2>3 DEF SubscribeValidateResult, Result
<1>6. CASE CommitQueues
  <2>1. Phase = "committing" /\ Phase' = "idle" /\ asked' = {} /\ Yes' = {} /\ No' = {} /\ Full' = {}
    BY <1>6 DEF CommitQueues, RoundOver, Phase, Yes, No, Full, RoundInv, RoundTypeOK
  <2>2. Contract!Deliver
    BY <2>1 DEF Contract!Deliver, Contract!Over, Phase, Yes, No, Full
  <2> QED
    BY <2>2 DEF Contract!Next
<1>7. ASSUME NEW s \in Subs, NEW r \in Rounds, Goroutine(s, r)
      PROVE  Contract!Next \/ UNCHANGED Contract!avars
  <2>1. PICK label \in GoroutineState : Moves(s, r, label)
    BY <1>7, GoroutineMoves DEF RoundInv
  <2>2. UNCHANGED <<mpc, asked, members>>
    BY <2>1 DEF Moves
  <2>3. CASE pc[s][r] = "select"
    <3>1. PICK how \in {"yes", "no"} : Counted(s, how)
      BY <2>1, <2>3 DEF Moves
    <3> QED
      BY <2>2, <2>3, <3>1, CountsOnce
  <2>4. CASE pc[s][r] # "select"
    <3>1. UNCHANGED <<outcome, queue>>
      BY <2>1, <2>4 DEF Moves
    <3> QED
      BY <1>1, <2>2, <3>1
  <2> QED
    BY <2>3, <2>4
<1>8. ASSUME NEW s \in Subs, SubscribeDelete(s)
      PROVE  Contract!Next
  <2>1. Phase = "idle" /\ UNCHANGED <<Phase, asked, Yes, No>> /\ Full' = Full \ {s}
    BY <1>8 DEF SubscribeDelete, Phase, Yes, No, Full, main, history, RoundInv, RoundTypeOK
  <2>2. Contract!Leave(s)
    BY <2>1 DEF Contract!Leave, Phase, Yes, No, Full
  <2> QED
    BY <2>2 DEF Contract!Next
<1>9. ASSUME NEW s \in Subs, NEW vote \in {"yes", "no"}, SubscribeValidateProcess(s, vote) \/ SendDone(s)
      PROVE  UNCHANGED Contract!avars
  BY <1>1, <1>9 DEF SubscribeValidateProcess, SendDone, main, history
<1>10. CASE UNCHANGED vars
  BY <1>1, <1>10 DEF vars
<1> QED
  BY <1>2, <1>3, <1>4, <1>5, <1>6, <1>7, <1>8, <1>9, <1>10 DEF Next, Committer

\* Nobody has been asked when openconfigd starts.
LEMMA StartAllowed ==
    ASSUME Init
    PROVE  Contract!Init
BY DEF Init, Contract!Init

-----------------------------------------------------------------------------
(* SubscribeWg; the facts about finite sets are used from here on. *)

INSTANCE FiniteSetTheorems

\* Only subscribers are waited for, and Wait ends when none is.
LEMMA WaitingFinite ==
    ASSUME NEW W \in SUBSET Subs
    PROVE  IsFiniteSet(W) /\ (Cardinality(W) = 0 => W = {})
<1>1. IsFiniteSet(W)
  BY RoundAssumption, FS_Subset
<1> QED
  BY <1>1, FS_EmptySet

\* What a move does to the goroutines SubscribeWg counts
LEMMA WaitingMoves ==
    ASSUME RoundInv, NEW s \in Subs, NEW r \in Rounds,
           NEW label \in GoroutineState, Goto(s, r, label), UNCHANGED cur,
           label \in Pending => pc[s][r] \in Pending
    PROVE  /\ pc[s][r] \in Pending /\ label \notin Pending => Waiting' = Waiting \ {s}
           /\ (pc[s][r] \in Pending <=> label \in Pending) => Waiting' = Waiting
<1>1. /\ pc'[s][r] = label
      /\ \A t \in Subs, q \in Rounds : t # s \/ q # r => pc'[t][q] = pc[t][q]
  BY GotoMoves DEF RoundInv
<1>2. ASSUME NEW t \in Subs \ {s}
      PROVE  t \in Waiting' <=> t \in Waiting
  BY <1>1 DEF Waiting
<1>3. Waiting \subseteq Subs /\ Waiting' \subseteq Subs
  BY DEF Waiting, RoundInv, RoundTypeOK
<1>4. ASSUME pc[s][r] \in Pending, label \notin Pending
      PROVE  s \notin Waiting'
  <2>1. r = round /\ s \notin cur
    BY <1>4, PendingNow
  <2>2. ASSUME NEW q \in Rounds
        PROVE  pc'[s][q] \notin Pending
    <3>1. CASE q = r
      BY <1>1, <1>4, <3>1
    <3>2. CASE q # r
      <4>1. pc[s][q] \notin Pending
        BY <2>1, <3>2, PendingNow
      <4> QED
        BY <1>1, <3>2, <4>1
    <3> QED
      BY <3>1, <3>2
  <2> QED
    BY <2>1, <2>2 DEF Waiting
<1>5. ASSUME pc[s][r] \in Pending <=> label \in Pending
      PROVE  s \in Waiting' <=> s \in Waiting
  BY <1>1, <1>5 DEF Waiting
<1> QED
  BY SMT, <1>2, <1>3, <1>4, <1>5

\* The committer adds a goroutine to SubscribeWg before it starts it.
LEMMA CommitterWg ==
    ASSUME RoundInv, WgExact, Committer
    PROVE  WgExact'
<1>0. wg = Cardinality(Waiting) /\ IsFiniteSet(Waiting)
  <2>1. Waiting \subseteq Subs
    BY DEF Waiting, RoundInv, RoundTypeOK
  <2> QED
    BY <2>1, WaitingFinite DEF WgExact
<1>1. ASSUME NEW targets \in SUBSET members, Begin(targets)
      PROVE  WgExact'
  BY <1>0, <1>1 DEF Begin, WgExact, Waiting, goroutine
<1>2. ASSUME NEW s \in Subs, Visit(s)
      PROVE  WgExact'
  <2>1. cur = {} /\ s \in asked /\ pc[s][round] = "none" /\ cur' = {s} /\ pc' = pc /\ wg' = wg + 1
    BY <1>2 DEF Visit, RoundInv, RoundShape, goroutine
  <2>2. s \notin Waiting
    BY <2>1 DEF Waiting, RoundInv, RoundShape, Pending
  <2>3. Waiting' = Waiting \cup {s}
    BY <2>1 DEF Waiting
  <2> QED
    BY <1>0, <2>1, <2>2, <2>3, FS_AddElement DEF WgExact
<1>3. CASE Spawn
  <2>1. mpc = "inc" /\ round \in Rounds /\ cur' = {} /\ wg' = wg
    BY <1>3 DEF Spawn, RoundInv, RoundShape
  <2>2. PICK s \in asked \ todo : cur = {s} /\ Goto(s, round, "make")
    BY <1>3, <2>1 DEF Spawn, RoundInv, RoundShape
  <2>3. s \in Subs /\ "make" \in GoroutineState
    BY <2>2 DEF RoundInv, RoundShape, RoundTypeOK, GoroutineState
  <2>4. /\ pc'[s][round] = "make"
        /\ \A t \in Subs, q \in Rounds : t # s \/ q # round => pc'[t][q] = pc[t][q]
    BY SMT, <2>1, <2>2, <2>3, GotoMoves DEF RoundInv
  <2>5. Waiting' = Waiting
    BY SMT, <2>1, <2>2, <2>3, <2>4 DEF Waiting, Pending
  <2> QED
    BY <1>0, <2>1, <2>5 DEF WgExact
<1>4. CASE SubscribeValidateResult
  BY <1>0, <1>4 DEF SubscribeValidateResult, Result, WgExact, Waiting, goroutine
<1>5. CASE CommitQueues
  BY <1>0, <1>5 DEF CommitQueues, WgExact, Waiting, goroutine
<1> QED
  BY <1>1, <1>2, <1>3, <1>4, <1>5 DEF Committer

\* A goroutine leaves SubscribeWg once.
LEMMA GoroutineWg ==
    ASSUME RoundInv, WgExact, NEW s \in Subs, NEW r \in Rounds, Goroutine(s, r)
    PROVE  WgExact'
<1>0. wg = Cardinality(Waiting) /\ Waiting \subseteq Subs
  BY DEF WgExact, Waiting, RoundInv, RoundTypeOK
<1>1. PICK label \in GoroutineState : Moves(s, r, label)
  BY GoroutineMoves DEF RoundInv
<1>2. /\ Goto(s, r, label) /\ cur' = cur
      /\ label \in Pending => pc[s][r] \in Pending
      /\ pc[s][r] \in Pending /\ label \notin Pending <=> pc[s][r] = "wgdone"
      /\ pc[s][r] # "wgdone" => wg' = wg
  BY <1>1 DEF Moves, Edge, Pending
<1>3. CASE pc[s][r] = "wgdone"
  <2>1. wg' = wg - 1
    BY <1>3 DEF Goroutine, SendValidate, EnterSelect, Timeout, Receive, ReceiveClosed, ReadCount, WriteCount,
                WgDone, CloseDone, ClearDone
  <2>2. s \in Waiting /\ Waiting' = Waiting \ {s}
    BY <1>2, <1>3, WaitingMoves DEF Waiting
  <2>3. IsFiniteSet(Waiting)
    BY <1>0, WaitingFinite
  <2> QED
    BY <1>0, <2>1, <2>2, <2>3, FS_RemoveElement DEF WgExact
<1>4. CASE pc[s][r] # "wgdone"
  <2>1. Waiting' = Waiting
    BY <1>2, <1>4, WaitingMoves
  <2> QED
    BY <1>0, <1>2, <1>4, <2>1 DEF WgExact
<1> QED
  BY <1>3, <1>4

\* SubscribeWg is right after every step, and so the round keeps its invariant.
LEMMA WgStep ==
    ASSUME RoundInv, WgExact, [Next]_vars
    PROVE  RoundInv' /\ WgExact'
<1>1. ASSUME Committer
      PROVE  WgExact' /\ RoundTypeOK'
  BY <1>1, CommitterWg, CommitterTypes
<1>2. ASSUME NEW s \in Subs, NEW r \in Rounds, Goroutine(s, r)
      PROVE  WgExact' /\ RoundTypeOK'
  BY <1>2, GoroutineWg, GoroutineTypes
<1>3. ASSUME NEW s \in Subs, Handler(s)
      PROVE  WgExact' /\ RoundTypeOK'
  BY <1>3, HandlerRound DEF WgExact, Waiting, RoundInv
<1>4. ASSUME UNCHANGED vars
      PROVE  WgExact' /\ RoundTypeOK'
  BY <1>4 DEF vars, WgExact, Waiting, RoundInv, RoundTypeOK
<1>5. WgExact' /\ RoundTypeOK'
  BY <1>1, <1>2, <1>3, <1>4 DEF Next, Handler
<1>6. WgTold'
  <2>1. Waiting' \subseteq Subs /\ wg' = Cardinality(Waiting')
    BY <1>5 DEF RoundTypeOK, Waiting, WgExact
  <2> QED
    BY <2>1, WaitingFinite DEF WgTold
<1> QED
  BY <1>5, <1>6, RoundStep

\* It holds when openconfigd starts.
LEMMA RoundStart ==
    ASSUME Init
    PROVE  RoundInv /\ WgExact
<1>1. RoundTypeOK
  <2>1. pc \in [Subs -> [Rounds -> GoroutineState]] /\ reg \in [Subs -> [Rounds -> Int]]
    BY SMT DEF Init, GoroutineState
  <2>2. 0 \in 0 .. MaxRound /\ << >> \in Seq(Rounds)
    BY SMT, RoundAssumption
  <2>3. out \in [Subs -> Seq(Rounds)] /\ done \in [Subs -> 0 .. MaxRound] /\ round \in 0 .. MaxRound
    BY <2>2 DEF Init
  <2>4. /\ h \in [Subs -> {"recv", "send", "blocked", "stuck", "gone"}]
        /\ hv \in [Subs -> {"yes", "no"}]
        /\ queue \in [Subs -> SUBSET Rounds]
        /\ outcome \in [Subs -> {"none", "yes", "no"}]
        /\ truth \in [Subs -> {"none", "yes", "no"}]
    BY DEF Init
  <2>5. /\ mpc \in {"idle", "loop", "inc", "commit"} /\ cur \subseteq Subs /\ members \subseteq Subs
        /\ tmp \in Int /\ count \in Int
    BY SMT DEF Init
  <2>6. late \in BOOLEAN
    BY DEF Init
  <2> QED
    BY <2>1, <2>3, <2>4, <2>5, <2>6 DEF RoundTypeOK
<1>2. RoundShape
  BY DEF Init, RoundShape, Pending
<1>3. Waiting = {}
  BY DEF Init, Waiting, Pending
<1>4. WgExact
  BY <1>3, FS_EmptySet DEF Init, WgExact
<1> QED
  BY <1>1, <1>2, <1>3, <1>4 DEF Init, RoundInv, WgTold, CountExact, QueuesVoted

-----------------------------------------------------------------------------

\* Whatever the goroutines of this round and of earlier ones, the handlers and
\* the timers do, and however the unsynchronised updates of ValidateCount fall,
\* a validation round is what its caller takes it to be: ConfigCommit's
\* abstraction of Validate and SubscribeValidateResult is one of the code.
THEOREM RoundsAreValidations == Spec => ImplementsValidation
<1>1. Spec => [](RoundInv /\ WgExact)
  BY RoundStart, WgStep, PTL DEF Spec
<1> QED
  BY <1>1, StartAllowed, StepAllowed, PTL DEF Spec, ImplementsValidation, Contract!Spec

\* While every answer reaches the goroutine that waits for it, the second phase
\* of Commit sends a module only what it accepted in this round.
THEOREM SentIsAccepted == Spec => []AcceptedOnly
<1>1. Init => AnswersInv /\ DoneInv
  BY SMT DEF Init, AnswersInv, DoneInv, OwnDone, ClosedPast, Using
<1> QED
  BY <1>1, RoundStart, WgStep, AllSteps, AcceptedNow, PTL DEF Spec

\* While every answer reaches the goroutine that waits for it, closing sub.done
\* and sending on it only panics after two goroutines of one subscriber met.
THEOREM PanicsAreOverlaps == Spec => []PanicNeedsOverlap
<1>1. Init => AnswersInv /\ DoneInv /\ PanicNeedsOverlap
  BY SMT DEF Init, AnswersInv, DoneInv, OwnDone, ClosedPast, Using, PanicNeedsOverlap
<1> QED
  BY <1>1, RoundStart, WgStep, AllSteps, PanicStep, PTL DEF Spec

=============================================================================
