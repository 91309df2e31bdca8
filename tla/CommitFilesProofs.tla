------------------------- MODULE CommitFilesProofs -------------------------
(***************************************************************************)
(* What ApiSync guarantees for any number of subscribers and commits, also *)
(* as the part of CommitFiles it is, and what CommitFiles guarantees for   *)
(* any configurations, modules, number of revisions, sessions and crashes. *)
(***************************************************************************)
EXTENDS CommitFiles, TLAPS

\* Zenon unless a leaf says otherwise: most need no arithmetic.
USE Zenon

-----------------------------------------------------------------------------
(* ApiSync *)

\* Between two waits nothing is owed and no handler is about to close.
AtRest ==
    /\ \A s \in Subs : owed[s] = 0 /\ h[s] = "recv"

\* While the committer waits, exactly one thing is still to come from the
\* module it waits for, its report, the close, or the wake-up, and nothing
\* from any other.
Waiting ==
    /\ \A s \in Subs \ {cur} : owed[s] = 0 /\ h[s] = "recv"
    /\ \/ ch = "open" /\ owed[cur] = 1 /\ h[cur] = "recv"
       \/ ch = "open" /\ owed[cur] = 0 /\ h[cur] = "close"
       \/ ch = "closed" /\ owed[cur] = 0 /\ h[cur] = "recv"

InStep ==
    timedOut = FALSE =>
        /\ panicked = FALSE
        /\ mpc # "timeout"
        /\ mpc \in {"idle", "loop"} => ch = "nil" /\ AtRest
        /\ mpc = "done" => ch = "closed" /\ AtRest
        /\ mpc = "wait" => Waiting

IInv == TypeOK /\ InStep

\* Every step keeps the inductive invariant; a commit may concern no module.
LEMMA ApiStep ==
    ASSUME IInv,
           \/ \E targets \in SUBSET Subs : Begin(targets)
           \/ Committer
           \/ \E s \in Subs : Finished(s) \/ CloseCh(s)
           \/ UNCHANGED vars
    PROVE  IInv'
<1> USE CommitsAssumption DEF IInv
<1>1. ASSUME NEW targets \in SUBSET Subs, Begin(targets)
      PROVE  IInv'
  BY SMT, <1>1 DEF Begin, TypeOK, InStep, AtRest, Waiting
<1>2. ASSUME NEW s \in Subs, CommitSend(s)
      PROVE  IInv'
  <2>1. TypeOK'
    BY SMT, <1>2 DEF CommitSend, TypeOK
  <2>2. ASSUME timedOut' = FALSE
        PROVE  Waiting'
    <3>1. AtRest
      BY <1>2, <2>2 DEF CommitSend, InStep
    <3>2. owed' = [owed EXCEPT ![s] = owed[s] + 1] /\ cur' = s /\ h' = h /\ ch' = "open"
      BY <1>2 DEF CommitSend
    <3> QED
      BY SMT, <3>1, <3>2 DEF Waiting, AtRest, TypeOK
  <2> QED
    BY <1>2, <2>1, <2>2 DEF CommitSend, InStep
<1>3. CASE Done
  BY <1>3 DEF Done, TypeOK, InStep, Waiting, AtRest
<1>4. CASE Timeout
  BY <1>4 DEF Timeout, TypeOK, InStep
<1>5. CASE ClearCh
  BY <1>5 DEF ClearCh, TypeOK, InStep, AtRest, Waiting
<1>6. CASE End
  BY <1>6 DEF End, TypeOK, InStep, AtRest, Waiting
<1>7. ASSUME NEW s \in Subs, Finished(s)
      PROVE  IInv'
  <2>1. TypeOK'
    BY SMT, <1>7 DEF Finished, TypeOK
  <2>2. ASSUME timedOut' = FALSE
        PROVE  mpc = "wait" /\ Waiting'
    <3>1. mpc = "wait" /\ Waiting
      BY SMT, <1>7, <2>2 DEF Finished, InStep, AtRest, TypeOK
    <3>2. s = cur /\ ch = "open" /\ owed[cur] = 1
      BY SMT, <1>7, <3>1 DEF Finished, Waiting
    <3>3. h' = [h EXCEPT ![s] = "close"] /\ owed' = [owed EXCEPT ![s] = owed[s] - 1]
          /\ UNCHANGED <<cur, ch>>
      BY <1>7, <3>2 DEF Finished
    <3> QED
      BY SMT, <3>1, <3>2, <3>3 DEF Waiting, TypeOK
  <2> QED
    BY <1>7, <2>1, <2>2 DEF Finished, InStep
<1>8. ASSUME NEW s \in Subs, CloseCh(s)
      PROVE  IInv'
  <2>1. TypeOK'
    BY <1>8 DEF CloseCh, TypeOK
  <2>2. ASSUME timedOut' = FALSE
        PROVE  mpc = "wait" /\ Waiting' /\ panicked' = FALSE
    <3>1. mpc = "wait" /\ Waiting
      BY <1>8, <2>2 DEF CloseCh, InStep, AtRest, TypeOK
    <3>2. s = cur /\ ch = "open" /\ owed[cur] = 0
      BY <1>8, <3>1 DEF CloseCh, Waiting
    <3>3. h' = [h EXCEPT ![s] = "recv"] /\ ch' = "closed" /\ UNCHANGED <<cur, owed>>
      BY <1>8, <3>2 DEF CloseCh
    <3>4. panicked' = FALSE
      BY <1>8, <3>2 DEF CloseCh
    <3> QED
      BY <3>1, <3>2, <3>3, <3>4 DEF Waiting, TypeOK
  <2> QED
    BY <1>8, <2>1, <2>2 DEF CloseCh, InStep
<1>9. CASE UNCHANGED vars
  BY <1>9 DEF vars, TypeOK, InStep, AtRest, Waiting
<1> HIDE DEF IInv
<1> QED
  BY <1>1, <1>2, <1>3, <1>4, <1>5, <1>6, <1>7, <1>8, <1>9 DEF Committer

\* It holds when openconfigd starts.
LEMMA ApiStart ==
    ASSUME Init
    PROVE  IInv
<1>1. TypeOK
  <2>1. panicked \in BOOLEAN /\ timedOut \in BOOLEAN
    BY DEF Init
  <2>2. commits \in 0 .. MaxCommit /\ cur \in Subs /\ todo \subseteq Subs
    BY SMT, CommitsAssumption DEF Init
  <2>3. h \in [Subs -> {"recv", "close"}] /\ owed \in [Subs -> Nat]
    BY DEF Init
  <2>4. mpc = "idle" /\ ch = "nil"
    BY DEF Init
  <2> QED
    BY <2>1, <2>2, <2>3, <2>4 DEF TypeOK
<1>2. AtRest
  BY DEF Init, AtRest
<1>3. mpc = "idle" /\ ch = "nil" /\ panicked = FALSE
  BY DEF Init
<1> QED
  BY <1>1, <1>2, <1>3 DEF IInv, InStep

\* It holds of every reachable state.
LEMMA Invariance == Spec => []IInv
<1>1. ASSUME IInv, [Next]_vars
      PROVE  IInv'
  BY <1>1, ApiStep DEF Next
<1> QED
  BY <1>1, ApiStart, PTL DEF Spec

\* The state keeps its type.
THEOREM TypeCorrect == Spec => []TypeOK
<1>1. IInv => TypeOK
  BY DEF IInv
<1> QED
  BY <1>1, Invariance, PTL

\* Until a wait times out, modules are configured one after the other.
THEOREM InTurn == Spec => []OneAtATime
<1>1. IInv => OneAtATime
  BY DEF IInv, TypeOK, InStep, AtRest, OneAtATime
<1> QED
  BY <1>1, Invariance, PTL

\* Until a wait times out, no handler closes the channel wrongly.
THEOREM NoPanicInTime == Spec => []PanicNeedsTimeout
<1>1. IInv => PanicNeedsTimeout
  BY DEF IInv, TypeOK, InStep, PanicNeedsTimeout
<1> QED
  BY <1>1, Invariance, PTL

-----------------------------------------------------------------------------
(* The inductive invariant of CommitFiles *)

\* The stages in which the revisions are touched
Saving == {"rename", "open", "close"}

\* The file a start loads
Zeroth == IF sameDir THEN rev[0] ELSE zero

\* The committer's stages, and what it leaves behind in them
Control ==
    /\ cpc = "down" => active = {} /\ told = {} /\ vpc = "none" /\ overlap = FALSE /\ boot = TRUE
    /\ cpc = "idle" => boot = FALSE
    /\ cpc \in Saving => active = candidate

\* Unless a session was there, the two files are what this commit wrote.
OwnFiles ==
    overlap = FALSE =>
        /\ cpc \in Stages => vpc = "none"
        /\ told = IF cpc = "api" THEN candidate ELSE active
        /\ cpc = "open2" => tmp[1] = [form |-> "compare", lines |-> {}]
        /\ cpc \in {"close2", "diff"} => tmp[1] = [form |-> "compare", lines |-> active]
        /\ cpc = "close2" => tmp[2] = [form |-> "compare", lines |-> {}]
        /\ cpc = "diff" => tmp[2] = [form |-> "compare", lines |-> candidate]

\* What RollbackRevisionIncrement writes over is no file any more.
Vacated ==
    /\ cpc = "rename" => rename # 0 /\ (rename < RevisionMax - 1 => rev[rename] = NoFile)
    /\ cpc = "open" => rev[0] = NoFile

\* Where the last commit is: not yet renamed it is younger than the commit
\* under way, and it is not in the file that is being written.
KeptAt(r) ==
    /\ rev[r] = done
    /\ cpc = "rename" /\ r <= rename => r < age
    /\ cpc = "close" => r # 0

Kept == sameDir /\ done # NoFile /\ age < RevisionMax => \E r \in 0 .. age : KeptAt(r)

\* What a start would load, is loading or has loaded is the last commit.
Loaded ==
    done # NoFile /\ gap = FALSE =>
        /\ cpc \notin Saving => Zeroth = done
        /\ boot = TRUE /\ cpc # "down" => candidate = done
        /\ overlap = FALSE /\ boot = FALSE /\ cpc \notin Saving => active = done

FilesInv == FilesTypeOK /\ InStep /\ Control /\ OwnFiles /\ Vacated /\ Kept /\ Loaded

-----------------------------------------------------------------------------
(* Types *)

\* Writing the two files
LEMMA CompareTypes ==
    ASSUME FilesTypeOK, NEW at, NEW then, NEW f \in Forms, CompareStep(at, then, f)
    PROVE  tmp' \in [1 .. 2 -> [form : Forms, lines : Files]] /\ at \in Stages /\ then \in Stages
BY SMT DEF FilesTypeOK, CompareStep, Truncate, Write, Files, Stages

\* Writing revision 0
LEMMA SaveTypes ==
    ASSUME FilesTypeOK, NEW lines \in SUBSET Lines, SaveZero(lines)
    PROVE  rev' \in [Revisions -> Files] /\ zero' \in Files
BY RevisionAssumption DEF FilesTypeOK, SaveZero, Files, Revisions

-----------------------------------------------------------------------------
(* The steps *)

\* What the steps have to keep, apart from ApiSync
Shape == Control /\ OwnFiles /\ Vacated /\ Kept /\ Loaded

\* A session neither touches the files of a commit unseen nor anything else.
LEMMA SessionStep ==
    ASSUME FilesInv, TypeOK', View \/ ViewStep
    PROVE  FilesTypeOK' /\ Shape'
<1>1. /\ UNCHANGED <<store, cpc, boot, revisions, past>> /\ cpc # "down"
      /\ overlap' = (overlap \/ cpc \in Stages)
      /\ vpc' \in Stages \cup {"none"} /\ form' \in Forms
      /\ tmp' \in [1 .. 2 -> [form : Forms, lines : Files]]
  <2>1. CASE View
    BY <2>1 DEF View, Overlaps, FilesInv, FilesTypeOK, Stages
  <2>2. CASE ViewStep
    <3>1. cpc # "down"
      BY <2>2 DEF ViewStep, CompareStep, FilesInv, Control
    <3>2. CASE CompareStep(vpc, vpc', form) /\ UNCHANGED form
      BY <2>2, <3>1, <3>2, CompareTypes DEF ViewStep, Overlaps, FilesInv, FilesTypeOK
    <3>3. CASE vpc = "diff" /\ vpc' = "none" /\ tmp' = NoTmp /\ form' = "show"
      BY <2>2, <3>1, <3>3 DEF ViewStep, Overlaps, FilesInv, FilesTypeOK, NoTmp, Files, Forms
    <3> QED
      BY <2>2, <3>2, <3>3 DEF ViewStep
  <2> QED
    BY <2>1, <2>2
<1>2. FilesTypeOK'
  BY <1>1 DEF FilesInv, FilesTypeOK, store, revisions, past
<1>3. Control'
  BY <1>1 DEF FilesInv, Control, store
<1>4. OwnFiles'
  BY <1>1 DEF FilesInv, OwnFiles, FilesTypeOK, store, Stages
<1>5. Vacated' /\ Kept' /\ Loaded'
  BY <1>1 DEF FilesInv, FilesTypeOK, Vacated, Kept, KeptAt, Loaded, Zeroth, store, revisions, past
<1> QED
  BY <1>2, <1>3, <1>4, <1>5 DEF Shape

\* A commit begins with an edited candidate.
LEMMA BeginStep ==
    ASSUME FilesInv, TypeOK', NEW conf \in Edited, CommitBegin(conf)
    PROVE  FilesTypeOK' /\ Shape'
<1>1. /\ cpc = "idle" /\ cpc' = "open1" /\ candidate' = conf /\ overlap' = (overlap \/ vpc \in Stages)
      /\ UNCHANGED <<active, told, tmp, boot, revisions, session, past>>
  BY DEF CommitBegin, Overlaps
<1>2. FilesTypeOK'
  BY <1>1, LinesAssumption DEF FilesInv, FilesTypeOK, revisions, session, past, Stages
<1>3. Control' /\ OwnFiles'
  BY <1>1 DEF FilesInv, FilesTypeOK, Control, OwnFiles, Saving, Stages, session
<1>4. Vacated' /\ Kept'
  BY <1>1 DEF FilesInv, Vacated, Kept, KeptAt, revisions, past
<1>5. Loaded'
  BY <1>1 DEF FilesInv, FilesTypeOK, Control, Loaded, Zeroth, Saving, revisions, past
<1> QED
  BY <1>2, <1>3, <1>4, <1>5 DEF Shape

\* The files are written; alone, they are the two configurations.
LEMMA CompareKeeps ==
    ASSUME FilesInv, TypeOK', CommitCompare
    PROVE  FilesTypeOK' /\ Shape'
<1>1. /\ CompareStep(cpc, cpc', "compare") /\ overlap' = (overlap \/ vpc \in Stages)
      /\ UNCHANGED <<store, boot, revisions, session, past>>
  BY DEF CommitCompare, Overlaps
<1>2. /\ cpc \in Stages /\ cpc' \in Stages
      /\ tmp' \in [1 .. 2 -> [form : Forms, lines : Files]]
  BY <1>1, CompareTypes DEF FilesInv, Forms
<1>3. FilesTypeOK'
  BY <1>1, <1>2 DEF FilesInv, FilesTypeOK, store, revisions, session, past
<1>4. Control'
  BY <1>1, <1>2 DEF FilesInv, Control, Saving, Stages
<1>5. OwnFiles'
  <2> SUFFICES ASSUME overlap' = FALSE
               PROVE  OwnFiles'
    BY DEF OwnFiles
  <2>1. overlap = FALSE /\ vpc = "none" /\ vpc' = "none" /\ told = active /\ told' = active'
    BY <1>1, <1>2 DEF FilesInv, FilesTypeOK, OwnFiles, Stages, session, store
  <2>2. {} # NoFile /\ tmp \in [1 .. 2 -> [form : Forms, lines : Files]]
    BY MarksAssumption DEF FilesInv, FilesTypeOK
  <2>3. CASE cpc = "open1"
    BY SMT, <1>1, <2>1, <2>2, <2>3 DEF OwnFiles, CompareStep, Truncate, Stages
  <2>4. CASE cpc = "open2"
    <3>1. tmp[1] = [form |-> "compare", lines |-> {}]
      BY <2>1, <2>4 DEF FilesInv, OwnFiles
    <3>2. tmp'[1] = [form |-> "compare", lines |-> active] /\ tmp'[2] = [form |-> "compare", lines |-> {}]
      BY SMT, <1>1, <2>2, <2>4, <3>1 DEF CompareStep, Truncate, Write
    <3> QED
      BY <1>1, <2>1, <2>4, <3>2 DEF OwnFiles, CompareStep, Stages, store
  <2>5. CASE cpc = "close2"
    <3>1. tmp[1] = [form |-> "compare", lines |-> active] /\ tmp[2] = [form |-> "compare", lines |-> {}]
      BY <2>1, <2>5 DEF FilesInv, OwnFiles
    <3>2. tmp'[1] = tmp[1] /\ tmp'[2] = [form |-> "compare", lines |-> candidate]
      BY SMT, <1>1, <2>2, <2>5, <3>1 DEF CompareStep, Write
    <3> QED
      BY <1>1, <2>1, <2>5, <3>1, <3>2 DEF OwnFiles, CompareStep, Stages, store
  <2> QED
    BY <1>1, <2>3, <2>4, <2>5 DEF CompareStep
<1>6. Vacated' /\ Kept'
  BY <1>1, <1>2 DEF FilesInv, Vacated, Kept, KeptAt, Stages, revisions, past
<1>7. Loaded'
  BY <1>1, <1>2 DEF FilesInv, FilesTypeOK, Loaded, Zeroth, Saving, Stages, store, revisions, past
<1> QED
  BY <1>3, <1>4, <1>5, <1>6, <1>7 DEF Shape

\* The difference, if the files are this commit's, takes the modules from the
\* active configuration to the candidate.
LEMMA RegisterStep ==
    ASSUME FilesInv, TypeOK', NEW targets, CommitRegister(targets)
    PROVE  FilesTypeOK' /\ Shape'
<1>1. /\ cpc = "diff" /\ tmp' = NoTmp /\ overlap' = (overlap \/ vpc \in Stages)
      /\ UNCHANGED <<active, candidate, revisions, session, past>>
      /\ \/ Diff.set \cup Diff.delete = {} /\ cpc' = "idle" /\ boot' = FALSE /\ told' = told
         \/ cpc' = "api" /\ told' = Told(Diff) /\ boot' = boot
  BY DEF CommitRegister, Overlaps
<1>2. FilesTypeOK'
  <2>1. /\ tmp \in [1 .. 2 -> [form : Forms, lines : Files]]
        /\ told \in (SUBSET Lines) \cup {Garbled}
    BY DEF FilesInv, FilesTypeOK
  <2>2. Diff.set \subseteq Lines
    <3>1. tmp[2].lines \in SUBSET Lines \/ tmp[2].lines = NoFile
      BY SMT, <2>1 DEF Files
    <3> QED
      BY <3>1 DEF Diff
  <2>3. told' \in (SUBSET Lines) \cup {Garbled}
    BY <1>1, <2>1, <2>2 DEF Told
  <2>4. tmp' \in [1 .. 2 -> [form : Forms, lines : Files]]
    BY <1>1 DEF NoTmp, Forms, Files
  <2>5. cpc' \in {"idle", "api"} /\ boot' \in BOOLEAN
    BY <1>1 DEF FilesInv, FilesTypeOK
  <2>6. overlap' \in BOOLEAN
    BY <1>1
  <2> QED
    BY <1>1, <2>3, <2>4, <2>5, <2>6 DEF FilesInv, FilesTypeOK, revisions, session, past
<1>3. ASSUME overlap' = FALSE
      PROVE  /\ overlap = FALSE /\ vpc = "none" /\ told = active
             /\ Diff.set \cup Diff.delete = {} => candidate = active
             /\ Told(Diff) = candidate
  <2>1. overlap = FALSE
    BY <1>1, <1>3 DEF FilesInv, FilesTypeOK
  <2>2. /\ vpc = "none" /\ told = active
        /\ tmp[1] = [form |-> "compare", lines |-> active] /\ tmp[2] = [form |-> "compare", lines |-> candidate]
    BY <1>1, <2>1 DEF FilesInv, OwnFiles, Stages
  <2>3. active \in SUBSET Lines /\ candidate \in SUBSET Lines
    BY DEF FilesInv, FilesTypeOK
  <2>4. active # NoFile /\ candidate # NoFile /\ active # Garbled
    BY <2>3, MarksAssumption
  <2>5. Diff.set = candidate \ active /\ Diff.delete = active \ candidate /\ Diff.commands
    <3>1. /\ tmp[1].lines = active /\ tmp[1].form = "compare"
          /\ tmp[2].lines = candidate /\ tmp[2].form = "compare"
      BY SMT, <2>2
    <3> QED
      BY <2>4, <3>1 DEF Diff
  <2>6. Told(Diff) = (active \ (active \ candidate)) \cup (candidate \ active)
    BY <2>2, <2>4, <2>5 DEF Told
  <2> QED
    BY <2>1, <2>2, <2>5, <2>6
<1>4. Control'
  BY <1>1 DEF Control, Saving
<1>5. OwnFiles'
  BY <1>1, <1>3 DEF OwnFiles, Stages
<1>6. Vacated' /\ Kept'
  BY <1>1 DEF FilesInv, Vacated, Kept, KeptAt, revisions, past
<1>7. Loaded'
  BY <1>1, <1>3 DEF FilesInv, FilesTypeOK, Loaded, Zeroth, Saving, revisions, past
<1> QED
  BY <1>2, <1>4, <1>5, <1>6, <1>7 DEF Shape

\* The modules are done one by one; after the last the candidate is active.
LEMMA SyncStep ==
    ASSUME FilesInv, TypeOK', CommitSync
    PROVE  FilesTypeOK' /\ Shape'
<1>1. /\ cpc = "api"
      /\ UNCHANGED <<candidate, told, tmp, boot, rev, zero, sameDir, session, overlap, done, gap>>
  BY DEF CommitSync
<1>2. CASE active' = candidate /\ cpc' = "rename" /\ rename' = RevisionMax - 1 /\ age' = age + 1
  <2>1. FilesTypeOK'
    BY SMT, <1>1, <1>2, RevisionAssumption DEF FilesInv, FilesTypeOK, Revisions, session
  <2>2. Control' /\ OwnFiles' /\ Vacated'
    BY SMT, <1>1, <1>2, RevisionAssumption DEF FilesInv, Control, OwnFiles, Vacated, Stages
  <2>3. Kept'
    <3> SUFFICES ASSUME sameDir', done' # NoFile, age' < RevisionMax
                 PROVE  \E r \in 0 .. age' : KeptAt(r)'
      BY DEF Kept
    <3>1. age \in Nat /\ age < RevisionMax
      BY SMT, <1>2, RevisionAssumption DEF FilesInv, FilesTypeOK
    <3>2. PICK r \in 0 .. age : KeptAt(r)
      BY <1>1, <3>1 DEF FilesInv, Kept
    <3>3. r \in 0 .. age' /\ r < age'
      BY SMT, <1>2, <3>1
    <3>4. KeptAt(r)'
      BY <1>1, <1>2, <3>2, <3>3 DEF KeptAt
    <3> QED
      BY <3>3, <3>4
  <2>4. Loaded'
    BY <1>1, <1>2 DEF FilesInv, Loaded, Saving
  <2> QED
    BY <2>1, <2>2, <2>3, <2>4 DEF Shape
<1>3. CASE UNCHANGED <<active, cpc, rename, age>>
  BY SMT, <1>1, <1>3 DEF FilesInv, FilesTypeOK, Shape, Control, OwnFiles, Vacated, Kept, KeptAt, Loaded, Zeroth, session
<1> QED
  BY <1>2, <1>3 DEF CommitSync

\* A rename moves a revision to a place that is free, or drops the oldest.
LEMMA RenameStep ==
    ASSUME FilesInv, TypeOK', RevisionIncrement
    PROVE  FilesTypeOK' /\ Shape'
<1>1. /\ cpc = "rename" /\ rev' = Renamed(rename) /\ rename' = rename - 1
      /\ cpc' = IF rename' = 0 THEN "open" ELSE "rename"
      /\ UNCHANGED <<store, tmp, boot, zero, sameDir, session, overlap, past>>
  BY DEF RevisionIncrement
<1>2. rename \in 1 .. RevisionMax - 1 /\ rename - 1 \in Revisions /\ rev \in [Revisions -> Files]
  BY SMT, <1>1, RevisionAssumption DEF FilesInv, FilesTypeOK, Vacated, Revisions
<1>3. /\ rev' \in [Revisions -> Files]
      /\ rev'[rename - 1] = NoFile
      /\ rev[rename - 1] # NoFile => rev'[rename] = rev[rename - 1]
      /\ \A r \in Revisions : r \notin {rename, rename - 1} => rev'[r] = rev[r]
  BY SMT, <1>1, <1>2, RevisionAssumption DEF Renamed, Files, Revisions
<1>4. FilesTypeOK'
  BY <1>1, <1>2, <1>3 DEF FilesInv, FilesTypeOK, store, session, past
<1>5. Control' /\ OwnFiles'
  BY <1>1 DEF FilesInv, Control, OwnFiles, Saving, Stages, store, session
<1>6. Vacated'
  BY <1>1, <1>2, <1>3 DEF Vacated, Revisions
<1>7. Kept'
  <2> SUFFICES ASSUME sameDir', done' # NoFile, age' < RevisionMax
               PROVE  \E r \in 0 .. age' : KeptAt(r)'
    BY DEF Kept
  <2>1. UNCHANGED <<sameDir, done, age>> /\ age \in Nat
    BY <1>1 DEF past, FilesInv, FilesTypeOK
  <2>2. PICK r \in 0 .. age : KeptAt(r)
    BY <2>1 DEF FilesInv, Kept
  <2>3. rev[r] = done /\ (r <= rename => r < age)
    BY <1>1, <2>2 DEF KeptAt
  <2>4. r \in Revisions /\ age < RevisionMax
    BY SMT, <2>1, RevisionAssumption DEF Revisions
  <2>5. r # rename
    <3>1. rename < RevisionMax - 1 => rev[rename] = NoFile
      BY <1>1 DEF FilesInv, Vacated
    <3>2. r = rename => rename < RevisionMax - 1
      BY SMT, <1>2, <2>1, <2>3, <2>4, RevisionAssumption
    <3> QED
      BY <2>1, <2>3, <3>1, <3>2
  <2>6. CASE r = rename - 1
    <3>1. r + 1 \in 0 .. age' /\ rev'[r + 1] = done'
      BY SMT, <1>2, <1>3, <2>1, <2>3, <2>6
    <3>2. KeptAt(r + 1)'
      BY SMT, <1>1, <1>2, <2>6, <3>1 DEF KeptAt
    <3> QED
      BY <3>1, <3>2
  <2>7. CASE r # rename - 1
    <3>1. rev'[r] = done'
      BY <1>3, <2>1, <2>3, <2>4, <2>5, <2>7
    <3>2. KeptAt(r)'
      BY SMT, <1>1, <1>2, <2>1, <2>3, <2>7, <3>1 DEF KeptAt
    <3> QED
      BY <2>1, <2>2, <3>2
  <2> QED
    BY <2>6, <2>7
<1>8. Loaded'
  BY <1>1 DEF FilesInv, Loaded, Saving, store, past
<1> QED
  BY <1>4, <1>5, <1>6, <1>7, <1>8 DEF Shape

\* The new revision 0 is opened where there is no file.
LEMMA OpenStep ==
    ASSUME FilesInv, TypeOK', WriteOpen
    PROVE  FilesTypeOK' /\ Shape'
<1>1. /\ cpc = "open" /\ cpc' = "close" /\ SaveZero({})
      /\ UNCHANGED <<store, tmp, boot, rename, sameDir, session, overlap, past>>
  BY DEF WriteOpen
<1>2. rev' \in [Revisions -> Files] /\ zero' \in Files
  BY <1>1, SaveTypes DEF FilesInv
<1>3. FilesTypeOK'
  BY <1>1, <1>2 DEF FilesInv, FilesTypeOK, store, session, past
<1>4. Control' /\ OwnFiles' /\ Vacated'
  BY <1>1 DEF FilesInv, Control, OwnFiles, Vacated, Saving, Stages, store, session
<1>5. Kept'
  <2> SUFFICES ASSUME sameDir', done' # NoFile, age' < RevisionMax
               PROVE  \E r \in 0 .. age' : KeptAt(r)'
    BY DEF Kept
  <2>1. UNCHANGED <<sameDir, done, age>>
    BY <1>1 DEF past
  <2>2. PICK r \in 0 .. age : KeptAt(r)
    BY <2>1 DEF FilesInv, Kept
  <2>3. rev[r] = done /\ rev[0] = NoFile
    BY <1>1, <2>2 DEF KeptAt, FilesInv, Vacated
  <2>4. r # 0 /\ rev' = [rev EXCEPT ![0] = {}]
    BY SMT, <1>1, <2>1, <2>3 DEF SaveZero
  <2>5. rev'[r] = rev[r]
    BY SMT, <2>4 DEF FilesInv, FilesTypeOK
  <2>6. KeptAt(r)'
    BY <1>1, <2>1, <2>3, <2>4, <2>5 DEF KeptAt
  <2> QED
    BY <2>1, <2>2, <2>6
<1>6. Loaded'
  BY <1>1 DEF FilesInv, Loaded, Saving, store, past
<1> QED
  BY <1>3, <1>4, <1>5, <1>6 DEF Shape

\* At its end the commit is in revision 0.
LEMMA CloseStep ==
    ASSUME FilesInv, TypeOK', WriteClose
    PROVE  FilesTypeOK' /\ Shape'
<1>1. /\ cpc = "close" /\ cpc' = "idle" /\ boot' = FALSE /\ SaveZero(active)
      /\ UNCHANGED <<store, tmp, rename, sameDir, session, overlap>>
  BY DEF WriteClose
<1>2. /\ active = candidate /\ active \in SUBSET Lines /\ active # NoFile
      /\ sameDir \in BOOLEAN /\ rev \in [Revisions -> Files] /\ 0 \in Revisions /\ age \in Nat
  <2>1. active = candidate
    BY <1>1 DEF FilesInv, Control, Saving
  <2>2. active \in SUBSET Lines /\ rev \in [Revisions -> Files] /\ age \in Nat
    BY DEF FilesInv, FilesTypeOK
  <2>3. sameDir \in BOOLEAN
    BY DEF FilesInv, FilesTypeOK
  <2>4. active # NoFile
    BY <2>2, MarksAssumption
  <2>5. 0 \in Revisions
    BY SMT, RevisionAssumption DEF Revisions
  <2> QED
    BY <2>1, <2>2, <2>3, <2>4, <2>5
<1>3. rev' \in [Revisions -> Files] /\ zero' \in Files
  BY <1>1, <1>2, SaveTypes DEF FilesInv
<1>4. /\ Zeroth' = active
      /\ sameDir => rev' = [rev EXCEPT ![0] = active]
  BY <1>1, <1>2 DEF SaveZero, Zeroth
<1>5. Control' /\ OwnFiles' /\ Vacated'
  BY <1>1 DEF FilesInv, Control, OwnFiles, Vacated, Saving, Stages, store, session
<1>6. CASE boot /\ done # NoFile
  <2>1. age' = (IF active = done THEN 0 ELSE age) /\ UNCHANGED <<done, gap>>
    BY <1>6 DEF WriteClose
  <2>2. FilesTypeOK'
    BY <1>1, <1>2, <1>3, <2>1 DEF FilesInv, FilesTypeOK, store, session
  <2>3. Kept'
    <3> SUFFICES ASSUME sameDir', done' # NoFile, age' < RevisionMax
                 PROVE  \E r \in 0 .. age' : KeptAt(r)'
      BY DEF Kept
    <3>1. CASE active = done
      <4>1. rev'[0] = done' /\ age' = 0
        BY <1>1, <1>2, <1>4, <2>1, <3>1
      <4>2. KeptAt(0)'
        BY <1>1, <4>1 DEF KeptAt
      <4> QED
        BY SMT, <4>1, <4>2
    <3>2. CASE active # done
      <4>1. age' = age /\ done' = done /\ sameDir
        BY <1>1, <2>1, <3>2
      <4>2. PICK r \in 0 .. age : KeptAt(r)
        BY <4>1 DEF FilesInv, Kept
      <4>3. rev'[r] = done'
        <5>1. r # 0 /\ rev[r] = done
          BY <1>1, <4>2 DEF KeptAt
        <5>2. rev' = [rev EXCEPT ![0] = active]
          BY <1>4, <4>1
        <5>3. rev'[r] = rev[r]
          BY SMT, <1>2, <5>1, <5>2
        <5> QED
          BY <4>1, <5>1, <5>3
      <4>4. KeptAt(r)'
        BY <1>1, <4>3 DEF KeptAt
      <4> QED
        BY <4>1, <4>2, <4>4
    <3> QED
      BY <3>1, <3>2
  <2>4. Loaded'
    <3> SUFFICES ASSUME gap = FALSE
                 PROVE  active = done
      BY <1>1, <1>4, <2>1 DEF Loaded, store
    <3> QED
      BY <1>1, <1>2, <1>6 DEF FilesInv, FilesTypeOK, Loaded
  <2> QED
    BY <1>5, <2>2, <2>3, <2>4 DEF Shape
<1>7. CASE ~(boot /\ done # NoFile)
  <2>1. done' = active /\ age' = 0 /\ gap' = FALSE
    BY <1>7 DEF WriteClose
  <2>2. FilesTypeOK'
    BY <1>1, <1>2, <1>3, <2>1 DEF FilesInv, FilesTypeOK, Files, store, session
  <2>3. Kept'
    <3> SUFFICES ASSUME sameDir'
                 PROVE  0 \in 0 .. age' /\ KeptAt(0)'
      BY DEF Kept
    <3> QED
      BY SMT, <1>1, <1>2, <1>4, <2>1 DEF KeptAt
  <2>4. Loaded'
    BY <1>1, <1>4, <2>1 DEF Loaded, store
  <2> QED
    BY <1>5, <2>2, <2>3, <2>4 DEF Shape
<1> QED
  BY <1>6, <1>7

\* A crash leaves the files as they are, but for the one that is being closed.
LEMMA CrashStep ==
    ASSUME FilesInv, Crash
    PROVE  FilesInv'
<1>1. /\ cpc' = "down" /\ boot' = TRUE /\ active' = {} /\ candidate' = {} /\ told' = {}
      /\ vpc' = "none" /\ form' = "show" /\ overlap' = FALSE
      /\ gap' = (gap \/ cpc \in Saving)
      /\ UNCHANGED <<tmp, rename, sameDir, done, age>>
  BY DEF Crash, Saving
<1>2. /\ mpc' = "idle" /\ todo' = {} /\ ch' = "nil" /\ commits' = 0 /\ cur' = cur
      /\ h' = [s \in Subs |-> "recv"] /\ owed' = [s \in Subs |-> 0]
      /\ panicked' = FALSE /\ timedOut' = FALSE
  BY DEF Crash
<1>3. InStep'
  BY <1>2 DEF InStep, AtRest
<1>4. TypeOK'
  <2>1. cur \in Subs
    BY DEF FilesInv, FilesTypeOK, TypeOK
  <2>2. panicked' \in BOOLEAN /\ timedOut' \in BOOLEAN
    BY <1>2
  <2> QED
    BY SMT, <1>2, <2>1, <2>2, CommitsAssumption DEF TypeOK
<1>5. \/ UNCHANGED <<rev, zero>> /\ cpc # "close"
      \/ cpc = "close" /\ \E part \in SUBSET active : SaveZero(part)
  BY DEF Crash
<1>6. rev' \in [Revisions -> Files] /\ zero' \in Files
  <2>1. CASE UNCHANGED <<rev, zero>>
    BY <2>1 DEF FilesInv, FilesTypeOK
  <2>2. ASSUME NEW part \in SUBSET active, SaveZero(part)
        PROVE  rev' \in [Revisions -> Files] /\ zero' \in Files
    BY <2>2, SaveTypes DEF FilesInv, FilesTypeOK
  <2> QED
    BY <1>5, <2>1, <2>2
<1>7. FilesTypeOK'
  BY <1>1, <1>4, <1>6 DEF FilesInv, FilesTypeOK, Stages, Forms
<1>8. Control' /\ OwnFiles' /\ Vacated'
  BY <1>1 DEF Control, OwnFiles, Vacated, Saving, Stages
<1>9. Kept'
  <2> SUFFICES ASSUME sameDir', done' # NoFile, age' < RevisionMax
               PROVE  \E r \in 0 .. age' : KeptAt(r)'
    BY DEF Kept
  <2>1. PICK r \in 0 .. age : KeptAt(r)
    BY <1>1 DEF FilesInv, Kept
  <2>2. rev'[r] = rev[r]
    <3>1. CASE UNCHANGED <<rev, zero>>
      BY <3>1
    <3>2. ASSUME cpc = "close", NEW part \in SUBSET active, SaveZero(part)
          PROVE  rev'[r] = rev[r]
      <4>1. r # 0 /\ rev' = [rev EXCEPT ![0] = part]
        BY <1>1, <2>1, <3>2 DEF KeptAt, SaveZero
      <4> QED
        BY SMT, <4>1 DEF FilesInv, FilesTypeOK
    <3> QED
      BY <1>5, <3>1, <3>2
  <2>3. KeptAt(r)'
    BY <1>1, <2>1, <2>2 DEF KeptAt
  <2> QED
    BY <1>1, <2>1, <2>3
<1>10. Loaded'
  <2> SUFFICES ASSUME done # NoFile, gap' = FALSE
               PROVE  Zeroth' = done
    BY <1>1 DEF Loaded
  <2>1. gap = FALSE /\ cpc \notin Saving
    BY <1>1 DEF FilesInv, FilesTypeOK
  <2> QED
    BY <1>1, <1>5, <2>1 DEF FilesInv, Loaded, Zeroth, Saving
<1> QED
  BY <1>3, <1>7, <1>8, <1>9, <1>10 DEF FilesInv

\* A start loads revision 0.
LEMMA StartStep ==
    ASSUME FilesInv, TypeOK', Start
    PROVE  FilesTypeOK' /\ Shape'
<1>1. /\ cpc = "down" /\ candidate' = (IF Zeroth = NoFile THEN Plain ELSE Zeroth)
      /\ cpc' = (IF candidate' = {} THEN "idle" ELSE "open1") /\ boot' = (candidate' # {})
      /\ UNCHANGED <<active, told, tmp, revisions, session, overlap, past>>
  BY DEF Start, Zeroth
<1>2. active = {} /\ told = {} /\ vpc = "none"
  BY <1>1 DEF FilesInv, Control
<1>3. candidate' \in SUBSET Lines
  <2>1. Zeroth \in Files
    BY SMT, RevisionAssumption DEF FilesInv, FilesTypeOK, Zeroth, Revisions
  <2> QED
    BY <1>1, <2>1, LinesAssumption DEF Files
<1>4. FilesTypeOK'
  BY <1>1, <1>3 DEF FilesInv, FilesTypeOK, Stages, revisions, session, past
<1>5. Control'
  BY <1>1, <1>2 DEF Control, Saving
<1>6. OwnFiles' /\ Vacated'
  BY <1>1, <1>2 DEF OwnFiles, Vacated, Stages, session
<1>7. Kept'
  BY <1>1 DEF FilesInv, Kept, KeptAt, revisions, past
<1>8. Loaded'
  <2> SUFFICES ASSUME done # NoFile, gap = FALSE
               PROVE  /\ Zeroth' = done
                      /\ boot' = TRUE => candidate' = done
                      /\ boot' = FALSE => active' = done
    BY <1>1 DEF Loaded, past
  <2>1. Zeroth = done /\ Zeroth' = done /\ candidate' = done
    BY SMT, <1>1 DEF FilesInv, Loaded, Zeroth, Saving, revisions
  <2> QED
    BY <1>1, <1>2, <2>1
<1> QED
  BY <1>4, <1>5, <1>6, <1>7, <1>8 DEF Shape

\* Modules and stuttering touch nothing else.
LEMMA OtherStep ==
    ASSUME FilesInv, TypeOK', UNCHANGED fileVars
    PROVE  FilesTypeOK' /\ Shape'
<1>1. UNCHANGED <<active, candidate, told, tmp, cpc, boot, rev, rename, zero, sameDir, vpc, form, overlap,
                  done, age, gap>>
  BY DEF fileVars, store, revisions, session, past
<1>2. FilesTypeOK'
  BY <1>1 DEF FilesInv, FilesTypeOK
<1>3. Control' /\ OwnFiles' /\ Vacated'
  BY <1>1 DEF FilesInv, Control, OwnFiles, Vacated
<1>4. Kept' /\ Loaded'
  BY <1>1 DEF FilesInv, Kept, KeptAt, Loaded, Zeroth
<1> QED
  BY <1>2, <1>3, <1>4 DEF Shape

\* What every step is for ApiSync
LEMMA ApiPart ==
    ASSUME FilesInv, [FilesNext]_allVars, ~Crash
    PROVE  IInv'
<1>1. IInv
  BY DEF FilesInv, FilesTypeOK, IInv
<1>2. ASSUME NEW targets \in Concerned, CommitRegister(targets)
      PROVE  Begin(targets) \/ UNCHANGED vars
  BY <1>2 DEF CommitRegister
<1>3. \/ \E targets \in SUBSET Subs : Begin(targets)
      \/ Committer
      \/ \E s \in Subs : Finished(s) \/ CloseCh(s)
      \/ UNCHANGED vars
  BY <1>2, ConcernedAssumption
     DEF FilesNext, allVars, CommitterSteps, CommitBegin, CommitCompare, CommitSync, RevisionIncrement,
         WriteOpen, WriteClose, Start, View, ViewStep
<1> QED
  BY <1>1, <1>3, ApiStep

\* Every step keeps the invariant.
LEMMA FilesStep ==
    ASSUME FilesInv, [FilesNext]_allVars
    PROVE  FilesInv'
<1>1. CASE Crash
  BY <1>1, CrashStep
<1>2. CASE ~Crash
  <2>1. TypeOK' /\ InStep'
    BY <1>2, ApiPart DEF IInv
  <2>2. FilesTypeOK' /\ Shape'
    BY <1>2, <2>1, SessionStep, BeginStep, CompareKeeps, RegisterStep, SyncStep, RenameStep, OpenStep, CloseStep,
       StartStep, OtherStep DEF FilesNext, CommitterSteps, allVars
  <2> QED
    BY <2>1, <2>2 DEF FilesInv, Shape
<1> QED
  BY <1>1, <1>2

\* It holds before the first start.
LEMMA FilesStart ==
    ASSUME FilesInit
    PROVE  FilesInv
<1>1. TypeOK /\ InStep
  BY ApiStart DEF FilesInit, IInv
<1>2. /\ active = {} /\ candidate = {} /\ told = {} /\ tmp = NoTmp /\ cpc = "down" /\ rename = 0
      /\ rev = [r \in Revisions |-> NoFile] /\ zero = NoFile /\ vpc = "none" /\ form = "show"
      /\ done = NoFile /\ age = 0
  BY DEF FilesInit
<1>3. boot = TRUE /\ sameDir \in BOOLEAN /\ overlap = FALSE /\ gap = FALSE
  BY DEF FilesInit
<1>4. FilesTypeOK
  <2>1. /\ tmp \in [1 .. 2 -> [form : Forms, lines : Files]] /\ form \in Forms
        /\ rev \in [Revisions -> Files] /\ zero \in Files /\ done \in Files
    BY <1>2 DEF NoTmp, Files, Forms
  <2>2. rename \in Revisions /\ age \in Nat
    BY SMT, <1>2, RevisionAssumption DEF Revisions
  <2>3. {boot, sameDir, overlap, gap} \subseteq BOOLEAN
    BY <1>3
  <2> QED
    BY <1>1, <1>2, <2>1, <2>2, <2>3 DEF FilesTypeOK
<1>5. Control
  BY <1>2, <1>3 DEF Control, Saving
<1>6. OwnFiles /\ Vacated
  BY <1>2 DEF OwnFiles, Vacated, Stages
<1>7. Kept /\ Loaded
  BY <1>2 DEF Kept, Loaded
<1> QED
  BY <1>1, <1>4, <1>5, <1>6, <1>7 DEF FilesInv

\* It holds of every reachable state.
LEMMA FilesInvariance == FilesSpec => []FilesInv
BY FilesStart, FilesStep, PTL DEF FilesSpec

-----------------------------------------------------------------------------
(* The properties *)

\* The state of a commit, of its files and of its sessions keeps its type.
THEOREM FilesTypeCorrect == FilesSpec => []FilesTypeOK
<1>1. FilesInv => FilesTypeOK
  BY DEF FilesInv
<1> QED
  BY <1>1, FilesInvariance, PTL

\* In the course of commits, crashes and restarts, too, modules are configured
\* one after the other until a wait times out (Subscriber.Commit).
THEOREM FilesInTurn == FilesSpec => []OneAtATime
<1>1. FilesInv => OneAtATime
  BY DEF FilesInv, FilesTypeOK, TypeOK, InStep, AtRest, OneAtATime
<1> QED
  BY <1>1, FilesInvariance, PTL

\* And until then no handler brings the process down with ApiSyncCh (DoConfig).
THEOREM FilesNoPanicInTime == FilesSpec => []PanicNeedsTimeout
<1>1. FilesInv => PanicNeedsTimeout
  BY DEF FilesInv, FilesTypeOK, TypeOK, InStep, PanicNeedsTimeout
<1> QED
  BY <1>1, FilesInvariance, PTL

\* Between commits the modules have been told the active configuration, if no
\* show or compare had the two files of diff at the same time (CompareCommand).
THEOREM ModulesTold == FilesSpec => []ToldIsActive
<1>1. FilesInv => ToldIsActive
  BY DEF FilesInv, FilesTypeOK, OwnFiles, ToldIsActive
<1> QED
  BY <1>1, FilesInvariance, PTL

\* At every moment of a commit and whatever crashes there were, the last commit
\* is in a revision, as far back as commits have been begun since
\* (RollbackRevisionIncrement).
THEOREM RevisionsKept == FilesSpec => []RevisionKept
<1>1. FilesInv => RevisionKept
  BY DEF FilesInv, Kept, KeptAt, RevisionKept
<1> QED
  BY <1>1, FilesInvariance, PTL

\* After a start the last commit is active again, unless a crash fell between
\* its renaming and its writing (ConfigComponent.Start).
THEOREM RestartsKeep == FilesSpec => []RestartKeeps
<1>1. FilesInv => RestartKeeps
  BY DEF FilesInv, FilesTypeOK, Control, Loaded, Saving, RestartKeeps
<1> QED
  BY <1>1, FilesInvariance, PTL

=============================================================================
