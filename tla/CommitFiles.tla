---------------------------- MODULE CommitFiles ----------------------------
(***************************************************************************)
(* A commit step by step, with the files it uses: the two temporary files  *)
(* it has diff compare, and the revisions it renames and writes.  The wait *)
(* for the modules in between is ApiSync.                                  *)
(* config/subscribe.go, compare.go, rollback.go, config.go, load.go.       *)
(*                                                                         *)
(* The committer holds SubscribeMutex, so nobody edits or discards.  The   *)
(* CLI's show and compare do not take it and use the same two files.  The  *)
(* process may die at any step and is started again.                       *)
(*                                                                         *)
(* A configuration is the set of its lines.  A file is truncated when it   *)
(* is opened and has its lines when it is closed.  The commit is one       *)
(* without -2 and -z and passes the mandatory check: these are in          *)
(* ConfigCommit.                                                           *)
(***************************************************************************)
EXTENDS ApiSync

CONSTANTS
    Lines,         \* command lines
    Edited,        \* the configurations sessions make
    Concerned,     \* the sets of modules a commit has commands for
    Plain,         \* the configuration in the file without a revision
    RevisionMax,   \* ConfigRevisionMax
    MaxView,       \* bound: uses of show and compare, in behaviours without crashes
    MaxCrash,      \* bound: crashes, in behaviours without them
    NoFile,        \* a file that is not there
    Garbled        \* commands that are no commands

ASSUME LinesAssumption == Plain \subseteq Lines /\ Edited \subseteq SUBSET Lines
ASSUME MarksAssumption == \A S \in SUBSET Lines : S # NoFile /\ S # Garbled
ASSUME ConcernedAssumption == Concerned \subseteq SUBSET Subs
ASSUME RevisionAssumption == RevisionMax \in Nat \ {0, 1}

VARIABLES
    active, candidate,   \* configActive, configCandidate
    told,                \* what the modules have been told
    tmp,                 \* /tmp/config.1 and /tmp/config.2
    cpc,                 \* the committer
    boot,                \* it is ConfigComponent.Start
    rev, rename,         \* the files RollbackRevisionIncrement renames; its loop
    zero,                \* revision 0, if WriteTo puts it into another directory
    sameDir,             \* option -p names the directory that is renamed in
    vpc, form,           \* a CLI session: where it is, and its command
    views, crashes,
    \* Histories
    overlap,             \* show or compare had the files together with a commit
    done,                \* what the last commit that came to its end committed
    age,                 \* revisions begun since
    gap                  \* a crash fell between the renaming and the writing

store == <<active, candidate, told>>
revisions == <<rev, rename, zero, sameDir>>
session == <<vpc, form>>
counters == <<views, crashes>>
past == <<done, age, gap>>
fileVars == <<store, tmp, cpc, boot, revisions, session, counters, overlap, past>>
allVars == <<vars, fileVars>>

Revisions == 0 .. RevisionMax - 1
Files == (SUBSET Lines) \cup {NoFile}
Stages == {"open1", "open2", "close2", "diff"}
Forms == {"show", "compare"}

FilesTypeOK ==
    /\ TypeOK
    /\ active \subseteq Lines /\ candidate \subseteq Lines
    /\ told \in (SUBSET Lines) \cup {Garbled}
    /\ tmp \in [1 .. 2 -> [form : Forms, lines : Files]]
    /\ cpc \in Stages \cup {"idle", "api", "rename", "open", "close", "down"}
    /\ rev \in [Revisions -> Files] /\ zero \in Files /\ rename \in Revisions
    /\ vpc \in Stages \cup {"none"} /\ form \in Forms
    /\ {boot, sameDir, overlap, gap} \subseteq BOOLEAN
    /\ done \in Files /\ age \in Nat

NoTmp == [i \in 1 .. 2 |-> [form |-> "compare", lines |-> NoFile]]

FilesInit ==
    /\ Init
    /\ active = {} /\ candidate = {} /\ told = {}
    /\ tmp = NoTmp
    /\ cpc = "down" /\ boot = TRUE
    /\ rev = [r \in Revisions |-> NoFile] /\ zero = NoFile /\ rename = 0
    /\ sameDir \in BOOLEAN
    /\ vpc = "none" /\ form = "show"
    /\ views = 0 /\ crashes = 0
    /\ overlap = FALSE
    /\ done = NoFile /\ age = 0 /\ gap = FALSE

-----------------------------------------------------------------------------
(* Compare and CompareCommand *)

\* What is written to a file that has been removed since it was opened is gone.
Write(i, f, lines) ==
    IF tmp[i].lines = NoFile THEN tmp ELSE [tmp EXCEPT ![i] = [form |-> f, lines |-> lines]]

Truncate(t, i, f) == [t EXCEPT ![i] = [form |-> f, lines |-> {}]]

\* From stage at to stage then.  Both write the active configuration first
\* and the candidate second, Compare with braces, CompareCommand as commands.
CompareStep(at, then, f) ==
    \/ at = "open1" /\ then = "open2" /\ tmp' = Truncate(tmp, 1, f)
    \/ at = "open2" /\ then = "close2" /\ tmp' = Truncate(Write(1, f, active), 2, f)
    \/ at = "close2" /\ then = "diff" /\ tmp' = Write(2, f, candidate)

\* The lines that are gone are left out.
DiffAdded ==
    IF NoFile \in {tmp[1].lines, tmp[2].lines} THEN [set |-> {}, delete |-> {}, commands |-> TRUE]
    ELSE [set |-> tmp[2].lines \ tmp[1].lines, delete |-> {}, commands |-> TRUE]

\* diff says nothing on its output if a file is missing.  Lines with braces
\* are no commands.
Diff ==
    IF NoFile \in {tmp[1].lines, tmp[2].lines} THEN [set |-> {}, delete |-> {}, commands |-> TRUE]
    ELSE [set |-> tmp[2].lines \ tmp[1].lines, delete |-> tmp[1].lines \ tmp[2].lines,
          commands |-> tmp[1].form = "compare" /\ tmp[2].form = "compare"]

Told(d) == IF told = Garbled \/ ~d.commands THEN Garbled ELSE (told \ d.delete) \cup d.set

Overlaps(other) == overlap' = (overlap \/ other \in Stages)

\* configure# show, configure# compare
View ==
    /\ cpc # "down" /\ vpc = "none" /\ views < MaxView /\ crashes = 0
    /\ views' = views + 1
    /\ form' \in Forms
    /\ vpc' = "open1"
    /\ Overlaps(cpc)
    /\ UNCHANGED <<vars, store, tmp, cpc, boot, revisions, crashes, past>>

ViewStep ==
    /\ \/ CompareStep(vpc, vpc', form) /\ UNCHANGED form
       \/ vpc = "diff" /\ vpc' = "none" /\ tmp' = NoTmp /\ form' = "show"
    /\ Overlaps(cpc)
    /\ UNCHANGED <<vars, store, cpc, boot, revisions, counters, past>>

-----------------------------------------------------------------------------
(* Commit *)

\* Edits take SubscribeMutex too, so that those since the last commit, or
\* their discarding, come before this one.
CommitBegin(conf) ==
    /\ cpc = "idle" /\ commits < MaxCommit
    /\ candidate' = conf
    /\ cpc' = "open1"
    /\ Overlaps(vpc)
    /\ UNCHANGED <<vars, active, told, tmp, boot, revisions, session, counters, past>>

CommitCompare ==
    /\ CompareStep(cpc, cpc', "compare")
    /\ Overlaps(vpc)
    /\ UNCHANGED <<vars, store, boot, revisions, session, counters, past>>

\* Commands for no module, or for some, make an entry; without one Commit
\* returns.  The modules get theirs in the course of ApiSync.
CommitRegister(targets) ==
    /\ cpc = "diff"
    /\ tmp' = NoTmp
    /\ Overlaps(vpc)
    /\ IF Diff.set \cup Diff.delete = {}
       THEN /\ cpc' = "idle" /\ boot' = FALSE
            /\ UNCHANGED <<vars, told>>
       ELSE /\ cpc' = "api"
            /\ told' = Told(Diff)
            /\ Begin(targets)
            /\ UNCHANGED boot
    /\ UNCHANGED <<active, candidate, revisions, session, counters, past>>

\* sub.Commit() of every module, and then the candidate is the active one.
CommitSync ==
    /\ cpc = "api"
    /\ Committer
    /\ IF mpc' = "idle"
       THEN /\ active' = candidate
            /\ cpc' = "rename" /\ rename' = RevisionMax - 1
            /\ age' = age + 1
       ELSE UNCHANGED <<active, cpc, rename, age>>
    /\ UNCHANGED <<candidate, told, tmp, boot, rev, zero, sameDir, session, counters, overlap, done, gap>>

Renamed(r) ==
    IF rev[r - 1] = NoFile THEN rev ELSE [rev EXCEPT ![r] = rev[r - 1], ![r - 1] = NoFile]

\* From the newest to the oldest.
RevisionIncrementUp ==
    /\ cpc = "rename"
    /\ rev' = Renamed(RevisionMax - rename)
    /\ rename' = rename - 1
    /\ cpc' = IF rename' = 0 THEN "open" ELSE cpc
    /\ UNCHANGED <<vars, store, tmp, boot, zero, sameDir, session, counters, overlap, past>>

\* One of the renames of RollbackRevisionIncrement, whose errors are ignored.
RevisionIncrement ==
    /\ cpc = "rename"
    /\ rev' = Renamed(rename)
    /\ rename' = rename - 1
    /\ cpc' = IF rename' = 0 THEN "open" ELSE cpc
    /\ UNCHANGED <<vars, store, tmp, boot, zero, sameDir, session, counters, overlap, past>>

\* Revision 0 is that of the directory of -p, which is not ConfigDir unless
\* sameDir.
SaveZero(lines) ==
    IF sameDir THEN rev' = [rev EXCEPT ![0] = lines] /\ UNCHANGED zero
    ELSE zero' = lines /\ UNCHANGED rev

WriteOpen ==
    /\ cpc = "open"
    /\ SaveZero({})
    /\ cpc' = "close"
    /\ UNCHANGED <<vars, store, tmp, boot, rename, sameDir, session, counters, overlap, past>>

WriteClose ==
    /\ cpc = "close"
    /\ SaveZero(active)
    /\ cpc' = "idle" /\ boot' = FALSE
    /\ IF boot /\ done # NoFile
       THEN age' = (IF active = done THEN 0 ELSE age) /\ UNCHANGED <<done, gap>>
       ELSE done' = active /\ age' = 0 /\ gap' = FALSE
    /\ UNCHANGED <<vars, store, tmp, rename, sameDir, session, counters, overlap>>

-----------------------------------------------------------------------------
(* Crash and start *)

\* MaxCommit bounds the commits of a process, from one crash to the next.
\* At the close some of the lines may have been flushed.  A panic is a crash.
Crash ==
    /\ cpc # "down" /\ crashes < MaxCrash /\ views = 0
    /\ crashes' = crashes + 1
    /\ cpc' = "down" /\ boot' = TRUE
    /\ IF cpc = "close" THEN \E part \in SUBSET active : SaveZero(part) ELSE UNCHANGED <<rev, zero>>
    /\ gap' = (gap \/ cpc \in {"rename", "open", "close"})
    /\ active' = {} /\ candidate' = {} /\ told' = {}
    /\ mpc' = "idle" /\ todo' = {} /\ ch' = "nil"
    /\ h' = [s \in Subs |-> "recv"] /\ owed' = [s \in Subs |-> 0]
    /\ panicked' = FALSE /\ timedOut' = FALSE
    /\ vpc' = "none" /\ form' = "show" /\ overlap' = FALSE
    /\ commits' = 0
    /\ UNCHANGED <<cur, tmp, rename, sameDir, views, done, age>>

\* The plain file is preferred.
StartPlain ==
    /\ cpc = "down"
    /\ candidate' = Plain
    /\ cpc' = IF candidate' = {} THEN "idle" ELSE "open1"
    /\ boot' = (candidate' # {})
    /\ UNCHANGED <<vars, active, told, tmp, revisions, session, counters, overlap, past>>

\* Revision 0 or, if there is none, the plain file; and a commit, unless
\* there is nothing to commit.
Start ==
    /\ cpc = "down"
    /\ LET zeroth == IF sameDir THEN rev[0] ELSE zero
       IN  candidate' = IF zeroth = NoFile THEN Plain ELSE zeroth
    /\ cpc' = IF candidate' = {} THEN "idle" ELSE "open1"
    /\ boot' = (candidate' # {})
    /\ UNCHANGED <<vars, active, told, tmp, revisions, session, counters, overlap, past>>

-----------------------------------------------------------------------------

CommitterSteps ==
    \/ CommitCompare \/ CommitSync \/ RevisionIncrement \/ WriteOpen \/ WriteClose
    \/ \E targets \in Concerned : CommitRegister(targets)

FilesNext ==
    \/ /\ ~panicked
       /\ \/ \E conf \in Edited : CommitBegin(conf)
          \/ Start \/ CommitterSteps
          \/ View \/ ViewStep
          \/ (\E s \in Subs : Finished(s) \/ CloseCh(s)) /\ UNCHANGED fileVars
    \/ Crash

FilesSpec == FilesInit /\ [][FilesNext]_allVars

\* A commit goes on and its timer fires; no module has to finish.
FilesFairSpec == FilesSpec /\ WF_allVars(~panicked /\ CommitterSteps)

-----------------------------------------------------------------------------
(* Properties *)

\* Between commits the modules have been told exactly the active
\* configuration, crashes and restarts included: the two files diff compares
\* are those of this commit (CompareCommand), unless show or compare used them
\* at the same time.
ToldIsActive == cpc = "idle" /\ ~overlap => told = active

\* What was last committed to the end is still in a revision, at most as far
\* back as revisions have been begun since, at every moment of a commit and
\* whatever crashes there were (RollbackRevisionIncrement, WriteTo); if the
\* files are in the directory that is renamed in.
RevisionKept == sameDir /\ done # NoFile /\ age < RevisionMax => \E r \in 0 .. age : rev[r] = done

\* The daemon comes up with what was last committed to the end, and a commit
\* that a crash has cut short leaves no trace (ConfigComponent.Start), unless
\* the crash fell between the first rename and the last write, or show or
\* compare disturbed the start.
RestartKeeps == cpc = "idle" /\ done # NoFile /\ ~gap /\ ~overlap => active = done

\* A commit always returns and gives SubscribeMutex back, although no module
\* may ever finish (Subscriber.Commit) and show and compare take its files
\* away, unless the process dies.
CommitReturns == cpc \notin {"idle", "down"} ~> (cpc \in {"idle", "down"} \/ panicked)

=============================================================================
