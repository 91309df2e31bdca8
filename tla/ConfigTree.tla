----------------------------- MODULE ConfigTree -----------------------------
(***************************************************************************)
(* The active and the candidate configuration as trees of Config nodes:    *)
(* setting and deleting a command, Copy, the list of commands, the file    *)
(* that is written and loaded again.  config/config.go, yang.go, load.go.  *)
(*                                                                         *)
(* A node is the sequence of names from the root, a tree a function on its *)
(* nodes.  Siblings have different names and are always sorted, so that a  *)
(* tree needs no order of its own.  Names are matched in full: words that  *)
(* are abbreviated, ambiguous or of the wrong type never get here, since   *)
(* `set' is parsed once without effect first (YParseSet).                  *)
(***************************************************************************)
EXTENDS Integers, Sequences, TLC
LOCAL INSTANCE SequencesExt

CONSTANTS
    Kind,        \* the schema with its lists filled in: the kind of each node
    CaseOf,      \* the case a node is in, or NoCase
    NoCase,
    Values,      \* what a command that ends at a node may say there
    Required,    \* nodes without which the one above is incomplete
    ReadOnly,    \* nodes that `delete' refuses
    Pushed,      \* nodes that modules push and pull
    Order        \* all names, as ConfigSlice.Less sorts them

Dirs == {"container", "presence", "list"}
Keys == {"firstKey", "key"}          \* a key that another one follows, the last key
Leafs == {"empty", "leaf", "leafList"}
Schema == DOMAIN Kind
Above(p) == SubSeq(p, 1, Len(p) - 1)

ASSUME SchemaAssumption ==
    /\ Kind \in [Schema -> Dirs \cup Keys \cup Leafs]
    /\ \A p \in Schema : p # << >> /\ (Len(p) > 1 => Above(p) \in Schema)
    /\ DOMAIN CaseOf = Schema /\ DOMAIN Values = Schema
    /\ Required \cup ReadOnly \cup Pushed \subseteq Schema
ASSUME EndsAssumption ==
    \A p \in Schema :
        /\ Kind[p] \in {"container", "list", "firstKey"} => Values[p] = {}
        /\ Kind[p] \in {"presence", "key", "empty"} => Values[p] = {<< >>}
        /\ Kind[p] \in {"leaf", "leafList"} => << >> \notin Values[p]

\* Every complete command
Complete == UNION {{[path |-> p, value |-> v] : v \in Values[p]} : p \in Schema}

VARIABLES
    configActive, configCandidate,
    file,        \* the commands of revision 0, in its order
    scope,       \* the part of the schema that is used
    copied       \* history: the candidate has been a copy

treeVars == <<configActive, configCandidate, file, scope, copied>>

-----------------------------------------------------------------------------
(* Nodes *)

NoTree == [p \in {} |-> << >>]

Children(t, p) == {q \in DOMAIN t : Len(q) = Len(p) + 1 /\ IsPrefix(p, q)}
Prune(t, S) == [p \in {q \in DOMAIN t : \A r \in S : ~IsPrefix(r, q)} |-> t[p]]

IsKey(p) == p # << >> /\ Kind[p] \in Keys
IsKeyConfig(t, p) == IsKey(p) /\ \E q \in Children(t, p) : IsKey(q)
IsValueLeaf(t, p) ==
    (Children(t, p) = {} \/ Kind[p] \in Keys \cup Leafs) /\ ~IsKeyConfig(t, p)

Rank(name) == CHOOSE i \in DOMAIN Order : Order[i] = name
Before(p, q) ==
    \E i \in DOMAIN p \cap DOMAIN q :
        SubSeq(p, 1, i - 1) = SubSeq(q, 1, i - 1) /\ Rank(p[i]) < Rank(q[i])

\* The node that has the key, or else c.  Below a key that has keys already,
\* all its siblings are searched.
lookupKey(t, c, key) ==
    LET places == IF IsKeyConfig(t, c) THEN {p \in Children(t, Above(c)) : IsKey(p)} ELSE {c}
        found == {p \in places : Append(p, key) \in DOMAIN t}
    IN  IF found = {} THEN c ELSE CHOOSE p \in found : \A q \in found \ {p} : Before(p, q)

-----------------------------------------------------------------------------
(* Parse in set mode, a name at a time *)

NewNode(p) == [value |-> << >>, keyOnly |-> FALSE, case |-> CaseOf[p]]

\* Only a node of the same case goes.
excludeSame(t, c, n) ==
    {q \in Children(t, c) : t[q].case # NoCase /\ t[q].case = CaseOf[n]}

exclude(t, c, n) ==
    IF CaseOf[n] = NoCase THEN {}
    ELSE {q \in Children(t, c) : t[q].case \notin {NoCase, CaseOf[n]}}

SetKey(s, key) ==
    LET c == lookupKey(s.tree, s.at, key)
        n == Append(c, key)
        owner == IF IsKey(c) THEN [s.tree EXCEPT ![c].keyOnly = TRUE] ELSE s.tree
    IN  [tree |-> IF n \in DOMAIN s.tree THEN s.tree ELSE (n :> NewNode(n)) @@ owner, at |-> n]

SetName(s, name) ==
    LET n == Append(s.at, name)
    IN  [tree |-> IF n \in DOMAIN s.tree THEN s.tree
                  ELSE (n :> NewNode(n)) @@ Prune(s.tree, exclude(s.tree, s.at, n)),
         at   |-> n]

SetStep(s, name) == IF IsKey(Append(s.at, name)) THEN SetKey(s, name) ELSE SetName(s, name)

\* SetValue, or SetLeafList and SetListValue for each word: the value that
\* was there is replaced.
Parse(t, cmd) ==
    LET s == FoldLeft(SetStep, [tree |-> t, at |-> << >>], cmd.path)
    IN  IF cmd.value = << >> THEN s.tree ELSE [s.tree EXCEPT ![s.at].value = cmd.value]

-----------------------------------------------------------------------------
(* Delete *)

\* What is emptied stays.
DeleteOnly(t, p) == Prune(t, {p})

\* The node with all that is below it, and then from its parent up each
\* directory that is empty and each key that only held keys, as far as the
\* first presence container.
Delete(t, p) ==
    LET up(k) == SubSeq(p, 1, Len(p) - k)
        climb[k \in 0 .. Len(p) - 1] ==
            IF k = 0 THEN Prune(t, {p})
            ELSE LET d == climb[k - 1]
                     goes == /\ \A j \in 1 .. k : Kind[up(j)] # "presence"
                             /\ Children(d, up(k)) = {}
                             /\ Kind[up(k)] \in Dirs \/ t[up(k)].keyOnly
                 IN  IF goes THEN Prune(d, {up(k)}) ELSE d
    IN  climb[Len(p) - 1]

\* The nodes a `delete' accepts, and what may follow them
ParseDelete(t, p, v) ==
    /\ p \in DOMAIN t \ ReadOnly
    /\ IsPrefix(v, t[p].value)
    /\ IsValueLeaf(t, p) \/ Kind[p] \in {"container", "presence"}

\* No node, or the one LookupByPath finds
LookupByPath(t, p) ==
    LET step(at, name) ==
            IF Append(at, name) \in DOMAIN t /\ ~IsKey(Append(at, name)) THEN Append(at, name)
            ELSE Append(lookupKey(t, at, name), name)
        n == FoldLeft(step, << >>, p)
    IN  {n} \cap DOMAIN t

-----------------------------------------------------------------------------
(* Copies, commands and files *)

\* Copy leaves out KeyOnlyConfig and Case.
Copy(t) == [p \in DOMAIN t |-> [t[p] EXCEPT !.keyOnly = FALSE, !.case = NoCase]]

LineOf(t, p) == [path |-> p, value |-> t[p].value]

CommandList(t) ==
    {LineOf(t, p) : p \in {q \in DOMAIN t : IsValueLeaf(t, q) \/ Kind[q] = "presence"}}

\* Entries with nothing in them are left out.
writeLeafs(t) ==
    LET ends == SetToSortSeq({p \in DOMAIN t : Kind[p] \in Leafs}, Before)
    IN  [i \in DOMAIN ends |-> LineOf(t, ends[i])]

\* A semicolon ends each node that has nothing below it, and the names around
\* it are those of the braces and, for keys, of PrefixWrite.
write(t) ==
    LET ends == SetToSortSeq({p \in DOMAIN t : Children(t, p) = {}}, Before)
    IN  [i \in DOMAIN ends |-> LineOf(t, ends[i])]

LoadConfig(text) == FoldLeft(Parse, NoTree, text)

\* An entry of a list, or a container, that is there has all it requires.
MandatoryCheck(t) ==
    \A q \in Required : Above(q) \in DOMAIN t => q \in DOMAIN t

-----------------------------------------------------------------------------
(* Operations.  All hold SubscribeMutex. *)

TreeInit ==
    /\ configActive = NoTree /\ configCandidate = NoTree
    /\ file = << >>
    /\ copied = FALSE

InScope(p) == p[1] \in scope

YangSet(cmd) ==
    /\ InScope(cmd.path)
    /\ configCandidate' = Parse(configCandidate, cmd)
    /\ UNCHANGED <<configActive, file, scope, copied>>

YangDelete(p, n) ==
    /\ p \in DOMAIN configCandidate /\ n \in 0 .. Len(configCandidate[p].value)
    /\ ParseDelete(configCandidate, p, SubSeq(configCandidate[p].value, 1, n))
    /\ configCandidate' = Delete(configCandidate, p)
    /\ UNCHANGED <<configActive, file, scope, copied>>

YangConfigPush(p) ==
    /\ InScope(p)
    /\ LET cmd == [path |-> p, value |-> << >>]
       IN  /\ configActive' = Parse(configActive, cmd)
           /\ configCandidate' = Parse(configCandidate, cmd)
    /\ UNCHANGED <<file, scope, copied>>

Pulled(t, p) == IF LookupByPath(t, p) = {} THEN t ELSE Delete(t, CHOOSE q \in LookupByPath(t, p) : TRUE)

YangConfigPull(p) ==
    /\ InScope(p)
    /\ configActive' = Pulled(configActive, p)
    /\ configCandidate' = Pulled(configCandidate, p)
    /\ UNCHANGED <<file, scope, copied>>

\* Commit as far as the trees go: nothing happens unless a module or the
\* file has to be told something.
TreeCommit ==
    /\ MandatoryCheck(configCandidate)
    /\ CommandList(configCandidate) # CommandList(configActive)
    /\ configActive' = Copy(configCandidate)
    /\ file' = write(configActive')
    /\ UNCHANGED <<configCandidate, scope, copied>>

\* The CLI's discard copies nothing if the two have the same commands.
ConfigDiscard ==
    /\ CommandList(configCandidate) # CommandList(configActive)
    /\ configCandidate' = Copy(configActive)
    /\ copied' = TRUE
    /\ UNCHANGED <<configActive, file, scope>>

\* The file is loaded, and committed unless it is empty or incomplete.
TreeRestart ==
    /\ configCandidate' = LoadConfig(file)
    /\ IF configCandidate' # NoTree /\ MandatoryCheck(configCandidate')
       THEN configActive' = Copy(configCandidate') /\ file' = write(configActive')
       ELSE configActive' = NoTree /\ UNCHANGED file
    /\ UNCHANGED <<scope, copied>>

TreeNext ==
    \/ \E cmd \in Complete : YangSet(cmd)
    \/ \E p \in Schema, n \in 0 .. 2 : YangDelete(p, n)
    \/ \E p \in Pushed : YangConfigPush(p) \/ YangConfigPull(p)
    \/ TreeCommit \/ ConfigDiscard \/ TreeRestart

-----------------------------------------------------------------------------
(* Properties *)

Trees == {configActive, configCandidate}

TreeTypeOK ==
    /\ \A t \in Trees :
          /\ DOMAIN t \subseteq Schema
          /\ \A p \in DOMAIN t : Len(p) > 1 => Above(p) \in DOMAIN t
          /\ \A p \in DOMAIN t : t[p].value \in Values[p] \cup {<< >>}
    /\ copied \in BOOLEAN

\* Another first key of the list has the second key of p as well.
Twin(t, p) ==
    \E i \in DOMAIN p, q \in DOMAIN t :
        /\ i > 2 /\ Len(q) = i /\ q # SubSeq(p, 1, i)
        /\ Kind[q] = "key" /\ IsKey(Above(q))
        /\ q[i] = p[i] /\ Above(Above(q)) = SubSeq(p, 1, i - 2)

OneCase(t) ==
    \A p, q \in DOMAIN t :
        Above(p) = Above(q) => NoCase \in {CaseOf[p], CaseOf[q]} \/ CaseOf[p] = CaseOf[q]

\* What is left of a tree after any number of deletes is a set of commands
\* that `set' accepts, so that neither a module nor the file gets half a
\* command (Delete prunes what it empties), unless the candidate has been a
\* copy, which does not know the keys that only hold keys (Copy).
LinesComplete == ~copied => \A t \in Trees : CommandList(t) \subseteq Complete

\* The lines of a configuration that mention cmd, or exist because of it
Implied(cmd) ==
    {cmd} \cup {[path |-> p, value |-> << >>] :
                   p \in {q \in Schema : IsPrefix(q, cmd.path) /\ Kind[q] \in {"key", "presence"}}}

Replaces(cmd, line) ==
    \/ line.path = cmd.path
    \/ \E i \in DOMAIN cmd.path \cap DOMAIN line.path :
          LET p == SubSeq(cmd.path, 1, i)  q == SubSeq(line.path, 1, i)
          IN  Above(p) = Above(q) /\ NoCase \notin {CaseOf[p], CaseOf[q]} /\ CaseOf[p] # CaseOf[q]

\* An edit does what its words say and nothing else.  A command that is set
\* becomes a line of the candidate, with the lines of the entries it is in; the
\* old value and the nodes of other cases go (Parse, exclude).  A delete takes
\* away the lines that begin with its words, whatever it prunes on the way to
\* the root (Delete).  Except when another first key has the same second key,
\* so that a set may be carried out there (lookupKey), and when the candidate
\* has been a copy, which does not know its cases and keys (Copy).
EditsExact ==
    ~copied =>
        /\ \A cmd \in Complete :
              InScope(cmd.path) /\ ~Twin(configCandidate, cmd.path) =>
                  CommandList(Parse(configCandidate, cmd)) =
                      {l \in CommandList(configCandidate) : ~Replaces(cmd, l)} \cup Implied(cmd)
        /\ \A p \in DOMAIN configCandidate :
              ParseDelete(configCandidate, p, << >>) =>
                  CommandList(Delete(configCandidate, p)) =
                      {l \in CommandList(configCandidate) : ~IsPrefix(p, l.path)}

\* The file of a configuration, loaded again, is that configuration: a
\* restart brings back each line (WriteTo, LoadConfig), unless two first keys
\* have a second key in common or a copy has let two cases in.
Reloads ==
    (\A p \in DOMAIN configActive : ~Twin(configActive, p)) /\ OneCase(configActive) =>
        CommandList(LoadConfig(write(configActive))) = CommandList(configActive)

=============================================================================
