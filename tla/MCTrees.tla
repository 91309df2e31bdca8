------------------------------ MODULE MCTrees ------------------------------
(***************************************************************************)
(* ConfigTree and PathTrie for TLC.  The two have no state in common: a    *)
(* behaviour works on one of them, and in ConfigTree on one part of the    *)
(* schema.                                                                 *)
(*                                                                         *)
(* The schema is put together from those of the repository's tests: a list *)
(* with a leaf, a container and a leaf list; a choice of two cases and a   *)
(* presence container; a list with two keys.                               *)
(***************************************************************************)
EXTENDS PathTrie, ConfigTree

MCPaths == {<<"a">>, <<"a", "b">>, <<"a", "*", "c">>, <<"a", "b", "c">>}
MCCommands == {<<"a", "b", "c">>, <<"a", "d", "c">>, <<"a", "b", "e">>, <<"a", "d">>, <<"b">>}

Entry(k) == <<"top", "key", k>> :> "key" @@ <<"top", "key", k, "value">> :> "leaf"
Pair(x, y) == <<"multikey", x, y>> :> "key"

MCKind ==
    <<"top">> :> "container" @@ <<"top", "key">> :> "list" @@ Entry("k1") @@ Entry("k2")
    @@ <<"top", "key", "k1", "opt">> :> "container" @@ <<"top", "key", "k1", "opt", "one">> :> "empty"
    @@ <<"top", "segments">> :> "leafList"
    @@ <<"food">> :> "container" @@ <<"food", "pretzel">> :> "empty"
    @@ <<"food", "beer">> :> "leaf" @@ <<"food", "chocolate">> :> "leaf"
    @@ <<"normal">> :> "container" @@ <<"normal", "presence">> :> "presence"
    @@ <<"normal", "presence", "name">> :> "leaf"
    @@ <<"multikey">> :> "list" @@ <<"multikey", "A">> :> "firstKey" @@ <<"multikey", "B">> :> "firstKey"
    @@ Pair("A", "X") @@ Pair("A", "Y") @@ Pair("B", "X") @@ Pair("B", "Y")
    @@ <<"multikey", "A", "X", "third">> :> "leaf" @@ <<"multikey", "B", "X", "third">> :> "leaf"

MCCaseOf ==
    [p \in DOMAIN MCKind |->
        IF p \in {<<"food", "pretzel">>, <<"food", "beer">>} THEN "sports-arena"
        ELSE IF p = <<"food", "chocolate">> THEN "late-night" ELSE "none"]

MCValues ==
    [p \in DOMAIN MCKind |->
        CASE MCKind[p] \in {"container", "list", "firstKey"} -> {}
          [] MCKind[p] \in {"presence", "key", "empty"} -> {<< >>}
          [] MCKind[p] = "leafList" -> {<<"a">>, <<"a", "b">>}
          [] p = <<"food", "beer">> -> {<<"v">>, <<"w">>}
          [] OTHER -> {<<"v">>}]

MCRequired == {<<"top", "key", "k2", "value">>}
MCInterfaces == {<<"top", "key", "k1">>}

MCOrder ==
    <<"A", "B", "X", "Y", "beer", "chocolate", "food", "k1", "k2", "key", "multikey", "name",
      "normal", "one", "opt", "presence", "pretzel", "segments", "third", "top", "value">>

MCScopes == {{"top"}, {"food", "normal"}, {"multikey"}}

TreesInit == Init /\ TreeInit /\ scope \in MCScopes \cup {{}}

TreesNext ==
    \/ scope = {} /\ Next /\ UNCHANGED treeVars
    \/ scope # {} /\ TreeNext /\ UNCHANGED vars

TreesSpec == TreesInit /\ [][TreesNext]_<<vars, treeVars>>

=============================================================================
