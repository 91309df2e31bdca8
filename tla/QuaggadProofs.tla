--------------------------- MODULE QuaggadProofs ----------------------------
(***************************************************************************)
(* quaggad's mirror is openconfigd's active configuration (Mirror), and    *)
(* what is active has been found valid (ActiveValid), and a reconnection   *)
(* leaves out nothing (CaughtUp), for any lists, rules and configurations, *)
(* and any number of commits, timeouts and reconnections.                  *)
(*                                                                         *)
(* The invariant speaks of what quaggad will be when it has handled all    *)
(* that is on its way: the trees and the flag are followed along the       *)
(* stream, from what they are to what they come to.                        *)
(***************************************************************************)
EXTENDS Quaggad, TLAPS

\* Zenon unless a leaf says otherwise: most need no arithmetic.
USE Zenon

Trees == Configs \cup {{}}

Changes == [type : {"SET", "DELETE"}, paths : (SUBSET Nodes) \ {{}}]
Marks == [type : {"VALIDATE_START", "VALIDATE_END", "COMMIT_START", "COMMIT_END"}, paths : {{}}]
Messages == Changes \cup Marks

\* p leads to q.
Above(p, q) == \E k \in 1..Len(q) : p = SubSeq(q, 1, k)

\* A tree after all the commands of a message
After(m, tree) ==
    IF m.type = "SET" THEN tree \cup UNION {Parents(p) : p \in m.paths}
    ELSE {q \in tree : \A p \in m.paths : ~Above(p, q)}

\* The part of quaggad's state that the messages change: its trees, and the one
\* that the commands are for
Daemon(run, cand, for) == [run |-> run, cand |-> cand, for |-> for]

\* What a message makes of x
Effect(m, x) ==
    IF m.type = "VALIDATE_START" THEN Daemon(x.run, x.run, "candidate")
    ELSE IF m.type = "VALIDATE_END" THEN Daemon(x.run, x.cand, "running")
    ELSE IF m.type \in {"COMMIT_START", "COMMIT_END"} THEN x
    ELSE IF x.for = "candidate" THEN Daemon(x.run, After(m, x.cand), x.for)
    ELSE Daemon(After(m, x.run), x.cand, x.for)

\* The messages s, one after the other, make y of x.
Leads(s, x, y) ==
    \E t : /\ t[0] = x /\ t[Len(s)] = y
           /\ \A i \in 1..Len(s) : t[i] = Effect(s[i], t[i - 1])

-----------------------------------------------------------------------------
(* Sequences of messages *)

\* No message, no change.
LEMMA LeadsNone ==
    ASSUME NEW x, NEW y
    PROVE  Leads(<<>>, x, y) <=> x = y
<1>1. ASSUME x = y PROVE Leads(<<>>, x, y)
  <2> DEFINE t == [i \in 0..0 |-> x]
  <2>1. t[0] = x /\ t[Len(<<>>)] = y /\ \A i \in 1..Len(<<>>) : t[i] = Effect(<<>>[i], t[i - 1])
    BY SMT, <1>1
  <2> HIDE DEF t
  <2> QED BY <2>1 DEF Leads
<1>2. ASSUME Leads(<<>>, x, y) PROVE x = y
  BY <1>2 DEF Leads
<1> QED BY <1>1, <1>2

\* One message has its effect.
LEMMA LeadsOne ==
    ASSUME NEW m, NEW x
    PROVE  Leads(<<m>>, x, Effect(m, x))
<1> DEFINE y == Effect(m, x)
           t == [i \in 0..1 |-> IF i = 0 THEN x ELSE y]
           s == <<m>>
<1>0. y = Effect(m, x)
  OBVIOUS
<1> HIDE DEF y
<1>1. Len(s) = 1 /\ s[1] = m /\ t[0] = x /\ t[1] = y
  BY SMT
<1> HIDE DEF t, s
<1>2. t[0] = x /\ t[Len(s)] = y /\ \A i \in 1..Len(s) : t[i] = Effect(s[i], t[i - 1])
  <2>1. ASSUME NEW i \in 1..Len(s) PROVE t[i] = Effect(s[i], t[i - 1])
    <3>1. i = 1 /\ i - 1 = 0
      BY SMT, <1>1
    <3>2. t[1] = Effect(s[1], t[0])
      BY <1>0, <1>1
    <3> QED BY <3>1, <3>2
  <2> QED BY <2>1, <1>1
<1>3. Leads(s, x, y)
  BY <1>2 DEF Leads
<1> QED BY <1>3, <1>0 DEF s

\* What follows continues from there.
LEMMA LeadsThen ==
    ASSUME NEW s \in Seq(Messages), NEW r \in Seq(Messages), NEW x, NEW y, NEW z,
           Leads(s, x, y), Leads(r, y, z)
    PROVE  Leads(s \o r, x, z)
<1>1. PICK t : t[0] = x /\ t[Len(s)] = y /\ \A i \in 1..Len(s) : t[i] = Effect(s[i], t[i - 1])
  BY DEF Leads
<1>2. PICK u : u[0] = y /\ u[Len(r)] = z /\ \A i \in 1..Len(r) : u[i] = Effect(r[i], u[i - 1])
  BY DEF Leads
<1> DEFINE n == Len(s)
           k == Len(r)
           w == [i \in 0..(n + k) |-> IF i <= n THEN t[i] ELSE u[i - n]]
           c == s \o r
<1>3. n \in Nat /\ k \in Nat /\ Len(c) = n + k
  BY SMT
<1>4. /\ \A i \in 1..n : c[i] = s[i]
      /\ \A i \in (n + 1)..(n + k) : c[i] = r[i - n]
  BY SMT
<1> HIDE DEF n, k, c
<1>5. \A i \in 0..(n + k) : w[i] = IF i <= n THEN t[i] ELSE u[i - n]
  OBVIOUS
<1> HIDE DEF w
<1>6. t[0] = x /\ t[n] = y /\ u[0] = y /\ u[k] = z
  BY <1>1, <1>2 DEF n, k
<1>7. w[0] = x /\ w[n + k] = z
  <2>1. w[0] = t[0]
    BY SMT, <1>3, <1>5
  <2>2. CASE k = 0
    <3>1. n + k = n /\ w[n] = t[n] /\ z = y
      BY SMT, <2>2, <1>3, <1>5, <1>6
    <3> QED BY <2>1, <3>1, <1>6
  <2>3. CASE k > 0
    <3>1. w[n + k] = u[n + k - n] /\ n + k - n = k
      BY SMT, <2>3, <1>3, <1>5
    <3> QED BY <2>1, <3>1, <1>6
  <2> QED BY SMT, <1>3, <2>2, <2>3
<1>8. ASSUME NEW i \in 1..(n + k) PROVE w[i] = Effect(c[i], w[i - 1])
  <2>1. CASE i <= n
    <3>1. w[i] = t[i] /\ w[i - 1] = t[i - 1] /\ c[i] = s[i] /\ i \in 1..Len(s)
      BY SMT, <2>1, <1>3, <1>4, <1>5 DEF n
    <3>2. t[i] = Effect(s[i], t[i - 1])
      BY <3>1, <1>1
    <3> QED BY <3>1, <3>2
  <2>2. CASE i > n
    <3>1. w[i] = u[i - n] /\ c[i] = r[i - n] /\ i - n \in 1..Len(r)
      BY SMT, <2>2, <1>3, <1>4, <1>5 DEF k
    <3>2. w[i - 1] = u[(i - n) - 1]
      <4>1. CASE i = n + 1
        BY SMT, <4>1, <1>3, <1>5, <1>6
      <4>2. CASE i > n + 1
        BY SMT, <4>2, <1>3, <1>5
      <4> QED BY SMT, <2>2, <4>1, <4>2, <1>3
    <3>3. u[i - n] = Effect(r[i - n], u[(i - n) - 1])
      BY <3>1, <1>2
    <3> QED BY <3>1, <3>2, <3>3
  <2> QED BY SMT, <2>1, <2>2, <1>3
<1>9. Leads(c, x, z)
  BY <1>3, <1>7, <1>8 DEF Leads
<1> QED BY <1>9 DEF c

\* The first message has its effect, and the others continue from there.
LEMMA LeadsOver ==
    ASSUME NEW s \in Seq(Messages), s # <<>>, NEW x, NEW z, Leads(s, x, z)
    PROVE  Leads(Tail(s), Effect(Head(s), x), z)
<1>1. PICK t : t[0] = x /\ t[Len(s)] = z /\ \A i \in 1..Len(s) : t[i] = Effect(s[i], t[i - 1])
  BY DEF Leads
<1> DEFINE n == Len(s) - 1
           w == [i \in 0..n |-> t[i + 1]]
           c == Tail(s)
<1>2. n \in Nat /\ Len(c) = n /\ Len(s) = n + 1 /\ \A i \in 1..n : c[i] = s[i + 1]
  BY SMT
<1>3. Head(s) = s[1]
  BY SMT
<1>4. \A i \in 0..n : w[i] = t[i + 1]
  OBVIOUS
<1> HIDE DEF n, w, c
<1>5. t[1] = Effect(Head(s), x)
  <2>1. 1 \in 1..Len(s) /\ 1 - 1 = 0
    BY SMT, <1>2
  <2>2. t[1] = Effect(s[1], t[1 - 1])
    BY <2>1, <1>1
  <2> QED BY <2>1, <2>2, <1>1, <1>3
<1>6. w[0] = Effect(Head(s), x) /\ w[Len(c)] = z
  BY SMT, <1>1, <1>2, <1>4, <1>5
<1>7. ASSUME NEW i \in 1..Len(c) PROVE w[i] = Effect(c[i], w[i - 1])
  <2>1. i + 1 \in 1..Len(s) /\ i \in 0..n /\ i - 1 \in 0..n /\ (i + 1) - 1 = i /\ (i - 1) + 1 = i
    BY SMT, <1>2
  <2>2. t[i + 1] = Effect(s[i + 1], t[(i + 1) - 1])
    BY <2>1, <1>1
  <2>3. w[i] = t[i + 1] /\ w[i - 1] = t[i] /\ c[i] = s[i + 1]
    BY <2>1, <1>2, <1>4
  <2> QED BY <2>1, <2>2, <2>3
<1>8. Leads(c, Effect(Head(s), x), z)
  BY <1>6, <1>7 DEF Leads
<1> QED BY <1>8 DEF c

-----------------------------------------------------------------------------
(* Trees *)

\* Paths are sequences of two, three or five words.
LEMMA NodeLengths ==
    ASSUME NEW p \in Nodes
    PROVE  p \in Seq(UNION {Kinds, Lists, Rules, Leaves, Values, {"neighbor"}}) /\ Len(p) \in {2, 3, 5}
<1> DEFINE W == UNION {Kinds, Lists, Rules, Leaves, Values, {"neighbor"}}
<1>1. Kinds \subseteq W /\ Lists \subseteq W /\ Rules \subseteq W /\ Leaves \subseteq W /\ Values \subseteq W /\ "neighbor" \in W
  OBVIOUS
<1> HIDE DEF W
<1>2. CASE p \in (Kinds \X Lists) \cup ({"neighbor"} \X Lists)
  <2>1. PICK a \in W, b \in W : p = <<a, b>>
    BY SMT, <1>1, <1>2
  <2> QED BY SMT, <2>1 DEF W
<1>3. CASE p \in Kinds \X Lists \X Rules
  <2>1. PICK a \in W, b \in W, c \in W : p = <<a, b, c>>
    BY SMT, <1>1, <1>3
  <2> QED BY SMT, <2>1 DEF W
<1>4. CASE p \in Kinds \X Lists \X Rules \X Leaves \X Values
  <2>1. PICK a \in W, b \in W, c \in W, d \in W, e \in W : p = <<a, b, c, d, e>>
    BY SMT, <1>1, <1>4
  <2> QED BY SMT, <2>1 DEF W
<1> QED BY <1>2, <1>3, <1>4 DEF Nodes

\* A path is among its parents, as is every path that leads to it.
LEMMA AboveIsParent ==
    ASSUME NEW p \in Nodes, NEW q \in Nodes
    PROVE  p \in Parents(p) /\ Above(p, p) /\ (Above(p, q) => p \in Parents(q))
<1>1. PICK S : p \in Seq(S) /\ q \in Seq(S)
  BY NodeLengths
<1>2. Len(p) \in {2, 3, 5} /\ Len(q) \in {2, 3, 5}
  BY NodeLengths
<1>3. SubSeq(p, 1, Len(p)) = p
  BY SMT, <1>1
<1>4. Len(p) \in {2, 3, 5} \cap 2..Len(p)
  BY SMT, <1>2
<1>5. p \in Parents(p)
  BY <1>3, <1>4 DEF Parents
<1>6. ASSUME Above(p, q) PROVE p \in Parents(q)
  <2>1. PICK k \in 1..Len(q) : p = SubSeq(q, 1, k)
    BY <1>6 DEF Above
  <2>2. Len(p) = k
    BY SMT, <1>1, <2>1
  <2>3. k \in {2, 3, 5} \cap 2..Len(q)
    BY SMT, <1>2, <2>2
  <2> QED BY <2>1, <2>3 DEF Parents
<1>7. Above(p, p)
  <2>1. Len(p) \in 1..Len(p)
    BY SMT, <1>2
  <2> QED BY <1>3, <2>1 DEF Above
<1> QED BY <1>5, <1>6, <1>7

\* A message has a path that comes first.
LEMMA FirstIn ==
    ASSUME NEW paths \in SUBSET Nodes, paths # {}
    PROVE  First(paths) \in paths
<1> SUFFICES \E p \in paths : \A q \in paths : Len(p) <= Len(q)
  BY DEF First
<1>1. \A p \in paths : Len(p) \in {2, 3, 5}
  BY NodeLengths
<1> QED BY SMT, <1>1

\* The trees are sets of paths that contain the parents of their paths.
LEMMA TreesClosed ==
    ASSUME NEW c \in Trees
    PROVE  c \subseteq Nodes /\ \A p \in c : Parents(p) \subseteq c
BY ConfigsAssumption DEF Trees, Config

\* What the commands from old to new make of a tree
Made(old, new, tree) == After(Message("SET", new \ old), After(Message("DELETE", old \ new), tree))

\* Of old they make new, and of new when old is empty.
LEMMA CommandsMake ==
    ASSUME NEW old \in Trees, NEW new \in Trees, NEW tree, tree = old \/ (old = {} /\ tree = new)
    PROVE  Made(old, new, tree) = new
<1> DEFINE kept == {q \in tree : \A p \in old \ new : ~Above(p, q)}
           added == UNION {Parents(p) : p \in new \ old}
<1>1. ASSUME NEW q \in new PROVE q \in kept \cup added
  <2>1. CASE q \in old \/ old = {}
    <3>1. CASE q \in tree
      <4>1. ASSUME NEW p \in old \ new PROVE ~Above(p, q)
        BY AboveIsParent, TreesClosed
      <4> QED BY <3>1, <4>1
    <3>2. CASE q \notin tree
      <4>1. q \in new \ old /\ q \in Parents(q)
        BY <2>1, <3>2, AboveIsParent, TreesClosed
      <4> QED BY <4>1
    <3> QED BY <3>1, <3>2
  <2>2. CASE q \notin old
    <3>1. q \in Parents(q)
      BY AboveIsParent, TreesClosed
    <3> QED BY <2>2, <3>1
  <2> QED BY <2>1, <2>2
<1>2. ASSUME NEW q \in kept \cup added PROVE q \in new
  <2>1. CASE q \in added
    BY SMT, <2>1, TreesClosed
  <2>2. CASE q \in kept /\ tree = old
    <3>1. q \in old /\ Above(q, q)
      BY <2>2, AboveIsParent, TreesClosed
    <3> QED BY <2>2, <3>1
  <2>3. CASE q \in kept /\ tree = new
    BY <2>3
  <2> QED BY <1>2, <2>1, <2>2, <2>3
<1>3. kept \cup added = new
  BY <1>1, <1>2
<1> QED BY SMT, <1>3 DEF Made, After, Message

\* Of a tree that has more than old they make one that has all of new.
LEMMA CommandsCover ==
    ASSUME NEW old \in Trees, NEW new \in Trees, NEW tree, old \subseteq tree
    PROVE  new \subseteq Made(old, new, tree)
<1> DEFINE kept == {q \in tree : \A p \in old \ new : ~Above(p, q)}
           added == UNION {Parents(p) : p \in new \ old}
<1>1. ASSUME NEW q \in new PROVE q \in kept \cup added
  <2>1. CASE q \in old
    <3>1. ASSUME NEW p \in old \ new PROVE ~Above(p, q)
      BY AboveIsParent, TreesClosed
    <3> QED BY <2>1, <3>1
  <2>2. CASE q \notin old
    <3>1. q \in Parents(q)
      BY AboveIsParent, TreesClosed
    <3> QED BY <2>2, <3>1
  <2> QED BY <2>1, <2>2
<1>2. Made(old, new, tree) = kept \cup added
  BY SMT DEF Made, After, Message
<1> QED BY <1>1, <1>2

\* A batch has the effect of its commands, none when it is empty, on the tree
\* that the flag says.
LEMMA BatchLeads ==
    ASSUME NEW type \in {"SET", "DELETE"}, NEW paths \in SUBSET Nodes, NEW tree, NEW other
    PROVE  /\ Batch(type, paths) \in Seq(Messages)
           /\ Leads(Batch(type, paths), Daemon(other, tree, "candidate"),
                    Daemon(other, After(Message(type, paths), tree), "candidate"))
           /\ Leads(Batch(type, paths), Daemon(tree, other, "running"),
                    Daemon(After(Message(type, paths), tree), other, "running"))
<1> DEFINE m == Message(type, paths)
<1>0. m.type = type /\ m.paths = paths
  BY DEF Message
<1>1. CASE paths = {}
  <2>1. Batch(type, paths) = <<>>
    BY <1>1 DEF Batch
  <2>2. After(m, tree) = tree
    <3>1. m.paths = {}
      BY <1>0, <1>1
    <3> HIDE DEF m
    <3> QED BY <3>1 DEF After
  <2> HIDE DEF m
  <2>3. <<>> \in Seq(Messages)
    BY SMT
  <2> QED BY <2>1, <2>2, <2>3, LeadsNone DEF m
<1>2. CASE paths # {}
  <2>1. Batch(type, paths) = <<m>>
    BY <1>2 DEF Batch
  <2>2. m \in Messages
    BY <1>2 DEF Message, Messages, Changes
  <2> HIDE DEF m
  <2>3. Effect(m, Daemon(other, tree, "candidate")) = Daemon(other, After(m, tree), "candidate")
    BY <1>0 DEF Effect, Daemon
  <2>4. Effect(m, Daemon(tree, other, "running")) = Daemon(After(m, tree), other, "running")
    BY <1>0 DEF Effect, Daemon
  <2>5. Leads(<<m>>, Daemon(other, tree, "candidate"), Daemon(other, After(m, tree), "candidate"))
    BY LeadsOne, <2>3
  <2>6. Leads(<<m>>, Daemon(tree, other, "running"), Daemon(After(m, tree), other, "running"))
    BY LeadsOne, <2>4
  <2>7. <<m>> \in Seq(Messages)
    BY SMT, <2>2
  <2> QED BY <2>1, <2>5, <2>6, <2>7 DEF m
<1> QED BY <1>1, <1>2

\* The commands change the tree that the flag says.
LEMMA CommandsLead ==
    ASSUME NEW old \in Trees, NEW new \in Trees, NEW tree, NEW other
    PROVE  /\ Commands(old, new) \in Seq(Messages)
           /\ Leads(Commands(old, new), Daemon(other, tree, "candidate"),
                    Daemon(other, Made(old, new, tree), "candidate"))
           /\ Leads(Commands(old, new), Daemon(tree, other, "running"),
                    Daemon(Made(old, new, tree), other, "running"))
<1> DEFINE d == Batch("DELETE", old \ new)
           s == Batch("SET", new \ old)
           kept == After(Message("DELETE", old \ new), tree)
           made == Made(old, new, tree)
<1>1. old \ new \in SUBSET Nodes /\ new \ old \in SUBSET Nodes
  BY TreesClosed
<1>2. After(Message("SET", new \ old), kept) = made
  BY DEF Made
<1>3. Commands(old, new) = d \o s
  BY DEF Commands
<1> HIDE DEF d, s, kept, made
<1>4. /\ d \in Seq(Messages)
      /\ Leads(d, Daemon(other, tree, "candidate"), Daemon(other, kept, "candidate"))
      /\ Leads(d, Daemon(tree, other, "running"), Daemon(kept, other, "running"))
  BY <1>1, BatchLeads DEF d, kept
<1>5. /\ s \in Seq(Messages)
      /\ Leads(s, Daemon(other, kept, "candidate"), Daemon(other, made, "candidate"))
      /\ Leads(s, Daemon(kept, other, "running"), Daemon(made, other, "running"))
  BY <1>1, <1>2, BatchLeads DEF s
<1>6. d \o s \in Seq(Messages)
  BY SMT, <1>4, <1>5
<1> QED BY <1>3, <1>4, <1>5, <1>6, LeadsThen DEF made

\* A validation leaves the running tree as it was, whatever came before.
LEMMA ValidationLeads ==
    ASSUME NEW old \in Trees, NEW new \in Trees, NEW tree, NEW cand, NEW for
    PROVE  /\ Validation(old, new) \in Seq(Messages)
           /\ Leads(Validation(old, new), Daemon(tree, cand, for), Daemon(tree, Made(old, new, tree), "running"))
<1> DEFINE a == Message("VALIDATE_START", {})
           b == Message("VALIDATE_END", {})
           c == Commands(old, new)
           made == Made(old, new, tree)
<1>1. /\ a \in Messages /\ a.type = "VALIDATE_START"
      /\ b \in Messages /\ b.type = "VALIDATE_END"
  BY DEF Message, Messages, Marks
<1>2. Validation(old, new) = (<<a>> \o c) \o <<b>>
  BY DEF Validation
<1> HIDE DEF a, b, c, made
<1>3. c \in Seq(Messages) /\ Leads(c, Daemon(tree, tree, "candidate"), Daemon(tree, made, "candidate"))
  BY CommandsLead DEF c, made
<1>4. Effect(a, Daemon(tree, cand, for)) = Daemon(tree, tree, "candidate")
  BY <1>1 DEF Effect, Daemon
<1>5. Effect(b, Daemon(tree, made, "candidate")) = Daemon(tree, made, "running")
  BY <1>1 DEF Effect, Daemon
<1>6. Leads(<<a>>, Daemon(tree, cand, for), Daemon(tree, tree, "candidate"))
  BY <1>4, LeadsOne
<1>7. Leads(<<b>>, Daemon(tree, made, "candidate"), Daemon(tree, made, "running"))
  BY <1>5, LeadsOne
<1>8. <<a>> \in Seq(Messages) /\ <<b>> \in Seq(Messages)
  BY SMT, <1>1
<1>9. <<a>> \o c \in Seq(Messages) /\ Leads(<<a>> \o c, Daemon(tree, cand, for), Daemon(tree, made, "candidate"))
  <2>1. <<a>> \o c \in Seq(Messages)
    BY SMT, <1>3, <1>8
  <2>2. Leads(<<a>> \o c, Daemon(tree, cand, for), Daemon(tree, made, "candidate"))
    BY <1>3, <1>6, <1>8, LeadsThen
  <2> QED BY <2>1, <2>2
<1>10. Leads((<<a>> \o c) \o <<b>>, Daemon(tree, cand, for), Daemon(tree, made, "running"))
  BY <1>7, <1>8, <1>9, LeadsThen
<1>11. (<<a>> \o c) \o <<b>> \in Seq(Messages)
  BY SMT, <1>8, <1>9
<1> QED BY <1>2, <1>10, <1>11 DEF made

\* A commit changes the running tree.
LEMMA CommitmentLeads ==
    ASSUME NEW old \in Trees, NEW new \in Trees, NEW tree, NEW cand
    PROVE  /\ Commitment(old, new) \in Seq(Messages)
           /\ Leads(Commitment(old, new), Daemon(tree, cand, "running"),
                    Daemon(Made(old, new, tree), cand, "running"))
<1> DEFINE a == Message("COMMIT_START", {})
           b == Message("COMMIT_END", {})
           c == Commands(old, new)
           made == Made(old, new, tree)
<1>1. /\ a \in Messages /\ a.type = "COMMIT_START"
      /\ b \in Messages /\ b.type = "COMMIT_END"
  BY DEF Message, Messages, Marks
<1>2. Commitment(old, new) = (<<a>> \o c) \o <<b>>
  BY DEF Commitment
<1> HIDE DEF a, b, c, made
<1>3. c \in Seq(Messages) /\ Leads(c, Daemon(tree, cand, "running"), Daemon(made, cand, "running"))
  BY CommandsLead DEF c, made
<1>4. \A x : Effect(a, x) = x /\ Effect(b, x) = x
  BY <1>1 DEF Effect
<1>5. \A x : Leads(<<a>>, x, x) /\ Leads(<<b>>, x, x)
  BY SMT, <1>4, LeadsOne
<1>6. <<a>> \in Seq(Messages) /\ <<b>> \in Seq(Messages)
  BY SMT, <1>1
<1>7. <<a>> \o c \in Seq(Messages) /\ Leads(<<a>> \o c, Daemon(tree, cand, "running"), Daemon(made, cand, "running"))
  <2>1. <<a>> \o c \in Seq(Messages)
    BY SMT, <1>3, <1>6
  <2>2. Leads(<<a>> \o c, Daemon(tree, cand, "running"), Daemon(made, cand, "running"))
    BY <1>3, <1>5, <1>6, LeadsThen
  <2> QED BY <2>1, <2>2
<1>8. Leads((<<a>> \o c) \o <<b>>, Daemon(tree, cand, "running"), Daemon(made, cand, "running"))
  BY <1>5, <1>6, <1>7, LeadsThen
<1>9. (<<a>> \o c) \o <<b>> \in Seq(Messages)
  BY SMT, <1>6, <1>7
<1> QED BY <1>2, <1>8, <1>9 DEF made

-----------------------------------------------------------------------------
(* The invariant *)

\* No validation ends in s; one does, with its last message.
NoEnd(s) == \A i \in 1..Len(s) : s[i].type # "VALIDATE_END"

EndLast(s) ==
    /\ Len(s) > 0 /\ s[Len(s)].type = "VALIDATE_END"
    /\ \A i \in 1..(Len(s) - 1) : s[i].type # "VALIDATE_END"

\* Unless a validation has timed out, the result that is waited for is on its
\* way, and no other is.  c is the candidate that the stream leads to.
Answer(s, r, c) ==
    /\ awaiting = "no" => NoEnd(s) /\ r = <<>>
    /\ awaiting # "no" /\ connected =>
          \/ EndLast(s) /\ r = <<>> /\ c = target
          \/ NoEnd(s) /\ r = <<quaggaConfigValid(target)>>

Now == Daemon(running, candidate, IF validating THEN "candidate" ELSE "running")

\* What is on its way leads to the active configuration.
Arrives ==
    \E c : /\ Leads(stream, Now, Daemon(active, c, "running"))
           /\ ~late => Answer(stream, replies, c)

MirrorTypeOK ==
    /\ validating \in BOOLEAN /\ connected \in BOOLEAN
    /\ active \in Trees /\ target \in Trees
    /\ awaiting \in {"no", "commit", "sync"}
    /\ stream \in Seq(Messages) /\ replies \in Seq(BOOLEAN)

MirrorInv ==
    /\ MirrorTypeOK
    /\ ~connected => stream = <<>> /\ replies = <<>>
    /\ awaiting = "sync" => target = active
    /\ ~missed => Arrives
    /\ ActiveValid

\* What becomes of a stream's ends when it grows
LEMMA EndsAppended ==
    ASSUME NEW s \in Seq(Messages), NEW r \in Seq(Messages), NoEnd(s)
    PROVE  (NoEnd(r) => NoEnd(s \o r)) /\ (EndLast(r) => EndLast(s \o r))
<1> DEFINE c == s \o r
           n == Len(s)
           k == Len(r)
<1>1. n \in Nat /\ k \in Nat /\ Len(c) = n + k
  BY SMT
<1>2. \A i \in 1..(n + k) : IF i <= n THEN c[i] = s[i] ELSE c[i] = r[i - n]
  BY SMT
<1>3. \A i \in 1..n : s[i].type # "VALIDATE_END"
  BY DEF NoEnd
<1> HIDE DEF c
<1>4. ASSUME NoEnd(r) PROVE NoEnd(c)
  <2>1. \A i \in 1..k : r[i].type # "VALIDATE_END"
    BY <1>4 DEF NoEnd
  <2> HIDE DEF n, k
  <2> SUFFICES ASSUME NEW i \in 1..(n + k) PROVE c[i].type # "VALIDATE_END"
    BY <1>1 DEF NoEnd
  <2>2. CASE i <= n
    BY SMT, <2>2, <1>1, <1>2, <1>3
  <2>3. CASE i > n
    <3>1. i - n \in 1..k /\ c[i] = r[i - n]
      BY SMT, <2>3, <1>1, <1>2
    <3> QED BY <2>1, <3>1
  <2> QED BY SMT, <2>2, <2>3, <1>1
<1>5. ASSUME EndLast(r) PROVE EndLast(c)
  <2>1. k > 0 /\ r[k].type = "VALIDATE_END" /\ \A i \in 1..(k - 1) : r[i].type # "VALIDATE_END"
    BY <1>5 DEF EndLast
  <2> HIDE DEF n, k
  <2>2. c[n + k] = r[k]
    <3> DEFINE j == n + k
    <3>1. j \in 1..(n + k) /\ ~(j <= n) /\ j - n = k
      BY SMT, <1>1, <2>1
    <3> HIDE DEF j
    <3>2. c[j] = r[j - n]
      BY <1>2, <3>1
    <3> QED BY <3>1, <3>2 DEF j
  <2>3. ASSUME NEW i \in 1..(n + k - 1) PROVE c[i].type # "VALIDATE_END"
    <3>1. CASE i <= n
      BY SMT, <3>1, <1>1, <1>2, <1>3
    <3>2. CASE i > n
      <4>1. i - n \in 1..(k - 1) /\ c[i] = r[i - n]
        BY SMT, <3>2, <1>1, <1>2
      <4> QED BY <2>1, <4>1
    <3> QED BY SMT, <3>1, <3>2, <1>1
  <2> QED BY SMT, <1>1, <2>1, <2>2, <2>3 DEF EndLast
<1> QED BY <1>4, <1>5 DEF c

\* What becomes of them when it is handled
LEMMA EndsHandled ==
    ASSUME NEW s \in Seq(Messages), s # <<>>
    PROVE  /\ NoEnd(s) => NoEnd(Tail(s)) /\ Head(s).type # "VALIDATE_END"
           /\ EndLast(s) /\ Head(s).type # "VALIDATE_END" => EndLast(Tail(s))
           /\ EndLast(s) /\ Head(s).type = "VALIDATE_END" => Tail(s) = <<>>
<1> DEFINE n == Len(s) - 1
           c == Tail(s)
<1>1. n \in Nat /\ Len(c) = n /\ Len(s) = n + 1 /\ \A i \in 1..n : c[i] = s[i + 1]
  BY SMT
<1>2. Head(s) = s[1]
  BY SMT
<1>3. n = 0 => c = <<>>
  <2>1. c \in Seq(Messages)
    BY SMT
  <2> HIDE DEF c
  <2> QED BY SMT, <1>1, <2>1
<1> HIDE DEF n, c
<1>4. ASSUME NoEnd(s) PROVE NoEnd(c) /\ Head(s).type # "VALIDATE_END"
  BY SMT, <1>1, <1>2, <1>4 DEF NoEnd
<1>5. ASSUME EndLast(s), Head(s).type # "VALIDATE_END" PROVE EndLast(c)
  <2>1. n > 0
    BY SMT, <1>1, <1>2, <1>5 DEF EndLast
  <2>2. c[n] = s[n + 1]
    BY SMT, <1>1, <2>1
  <2>3. \A i \in 1..(n - 1) : c[i] = s[i + 1] /\ i + 1 \in 1..n
    BY SMT, <1>1, <2>1
  <2> QED BY SMT, <1>1, <1>5, <2>1, <2>2, <2>3 DEF EndLast
<1>6. ASSUME EndLast(s), Head(s).type = "VALIDATE_END" PROVE c = <<>>
  <2>1. n = 0
    BY SMT, <1>1, <1>2, <1>6 DEF EndLast
  <2> QED BY <1>3, <2>1
<1> QED BY <1>4, <1>5, <1>6 DEF c

\* A validation ends once, with its last message, and a commit is none.
LEMMA EndsSent ==
    ASSUME NEW old \in Trees, NEW new \in Trees
    PROVE  EndLast(Validation(old, new)) /\ NoEnd(Commitment(old, new))
<1> DEFINE c == Commands(old, new)
<1>1. NoEnd(c) /\ c \in Seq(Messages)
  <2>1. ASSUME NEW type \in {"SET", "DELETE"}, NEW paths PROVE NoEnd(Batch(type, paths))
    <3>1. NoEnd(<<>>)
      BY SMT DEF NoEnd
    <3>2. NoEnd(<<Message(type, paths)>>)
      <4>1. Message(type, paths).type # "VALIDATE_END"
        BY DEF Message
      <4> QED BY SMT, <4>1 DEF NoEnd
    <3> QED BY <3>1, <3>2 DEF Batch
  <2>2. old \ new \in SUBSET Nodes /\ new \ old \in SUBSET Nodes
    BY TreesClosed
  <2>3. Batch("DELETE", old \ new) \in Seq(Messages) /\ Batch("SET", new \ old) \in Seq(Messages)
    BY <2>2, BatchLeads
  <2> QED BY <2>1, <2>3, EndsAppended, CommandsLead DEF Commands
<1>2. \A type \in {"VALIDATE_START", "COMMIT_START", "VALIDATE_END", "COMMIT_END"} :
          <<Message(type, {})>> \in Seq(Messages)
  BY SMT DEF Message, Messages, Marks
<1>3. \A type \in {"VALIDATE_START", "COMMIT_START", "COMMIT_END"} : NoEnd(<<Message(type, {})>>)
  <2> SUFFICES ASSUME NEW type \in {"VALIDATE_START", "COMMIT_START", "COMMIT_END"}
               PROVE  NoEnd(<<Message(type, {})>>)
    OBVIOUS
  <2>1. Message(type, {}).type # "VALIDATE_END"
    BY DEF Message
  <2> QED BY SMT, <2>1 DEF NoEnd
<1>4. EndLast(<<Message("VALIDATE_END", {})>>)
  <2>1. Message("VALIDATE_END", {}).type = "VALIDATE_END"
    BY DEF Message
  <2> QED BY SMT, <2>1 DEF EndLast
<1> HIDE DEF c
<1>5. ASSUME NEW type \in {"VALIDATE_START", "COMMIT_START"}
      PROVE  <<Message(type, {})>> \o c \in Seq(Messages) /\ NoEnd(<<Message(type, {})>> \o c)
  <2> DEFINE a == <<Message(type, {})>>
  <2>1. a \in Seq(Messages) /\ NoEnd(a)
    BY <1>2, <1>3
  <2> HIDE DEF a
  <2>2. a \o c \in Seq(Messages)
    BY SMT, <1>1, <2>1
  <2>3. NoEnd(a \o c)
    BY <1>1, <2>1, EndsAppended
  <2> QED BY <2>2, <2>3 DEF a
<1>6. EndLast((<<Message("VALIDATE_START", {})>> \o c) \o <<Message("VALIDATE_END", {})>>)
  <2> DEFINE a == <<Message("VALIDATE_START", {})>> \o c
             b == <<Message("VALIDATE_END", {})>>
  <2>1. a \in Seq(Messages) /\ NoEnd(a)
    BY <1>5
  <2>2. b \in Seq(Messages) /\ EndLast(b)
    BY <1>2, <1>4
  <2> HIDE DEF a, b
  <2>3. EndLast(a \o b)
    BY <2>1, <2>2, EndsAppended
  <2> QED BY <2>3 DEF a, b
<1>7. NoEnd((<<Message("COMMIT_START", {})>> \o c) \o <<Message("COMMIT_END", {})>>)
  <2> DEFINE a == <<Message("COMMIT_START", {})>> \o c
             b == <<Message("COMMIT_END", {})>>
  <2>1. a \in Seq(Messages) /\ NoEnd(a)
    BY <1>5
  <2>2. b \in Seq(Messages) /\ NoEnd(b)
    BY <1>2, <1>3
  <2> HIDE DEF a, b
  <2>3. NoEnd(a \o b)
    BY <2>1, <2>2, EndsAppended
  <2> QED BY <2>3 DEF a, b
<1> QED BY <1>6, <1>7 DEF Validation, Commitment, c

-----------------------------------------------------------------------------
(* quaggad handles a message *)

\* A command of several has its share of their effect.
LEMMA CommandsShare ==
    ASSUME NEW m \in Changes, NEW p \in m.paths, NEW tree
    PROVE  LET one == IF m.type = "SET" THEN quaggaConfigStateSet(tree, p) ELSE quaggaConfigStateDelete(tree, p)
           IN  /\ m.paths \ {p} = {} => one = After(m, tree)
               /\ m.paths \ {p} # {} => After([m EXCEPT !.paths = @ \ {p}], one) = After(m, tree)
<1> DEFINE one == IF m.type = "SET" THEN quaggaConfigStateSet(tree, p) ELSE quaggaConfigStateDelete(tree, p)
           r == [m EXCEPT !.paths = @ \ {p}]
<1>1. r.type = m.type /\ r.paths = m.paths \ {p} /\ m.paths = (m.paths \ {p}) \cup {p}
  BY DEF Changes
<1> HIDE DEF r
<1>2. CASE m.type = "SET"
  <2>1. one = tree \cup Parents(p)
    BY <1>2 DEF quaggaConfigStateSet
  <2>2. UNION {Parents(q) : q \in m.paths} = Parents(p) \cup UNION {Parents(q) : q \in m.paths \ {p}}
    BY <1>1
  <2>3. After(m, tree) = tree \cup UNION {Parents(q) : q \in m.paths}
    BY <1>2 DEF After
  <2>4. After(r, one) = one \cup UNION {Parents(q) : q \in m.paths \ {p}}
    BY <1>1, <1>2 DEF After
  <2>5. After(r, one) = After(m, tree)
    BY <2>1, <2>2, <2>3, <2>4
  <2>6. ASSUME m.paths \ {p} = {} PROVE one = After(m, tree)
    BY <2>1, <2>2, <2>3, <2>6
  <2> QED BY <2>5, <2>6 DEF r
<1>3. CASE m.type # "SET"
  <2>1. one = {q \in tree : ~Above(p, q)}
    BY <1>3 DEF quaggaConfigStateDelete, Below, Above
  <2>2. After(m, tree) = {q \in tree : \A o \in m.paths : ~Above(o, q)}
    BY <1>3 DEF After
  <2>3. After(r, one) = {q \in one : \A o \in m.paths \ {p} : ~Above(o, q)}
    BY <1>1, <1>3 DEF After
  <2> HIDE DEF one
  <2>4. After(r, one) = After(m, tree)
    BY <1>1, <2>1, <2>2, <2>3
  <2>5. ASSUME m.paths \ {p} = {} PROVE one = After(m, tree)
    BY <1>1, <2>1, <2>2, <2>5
  <2> QED BY <2>4, <2>5 DEF r, one
<1> QED BY <1>2, <1>3

\* Handling a message, or one command of several, changes nothing in what the
\* stream leads to.
LEMMA StillLeads ==
    ASSUME stream \in Seq(Messages), validating \in BOOLEAN, grpcLoop, NEW z
    PROVE  /\ stream' \in Seq(Messages) /\ validating' \in BOOLEAN
           /\ Leads(stream, Now, z) => Leads(stream', Now', z)
<1> DEFINE m == Head(stream)
           p == First(m.paths)
<1>1. stream # <<>> /\ m \in Messages /\ Tail(stream) \in Seq(Messages)
  BY SMT DEF grpcLoop
<1>2. Leads(stream, Now, z) => Leads(Tail(stream), Effect(m, Now), z)
  BY <1>1, LeadsOver
<1>3. \/ m.type = "VALIDATE_START" /\ ValidateStart /\ stream' = Tail(stream)
      \/ m.type = "VALIDATE_END" /\ ValidateEnd /\ stream' = Tail(stream)
      \/ m.type = "COMMIT_START" /\ CommitStart /\ stream' = Tail(stream)
      \/ m.type = "COMMIT_END" /\ UNCHANGED <<daemonVars, replies>> /\ stream' = Tail(stream)
      \/ m.type \in {"SET", "DELETE"} /\ quaggaConfig(m.type = "SET", p) /\ stream' = Rest(m, p) \o Tail(stream)
  BY DEF grpcLoop
<1>4. /\ validating => Now = Daemon(running, candidate, "candidate")
      /\ ~validating => Now = Daemon(running, candidate, "running")
      /\ validating' => Now' = Daemon(running', candidate', "candidate")
      /\ ~validating' => Now' = Daemon(running', candidate', "running")
  BY DEF Now, Daemon
<1> HIDE DEF m
<1>5. CASE m.type = "VALIDATE_START" /\ ValidateStart /\ stream' = Tail(stream)
  <2>1. Effect(m, Now) = Now'
    BY SMT, <1>4, <1>5 DEF Effect, Daemon, ValidateStart
  <2> QED BY <1>1, <1>2, <1>5, <2>1 DEF ValidateStart
<1>6. CASE m.type = "VALIDATE_END" /\ ValidateEnd /\ stream' = Tail(stream)
  <2>1. Effect(m, Now) = Now'
    BY SMT, <1>4, <1>6 DEF Effect, Daemon, ValidateEnd
  <2> QED BY <1>1, <1>2, <1>6, <2>1 DEF ValidateEnd
<1>7. CASE m.type = "COMMIT_START" /\ CommitStart /\ stream' = Tail(stream)
  <2>1. Effect(m, Now) = Now'
    BY <1>4, <1>7 DEF Effect, CommitStart
  <2> QED BY <1>1, <1>2, <1>7, <2>1 DEF CommitStart
<1>8. CASE m.type = "COMMIT_END" /\ UNCHANGED <<daemonVars, replies>> /\ stream' = Tail(stream)
  <2>1. Effect(m, Now) = Now'
    BY <1>4, <1>8 DEF Effect, daemonVars
  <2> QED BY <1>1, <1>2, <1>8, <2>1 DEF daemonVars
<1>9. CASE m.type \in {"SET", "DELETE"} /\ quaggaConfig(m.type = "SET", p) /\ stream' = Rest(m, p) \o Tail(stream)
  <2>1. m \in Changes /\ m.paths \in (SUBSET Nodes) \ {{}}
    BY <1>1, <1>9 DEF Messages, Marks, Changes
  <2>2. p \in m.paths
    BY <2>1, FirstIn
  <2> HIDE DEF p
  <2> DEFINE One(c) == IF m.type = "SET" THEN quaggaConfigStateSet(c, p) ELSE quaggaConfigStateDelete(c, p)
             r == [m EXCEPT !.paths = @ \ {p}]
  <2>3. /\ validating' = validating
        /\ validating => candidate' = One(candidate) /\ running' = running
        /\ ~validating => running' = One(running) /\ candidate' = candidate
    BY <1>9 DEF quaggaConfig, quaggaConfigStateUpdate
  <2>4. \A c : /\ m.paths \ {p} = {} => One(c) = After(m, c)
               /\ m.paths \ {p} # {} => After(r, One(c)) = After(m, c)
    BY <2>1, <2>2, CommandsShare
  <2> HIDE DEF One
  <2>5. \A n : n.type \in {"SET", "DELETE"} =>
            \A a, b : /\ Effect(n, Daemon(a, b, "candidate")) = Daemon(a, After(n, b), "candidate")
                      /\ Effect(n, Daemon(a, b, "running")) = Daemon(After(n, a), b, "running")
    BY SMT DEF Effect, Daemon
  <2>6. CASE m.paths \ {p} = {}
    <3>1. Effect(m, Now) = Now'
      <4>1. CASE validating
        <5>1. Now = Daemon(running, candidate, "candidate") /\ Now' = Daemon(running, One(candidate), "candidate")
          BY <1>4, <2>3, <4>1
        <5> QED BY SMT, <1>9, <2>4, <2>5, <2>6, <5>1
      <4>2. CASE ~validating
        <5>1. Now = Daemon(running, candidate, "running") /\ Now' = Daemon(One(running), candidate, "running")
          BY <1>4, <2>3, <4>2
        <5> QED BY SMT, <1>9, <2>4, <2>5, <2>6, <5>1
      <4> QED BY <4>1, <4>2
    <3>2. stream' = Tail(stream)
      <4>1. Rest(m, p) = <<>>
        BY <2>6 DEF Rest
      <4> QED BY SMT, <4>1, <1>1, <1>9
    <3> QED BY <1>1, <1>2, <2>3, <3>1, <3>2
  <2>7. CASE m.paths \ {p} # {}
    <3>1. r \in Messages /\ r.type = m.type
      BY <2>1, <2>7 DEF Messages, Changes
    <3>2. Rest(m, p) = <<r>> /\ <<r>> \in Seq(Messages)
      <4>1. Rest(m, p) = <<r>>
        BY <2>7 DEF Rest
      <4> HIDE DEF r
      <4> QED BY SMT, <3>1, <4>1
    <3> HIDE DEF r
    <3>3. Effect(r, Now') = Effect(m, Now)
      <4>1. CASE validating
        <5>1. Now = Daemon(running, candidate, "candidate") /\ Now' = Daemon(running, One(candidate), "candidate")
          BY <1>4, <2>3, <4>1
        <5> QED BY SMT, <1>9, <2>4, <2>5, <2>7, <3>1, <5>1
      <4>2. CASE ~validating
        <5>1. Now = Daemon(running, candidate, "running") /\ Now' = Daemon(One(running), candidate, "running")
          BY <1>4, <2>3, <4>2
        <5> QED BY SMT, <1>9, <2>4, <2>5, <2>7, <3>1, <5>1
      <4> QED BY <4>1, <4>2
    <3>4. Leads(<<r>>, Now', Effect(m, Now))
      BY <3>3, LeadsOne
    <3>5. stream' = <<r>> \o Tail(stream)
      BY <1>9, <3>2
    <3>6. Leads(stream, Now, z) => Leads(stream', Now', z)
      BY <1>1, <1>2, <3>2, <3>4, <3>5, LeadsThen
    <3>7. stream' \in Seq(Messages)
      BY SMT, <1>1, <3>2, <3>5
    <3> QED BY <2>3, <3>6, <3>7
  <2> QED BY <2>6, <2>7
<1> QED BY <1>3, <1>5, <1>6, <1>7, <1>8, <1>9

\* Only the end of a validation is answered, and it goes with the answer.
LEMMA EndsLeft ==
    ASSUME stream \in Seq(Messages), grpcLoop
    PROVE  /\ Head(stream).type # "VALIDATE_END" =>
                  /\ replies' = replies
                  /\ NoEnd(stream) => NoEnd(stream')
                  /\ EndLast(stream) => EndLast(stream')
           /\ Head(stream).type = "VALIDATE_END" =>
                  /\ ~NoEnd(stream) /\ ValidateEnd
                  /\ EndLast(stream) => stream' = <<>>
<1> DEFINE m == Head(stream)
           p == First(m.paths)
<1>1. stream # <<>> /\ m \in Messages /\ Tail(stream) \in Seq(Messages)
  BY SMT DEF grpcLoop
<1>2. \/ m.type = "VALIDATE_START" /\ ValidateStart /\ stream' = Tail(stream)
      \/ m.type = "VALIDATE_END" /\ ValidateEnd /\ stream' = Tail(stream)
      \/ m.type = "COMMIT_START" /\ CommitStart /\ stream' = Tail(stream)
      \/ m.type = "COMMIT_END" /\ UNCHANGED <<daemonVars, replies>> /\ stream' = Tail(stream)
      \/ m.type \in {"SET", "DELETE"} /\ quaggaConfig(m.type = "SET", p) /\ stream' = Rest(m, p) \o Tail(stream)
  BY DEF grpcLoop
<1>3. /\ NoEnd(stream) => NoEnd(Tail(stream)) /\ m.type # "VALIDATE_END"
      /\ EndLast(stream) /\ m.type # "VALIDATE_END" => EndLast(Tail(stream))
      /\ EndLast(stream) /\ m.type = "VALIDATE_END" => Tail(stream) = <<>>
  BY <1>1, EndsHandled
<1> HIDE DEF m
<1>4. ASSUME m.type # "VALIDATE_END" PROVE replies' = replies
  BY <1>2, <1>4 DEF ValidateStart, CommitStart, quaggaConfig
<1>5. CASE stream' = Tail(stream) /\ m.type \notin {"SET", "DELETE"}
  BY <1>2, <1>3, <1>4, <1>5 DEF m
<1>6. CASE m.type \in {"SET", "DELETE"} /\ stream' = Rest(m, p) \o Tail(stream)
  <2>1. m \in Changes /\ m.paths \in (SUBSET Nodes) \ {{}}
    BY <1>1, <1>6 DEF Messages, Marks, Changes
  <2>2. p \in m.paths
    BY <2>1, FirstIn
  <2> HIDE DEF p
  <2>3. Rest(m, p) \in Seq(Messages) /\ NoEnd(Rest(m, p))
    <3> DEFINE r == [m EXCEPT !.paths = @ \ {p}]
    <3>1. m.paths \ {p} # {} => r \in Messages /\ r.type # "VALIDATE_END"
      BY <1>6, <2>1 DEF Messages, Changes
    <3>2. Rest(m, p) = IF m.paths \ {p} = {} THEN <<>> ELSE <<r>>
      BY DEF Rest
    <3> HIDE DEF r
    <3>3. <<>> \in Seq(Messages) /\ NoEnd(<<>>)
      BY SMT DEF NoEnd
    <3>4. m.paths \ {p} # {} => <<r>> \in Seq(Messages) /\ NoEnd(<<r>>)
      BY SMT, <3>1 DEF NoEnd
    <3> QED BY <3>2, <3>3, <3>4
  <2>4. /\ NoEnd(Tail(stream)) => NoEnd(stream')
        /\ EndLast(Tail(stream)) => EndLast(stream')
    BY <1>1, <1>6, <2>3, EndsAppended
  <2>5. m.type # "VALIDATE_END"
    BY <1>6
  <2> QED BY <1>3, <1>4, <2>4, <2>5 DEF m
<1> QED BY <1>2, <1>5, <1>6

-----------------------------------------------------------------------------
(* The steps *)

\* quaggad handles a message.
LEMMA LoopStep == MirrorInv /\ grpcLoop => MirrorInv'
<1> SUFFICES ASSUME MirrorInv, grpcLoop PROVE MirrorInv'
  OBVIOUS
<1>0. UNCHANGED <<active, target, awaiting, missed, late, connected>> /\ stream # <<>>
  BY DEF grpcLoop, serverVars
<1>1. MirrorTypeOK /\ connected
  BY <1>0 DEF MirrorInv, MirrorTypeOK
<1>2. stream' \in Seq(Messages) /\ validating' \in BOOLEAN
  BY <1>1, StillLeads DEF MirrorTypeOK
<1>3. replies' \in Seq(BOOLEAN)
  <2>1. CASE Head(stream).type # "VALIDATE_END"
    BY <1>1, <2>1, EndsLeft DEF MirrorTypeOK
  <2>2. CASE Head(stream).type = "VALIDATE_END"
    <3>1. replies' = Append(replies, quaggaConfigValid(candidate)) /\ replies \in Seq(BOOLEAN)
      BY <1>1, <2>2, EndsLeft DEF MirrorTypeOK, ValidateEnd
    <3>2. quaggaConfigValid(candidate) \in BOOLEAN
      BY DEF quaggaConfigValid
    <3> QED BY SMT, <3>1, <3>2
  <2> QED BY <2>1, <2>2
<1>4. MirrorTypeOK'
  BY <1>0, <1>1, <1>2, <1>3 DEF MirrorTypeOK
<1>5. ASSUME ~missed PROVE Arrives'
  <2>1. PICK c : Leads(stream, Now, Daemon(active, c, "running")) /\ (~late => Answer(stream, replies, c))
    BY <1>5 DEF MirrorInv, Arrives
  <2>2. Leads(stream', Now', Daemon(active, c, "running"))
    BY <1>1, <2>1, StillLeads DEF MirrorTypeOK
  <2>3. ASSUME ~late PROVE Answer(stream, replies, c)'
    <3>1. CASE Head(stream).type # "VALIDATE_END"
      BY <1>0, <1>1, <2>1, <2>3, <3>1, EndsLeft DEF Answer, MirrorTypeOK
    <3>2. CASE Head(stream).type = "VALIDATE_END"
      <4>1. ~NoEnd(stream) /\ ValidateEnd /\ (EndLast(stream) => stream' = <<>>)
        BY <1>1, <3>2, EndsLeft DEF MirrorTypeOK
      <4>2. awaiting # "no" /\ EndLast(stream) /\ replies = <<>> /\ c = target
        BY <1>1, <2>1, <2>3, <4>1 DEF Answer
      <4>3. Now' = Daemon(active, c, "running")
        BY SMT, <2>2, <4>1, <4>2, LeadsNone
      <4>4. candidate' = c
        BY <4>3 DEF Now, Daemon
      <4>5. replies' = <<quaggaConfigValid(target)>>
        <5>1. replies' = Append(<<>>, quaggaConfigValid(candidate)) /\ candidate = target
          BY <4>1, <4>2, <4>4 DEF ValidateEnd
        <5> QED BY SMT, <5>1
      <4>6. NoEnd(stream')
        BY SMT, <4>1, <4>2 DEF NoEnd
      <4> QED BY <1>0, <4>2, <4>5, <4>6 DEF Answer
    <3> QED BY <3>1, <3>2
  <2> QED BY <1>0, <2>2, <2>3 DEF Arrives
<1>6. ActiveValid'
  BY <1>0 DEF MirrorInv, ActiveValid
<1> QED BY <1>0, <1>1, <1>4, <1>5, <1>6 DEF MirrorInv

\* What is sent after a stream continues from where it leads.
LEMMA SentAfter ==
    ASSUME MirrorTypeOK, NEW r \in Seq(Messages), NEW y, NEW z,
           Leads(stream, Now, y), Leads(r, y, z)
    PROVE  Leads(stream \o r, Now, z)
BY LeadsThen DEF MirrorTypeOK

\* Commit(c), with a validation or without
LEMMA CommitStep ==
    ASSUME MirrorInv, NEW c \in Configs, Commit(c)
    PROVE  MirrorInv'
<1>1. MirrorTypeOK /\ c \in Trees /\ active \in Trees
  BY DEF MirrorInv, MirrorTypeOK, Trees
<1>2. awaiting = "no" /\ UNCHANGED <<late, running, candidate, validating, connected, replies>> /\ Now' = Now
  BY DEF Commit, daemonVars, Now
<1>3. CASE connected /\ TwoPhase
  <2>1. /\ awaiting' = "commit" /\ target' = c /\ UNCHANGED <<active, missed>>
        /\ stream' = stream \o Validation(active, c)
    BY <1>3 DEF Commit
  <2>2. Validation(active, c) \in Seq(Messages) /\ stream' \in Seq(Messages)
    <3>1. Validation(active, c) \in Seq(Messages)
      BY <1>1, ValidationLeads
    <3> QED BY SMT, <1>1, <2>1, <3>1 DEF MirrorTypeOK
  <2>3. MirrorTypeOK'
    BY <1>1, <1>2, <2>1, <2>2 DEF MirrorTypeOK
  <2>4. ASSUME ~missed PROVE Arrives'
    <3>1. PICK d : Leads(stream, Now, Daemon(active, d, "running")) /\ (~late => Answer(stream, replies, d))
      BY <2>4 DEF MirrorInv, Arrives
    <3>2. Leads(Validation(active, c), Daemon(active, d, "running"), Daemon(active, c, "running"))
      <4>1. Made(active, c, active) = c
        BY <1>1, CommandsMake
      <4> QED BY <1>1, ValidationLeads, <4>1
    <3>3. Leads(stream', Now', Daemon(active, c, "running"))
      BY <1>1, <1>2, <2>1, <2>2, <3>1, <3>2, SentAfter
    <3>4. ASSUME ~late PROVE Answer(stream, replies, c)'
      <4>1. NoEnd(stream) /\ replies = <<>>
        BY <1>2, <3>1, <3>4 DEF Answer
      <4>2. EndLast(stream')
        BY <1>1, <2>1, <2>2, <4>1, EndsSent, EndsAppended DEF MirrorTypeOK
      <4> QED BY <1>2, <2>1, <4>1, <4>2 DEF Answer
    <3> QED BY <1>2, <2>1, <3>3, <3>4 DEF Arrives
  <2>5. ActiveValid'
    BY <1>2, <2>1 DEF MirrorInv, ActiveValid
  <2> QED BY <1>2, <1>3, <2>1, <2>3, <2>4, <2>5 DEF MirrorInv
<1>4. CASE ~(connected /\ TwoPhase)
  <2>1. /\ active' = c /\ UNCHANGED <<target, awaiting>> /\ Missing(~connected)
        /\ connected => stream' = stream \o Commitment(active, c)
        /\ ~connected => stream' = stream
    BY <1>4 DEF Commit
  <2>2. Commitment(active, c) \in Seq(Messages) /\ stream' \in Seq(Messages)
    <3>1. Commitment(active, c) \in Seq(Messages) /\ stream \in Seq(Messages)
      BY <1>1, CommitmentLeads DEF MirrorTypeOK
    <3>2. stream \o Commitment(active, c) \in Seq(Messages)
      BY SMT, <3>1
    <3> QED BY <2>1, <3>1, <3>2
  <2>3. MirrorTypeOK'
    BY <1>1, <1>2, <2>1, <2>2 DEF MirrorTypeOK
  <2>4. ASSUME ~missed' PROVE ~missed /\ connected
    BY <2>1, <2>4 DEF Missing
  <2>5. ASSUME ~missed' PROVE Arrives'
    <3>1. PICK d : Leads(stream, Now, Daemon(active, d, "running")) /\ (~late => Answer(stream, replies, d))
      BY <2>4, <2>5 DEF MirrorInv, Arrives
    <3>2. Leads(Commitment(active, c), Daemon(active, d, "running"), Daemon(c, d, "running"))
      <4>1. Made(active, c, active) = c
        BY <1>1, CommandsMake
      <4> QED BY <1>1, CommitmentLeads, <4>1
    <3>3. Leads(stream', Now', Daemon(c, d, "running"))
      BY <1>1, <1>2, <2>1, <2>2, <2>4, <2>5, <3>1, <3>2, SentAfter
    <3>4. ASSUME ~late PROVE Answer(stream, replies, d)'
      <4>1. NoEnd(stream) /\ replies = <<>>
        BY <1>2, <3>1, <3>4 DEF Answer
      <4>2. NoEnd(stream')
        BY <1>1, <2>1, <2>2, <2>4, <2>5, <4>1, EndsSent, EndsAppended DEF MirrorTypeOK
      <4> QED BY <1>2, <2>1, <4>1, <4>2 DEF Answer
    <3> QED BY <1>2, <2>1, <3>3, <3>4 DEF Arrives
  <2>6. ActiveValid'
    BY <1>4, <2>4 DEF ActiveValid
  <2>7. ~connected' => stream' = <<>> /\ replies' = <<>>
    BY <1>2, <2>1 DEF MirrorInv
  <2> QED BY <1>2, <2>1, <2>3, <2>5, <2>6, <2>7 DEF MirrorInv
<1> QED BY <1>3, <1>4

\* The result of a validation arrives, of this one or, late, of an earlier one.
LEMMA ValidatedStep ==
    ASSUME MirrorInv, Validated
    PROVE  MirrorInv'
<1>1. MirrorTypeOK /\ target \in Trees /\ active \in Trees /\ Base \in Trees
  BY DEF MirrorInv, MirrorTypeOK, Trees, Base
<1>2. /\ awaiting # "no" /\ replies # <<>> /\ replies' = Tail(replies)
      /\ awaiting' = "no" /\ target' = {}
      /\ UNCHANGED <<late, running, candidate, validating, connected>> /\ Now' = Now
  BY DEF Validated, daemonVars, Now
<1>3. connected /\ Tail(replies) \in Seq(BOOLEAN) /\ {} \in Trees
  BY SMT, <1>1, <1>2 DEF MirrorInv, MirrorTypeOK, Trees
<1>4. ASSUME NEW d, ~late, Answer(stream, replies, d)
      PROVE  NoEnd(stream) /\ Tail(replies) = <<>> /\ Head(replies) = quaggaConfigValid(target)
  <2>1. NoEnd(stream) /\ replies = <<quaggaConfigValid(target)>>
    BY <1>2, <1>3, <1>4 DEF Answer
  <2> QED BY SMT, <2>1
<1>5. CASE Head(replies)
  <2>1. active' = target /\ stream' = stream \o Commitment(Base, target) /\ UNCHANGED missed
    BY <1>5 DEF Validated
  <2>2. Commitment(Base, target) \in Seq(Messages) /\ stream' \in Seq(Messages)
    <3>1. Commitment(Base, target) \in Seq(Messages)
      BY <1>1, CommitmentLeads
    <3> QED BY SMT, <1>1, <2>1, <3>1 DEF MirrorTypeOK
  <2>3. MirrorTypeOK'
    BY <1>1, <1>2, <1>3, <2>1, <2>2 DEF MirrorTypeOK
  <2>4. ASSUME ~missed PROVE Arrives'
    <3>1. PICK d : Leads(stream, Now, Daemon(active, d, "running")) /\ (~late => Answer(stream, replies, d))
      BY <2>4 DEF MirrorInv, Arrives
    <3>2. active = Base \/ (Base = {} /\ active = target)
      BY DEF Base, MirrorInv
    <3>3. Leads(Commitment(Base, target), Daemon(active, d, "running"), Daemon(target, d, "running"))
      <4>1. Made(Base, target, active) = target
        BY <1>1, <3>2, CommandsMake
      <4> QED BY <1>1, <3>2, CommitmentLeads, <4>1
    <3>4. Leads(stream', Now', Daemon(target, d, "running"))
      BY <1>1, <1>2, <2>1, <2>2, <3>1, <3>3, SentAfter
    <3>5. ASSUME ~late PROVE Answer(stream, replies, d)'
      <4>1. NoEnd(stream) /\ replies' = <<>>
        BY <1>2, <1>4, <3>1, <3>5
      <4>2. NoEnd(stream')
        BY <1>1, <2>1, <2>2, <4>1, EndsSent, EndsAppended DEF MirrorTypeOK
      <4> QED BY <1>2, <4>1, <4>2 DEF Answer
    <3> QED BY <1>2, <2>1, <3>4, <3>5 DEF Arrives
  <2>5. ASSUME ~missed, ~late PROVE quaggaConfigValid(target)
    <3>1. PICK d : Answer(stream, replies, d)
      BY <2>5 DEF MirrorInv, Arrives
    <3>2. Head(replies) = quaggaConfigValid(target)
      BY <1>4, <2>5, <3>1
    <3> QED BY <1>5, <3>2
  <2>6. ActiveValid'
    BY <1>2, <2>1, <2>5 DEF ActiveValid
  <2> QED BY <1>2, <1>3, <2>1, <2>3, <2>4, <2>6 DEF MirrorInv
<1>6. CASE ~Head(replies)
  <2>1. UNCHANGED <<active, stream>> /\ Missing(awaiting = "sync")
    BY <1>6 DEF Validated
  <2>2. MirrorTypeOK'
    BY <1>1, <1>2, <1>3, <2>1 DEF MirrorTypeOK
  <2>3. ASSUME ~missed' PROVE ~missed
    BY <2>1, <2>3 DEF Missing
  <2>4. ASSUME ~missed' PROVE Arrives'
    <3>1. PICK d : Leads(stream, Now, Daemon(active, d, "running")) /\ (~late => Answer(stream, replies, d))
      BY <2>3, <2>4 DEF MirrorInv, Arrives
    <3>2. ASSUME ~late PROVE Answer(stream, replies, d)'
      BY <1>2, <1>4, <2>1, <3>1, <3>2 DEF Answer
    <3>3. Leads(stream', Now', Daemon(active', d, "running"))
      BY <1>2, <2>1, <3>1
    <3> QED BY <1>2, <3>2, <3>3 DEF Arrives
  <2>5. ActiveValid'
    BY <1>2, <2>1, <2>3 DEF MirrorInv, ActiveValid
  <2> QED BY <1>2, <1>3, <2>2, <2>4, <2>5 DEF MirrorInv
<1> QED BY <1>5, <1>6

\* A validation is given up, or a result that nobody waits for is dropped.
LEMMA LateStep ==
    ASSUME MirrorInv, ValidateTimeout \/ ResultIgnored
    PROVE  MirrorInv'
<1>1. MirrorTypeOK
  BY DEF MirrorInv
<1>2. CASE ValidateTimeout
  <2>1. /\ awaiting' = "no" /\ target' = {} /\ late' = TRUE /\ Missing(awaiting = "sync")
        /\ UNCHANGED <<active, running, candidate, validating, connected, stream, replies>> /\ Now' = Now
    BY <1>2 DEF ValidateTimeout, daemonVars, Now
  <2>2. ASSUME ~missed' PROVE ~missed
    BY <2>1, <2>2 DEF Missing
  <2>3. MirrorTypeOK'
    BY <1>1, <2>1 DEF MirrorTypeOK, Trees
  <2>4. ASSUME ~missed' PROVE Arrives'
    <3>1. PICK d : Leads(stream, Now, Daemon(active, d, "running"))
      BY <2>2, <2>4 DEF MirrorInv, Arrives
    <3> QED BY <2>1, <3>1 DEF Arrives
  <2>5. ActiveValid'
    BY <2>1 DEF ActiveValid
  <2> QED BY <2>1, <2>3, <2>4, <2>5 DEF MirrorInv
<1>3. CASE ResultIgnored
  <2>1. /\ awaiting = "no" /\ replies # <<>> /\ replies' = Tail(replies)
        /\ UNCHANGED <<active, target, awaiting, missed, late, running, candidate, validating, connected, stream>>
        /\ Now' = Now
    BY <1>3 DEF ResultIgnored, serverVars, daemonVars, Now
  <2>2. MirrorTypeOK'
    BY SMT, <1>1, <2>1 DEF MirrorTypeOK
  <2>3. ASSUME ~missed PROVE Arrives'
    <3>1. PICK d : Leads(stream, Now, Daemon(active, d, "running")) /\ (~late => Answer(stream, replies, d))
      BY <2>3 DEF MirrorInv, Arrives
    <3>2. late
      BY <2>1, <3>1 DEF Answer
    <3> QED BY <2>1, <3>1, <3>2 DEF Arrives
  <2>4. connected
    BY <2>1 DEF MirrorInv
  <2>5. ActiveValid'
    BY <2>1 DEF MirrorInv, ActiveValid
  <2> QED BY <2>1, <2>2, <2>3, <2>4, <2>5 DEF MirrorInv
<1> QED BY <1>2, <1>3

\* The connection is lost, with what is on its way.
LEMMA DisconnectStep ==
    ASSUME MirrorInv, Disconnect
    PROVE  MirrorInv'
<1>1. /\ connected' = FALSE /\ stream' = <<>> /\ replies' = <<>> /\ Missing(stream # <<>>)
      /\ UNCHANGED <<active, target, awaiting, late, running, candidate, validating>> /\ Now' = Now
  BY DEF Disconnect, daemonVars, Now
<1>2. ASSUME ~missed' PROVE ~missed /\ stream = <<>>
  BY <1>1, <1>2 DEF Missing
<1>3. MirrorTypeOK'
  <2>1. stream' \in Seq(Messages) /\ replies' \in Seq(BOOLEAN)
    BY SMT, <1>1
  <2>2. validating' \in BOOLEAN /\ connected' \in BOOLEAN
    BY <1>1 DEF MirrorInv, MirrorTypeOK
  <2> QED BY <1>1, <2>1, <2>2 DEF MirrorInv, MirrorTypeOK
<1>4. ASSUME ~missed' PROVE Arrives'
  <2>1. PICK d : Leads(stream, Now, Daemon(active, d, "running"))
    BY <1>2, <1>4 DEF MirrorInv, Arrives
  <2>2. Leads(stream', Now', Daemon(active', d, "running"))
    BY <1>1, <1>2, <1>4, <2>1
  <2>3. Answer(stream, replies, d)'
    BY SMT, <1>1 DEF Answer, NoEnd
  <2> QED BY <2>2, <2>3 DEF Arrives
<1>5. ActiveValid'
  BY <1>1, <1>2 DEF MirrorInv, ActiveValid
<1> QED BY <1>1, <1>3, <1>4, <1>5 DEF MirrorInv

\* quaggad, which still has its trees, is sent the whole configuration.
LEMMA SubscribeStep ==
    ASSUME MirrorInv, Subscribe
    PROVE  MirrorInv'
<1>1. /\ ~connected /\ awaiting = "no" /\ connected' = TRUE
      /\ UNCHANGED <<active, missed, late, running, candidate, validating, replies>> /\ Now' = Now
  BY DEF Subscribe, daemonVars, Now
<1>2. stream = <<>> /\ replies = <<>> /\ MirrorTypeOK /\ active \in Trees /\ {} \in Trees
  BY <1>1 DEF MirrorInv, MirrorTypeOK, Trees
<1>3. ASSUME ~missed PROVE \E d : Now = Daemon(active, d, "running")
  <2>1. PICK d : Leads(<<>>, Now, Daemon(active, d, "running"))
    BY <1>2, <1>3 DEF MirrorInv, Arrives
  <2> QED BY SMT, <2>1, LeadsNone
<1>4. ActiveValid'
  BY <1>1 DEF MirrorInv, ActiveValid
<1>5. CASE active = {}
  <2>1. UNCHANGED <<stream, target, awaiting>>
    BY <1>5 DEF Subscribe
  <2>2. MirrorTypeOK'
    BY <1>1, <1>2, <2>1 DEF MirrorTypeOK
  <2>3. ASSUME ~missed PROVE Arrives'
    <3>1. PICK d : Now = Daemon(active, d, "running")
      BY <1>3, <2>3
    <3>2. Leads(stream', Now', Daemon(active', d, "running"))
      BY <1>1, <1>2, <2>1, <3>1, LeadsNone
    <3>3. Answer(stream, replies, d)'
      BY SMT, <1>1, <1>2, <2>1 DEF Answer, NoEnd
    <3> QED BY <3>2, <3>3 DEF Arrives
  <2> QED BY <1>1, <1>4, <2>1, <2>2, <2>3 DEF MirrorInv
<1>6. CASE active # {} /\ TwoPhase
  <2>1. stream' = Validation({}, active) /\ target' = active /\ awaiting' = "sync"
    BY <1>6 DEF Subscribe
  <2>2. stream' \in Seq(Messages)
    BY <1>2, <2>1, ValidationLeads
  <2>3. MirrorTypeOK'
    BY <1>1, <1>2, <2>1, <2>2 DEF MirrorTypeOK
  <2>4. ASSUME ~missed PROVE Arrives'
    <3>1. PICK d : Now = Daemon(active, d, "running")
      BY <1>3, <2>4
    <3>2. Leads(stream', Now', Daemon(active', active, "running"))
      <4>1. Made({}, active, active) = active
        BY <1>1, <1>2, CommandsMake
      <4> QED BY <1>1, <1>2, <2>1, <3>1, ValidationLeads, <4>1
    <3>3. EndLast(stream')
      BY <1>2, <2>1, EndsSent
    <3>4. Answer(stream, replies, active)'
      BY <1>1, <1>2, <2>1, <3>3 DEF Answer
    <3> QED BY <1>1, <3>2, <3>4 DEF Arrives
  <2> QED BY <1>1, <1>4, <2>1, <2>3, <2>4 DEF MirrorInv
<1>7. CASE active # {} /\ ~TwoPhase
  <2>1. stream' = Commitment({}, active) /\ UNCHANGED <<target, awaiting>>
    BY <1>7 DEF Subscribe
  <2>2. stream' \in Seq(Messages)
    BY <1>2, <2>1, CommitmentLeads
  <2>3. MirrorTypeOK'
    BY <1>1, <1>2, <2>1, <2>2 DEF MirrorTypeOK
  <2>4. ASSUME ~missed PROVE Arrives'
    <3>1. PICK d : Now = Daemon(active, d, "running")
      BY <1>3, <2>4
    <3>2. Leads(stream', Now', Daemon(active', d, "running"))
      <4>1. Made({}, active, active) = active
        BY <1>1, <1>2, CommandsMake
      <4> QED BY <1>1, <1>2, <2>1, <3>1, CommitmentLeads, <4>1
    <3>3. NoEnd(stream')
      BY <1>2, <2>1, EndsSent
    <3>4. Answer(stream, replies, d)'
      BY <1>1, <1>2, <2>1, <3>3 DEF Answer
    <3> QED BY <3>2, <3>4 DEF Arrives
  <2> QED BY <1>1, <1>4, <2>1, <2>3, <2>4 DEF MirrorInv
<1> QED BY <1>5, <1>6, <1>7

\* At first there is nothing to send, and nothing is a valid configuration.
LEMMA MirrorInit == Init => MirrorInv
<1> SUFFICES ASSUME Init PROVE MirrorInv
  OBVIOUS
<1>1. MirrorTypeOK
  <2>1. stream \in Seq(Messages) /\ replies \in Seq(BOOLEAN)
    BY SMT DEF Init
  <2>2. validating \in BOOLEAN /\ connected \in BOOLEAN
    BY DEF Init
  <2> QED BY <2>1, <2>2 DEF Init, MirrorTypeOK, Trees
<1>2. Arrives
  <2>1. Leads(stream, Now, Daemon(active, {}, "running"))
    BY LeadsNone DEF Init, Now
  <2>2. Answer(stream, replies, {})
    BY SMT DEF Init, Answer, NoEnd
  <2> QED BY <2>1, <2>2 DEF Arrives
<1>3. ActiveValid
  BY DEF Init, ActiveValid, quaggaConfigValid
<1> QED BY <1>1, <1>2, <1>3 DEF Init, MirrorInv

\* Every step keeps it.
LEMMA MirrorInductive == MirrorInv /\ [Next]_vars => MirrorInv'
<1> SUFFICES ASSUME MirrorInv, [Next]_vars PROVE MirrorInv'
  OBVIOUS
<1>1. CASE UNCHANGED vars
  <2>1. /\ UNCHANGED <<running, candidate, validating, active, target, awaiting, missed, late>>
        /\ UNCHANGED <<connected, stream, replies>> /\ Now' = Now
    BY <1>1 DEF vars, serverVars, daemonVars, Now
  <2>2. ASSUME Arrives PROVE Arrives'
    <3>1. PICK d : Leads(stream, Now, Daemon(active, d, "running")) /\ (~late => Answer(stream, replies, d))
      BY <2>2 DEF Arrives
    <3>2. Answer(stream, replies, d) => Answer(stream, replies, d)'
      BY <2>1 DEF Answer
    <3> QED BY <2>1, <3>1, <3>2 DEF Arrives
  <2>3. MirrorTypeOK' /\ ActiveValid'
    BY <2>1 DEF MirrorInv, MirrorTypeOK, ActiveValid
  <2> QED BY <2>1, <2>2, <2>3 DEF MirrorInv
<1>2. CASE grpcLoop
  BY <1>2, LoopStep
<1>3. CASE \E c \in Configs : Commit(c)
  BY <1>3, CommitStep
<1>4. CASE Validated
  BY <1>4, ValidatedStep
<1>5. CASE ValidateTimeout \/ ResultIgnored
  BY <1>5, LateStep
<1>6. CASE Disconnect
  BY <1>6, DisconnectStep
<1>7. CASE Subscribe
  BY <1>7, SubscribeStep
<1> QED BY <1>1, <1>2, <1>3, <1>4, <1>5, <1>6, <1>7 DEF Next

-----------------------------------------------------------------------------
(* What a reconnection repairs *)

\* Without two-phase commit there are no validations.
Plain == {m \in Messages : m.type # "VALIDATE_START"}

\* Where the stream leads: back to the running tree whenever a commit may be
\* sent next, which then has all of the active configuration unless some of it
\* was missed for good.
Reaches(tree, cand, for) ==
    /\ Leads(stream, Now, Daemon(tree, cand, for))
    /\ ~TwoPhase \/ (connected /\ awaiting # "no") => for = "running"
    /\ ~unsynced => active \subseteq tree

CoverInv ==
    /\ MirrorInv
    /\ ~TwoPhase => ~validating /\ stream \in Seq(Plain)
    /\ \E tree, cand, for : Reaches(tree, cand, for)

\* A commit has no validation.
LEMMA CommitmentPlain ==
    ASSUME NEW old \in Trees, NEW new \in Trees
    PROVE  Commitment(old, new) \in Seq(Plain)
<1> DEFINE a == Message("COMMIT_START", {})
           b == Message("COMMIT_END", {})
           d == Batch("DELETE", old \ new)
           s == Batch("SET", new \ old)
<1>1. a \in Plain /\ b \in Plain
  BY SMT DEF Message, Messages, Marks, Plain
<1>2. ASSUME NEW type \in {"SET", "DELETE"}, NEW paths \in SUBSET Nodes
      PROVE  Batch(type, paths) \in Seq(Plain)
  <2> DEFINE m == Message(type, paths)
  <2>1. paths # {} => m \in Plain
    BY SMT DEF Message, Messages, Changes, Plain
  <2>2. Batch(type, paths) = IF paths = {} THEN <<>> ELSE <<m>>
    BY DEF Batch
  <2> HIDE DEF m
  <2> QED BY SMT, <2>1, <2>2
<1>3. old \ new \in SUBSET Nodes /\ new \ old \in SUBSET Nodes
  BY TreesClosed
<1>4. d \in Seq(Plain) /\ s \in Seq(Plain)
  BY <1>2, <1>3
<1>5. Commitment(old, new) = <<a>> \o (d \o s) \o <<b>>
  BY DEF Commitment, Commands
<1> HIDE DEF a, b, d, s
<1> QED BY SMT, <1>1, <1>4, <1>5

\* Without validations quaggad keeps to the running tree.
LEMMA PlainLeft ==
    ASSUME ~validating, stream \in Seq(Plain), grpcLoop
    PROVE  ~validating' /\ stream' \in Seq(Plain)
<1> DEFINE m == Head(stream)
           p == First(m.paths)
<1>1. stream # <<>> /\ m \in Plain /\ Tail(stream) \in Seq(Plain)
  BY SMT DEF grpcLoop
<1>2. \/ m.type = "VALIDATE_START"
      \/ m.type = "VALIDATE_END" /\ ValidateEnd /\ stream' = Tail(stream)
      \/ m.type = "COMMIT_START" /\ CommitStart /\ stream' = Tail(stream)
      \/ m.type = "COMMIT_END" /\ UNCHANGED <<daemonVars, replies>> /\ stream' = Tail(stream)
      \/ m.type \in {"SET", "DELETE"} /\ quaggaConfig(m.type = "SET", p) /\ stream' = Rest(m, p) \o Tail(stream)
  BY DEF grpcLoop
<1> HIDE DEF m
<1>3. m.type # "VALIDATE_START"
  BY <1>1 DEF Plain
<1>4. ~validating'
  BY <1>2, <1>3 DEF ValidateEnd, CommitStart, quaggaConfig, daemonVars
<1>5. ASSUME m.type \in {"SET", "DELETE"} PROVE Rest(m, p) \in Seq(Plain)
  <2> DEFINE r == [m EXCEPT !.paths = @ \ {p}]
  <2>1. m \in Changes
    BY <1>1, <1>5 DEF Plain, Messages, Marks, Changes
  <2>2. m.paths \ {p} # {} => r \in Plain
    BY <1>5, <2>1 DEF Plain, Messages, Changes
  <2>3. Rest(m, p) = IF m.paths \ {p} = {} THEN <<>> ELSE <<r>>
    BY DEF Rest
  <2> HIDE DEF r
  <2> QED BY SMT, <2>2, <2>3
<1>6. stream' = Tail(stream) \/ (m.type \in {"SET", "DELETE"} /\ stream' = Rest(m, p) \o Tail(stream))
  BY <1>2, <1>3
<1> HIDE DEF p
<1>7. stream' \in Seq(Plain)
  <2>1. CASE stream' = Tail(stream)
    BY <1>1, <2>1
  <2>2. CASE m.type \in {"SET", "DELETE"} /\ stream' = Rest(m, p) \o Tail(stream)
    <3>1. Rest(m, p) \in Seq(Plain) /\ Tail(stream) \in Seq(Plain)
      BY <1>1, <1>5, <2>2
    <3> DEFINE r == Rest(m, p)
    <3> HIDE DEF r
    <3>2. r \o Tail(stream) \in Seq(Plain)
      BY SMT, <3>1 DEF r
    <3> QED BY <2>2, <3>2 DEF r
  <2> QED BY <1>6, <2>1, <2>2
<1> QED BY <1>4, <1>7

\* quaggad handles a message.
LEMMA CoverLoop == CoverInv /\ grpcLoop => CoverInv'
<1> SUFFICES ASSUME CoverInv, grpcLoop PROVE CoverInv'
  OBVIOUS
<1>1. MirrorInv' /\ MirrorTypeOK
  BY LoopStep DEF CoverInv, MirrorInv
<1>2. UNCHANGED <<active, awaiting, unsynced, connected>>
  BY DEF grpcLoop, serverVars
<1>3. ~TwoPhase => ~validating' /\ stream' \in Seq(Plain)
  BY PlainLeft DEF CoverInv
<1>4. PICK tree, cand, for : Reaches(tree, cand, for)
  BY DEF CoverInv
<1>5. Leads(stream', Now', Daemon(tree, cand, for))
  BY <1>1, <1>4, StillLeads DEF MirrorTypeOK, Reaches
<1>6. Reaches(tree, cand, for)'
  BY <1>2, <1>4, <1>5 DEF Reaches
<1> QED BY <1>1, <1>3, <1>6 DEF CoverInv

\* Commit(c), with a validation or without
LEMMA CoverCommit ==
    ASSUME CoverInv, NEW c \in Configs, Commit(c)
    PROVE  CoverInv'
<1>1. MirrorInv' /\ MirrorTypeOK /\ c \in Trees /\ active \in Trees
  BY CommitStep DEF CoverInv, MirrorInv, MirrorTypeOK, Trees
<1>2. UNCHANGED <<validating, connected>> /\ Now' = Now
  BY DEF Commit, daemonVars, Now
<1>3. PICK tree, cand, for : Reaches(tree, cand, for)
  BY DEF CoverInv
<1>4. CASE connected /\ TwoPhase
  <2>1. stream' = stream \o Validation(active, c) /\ UNCHANGED <<active, unsynced>>
    BY <1>4 DEF Commit
  <2> DEFINE v == Validation(active, c)
  <2>0. PICK made : made = Made(active, c, tree)
    OBVIOUS
  <2>2. v \in Seq(Messages) /\ Leads(v, Daemon(tree, cand, for), Daemon(tree, made, "running"))
    BY <1>1, <2>0, ValidationLeads
  <2>3. Leads(stream', Now', Daemon(tree, made, "running"))
    BY <1>1, <1>2, <1>3, <2>1, <2>2, SentAfter DEF Reaches
  <2>4. Reaches(tree, made, "running")'
    BY <1>3, <2>1, <2>3 DEF Reaches
  <2> QED BY <1>1, <1>4, <2>4 DEF CoverInv
<1>5. CASE connected /\ ~TwoPhase
  <2>1. active' = c /\ stream' = stream \o Commitment(active, c) /\ (unsynced => unsynced')
    BY <1>5 DEF Commit, Missing
  <2> DEFINE v == Commitment(active, c)
  <2>0. PICK made : made = Made(active, c, tree)
    OBVIOUS
  <2>10. for = "running"
    BY <1>3, <1>5 DEF Reaches
  <2>2. v \in Seq(Messages) /\ Leads(v, Daemon(tree, cand, for), Daemon(made, cand, for))
    BY <1>1, <2>0, <2>10, CommitmentLeads
  <2>3. ~unsynced' => active' \subseteq made
    BY <1>1, <1>3, <2>0, <2>1, CommandsCover DEF Reaches
  <2>4. v \in Seq(Plain)
    BY <1>1, CommitmentPlain
  <2>5. Leads(stream', Now', Daemon(made, cand, for))
    BY <1>1, <1>2, <1>3, <2>1, <2>2, SentAfter DEF Reaches
  <2>6. Reaches(made, cand, for)'
    BY <2>3, <2>5, <2>10 DEF Reaches
  <2>7. stream \in Seq(Plain) /\ ~validating'
    BY <1>2, <1>5 DEF CoverInv
  <2> HIDE DEF v
  <2>8. stream' = stream \o v
    BY <2>1 DEF v
  <2>9. stream' \in Seq(Plain)
    BY SMT, <2>4, <2>7, <2>8
  <2> QED BY <1>1, <2>6, <2>7, <2>9 DEF CoverInv
<1>6. CASE ~connected
  <2>1. stream' = stream /\ unsynced'
    BY <1>6 DEF Commit, Missing
  <2>2. Reaches(tree, cand, for)'
    BY <1>2, <1>3, <1>6, <2>1 DEF Reaches
  <2> QED BY <1>1, <1>2, <2>1, <2>2 DEF CoverInv
<1> QED BY <1>4, <1>5, <1>6

\* The result arrives in time.
LEMMA CoverValidated ==
    ASSUME CoverInv, Validated
    PROVE  CoverInv'
<1>1. MirrorInv' /\ MirrorTypeOK /\ target \in Trees /\ active \in Trees /\ {} \in Trees
  BY ValidatedStep DEF CoverInv, MirrorInv, MirrorTypeOK, Trees
<1>2. UNCHANGED <<validating, connected>> /\ Now' = Now /\ awaiting # "no" /\ awaiting' = "no"
  BY DEF Validated, daemonVars, Now
<1>3. PICK tree, cand, for : Reaches(tree, cand, for)
  BY DEF CoverInv
<1>4. connected /\ for = "running"
  <2>1. connected
    BY DEF Validated, CoverInv, MirrorInv, MirrorTypeOK
  <2> QED BY <1>2, <1>3, <2>1 DEF Reaches
<1>5. CASE Head(replies)
  <2>1. /\ active' = target /\ stream' = stream \o Commitment(Base, target)
        /\ unsynced' = (unsynced /\ awaiting # "sync")
    BY <1>5 DEF Validated
  <2> DEFINE v == Commitment(Base, target)
  <2>0. PICK made : made = Made(Base, target, tree)
    OBVIOUS
  <2>2. Base \in Trees /\ (~unsynced' => Base \subseteq tree)
    BY <1>1, <1>3, <2>1 DEF Base, Reaches
  <2>3. v \in Seq(Messages) /\ Leads(v, Daemon(tree, cand, for), Daemon(made, cand, for))
    BY <1>1, <1>4, <2>0, <2>2, CommitmentLeads
  <2>4. ~unsynced' => active' \subseteq made
    BY <1>1, <2>0, <2>1, <2>2, CommandsCover
  <2>5. v \in Seq(Plain)
    BY <1>1, <2>2, CommitmentPlain
  <2>6. Leads(stream', Now', Daemon(made, cand, for))
    BY <1>1, <1>2, <1>3, <2>1, <2>3, SentAfter DEF Reaches
  <2>7. Reaches(made, cand, for)'
    BY <1>4, <2>4, <2>6 DEF Reaches
  <2>8. ~TwoPhase => stream \in Seq(Plain) /\ ~validating'
    BY <1>2 DEF CoverInv
  <2>9. stream' = stream \o v
    BY <2>1
  <2> HIDE DEF v
  <2>10. stream \in Seq(Plain) => stream' \in Seq(Plain)
    BY SMT, <2>5, <2>9
  <2> QED BY <1>1, <2>7, <2>8, <2>10 DEF CoverInv
<1>6. CASE ~Head(replies)
  <2>1. UNCHANGED <<active, stream>> /\ (unsynced => unsynced')
    BY <1>6 DEF Validated, Missing
  <2>2. Reaches(tree, cand, for)'
    BY <1>2, <1>3, <1>4, <2>1 DEF Reaches
  <2> QED BY <1>1, <1>2, <2>1, <2>2 DEF CoverInv
<1> QED BY <1>5, <1>6

\* The result arrives too late, or is not waited for.
LEMMA CoverLate ==
    ASSUME CoverInv, ValidateTimeout \/ ResultIgnored
    PROVE  CoverInv'
<1>1. MirrorInv'
  BY LateStep DEF CoverInv
<1>2. /\ UNCHANGED <<active, validating, connected, stream>> /\ Now' = Now /\ awaiting' = "no"
      /\ unsynced => unsynced'
  <2>1. CASE ValidateTimeout
    BY <2>1 DEF ValidateTimeout, Missing, daemonVars, Now
  <2>2. CASE ResultIgnored
    BY <2>2 DEF ResultIgnored, serverVars, daemonVars, Now
  <2> QED BY <2>1, <2>2
<1>3. PICK tree, cand, for : Reaches(tree, cand, for)
  BY DEF CoverInv
<1>4. Reaches(tree, cand, for)'
  BY <1>2, <1>3 DEF Reaches
<1> QED BY <1>1, <1>2, <1>4 DEF CoverInv

\* The stream is lost, and quaggad may be left in a validation.
LEMMA CoverDisconnect ==
    ASSUME CoverInv, Disconnect
    PROVE  CoverInv'
<1>1. MirrorInv'
  BY DisconnectStep DEF CoverInv
<1>2. /\ UNCHANGED <<active, validating, awaiting>> /\ Now' = Now
      /\ ~connected' /\ stream' = <<>>
      /\ unsynced' = (unsynced \/ stream # <<>>)
  BY DEF Disconnect, Missing, daemonVars, Now
<1> DEFINE for == IF validating THEN "candidate" ELSE "running"
<1>3. Now = Daemon(running, candidate, for)
  BY DEF Now
<1>4. ~TwoPhase => for = "running"
  BY DEF CoverInv
<1>5. ASSUME ~unsynced' PROVE active \subseteq running
  <2>1. stream = <<>> /\ ~unsynced
    BY <1>2, <1>5
  <2>2. PICK tree, cand, to : Reaches(tree, cand, to)
    BY DEF CoverInv
  <2>3. Now = Daemon(tree, cand, to) /\ active \subseteq tree
    BY <2>1, <2>2, LeadsNone DEF Reaches
  <2>4. running = tree
    BY <2>3 DEF Now, Daemon
  <2> QED BY <2>3, <2>4
<1> HIDE DEF for
<1>6. Leads(stream', Now', Daemon(running, candidate, for))
  BY <1>2, <1>3, LeadsNone
<1>7. Reaches(running, candidate, for)'
  <2>1. Daemon(running, candidate, for)' = Daemon(running, candidate, for)
    BY <1>2, <1>3 DEF Now, for
  <2>2. running' = running
    BY DEF Disconnect, daemonVars
  <2>3. ~TwoPhase => for' = "running"
    BY <1>2, <1>4 DEF for
  <2> QED BY <1>2, <1>5, <1>6, <2>1, <2>2, <2>3 DEF Reaches
<1>8. <<>> \in Seq(Plain)
  BY SMT
<1> QED BY <1>1, <1>2, <1>7, <1>8 DEF CoverInv

\* The whole configuration is sent, which ends a validation that was cut off.
LEMMA CoverSubscribe ==
    ASSUME CoverInv, Subscribe
    PROVE  CoverInv'
<1>1. /\ MirrorInv' /\ MirrorTypeOK /\ active \in Trees /\ {} \in Trees
      /\ stream = <<>>
  BY SubscribeStep DEF CoverInv, MirrorInv, MirrorTypeOK, Trees, Subscribe
<1>2. UNCHANGED <<active, validating>> /\ Now' = Now /\ awaiting = "no"
  BY DEF Subscribe, daemonVars, Now
<1>3. PICK tree, cand, for : Reaches(tree, cand, for)
  BY DEF CoverInv
<1>4. Now = Daemon(tree, cand, for)
  BY <1>1, <1>3, LeadsNone DEF Reaches
<1>5. CASE active = {}
  <2>1. UNCHANGED <<stream, awaiting>>
    BY <1>5 DEF Subscribe
  <2>2. Reaches(tree, cand, for)'
    BY <1>2, <1>3, <1>5, <2>1 DEF Reaches
  <2> QED BY <1>1, <1>2, <2>1, <2>2 DEF CoverInv
<1>6. CASE active # {} /\ TwoPhase
  <2>1. stream' = Validation({}, active) /\ unsynced' = unsynced
    BY <1>6 DEF Subscribe
  <2>2. PICK made : made = Made({}, active, tree)
    OBVIOUS
  <2>3. Leads(stream', Now', Daemon(tree, made, "running"))
    <3>1. Leads(Validation({}, active), Daemon(tree, cand, for), Daemon(tree, made, "running"))
      BY <1>1, <2>2, ValidationLeads
    <3> QED BY <1>2, <1>4, <2>1, <3>1
  <2>4. Reaches(tree, made, "running")'
    BY <1>2, <1>3, <2>1, <2>3 DEF Reaches
  <2> QED BY <1>1, <1>6, <2>4 DEF CoverInv
<1>7. CASE active # {} /\ ~TwoPhase
  <2>1. stream' = Commitment({}, active) /\ for = "running"
    BY <1>3, <1>7 DEF Subscribe, Reaches
  <2>2. PICK made : made = Made({}, active, tree)
    OBVIOUS
  <2>3. Leads(stream', Now', Daemon(made, cand, "running"))
    <3>1. Leads(Commitment({}, active), Daemon(tree, cand, "running"), Daemon(made, cand, "running"))
      BY <1>1, <2>2, CommitmentLeads
    <3> QED BY <1>2, <1>4, <2>1, <3>1
  <2>4. Reaches(made, cand, "running")'
    BY <1>1, <1>2, <2>2, <2>3, CommandsCover DEF Reaches
  <2>5. stream' \in Seq(Plain) /\ ~validating'
    BY <1>1, <1>2, <1>7, <2>1, CommitmentPlain DEF CoverInv
  <2> QED BY <1>1, <2>4, <2>5 DEF CoverInv
<1> QED BY <1>5, <1>6, <1>7

\* At first quaggad has the empty configuration.
LEMMA CoverInit == Init => CoverInv
<1> SUFFICES ASSUME Init PROVE CoverInv
  OBVIOUS
<1>1. stream = <<>> /\ active = {} /\ ~validating
  BY DEF Init
<1>2. Leads(stream, Now, Daemon(running, candidate, "running"))
  BY <1>1, LeadsNone DEF Now
<1>3. Reaches(running, candidate, "running")
  BY <1>1, <1>2 DEF Reaches
<1>4. <<>> \in Seq(Plain)
  BY SMT
<1> QED BY <1>1, <1>3, <1>4, MirrorInit DEF CoverInv

\* Every step keeps it.
LEMMA CoverInductive == CoverInv /\ [Next]_vars => CoverInv'
<1> SUFFICES ASSUME CoverInv, [Next]_vars PROVE CoverInv'
  OBVIOUS
<1>1. CASE UNCHANGED vars
  <2>1. UNCHANGED <<active, awaiting, unsynced, connected, stream, validating>> /\ Now' = Now
    BY <1>1 DEF vars, serverVars, daemonVars, Now
  <2>2. PICK tree, cand, for : Reaches(tree, cand, for)
    BY DEF CoverInv
  <2>3. Reaches(tree, cand, for)'
    BY <2>1, <2>2 DEF Reaches
  <2>4. MirrorInv'
    BY MirrorInductive DEF CoverInv
  <2> QED BY <2>1, <2>3, <2>4 DEF CoverInv
<1>2. CASE grpcLoop
  BY <1>2, CoverLoop
<1>3. CASE \E c \in Configs : Commit(c)
  BY <1>3, CoverCommit
<1>4. CASE Validated
  BY <1>4, CoverValidated
<1>5. CASE ValidateTimeout \/ ResultIgnored
  BY <1>5, CoverLate
<1>6. CASE Disconnect
  BY <1>6, CoverDisconnect
<1>7. CASE Subscribe
  BY <1>7, CoverSubscribe
<1> QED BY <1>1, <1>2, <1>3, <1>4, <1>5, <1>6, <1>7 DEF Next

-----------------------------------------------------------------------------

\* Mirror, for any configurations and any number of commits, timeouts and lost
\* connections: once quaggad has handled what SubPathRemote.Commit has sent it,
\* configRunning is openconfigd's active configuration.
THEOREM RunningMirrors == Spec => []Mirror
<1>1. MirrorInv => Mirror
  <2> SUFFICES ASSUME MirrorInv, Settled PROVE running = active
    BY DEF Mirror
  <2>1. PICK d : Leads(<<>>, Now, Daemon(active, d, "running"))
    BY DEF MirrorInv, Arrives, Settled
  <2>2. Now = Daemon(active, d, "running")
    BY <2>1, LeadsNone
  <2> QED BY <2>2 DEF Now, Daemon
<1> QED BY <1>1, MirrorInit, MirrorInductive, PTL DEF Spec

\* ActiveValid, for any configurations: unless a validation has timed out, what
\* Commit makes active while quaggad is connected has been found valid by
\* quaggaConfigValid, whatever the order of results, losses and reconnections.
THEOREM ActiveIsValid == Spec => []ActiveValid
<1>1. MirrorInv => ActiveValid
  BY DEF MirrorInv
<1> QED BY <1>1, MirrorInit, MirrorInductive, PTL DEF Spec

\* CaughtUp, for any configurations, with two-phase commits or without: once
\* quaggad has handled what SubscribeSync sends it after a reconnection, its
\* configRunning has all of the active configuration and keeps it through all
\* later commits, whatever it missed and wherever the connection was lost, in
\* the middle of a validation too.
THEOREM ReconnectionCatchesUp == Spec => []CaughtUp
<1>1. CoverInv => CaughtUp
  <2> SUFFICES ASSUME CoverInv, Resynced PROVE active \subseteq running
    BY DEF CaughtUp
  <2>1. PICK tree, cand, for : Reaches(tree, cand, for)
    BY DEF CoverInv
  <2>2. Now = Daemon(tree, cand, for) /\ active \subseteq tree
    BY <2>1, LeadsNone DEF Reaches, Resynced
  <2> QED BY <2>2 DEF Now, Daemon
<1> QED BY <1>1, CoverInit, CoverInductive, PTL DEF Spec

=============================================================================
