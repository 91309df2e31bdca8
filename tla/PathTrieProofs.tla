--------------------------- MODULE PathTrieProofs ---------------------------
(* What PathTrie guarantees for any finite sets of subscribers and paths. *)
EXTENDS PathTrie, FiniteSetTheorems, TLAPS

\* Zenon unless a leaf says otherwise: most need no arithmetic.
USE Zenon

IInv == TypeOK /\ RefcntExact /\ LiveAttached

\* A path is a node, and so is everything above it.
LEMMA PathNodes ==
    /\ PathSet \subseteq Nodes
    /\ \A p \in PathSet : Prefixes(p) \subseteq Nodes
BY PathsFinite DEF Nodes

\* There are finitely many subscriptions, so they can be counted.
LEMMA ThroughFinite ==
    ASSUME NEW n
    PROVE  IsFiniteSet(Through(n)) /\ Cardinality(Through(n)) \in Nat
<1>1. IsFiniteSet(Subs \X PathSet)
  BY SubsFinite, PathsFinite, FS_Product
<1>2. Through(n) \in SUBSET (Subs \X PathSet)
  BY DEF Through
<1> QED
  BY <1>1, <1>2, FS_Subset, FS_CardinalityType

\* A new subscription is one more through every node of its path.
LEMMA RegisterInv ==
    ASSUME IInv, NEW s \in Subs, NEW p \in PathSet, SubscribeRemoteAdd(s, p)
    PROVE  IInv'
<1>1. /\ p \notin sub[s]
      /\ sub' = [sub EXCEPT ![s] = sub[s] \cup {p}]
      /\ nodes' = nodes \cup Prefixes(p)
      /\ refcnt' = [n \in Nodes |-> IF n \in Prefixes(p) THEN refcnt[n] + 1 ELSE refcnt[n]]
      /\ at' = [at EXCEPT ![p] = at[p] \cup {s}]
      /\ alive' = alive \cup {s} /\ fresh' = fresh \ {s}
  BY DEF SubscribeRemoteAdd, RegisterPath
<1>2. TypeOK
  BY DEF IInv
<1>3. TypeOK'
  BY SMT, <1>1, <1>2, PathNodes DEF TypeOK
<1>4. ASSUME NEW n
      PROVE  Through(n)' = IF n \in Prefixes(p) THEN Through(n) \cup {<<s, p>>} ELSE Through(n)
  <2>1. \A x \in Subs \X PathSet :
           x[2] \in sub'[x[1]] <=> x[2] \in sub[x[1]] \/ x = <<s, p>>
    BY SMT, <1>1, <1>2 DEF TypeOK
  <2> QED
    BY SMT, <2>1 DEF Through
<1>5. ASSUME NEW n \in Nodes
      PROVE  refcnt'[n] = Cardinality(Through(n)')
  <2>1. refcnt[n] = Cardinality(Through(n))
    BY DEF IInv, RefcntExact
  <2>2. <<s, p>> \notin Through(n)
    BY <1>1 DEF Through
  <2>3. IsFiniteSet(Through(n))
    BY ThroughFinite
  <2>4. Cardinality(Through(n) \cup {<<s, p>>}) = Cardinality(Through(n)) + 1
    BY <2>2, <2>3, FS_AddElement
  <2> QED
    BY <1>1, <1>4, <2>1, <2>4
<1>6. nodes' = {n \in Nodes : Through(n)' # {}}
  <2>1. nodes = {n \in Nodes : Through(n) # {}}
    BY DEF IInv, RefcntExact
  <2> QED
    BY <1>1, <1>4, <2>1, PathNodes
<1>7. RefcntExact'
  BY <1>5, <1>6 DEF RefcntExact
<1>8. LiveAttached'
  <2> SUFFICES ASSUME NEW t \in Subs, NEW q \in sub'[t]
               PROVE  q \in nodes' /\ t \in at'[q]
    BY DEF LiveAttached
  <2>1. CASE t = s /\ q = p
    BY <1>1, <1>2, <2>1, PathNodes, PathsFinite DEF TypeOK
  <2>2. CASE q \in sub[t]
    <3>1. q \in nodes /\ t \in at[q]
      BY <2>2 DEF IInv, LiveAttached
    <3> QED
      BY <1>1, <1>2, <3>1 DEF TypeOK
  <2>3. q \in sub[t] \/ (t = s /\ q = p)
    BY <1>1, <1>2 DEF TypeOK
  <2> QED
    BY <2>1, <2>2, <2>3
<1> QED
  BY <1>3, <1>7, <1>8 DEF IInv

\* A subscriber that leaves takes its own subscriptions, and only those.
LEMMA DeleteInv ==
    ASSUME IInv, NEW s \in Subs, SubscribeDelete(s)
    PROVE  IInv'
<1> DEFINE left == [n \in Nodes |-> refcnt[n] - Cardinality(Uses(s, n))]
<1>1. /\ alive' = alive \ {s} /\ fresh' = fresh
      /\ sub' = [sub EXCEPT ![s] = {}]
      /\ refcnt' = left
      /\ nodes' = {n \in nodes : left[n] # 0}
      /\ at' = [n \in Nodes |-> IF left[n] # 0 THEN at[n] ELSE {}]
  BY DEF SubscribeDelete, UnregisterPath
<1>2. TypeOK
  BY DEF IInv
<1>3. ASSUME NEW n
      PROVE  /\ Uses(s, n) = Through(n) \cap Uses(s, n)
             /\ Through(n)' = Through(n) \ Uses(s, n)
  <2>1. sub[s] \subseteq PathSet
    BY <1>2 DEF TypeOK
  <2>2. Uses(s, n) \subseteq Through(n)
    BY <2>1 DEF Uses, Through
  <2>3. \A x \in Subs \X PathSet :
           x[2] \in sub'[x[1]] <=> x[2] \in sub[x[1]] /\ x[1] # s
    BY <1>1, <1>2 DEF TypeOK
  <2>4. \A x \in Subs \X PathSet :
           x \in Uses(s, n) <=> x[1] = s /\ x[2] \in sub[s] /\ n \in Prefixes(x[2])
    BY DEF Uses
  <2>5. Through(n)' = Through(n) \ Uses(s, n)
    BY <2>3, <2>4 DEF Through
  <2> QED
    BY <2>2, <2>5
<1>4. ASSUME NEW n \in Nodes
      PROVE  left[n] = Cardinality(Through(n)')
  <2>1. refcnt[n] = Cardinality(Through(n))
    BY DEF IInv, RefcntExact
  <2>2. IsFiniteSet(Through(n))
    BY ThroughFinite
  <2>3. Cardinality(Through(n) \ Uses(s, n))
        = Cardinality(Through(n)) - Cardinality(Through(n) \cap Uses(s, n))
    BY <2>2, FS_Difference
  <2> QED
    BY <1>3, <2>1, <2>3
<1>5. ASSUME NEW n \in Nodes
      PROVE  left[n] \in Nat /\ (left[n] # 0 <=> Through(n)' # {})
  <2>1. Through(n)' = Through(n) \ Uses(s, n)
    BY <1>3
  <2>2. IsFiniteSet(Through(n)')
    BY <2>1, ThroughFinite, FS_Difference
  <2> QED
    BY <1>4, <2>2, FS_CardinalityType, FS_EmptySet
<1> HIDE DEF left
<1>6. TypeOK'
  <2>1. refcnt' \in [Nodes -> Nat]
    BY <1>1, <1>5, <1>4 DEF left
  <2> QED
    BY <1>1, <1>2, <2>1 DEF TypeOK
<1>7. RefcntExact'
  <2>1. nodes = {n \in Nodes : Through(n) # {}}
    BY DEF IInv, RefcntExact
  <2>2. nodes' = {n \in Nodes : Through(n)' # {}}
    BY <1>1, <1>3, <1>5, <2>1
  <2> QED
    BY <1>1, <1>4, <2>2 DEF RefcntExact
<1>8. LiveAttached'
  <2> SUFFICES ASSUME NEW t \in Subs, NEW q \in sub'[t]
               PROVE  q \in nodes' /\ t \in at'[q]
    BY DEF LiveAttached
  <2>1. q \in sub[t] /\ q \in PathSet
    BY <1>1, <1>2 DEF TypeOK
  <2>2. q \in nodes /\ t \in at[q] /\ q \in Nodes
    BY <2>1, PathNodes DEF IInv, LiveAttached
  <2>3. <<t, q>> \in Through(q)'
    BY <2>1, PathsFinite DEF Through
  <2>4. left[q] # 0
    BY <1>5, <2>2, <2>3
  <2> QED
    BY <1>1, <2>2, <2>4
<1> QED
  BY <1>6, <1>7, <1>8 DEF IInv

\* The invariant holds of every reachable state.
LEMMA Invariance == Spec => []IInv
<1>1. ASSUME Init
      PROVE  IInv
  <2>1. TypeOK
    BY <1>1 DEF Init, TypeOK
  <2>2. \A n : Through(n) = {}
    BY <1>1 DEF Init, Through
  <2>3. RefcntExact
    BY <1>1, <2>2, FS_EmptySet DEF Init, RefcntExact
  <2>4. LiveAttached
    BY <1>1 DEF Init, LiveAttached
  <2> QED
    BY <2>1, <2>3, <2>4 DEF IInv
<1>2. ASSUME IInv, [Next]_vars
      PROVE  IInv'
  <2>1. CASE UNCHANGED vars
    BY <1>2, <2>1 DEF vars, IInv, TypeOK, RefcntExact, LiveAttached, Through
  <2>2. CASE Next
    BY <1>2, <2>2, RegisterInv, DeleteInv DEF Next
  <2> QED
    BY <1>2, <2>1, <2>2
<1> QED
  BY <1>1, <1>2, PTL DEF Spec

\* The state keeps its type; in particular no count goes below zero.
THEOREM TypeCorrect == Spec => []TypeOK
<1>1. IInv => TypeOK
  BY DEF IInv
<1> QED
  BY <1>1, Invariance, PTL

\* A node's reference count is the number of subscriptions through it, and a
\* node is in the tree exactly as long as that number is not zero.
THEOREM CountsExact == Spec => []RefcntExact
<1>1. IInv => RefcntExact
  BY DEF IInv
<1> QED
  BY <1>1, Invariance, PTL

\* No subscription of a connected module is ever detached.
THEOREM NeverDetached == Spec => []LiveAttached
<1>1. IInv => LiveAttached
  BY DEF IInv
<1> QED
  BY <1>1, Invariance, PTL

-----------------------------------------------------------------------------
(* The walk of PathRegisterCommand *)

INSTANCE SequenceTheorems

\* A set of depths that is not empty has a smallest one.
LEMMA Smallest ==
    ASSUME NEW T \in SUBSET Nat, T # {}
    PROVE  \E i \in T : \A j \in T : ~(j < i)
<1>1. IsWellFoundedOn(OpToRel(<, Nat), Nat)
  BY NatLessThanWellFounded
<1>2. \E x \in T : \A y \in T : ~(<<y, x>> \in OpToRel(<, Nat))
  BY <1>1, WFMin
<1> QED
  BY <1>2 DEF OpToRel

Word == STRING \cup {"*"}

\* Paths and commands are sequences of words, and the wildcard is one.
LEMMA WordSequences == "*" \in Word /\ PathSet \cup Commands \subseteq Seq(Word)
BY SMT, Words DEF Word

\* What is left of a prefix when it is cut again.
LEMMA CutPrefix ==
    ASSUME NEW p \in Seq(Word), NEW i \in 1 .. Len(p)
    PROVE  /\ SubSeq(p, 1, i) \in Seq(Word) /\ Len(SubSeq(p, 1, i)) = i
           /\ \A k \in 1 .. i : SubSeq(SubSeq(p, 1, i), 1, k) = SubSeq(p, 1, k)
BY SMT

\* And what a path that grew by a word holds.
LEMMA Grown ==
    ASSUME NEW m \in Seq(Word), NEW w \in Word
    PROVE  /\ Append(m, w) \in Seq(Word) /\ Len(Append(m, w)) = Len(m) + 1
           /\ Append(m, w)[Len(m) + 1] = w
           /\ \A i \in 1 .. Len(m) : Append(m, w)[i] = m[i]
           /\ \A i \in 1 .. Len(m) + 1 : SubSeq(Append(m, w), 1, i - 1) = SubSeq(m, 1, i - 1)
           /\ SubSeq(Append(m, w), 1, Len(m)) = m
<1> DEFINE n == Append(m, w)
<1>1. n \in Seq(Word) /\ Len(n) = Len(m) + 1 /\ n[Len(m) + 1] = w
  BY SMT, AppendProperties
<1>2. \A i \in 1 .. Len(m) : n[i] = m[i]
  BY SMT
<1>3. SubSeq(n, 1, Len(m)) = m
  BY SMT
<1> HIDE DEF n
<1>4. ASSUME NEW k \in 0 .. Len(m) PROVE SubSeq(n, 1, k) = SubSeq(m, 1, k)
  BY SMT, <1>1, <1>2
<1>5. ASSUME NEW i \in 1 .. Len(m) + 1 PROVE SubSeq(n, 1, i - 1) = SubSeq(m, 1, i - 1)
  <2>1. i - 1 \in 0 .. Len(m)
    BY SMT
  <2> QED
    BY <1>4, <2>1
<1> QED
  BY <1>1, <1>2, <1>3, <1>5 DEF n

\* A path is its parent and its last word.
LEMMA LastWord ==
    ASSUME NEW n \in Seq(Word), Len(n) >= 1
    PROVE  /\ n = Append(SubSeq(n, 1, Len(n) - 1), n[Len(n)])
           /\ SubSeq(n, 1, Len(n) - 1) \in Seq(Word) /\ n[Len(n)] \in Word
           /\ Len(SubSeq(n, 1, Len(n) - 1)) = Len(n) - 1
<1>1. n = Append(SubSeq(n, 1, Len(n) - 1), n[Len(n)])
  BY SMT
<1>2. /\ SubSeq(n, 1, Len(n) - 1) \in Seq(Word)
      /\ Len(SubSeq(n, 1, Len(n) - 1)) = IF 1 <= Len(n) - 1 THEN (Len(n) - 1) - 1 + 1 ELSE 0
  <2>1. Len(n) - 1 \in Int /\ \A i \in 1 .. Len(n) - 1 : n[i] \in Word
    BY SMT
  <2> QED
    BY SMT, <2>1, SubSeqProperties
<1>3. n[Len(n)] \in Word
  BY SMT
<1> QED
  BY SMT, <1>1, <1>2, <1>3

\* The tree is closed under prefixes, and only a node has subscriptions
\* through it.
LEMMA TreeNodes ==
    ASSUME IInv
    PROVE  /\ \A n \in nodes : n \in Seq(Word) /\ Len(n) \in Nat \ {0}
           /\ \A n \in nodes : \A k \in 1 .. Len(n) : SubSeq(n, 1, k) \in nodes
           /\ \A n : n \in nodes <=> Through(n) # {}
<1>1. ASSUME NEW n, Through(n) # {}
      PROVE  \E p \in PathSet : \E i \in 1 .. Len(p) : p \in Seq(Word) /\ n = SubSeq(p, 1, i)
  BY <1>1, WordSequences DEF Through, Prefixes
<1>2. \A n : n \in nodes <=> Through(n) # {}
  <2>1. nodes = {n \in Nodes : Through(n) # {}}
    BY DEF IInv, RefcntExact
  <2>2. \A n : Through(n) # {} => n \in Nodes
    BY DEF Through, Nodes
  <2> QED
    BY <2>1, <2>2
<1>3. ASSUME NEW n \in nodes
      PROVE  /\ n \in Seq(Word) /\ Len(n) \in Nat \ {0}
             /\ \A k \in 1 .. Len(n) : SubSeq(n, 1, k) \in nodes
  <2>1. PICK x \in Through(n) : TRUE
    BY <1>2
  <2>2. x[2] \in PathSet /\ x[2] \in Seq(Word) /\ n \in Prefixes(x[2])
    BY WordSequences DEF Through
  <2>3. PICK i \in 1 .. Len(x[2]) : n = SubSeq(x[2], 1, i)
    BY <2>2 DEF Prefixes
  <2>4. n \in Seq(Word) /\ Len(n) = i
    BY <2>2, <2>3, CutPrefix
  <2>5. ASSUME NEW k \in 1 .. Len(n)
        PROVE  SubSeq(n, 1, k) \in nodes
    <3>1. SubSeq(n, 1, k) = SubSeq(x[2], 1, k)
      BY <2>2, <2>3, <2>4, CutPrefix
    <3>2. SubSeq(n, 1, k) \in Prefixes(x[2])
      BY SMT, <2>4, <3>1 DEF Prefixes
    <3>3. x \in Through(SubSeq(n, 1, k))
      BY <3>2 DEF Through
    <3> QED
      BY <1>2, <3>3
  <2> QED
    BY SMT, <2>2, <2>4, <2>5
<1> QED
  BY <1>2, <1>3

\* The nodes that cover the first i words of a command
Layer(cmd, i) == IF i = 0 THEN {<< >>} ELSE {n \in nodes : Len(n) = i /\ Covers(n, cmd)}

\* From the covering nodes of one depth Step leads to those of the next: it
\* takes the wildcard exactly when the word has no node of its own.
LEMMA LayerStep ==
    ASSUME IInv, NEW cmd \in Seq(Word), NEW i \in 1 .. Len(cmd)
    PROVE  Layer(cmd, i) = UNION {Step(n, cmd[i]) : n \in Layer(cmd, i - 1)}
<1>1. cmd[i] \in Word /\ "*" \in Word /\ i - 1 \in Nat
  BY SMT, WordSequences
<1>2. ASSUME NEW m \in Layer(cmd, i - 1)
      PROVE  m \in Seq(Word) /\ Len(m) = i - 1
  <2>1. CASE i = 1
    BY SMT, <2>1, EmptySeq DEF Layer
  <2>2. CASE i # 1
    BY SMT, <2>2, TreeNodes DEF Layer
  <2> QED
    BY <2>1, <2>2
<1>3. ASSUME NEW n \in Layer(cmd, i)
      PROVE  \E m \in Layer(cmd, i - 1) : n \in Step(m, cmd[i])
  <2> DEFINE m == SubSeq(n, 1, i - 1)
  <2>1. n \in nodes /\ Len(n) = i /\ Covers(n, cmd) /\ n \in Seq(Word)
    BY SMT, TreeNodes DEF Layer
  <2>2. n = Append(m, n[i]) /\ m \in Seq(Word) /\ Len(m) = i - 1
    BY SMT, <2>1, LastWord
  <2>3. m \in Layer(cmd, i - 1)
    <3>1. CASE i = 1
      BY SMT, <2>2, <3>1 DEF Layer
    <3>2. CASE i # 1
      <4>1. m \in nodes
        BY SMT, <2>1, <3>2, TreeNodes
      <4>2. \A j \in 1 .. i - 1 : m[j] = n[j] /\ SubSeq(m, 1, j - 1) = SubSeq(n, 1, j - 1)
        BY SMT, <2>1, <2>2, Grown
      <4> HIDE DEF m
      <4>3. Len(m) <= Len(cmd)
        BY SMT, <2>2
      <4>4. ASSUME NEW j \in 1 .. Len(m)
            PROVE  \/ m[j] = cmd[j]
                   \/ m[j] = "*" /\ Through(Append(SubSeq(m, 1, j - 1), cmd[j])) = {}
        <5>1. j \in 1 .. Len(n) /\ j \in 1 .. i - 1
          BY SMT, <2>1, <2>2
        <5>2. \/ n[j] = cmd[j]
              \/ n[j] = "*" /\ Through(Append(SubSeq(n, 1, j - 1), cmd[j])) = {}
          BY <2>1, <5>1 DEF Covers
        <5>3. m[j] = n[j] /\ SubSeq(m, 1, j - 1) = SubSeq(n, 1, j - 1)
          BY <4>2, <5>1
        <5> QED
          BY <5>2, <5>3
      <4>5. Covers(m, cmd)
        BY <4>3, <4>4 DEF Covers
      <4> QED
        BY SMT, <2>2, <3>2, <4>1, <4>5 DEF Layer
    <3> QED
      BY <3>1, <3>2
  <2>4. n[i] = cmd[i] \/ (n[i] = "*" /\ Through(Append(m, cmd[i])) = {})
    <3>1. i \in 1 .. Len(n)
      BY SMT, <2>1
    <3> QED
      BY <2>1, <3>1 DEF Covers
  <2>5. n \in Step(m, cmd[i])
    BY <2>1, <2>2, <2>4, TreeNodes DEF Step
  <2> QED
    BY <2>3, <2>5
<1>4. ASSUME NEW m \in Layer(cmd, i - 1), NEW n \in Step(m, cmd[i])
      PROVE  n \in Layer(cmd, i)
  <2>1. PICK w \in Word :
            /\ n = Append(m, w) /\ n \in nodes
            /\ w = cmd[i] \/ (w = "*" /\ Append(m, cmd[i]) \notin nodes)
    BY <1>1 DEF Step
  <2>2. m \in Seq(Word) /\ Len(m) = i - 1
    BY <1>2
  <2>3. /\ n \in Seq(Word) /\ Len(n) = i /\ n[i] = w /\ SubSeq(n, 1, i - 1) = m
        /\ \A j \in 1 .. i - 1 : n[j] = m[j] /\ SubSeq(n, 1, j - 1) = SubSeq(m, 1, j - 1)
    BY SMT, <2>1, <2>2, Grown
  <2>4. n[i] = cmd[i] \/ (n[i] = "*" /\ Through(Append(SubSeq(n, 1, i - 1), cmd[i])) = {})
    BY <2>1, <2>3, TreeNodes
  <2>5. ASSUME NEW j \in 1 .. i - 1
        PROVE  \/ n[j] = cmd[j]
               \/ n[j] = "*" /\ Through(Append(SubSeq(n, 1, j - 1), cmd[j])) = {}
    <3>1. Covers(m, cmd)
      BY SMT DEF Layer
    <3> QED
      BY <2>2, <2>3, <3>1 DEF Covers
  <2>6. Covers(n, cmd)
    BY SMT, <2>3, <2>4, <2>5 DEF Covers
  <2> QED
    BY SMT, <2>1, <2>3, <2>6 DEF Layer
<1> QED
  BY <1>3, <1>4

\* The walk is at the covering node of each depth, if there is one.
LEMMA WalkIsCover ==
    ASSUME IInv, NEW cmd \in Seq(Word)
    PROVE  Visited(cmd) = {n \in nodes : Covers(n, cmd)}
<1> DEFINE D == 0 .. Len(cmd)
           Body(walk) == [i \in D |-> IF i = 0 THEN {<< >>}
                                      ELSE UNION {Step(n, cmd[i]) : n \in walk[i - 1]}]
           layers == [i \in D |-> Layer(cmd, i)]
<1>1. Walk(cmd) = CHOOSE walk : walk = Body(walk)
  BY DEF Walk
<1>2. layers = Body(layers)
  <2>1. \A i \in D : i # 0 => i \in 1 .. Len(cmd) /\ i - 1 \in D
    BY SMT
  <2>2. \A i \in D : i # 0 => Layer(cmd, i) = UNION {Step(n, cmd[i]) : n \in layers[i - 1]}
    BY <2>1, LayerStep
  <2>3. Layer(cmd, 0) = {<< >>}
    BY DEF Layer
  <2> QED
    BY <2>2, <2>3
<1>3. Walk(cmd) = Body(Walk(cmd))
  BY <1>1, <1>2
<1>4. \A i \in D : Walk(cmd)[i] = Layer(cmd, i)
  <2> DEFINE T == {i \in D : Walk(cmd)[i] # Layer(cmd, i)}
  <2> SUFFICES ASSUME T # {} PROVE FALSE
    OBVIOUS
  <2>0. T \in SUBSET Nat
    BY SMT
  <2> HIDE DEF T
  <2>1. PICK i \in T : \A j \in T : ~(j < i)
    BY <2>0, Smallest
  <2> USE DEF T
  <2>2. Walk(cmd)[i] = (IF i = 0 THEN {<< >>} ELSE UNION {Step(n, cmd[i]) : n \in Walk(cmd)[i - 1]})
    BY <1>3
  <2>3. i # 0
    BY <2>2 DEF Layer
  <2>4. i \in 1 .. Len(cmd) /\ i - 1 \in D /\ i - 1 \notin T
    BY SMT, <2>1, <2>3
  <2>5. Walk(cmd)[i - 1] = Layer(cmd, i - 1)
    BY <2>4
  <2> QED
    BY <2>2, <2>3, <2>4, <2>5, LayerStep
<1>5. \A i \in 1 .. Len(cmd) : Walk(cmd)[i] = {n \in nodes : Len(n) = i /\ Covers(n, cmd)}
  <2> TAKE i \in 1 .. Len(cmd)
  <2>1. i \in D /\ i # 0
    BY SMT
  <2>2. Walk(cmd)[i] = Layer(cmd, i)
    BY <1>4, <2>1
  <2> QED
    BY <2>1, <2>2 DEF Layer
<1>6. \A n \in nodes : Covers(n, cmd) => Len(n) \in 1 .. Len(cmd)
  BY SMT, TreeNodes DEF Covers
<1> QED
  BY SMT, <1>5, <1>6 DEF Visited

\* For every command and any subscriptions: where no SubPath of a module that
\* has left is met, PathRegisterCommand finds the owners of the longest
\* subscription that covers the command, a wildcard standing for the words that
\* no subscription names in its place.
THEOREM CommandsRouted == Spec => []RoutedByCover
<1>1. IInv => RoutedByCover
  <2> SUFFICES ASSUME IInv, NEW cmd \in Commands, \A n \in Visited(cmd) : at[n] = LiveAt(n)
               PROVE  PathRegisterCommand(cmd) = Entitled(cmd)
    BY DEF RoutedByCover
  <2> DEFINE X == {m \in Visited(cmd) : at[m] # {}}
             Y == {p \in PathSet : LiveAt(p) # {} /\ Covers(p, cmd)}
  <2>1. Visited(cmd) = {n \in nodes : Covers(n, cmd)}
    BY WalkIsCover, WordSequences
  <2>2. \A p : LiveAt(p) # {} => p \in PathSet /\ p \in nodes
    BY DEF LiveAt, IInv, TypeOK, LiveAttached
  <2>3. X = Y
    BY SMT, <2>1, <2>2
  <2>4. \A n \in Deepest(Y) : at[n] = LiveAt(n)
    BY <2>3 DEF Deepest
  <2>5. UNION {at[n] : n \in Deepest(Y)} = UNION {LiveAt(n) : n \in Deepest(Y)}
    BY <2>4
  <2> QED
    BY <2>3, <2>5 DEF PathRegisterCommand, Entitled
<1> QED
  BY <1>1, Invariance, PTL

=============================================================================
