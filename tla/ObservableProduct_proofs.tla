---------------------- MODULE ObservableProduct_proofs ----------------------
(***************************************************************************)
(* Proofs about transformToObservableFSM, intersect and the two called one *)
(* after the other, for all FSMs:                                          *)
(*                                                                         *)
(*   - the new nodes of the subset construction are distinct sets, and     *)
(*     their transitions go exactly where the sets go (SubsetConstruction); *)
(*   - a pair gets one node and is worked on once, and the transitions of  *)
(*     the product are exact (ProductConstruction);                        *)
(*   - a node's reach trace leads to its two states                        *)
(*     (ReachTraceLeadsToNode), and the verdict read off the product is    *)
(*     the one that the traces give (VerdictByTraces).                     *)
(*                                                                         *)
(* What Follow, a recursive function, yields for a word is proved by       *)
(* induction on the word's length, with the induction rule as a lemma      *)
(* about sets of numbers.                                                  *)
(***************************************************************************)
EXTENDS ObservableProduct, TLAPS, WellFoundedInduction

LEMMA SetInduction ==
  ASSUME NEW A, 0 \in A, \A n \in Nat : n \in A => n + 1 \in A
  PROVE  Nat \subseteq A
<1> DEFINE T == {n \in Nat : n \notin A}
<1> DEFINE R == {ss \in Nat \X Nat : ss[1] < ss[2]}
<1> SUFFICES ASSUME T # {} PROVE FALSE
  OBVIOUS
<1>1. IsWellFoundedOn(R, Nat)
  BY NatLessThanWellFounded DEF OpToRel
<1>2. \E x \in T : \A y \in T : ~(<<y, x>> \in R)
  <2>1. T \subseteq Nat
    OBVIOUS
  <2> HIDE DEF R, T
  <2> QED BY <1>1, <2>1, WFMin
<1>3. PICK x \in T : \A y \in T : ~(y < x)
  BY <1>2
<1>4. x \in Nat /\ x # 0 /\ x - 1 \in Nat
  BY <1>3
<1> QED BY <1>3, <1>4

(* the states after the first i labels of a word *)
StatesAfter(g, n, tr, S, word) ==
  g = [i \in 0 .. n |->
         IF i = 0 THEN S
         ELSE {t[3] : t \in {u \in tr : u[1] \in g[i - 1] /\ u[2] = word[i]}}]

Step(tr, S, l) == {t[3] : t \in {u \in tr : u[1] \in S /\ u[2] = l}}

LEMMA StatesAfterValues ==
  ASSUME NEW tr, NEW S, NEW word, NEW n \in Nat, NEW g, StatesAfter(g, n, tr, S, word)
  PROVE  g[0] = S /\ \A i \in 0 .. n - 1 : g[i + 1] = Step(tr, g[i], word[i + 1])
<1>1. g[0] = S
  BY DEF StatesAfter
<1>2. ASSUME NEW i \in 0 .. n - 1 PROVE g[i + 1] = Step(tr, g[i], word[i + 1])
  <2>1. i + 1 \in 0 .. n /\ i + 1 # 0 /\ (i + 1) - 1 = i
    OBVIOUS
  <2> QED BY <2>1 DEF StatesAfter, Step
<1> QED BY <1>1, <1>2

LEMMA StatesAfterExists ==
  ASSUME NEW tr, NEW S, NEW word, NEW n \in Nat
  PROVE  \E g : StatesAfter(g, n, tr, S, word)
<1> DEFINE A == {m \in Nat : \E g : StatesAfter(g, m, tr, S, word)}
<1>1. 0 \in A
  <2> DEFINE g == [i \in 0 .. 0 |-> S]
  <2>1. StatesAfter(g, 0, tr, S, word)
    BY DEF StatesAfter
  <2> QED BY <2>1
<1>2. ASSUME NEW m \in Nat, m \in A PROVE m + 1 \in A
  <2>1. PICK g : StatesAfter(g, m, tr, S, word)
    BY <1>2
  <2> DEFINE h == [i \in 0 .. m + 1 |-> IF i <= m THEN g[i] ELSE Step(tr, g[m], word[m + 1])]
  <2>2. \A i \in 0 .. m : g[i] = IF i = 0 THEN S ELSE Step(tr, g[i - 1], word[i])
    BY <2>1 DEF StatesAfter, Step
  <2>3. h = [i \in 0 .. m + 1 |-> IF i = 0 THEN S ELSE Step(tr, h[i - 1], word[i])]
    <3>1. ASSUME NEW i \in 0 .. m + 1 
          PROVE h[i] = IF i = 0 THEN S ELSE Step(tr, h[i - 1], word[i])
      <4>1. CASE i <= m
        BY <2>2, <4>1
      <4>2. CASE i = m + 1
        BY <4>2
      <4> QED BY <4>1, <4>2
    <3> HIDE DEF Step
    <3> QED BY <3>1
  <2>4. StatesAfter(h, m + 1, tr, S, word)
    <3> HIDE DEF h
    <3> QED BY <2>3 DEF StatesAfter, Step
  <2> QED BY <2>4
<1> HIDE DEF A
<1>3. n \in A
  BY <1>1, <1>2, SetInduction
<1> QED BY <1>3 DEF A

LEMMA StatesAfterAgree ==
  ASSUME NEW tr, NEW S, NEW w1, NEW w2, NEW n1 \in Nat, NEW n2 \in Nat, n1 <= n2,
         NEW g1, StatesAfter(g1, n1, tr, S, w1),
         NEW g2, StatesAfter(g2, n2, tr, S, w2),
         \A i \in 1 .. n1 : w1[i] = w2[i]
  PROVE  \A i \in 0 .. n1 : g1[i] = g2[i]
<1> DEFINE A == {m \in Nat : m <= n1 => g1[m] = g2[m]}
<1>1. 0 \in A
  BY StatesAfterValues
<1>2. ASSUME NEW m \in Nat, m \in A PROVE m + 1 \in A
  <2> SUFFICES ASSUME m + 1 <= n1 PROVE g1[m + 1] = g2[m + 1]
    OBVIOUS
  <2>1. g1[m] = g2[m] /\ w1[m + 1] = w2[m + 1]
    BY <1>2
  <2>2. \A i \in 0 .. n1 - 1 : g1[i + 1] = Step(tr, g1[i], w1[i + 1])
    BY StatesAfterValues
  <2>3. \A i \in 0 .. n2 - 1 : g2[i + 1] = Step(tr, g2[i], w2[i + 1])
    BY StatesAfterValues
  <2>4. m \in 0 .. n1 - 1 /\ m \in 0 .. n2 - 1
    OBVIOUS
  <2> QED BY <2>1, <2>2, <2>3, <2>4
<1> HIDE DEF A
<1>3. Nat \subseteq A
  BY <1>1, <1>2, SetInduction
<1> QED BY <1>3 DEF A

LEMMA FollowIsStatesAfter ==
  ASSUME NEW tr, NEW S, NEW word, Len(word) \in Nat,
         NEW g, StatesAfter(g, Len(word), tr, S, word)
  PROVE  Follow(tr, S, word) = g[Len(word)]
<1> DEFINE f == CHOOSE h : StatesAfter(h, Len(word), tr, S, word)
<1>1. StatesAfter(f, Len(word), tr, S, word)
  BY StatesAfterExists
<1>2. Follow(tr, S, word) = f[Len(word)]
  BY DEF Follow, StatesAfter
<1> HIDE DEF f
<1> QED BY <1>1, <1>2, StatesAfterAgree

LEMMA FollowEmpty ==
  ASSUME NEW tr, NEW S
  PROVE  Follow(tr, S, << >>) = S
<1>1. PICK g : StatesAfter(g, 0, tr, S, << >>)
  BY StatesAfterExists
<1>2. g[0] = S
  BY <1>1 DEF StatesAfter
<1> QED BY <1>1, <1>2, FollowIsStatesAfter

LEMMA FollowAppend ==
  ASSUME NEW tr, NEW S, NEW word \in Seq(Label), NEW l \in Label
  PROVE  Follow(tr, S, Append(word, l)) = Step(tr, Follow(tr, S, word), l)
<1> DEFINE long == Append(word, l)
           n == Len(word)
<1>1. n \in Nat /\ Len(long) = n + 1 /\ long[n + 1] = l /\ \A i \in 1 .. n : long[i] = word[i]
  OBVIOUS
<1>2. PICK g : StatesAfter(g, n, tr, S, word)
  BY StatesAfterExists, <1>1
<1>3. PICK h : StatesAfter(h, n + 1, tr, S, long)
  <2>1. n + 1 \in Nat
    BY <1>1
  <2> HIDE DEF n, long
  <2> QED BY <2>1, StatesAfterExists
<1> HIDE DEF long, n
<1>4. Follow(tr, S, long) = h[n + 1] /\ Follow(tr, S, word) = g[n]
  BY <1>1, <1>2, <1>3, FollowIsStatesAfter DEF n
<1>5. h[n + 1] = Step(tr, h[n], l)
  <2> DEFINE m == n + 1
  <2>1. m \in Nat /\ n \in 0 .. m - 1
    BY <1>1
  <2>2. StatesAfter(h, m, tr, S, long)
    BY <1>3
  <2> HIDE DEF m
  <2>3. \A i \in 0 .. m - 1 : h[i + 1] = Step(tr, h[i], long[i + 1])
    BY <2>1, <2>2, StatesAfterValues
  <2> QED BY <1>1, <2>1, <2>3
<1>6. g[n] = h[n]
  <2>1. n \in Nat /\ n + 1 \in Nat /\ n <= n + 1 /\ n \in 0 .. n
    BY <1>1
  <2>2. \A i \in 1 .. n : word[i] = long[i]
    BY <1>1
  <2> QED BY <1>2, <1>3, <2>1, <2>2, StatesAfterAgree
<1> QED BY <1>4, <1>5, <1>6 DEF long

-----------------------------------------------------------------------------
(* transformToObservableFSM. *)

(***************************************************************************)
(* The work list holds the nodes that have not been taken from it, in the  *)
(* order of their numbers.  A node that was taken has its transitions; the *)
(* one being processed has them for the labels before the k-th.            *)
(***************************************************************************)
Taken == Len(nodeLabel) - Len(bfsLst)

ObsTypes ==
  /\ nodeLabel \in Seq(SUBSET State)
  /\ bfsLst \in Seq(Nat)
  /\ q \in Nat
  /\ k \in Nat \ {0}
  /\ obsTrans \subseteq ObsNode \X Label \X ObsNode

WorkList ==
  /\ Taken \in Nat
  /\ \A i \in 1 .. Len(bfsLst) : bfsLst[i] = Taken + i
  /\ q = 0 \/ q = Taken

ObsSound ==
  \A t \in obsTrans :
    nodeLabel[t[3]] = Post(nodeLabel[t[1]], t[2]) /\ nodeLabel[t[3]] # {}

(* the i-th label has been looked at for node p *)
Seen(p, i) == p < Taken \/ (p = Taken /\ (q = 0 \/ i < k))

ObsComplete ==
  \A p \in ObsNode, i \in 1 .. Len(LabelSeq) :
    Seen(p, i) /\ Post(nodeLabel[p], LabelSeq[i]) # {} =>
      \E u \in ObsNode : <<p, LabelSeq[i], u>> \in obsTrans

ObsInv == ObsTypes /\ WorkList /\ OneNodePerSet /\ ObsSound /\ ObsComplete

-----------------------------------------------------------------------------
(* The sets that label nodes are sets of states. *)
LEMMA PostIsSet ==
  ASSUME NEW S, NEW l
  PROVE  Post(S, l) \in SUBSET State
BY DEF Post

LEMMA ObsInitInv == ObsInit => ObsInv
<1> SUFFICES ASSUME ObsInit PROVE ObsInv
  OBVIOUS
<1>1. fsm.init \in State
  BY FsmsAssumption DEF ObsInit, FsmRecord
<1>2. nodeLabel \in Seq(SUBSET State) /\ Len(nodeLabel) = 1
  BY <1>1 DEF ObsInit
<1>3. bfsLst \in Seq(Nat) /\ Len(bfsLst) = 1 /\ bfsLst[1] = 1
  BY DEF ObsInit
<1>4. ObsNode = {1}
  BY <1>2 DEF ObsNode
<1>5. ObsTypes
  BY <1>2, <1>3 DEF ObsInit, ObsTypes
<1>6. WorkList
  BY <1>2, <1>3 DEF ObsInit, WorkList, Taken
<1>7. OneNodePerSet
  BY <1>4 DEF OneNodePerSet
<1>8. ObsSound
  BY DEF ObsInit, ObsSound
<1>9. ObsComplete
  <2>1. \A p \in ObsNode, i \in 1 .. Len(LabelSeq) : ~Seen(p, i)
    BY <1>2, <1>3, <1>4 DEF Seen, Taken
  <2> QED BY <2>1 DEF ObsComplete
<1> QED BY <1>5, <1>6, <1>7, <1>8, <1>9 DEF ObsInv

LEMMA LabelSeqFacts ==
  /\ Len(LabelSeq) \in Nat
  /\ \A i \in 1 .. Len(LabelSeq) : LabelSeq[i] \in Label
BY LabelSeqAssumption

LEMMA PopNodeInv == ObsInv /\ PopNode => ObsInv'
<1> SUFFICES ASSUME ObsInv, PopNode PROVE ObsInv'
  OBVIOUS
<1> USE DEF ObsInv
<1>1. /\ bfsLst' \in Seq(Nat) /\ Len(bfsLst') = Len(bfsLst) - 1
      /\ \A i \in 1 .. Len(bfsLst') : bfsLst'[i] = bfsLst[i + 1]
      /\ Len(bfsLst) \in Nat /\ Len(bfsLst) > 0
      /\ q' = bfsLst[1]
  BY DEF ObsTypes, PopNode
<1>2. UNCHANGED <<fsm, nodeLabel, obsTrans, ObsNode>> /\ Len(nodeLabel) \in Nat
  BY DEF PopNode, ObsTypes, ObsNode
<1>3. Taken' = Taken + 1
  BY <1>1, <1>2 DEF Taken
<1>4. ObsTypes'
  BY <1>1, <1>2 DEF ObsTypes, PopNode
<1>5. WorkList'
  BY <1>1, <1>3 DEF WorkList
<1>6. OneNodePerSet' /\ ObsSound'
  BY <1>2 DEF OneNodePerSet, ObsSound, Post
<1>7. ObsComplete'
  <2> SUFFICES ASSUME NEW p \in ObsNode, NEW i \in 1 .. Len(LabelSeq), Seen(p, i)'
               PROVE  Seen(p, i)
    BY <1>2 DEF ObsComplete, Post
  <2> QED BY <1>1, <1>3 DEF Seen, PopNode, WorkList, ObsNode
<1> QED BY <1>4, <1>5, <1>6, <1>7

(* what the three actions for a label have in common *)
LEMMA AtLabelFacts ==
  ASSUME ObsInv, AtLabel
  PROVE  /\ q = Taken /\ q \in ObsNode
         /\ k \in 1 .. Len(LabelSeq) /\ LabelSeq[k] \in Label
         /\ nodeLabel[q] \in SUBSET State
         /\ theNodeLabel \in SUBSET State
<1>1. q = Taken /\ q \in ObsNode
  BY DEF ObsInv, AtLabel, WorkList, ObsTypes, Taken, ObsNode
<1>2. k \in 1 .. Len(LabelSeq)
  BY LabelSeqFacts DEF ObsInv, AtLabel, ObsTypes
<1> QED BY <1>1, <1>2, LabelSeqFacts, PostIsSet DEF ObsInv, ObsTypes, ObsNode, theNodeLabel

LEMMA NoTransitionInv == ObsInv /\ NoTransition => ObsInv'
<1> SUFFICES ASSUME ObsInv, NoTransition PROVE ObsInv'
  OBVIOUS
<1>1. UNCHANGED <<fsm, nodeLabel, bfsLst, q, obsTrans, ObsNode, Taken>> /\ k' = k + 1
  BY DEF NoTransition, ObsNode, Taken
<1>2. ObsTypes' /\ WorkList'
  BY <1>1 DEF ObsInv, ObsTypes, WorkList
<1>3. OneNodePerSet' /\ ObsSound'
  BY <1>1 DEF ObsInv, OneNodePerSet, ObsSound, Post
<1>4. ObsComplete'
  <2> SUFFICES ASSUME NEW p \in ObsNode, NEW i \in 1 .. Len(LabelSeq), Seen(p, i)',
                      Post(nodeLabel[p], LabelSeq[i]) # {}
               PROVE  Seen(p, i)
    BY <1>1 DEF ObsComplete, Post, ObsInv
  <2>1. CASE p = q /\ i = k
    BY <2>1 DEF NoTransition, theNodeLabel
  <2>2. CASE ~(p = q /\ i = k)
    BY <1>1, <2>2, AtLabelFacts DEF NoTransition, Seen, ObsInv, ObsTypes
  <2> QED BY <2>1, <2>2
<1> QED BY <1>2, <1>3, <1>4 DEF ObsInv

LEMMA ToKnownNodeInv == ObsInv /\ ToKnownNode => ObsInv'
<1> SUFFICES ASSUME ObsInv, ToKnownNode PROVE ObsInv'
  OBVIOUS
<1>1. UNCHANGED <<fsm, nodeLabel, bfsLst, q, ObsNode, Taken>> /\ k' = k + 1
  BY DEF ToKnownNode, ObsNode, Taken
<1>2. PICK u \in ObsNode : /\ nodeLabel[u] = theNodeLabel
                           /\ obsTrans' = obsTrans \cup {<<q, LabelSeq[k], u>>}
  BY DEF ToKnownNode
<1>3. ObsTypes' /\ WorkList' /\ OneNodePerSet'
  BY <1>1, <1>2, AtLabelFacts DEF ToKnownNode, ObsInv, ObsTypes, WorkList, OneNodePerSet
<1>4. ObsSound'
  <2> SUFFICES ASSUME NEW t \in obsTrans'
               PROVE  nodeLabel[t[3]] = Post(nodeLabel[t[1]], t[2]) /\ nodeLabel[t[3]] # {}
    BY <1>1 DEF ObsSound, Post
  <2>1. CASE t \in obsTrans
    BY <2>1 DEF ObsInv, ObsSound
  <2>2. CASE t = <<q, LabelSeq[k], u>>
    BY <1>2, <2>2 DEF ToKnownNode, theNodeLabel
  <2> QED BY <1>2, <2>1, <2>2
<1>5. ObsComplete'
  <2> SUFFICES ASSUME NEW p \in ObsNode, NEW i \in 1 .. Len(LabelSeq), Seen(p, i)',
                      Post(nodeLabel[p], LabelSeq[i]) # {}
               PROVE  \E v \in ObsNode : <<p, LabelSeq[i], v>> \in obsTrans'
    BY <1>1 DEF ObsComplete, Post, ObsInv
  <2>1. CASE p = q /\ i = k
    BY <1>2, <2>1
  <2>2. CASE ~(p = q /\ i = k)
    <3>1. Seen(p, i)
      BY <1>1, <2>2, AtLabelFacts DEF ToKnownNode, Seen, ObsInv, ObsTypes
    <3> QED BY <1>2, <3>1 DEF ObsComplete, ObsInv
  <2> QED BY <2>1, <2>2
<1> QED BY <1>3, <1>4, <1>5 DEF ObsInv

LEMMA ToNewNodeInv == ObsInv /\ ToNewNode => ObsInv'
<1> SUFFICES ASSUME ObsInv, ToNewNode PROVE ObsInv'
  OBVIOUS
<1> DEFINE new == Len(nodeLabel) + 1
<1>1. UNCHANGED <<fsm, q>> /\ k' = k + 1 /\ AtLabel /\ theNodeLabel # {}
  BY DEF ToNewNode
<1>2. Len(nodeLabel) \in Nat /\ Len(bfsLst) \in Nat
  BY DEF ObsInv, ObsTypes
<1>3. /\ nodeLabel' \in Seq(SUBSET State) /\ Len(nodeLabel') = new
      /\ nodeLabel'[new] = theNodeLabel
      /\ \A p \in ObsNode : nodeLabel'[p] = nodeLabel[p]
  BY <1>1, AtLabelFacts DEF ToNewNode, ObsInv, ObsTypes, ObsNode
<1>4. /\ bfsLst' \in Seq(Nat) /\ Len(bfsLst') = Len(bfsLst) + 1
      /\ bfsLst'[Len(bfsLst) + 1] = new
      /\ \A i \in 1 .. Len(bfsLst) : bfsLst'[i] = bfsLst[i]
  BY <1>2 DEF ToNewNode, ObsInv, ObsTypes
<1>5. /\ Taken' = Taken
      /\ ObsNode' = ObsNode \cup {new} /\ new \notin ObsNode
  BY <1>2, <1>3, <1>4 DEF Taken, ObsNode
<1>6. obsTrans' = obsTrans \cup {<<q, LabelSeq[k], new>>}
  BY DEF ToNewNode
<1> HIDE DEF new
<1>7. ObsTypes'
  BY <1>1, <1>3, <1>4, <1>5, <1>6, AtLabelFacts DEF ObsInv, ObsTypes
<1>8. WorkList'
  <2>1. Taken + (Len(bfsLst) + 1) = new
    BY <1>2 DEF Taken, new
  <2>2. \A i \in 1 .. Len(bfsLst') : bfsLst'[i] = Taken + i
    BY <1>2, <1>4, <2>1 DEF ObsInv, WorkList
  <2> QED BY <1>1, <1>5, <2>2 DEF ObsInv, WorkList
<1>9. OneNodePerSet'
  <2>1. \A p \in ObsNode : nodeLabel[p] # theNodeLabel
    BY DEF ToNewNode
  <2> QED BY <1>3, <1>5, <2>1 DEF ObsInv, OneNodePerSet
<1>10. ObsSound'
  <2> SUFFICES ASSUME NEW t \in obsTrans'
               PROVE  /\ nodeLabel'[t[3]] = Post(nodeLabel'[t[1]], t[2])
                      /\ nodeLabel'[t[3]] # {}
    BY <1>1 DEF ObsSound, Post
  <2>1. CASE t \in obsTrans
    BY <1>3, <2>1 DEF ObsInv, ObsSound, ObsTypes
  <2>2. CASE t = <<q, LabelSeq[k], new>>
    BY <1>1, <1>3, <2>2, AtLabelFacts DEF theNodeLabel
  <2> QED BY <1>6, <2>1, <2>2
<1>11. ObsComplete'
  <2> SUFFICES ASSUME NEW p \in ObsNode', NEW i \in 1 .. Len(LabelSeq), Seen(p, i)',
                      Post(nodeLabel'[p], LabelSeq[i]) # {}
               PROVE  \E v \in ObsNode' : <<p, LabelSeq[i], v>> \in obsTrans'
    BY <1>1 DEF ObsComplete, Post
  <2>1. p \in ObsNode
    <3>1. p <= Taken
      BY <1>2, <1>5 DEF Seen, ObsNode, Taken
    <3> QED BY <1>2, <1>5, <3>1 DEF ObsNode, Taken, new
  <2>2. CASE p = q /\ i = k
    BY <1>5, <1>6, <2>2
  <2>3. CASE ~(p = q /\ i = k)
    <3>1. Seen(p, i)
      BY <1>1, <1>5, <2>3, AtLabelFacts DEF Seen, ObsInv, ObsTypes
    <3> QED BY <1>3, <1>5, <1>6, <2>1, <3>1 DEF ObsComplete, ObsInv
  <2> QED BY <2>2, <2>3
<1> QED BY <1>7, <1>8, <1>9, <1>10, <1>11 DEF ObsInv

LEMMA NodeDoneInv == ObsInv /\ NodeDone => ObsInv'
<1> SUFFICES ASSUME ObsInv, NodeDone PROVE ObsInv'
  OBVIOUS
<1>1. UNCHANGED <<fsm, nodeLabel, bfsLst, k, obsTrans, ObsNode, Taken>> /\ q' = 0
  BY DEF NodeDone, ObsNode, Taken
<1>2. ObsTypes' /\ WorkList'
  BY <1>1 DEF ObsInv, ObsTypes, WorkList
<1>3. OneNodePerSet' /\ ObsSound'
  BY <1>1 DEF ObsInv, OneNodePerSet, ObsSound, Post
<1>4. ObsComplete'
  <2> SUFFICES ASSUME NEW p \in ObsNode, NEW i \in 1 .. Len(LabelSeq), Seen(p, i)'
               PROVE  Seen(p, i)
    BY <1>1 DEF ObsComplete, Post, ObsInv
  <2> QED BY <1>1, LabelSeqFacts DEF NodeDone, Seen, ObsInv, ObsTypes, WorkList
<1> QED BY <1>2, <1>3, <1>4 DEF ObsInv

LEMMA ObsStepInv == ObsInv /\ [ObsNext]_obsVars => ObsInv'
<1>1. ASSUME ObsInv, UNCHANGED obsVars PROVE ObsInv'
  <2>1. UNCHANGED <<fsm, nodeLabel, bfsLst, q, k, obsTrans, ObsNode, Taken>>
    BY <1>1 DEF obsVars, ObsNode, Taken
  <2>2. ObsTypes' /\ WorkList'
    BY <1>1, <2>1 DEF ObsInv, ObsTypes, WorkList
  <2>3. OneNodePerSet' /\ ObsSound' /\ ObsComplete'
    BY <1>1, <2>1 DEF ObsInv, OneNodePerSet, ObsSound, ObsComplete, Seen, Post
  <2> QED BY <2>2, <2>3 DEF ObsInv
<1> QED BY <1>1, PopNodeInv, NoTransitionInv, ToKnownNodeInv, ToNewNodeInv, NodeDoneInv
        DEF ObsNext

(* When the list is empty, all labels have been seen for all nodes. *)
LEMMA ObsInvImpliesExact == ObsInv => SubsetConstruction
<1> SUFFICES ASSUME ObsInv, ObsFinished, NEW p \in ObsNode, NEW l \in Label
             PROVE  {nodeLabel[t[3]] : t \in {e \in obsTrans : e[1] = p /\ e[2] = l}}
                      = {Post(nodeLabel[p], l)} \ {{}}
  BY DEF SubsetConstruction, TransitionsExact, ObsInv
<1> DEFINE T == {e \in obsTrans : e[1] = p /\ e[2] = l}
<1>1. \A t \in T : nodeLabel[t[3]] = Post(nodeLabel[p], l) /\ nodeLabel[t[3]] # {}
  BY DEF ObsInv, ObsSound
<1>2. ASSUME Post(nodeLabel[p], l) # {} PROVE T # {}
  <2>1. PICK i \in 1 .. Len(LabelSeq) : LabelSeq[i] = l
    BY LabelSeqAssumption
  <2>2. Seen(p, i)
    <3>1. Len(bfsLst) = 0 /\ q = 0 /\ Len(nodeLabel) \in Nat
      BY DEF ObsFinished, ObsInv, ObsTypes
    <3> QED BY <3>1 DEF Seen, Taken, ObsNode
  <2>3. PICK u \in ObsNode : <<p, LabelSeq[i], u>> \in obsTrans
    BY <1>2, <2>1, <2>2 DEF ObsInv, ObsComplete
  <2> QED BY <2>1, <2>3
<1> HIDE DEF T
<1> QED BY <1>1, <1>2 DEF T

-----------------------------------------------------------------------------
(* intersect. *)
(* the states of an FSM *)
StatesOf(f) == {f.init} \cup {t[1] : t \in f.trans} \cup {t[3] : t \in f.trans}

IsFsm(f) == f.trans \subseteq StatesOf(f) \X Label \X StatesOf(f)

PairsOf == StatesOf(f1) \X StatesOf(f2)

Target(m) == <<m[1][3], m[2][3]>>

InterTypes ==
  /\ IsFsm(f1) /\ IsFsm(f2)
  /\ fsmInterNodes \in Seq(PairsOf)
  /\ nodeList \in Seq(PairsOf)
  /\ visited \subseteq Node
  /\ nSource \in {0} \cup visited
  /\ trans \subseteq Node \X Label \X Node

(* what is left to do is left to do for the node worked on *)
TodoOfSource ==
  /\ nSource = 0 => todo = {}
  /\ nSource # 0 => todo \subseteq Matching(fsmInterNodes[nSource])

(* The pair of the initial states comes first. *)
InitialFirst ==
  /\ fsmInterNodes = << >> => nodeList = << <<f1.init, f2.init>> >>
  /\ fsmInterNodes # << >> => fsmInterNodes[1] = <<f1.init, f2.init>>

(* A pair in the list has a node, and a node not worked on is in the list. *)
ListedAreNodes == fsmInterNodes # << >> => ElementsOf(nodeList) \subseteq ElementsOf(fsmInterNodes)

PendingListed == \A u \in Node \ visited : fsmInterNodes[u] \in ElementsOf(nodeList)

ProductSound ==
  \A t \in trans :
    /\ t[1] \in visited
    /\ \E m \in Matching(fsmInterNodes[t[1]]) :
         t[2] = m[1][2] /\ fsmInterNodes[t[3]] = Target(m)

ProductComplete ==
  \A u \in visited : \A m \in Matching(fsmInterNodes[u]) :
    \/ u = nSource /\ m \in todo
    \/ \E v \in Node : <<u, m[1][2], v>> \in trans /\ fsmInterNodes[v] = Target(m)

InterInv ==
  /\ InterTypes /\ TodoOfSource /\ InitialFirst /\ ListedAreNodes /\ PendingListed
  /\ WorkedOnOnce /\ ProductSound /\ ProductComplete

-----------------------------------------------------------------------------
(* two transitions with equal labels join states of the two FSMs *)
LEMMA MatchingFacts ==
  ASSUME IsFsm(f1), IsFsm(f2), NEW p, NEW m \in Matching(p)
  PROVE  /\ m[1] \in f1.trans /\ m[2] \in f2.trans
         /\ m[1][2] \in Label /\ Target(m) \in PairsOf
BY DEF Matching, IsFsm, Target, PairsOf

LEMMA InterInitInv ==
  ASSUME IsFsm(f1), IsFsm(f2),
         fsmInterNodes = << >>, nodeList = << <<f1.init, f2.init>> >>,
         visited = {}, nSource = 0, todo = {}, trans = {}
  PROVE  InterInv
<1>1. Node = {} /\ Len(nodeList) = 1 /\ Len(fsmInterNodes) = 0
  BY DEF Node
<1>2. nodeList \in Seq(PairsOf) /\ fsmInterNodes \in Seq(PairsOf)
  BY DEF PairsOf, StatesOf
<1>3. InterTypes
  BY <1>1, <1>2 DEF InterTypes
<1>4. TodoOfSource /\ InitialFirst /\ ListedAreNodes /\ PendingListed /\ ProductSound /\ ProductComplete
  BY <1>1 DEF TodoOfSource, InitialFirst, ListedAreNodes, PendingListed, ProductSound, ProductComplete
<1>5. WorkedOnOnce
  BY <1>1 DEF WorkedOnOnce
<1> QED BY <1>3, <1>4, <1>5 DEF InterInv

(* the node of a pair is found, or is the new last one *)
LEMMA FindOrCreateFacts ==
  ASSUME InterInv, UNCHANGED <<f1, f2>>, NEW p \in PairsOf, NEW tr, FindOrCreate(p, tr)
  PROVE  /\ fsmInterNodes' \in Seq(PairsOf)
         /\ Node \subseteq Node'
         /\ \A u \in Node : fsmInterNodes'[u] = fsmInterNodes[u]
         /\ \A u \in Node' \ Node : fsmInterNodes'[u] = p /\ p \notin ElementsOf(fsmInterNodes)
         /\ \A u, v \in Node' : fsmInterNodes'[u] = fsmInterNodes'[v] => u = v
         /\ \E u \in Node' : fsmInterNodes'[u] = p
         /\ fsmInterNodes' # << >>
         /\ fsmInterNodes = << >> => fsmInterNodes'[1] = p
<1>1. CASE p \in ElementsOf(fsmInterNodes)
  <2>1. fsmInterNodes' = fsmInterNodes /\ Node' = Node
    BY <1>1 DEF FindOrCreate, Node
  <2>2. \A u, v \in Node : fsmInterNodes[u] = fsmInterNodes[v] => u = v
    BY DEF InterInv, WorkedOnOnce
  <2>3. PICK u \in Node : fsmInterNodes[u] = p
    BY <1>1 DEF ElementsOf, Node
  <2>4. fsmInterNodes # << >>
    BY <2>3 DEF Node
  <2> QED BY <2>1, <2>2, <2>3, <2>4 DEF InterInv, InterTypes
<1>2. CASE p \notin ElementsOf(fsmInterNodes)
  <2>1. fsmInterNodes' = Append(fsmInterNodes, p) /\ fsmInterNodes \in Seq(PairsOf)
    BY <1>2 DEF FindOrCreate, InterInv, InterTypes
  <2>2. /\ fsmInterNodes' \in Seq(PairsOf)
        /\ Len(fsmInterNodes') = Len(fsmInterNodes) + 1 /\ Len(fsmInterNodes) \in Nat
        /\ \A u \in 1 .. Len(fsmInterNodes) : fsmInterNodes'[u] = fsmInterNodes[u]
        /\ fsmInterNodes'[Len(fsmInterNodes) + 1] = p
    BY <2>1
  <2>3. Node' = Node \cup {Len(fsmInterNodes) + 1} /\ Len(fsmInterNodes) + 1 \notin Node
    BY <2>2 DEF Node
  <2>4. \A u, v \in Node : fsmInterNodes[u] = fsmInterNodes[v] => u = v
    BY DEF InterInv, WorkedOnOnce
  <2>5. \A u \in Node : fsmInterNodes[u] # p
    BY <1>2 DEF ElementsOf, Node
  <2>6. fsmInterNodes' # << >> /\ (fsmInterNodes = << >> => fsmInterNodes'[1] = p)
    BY <2>2
  <2>7. \A u, v \in Node' : fsmInterNodes'[u] = fsmInterNodes'[v] => u = v
    BY <2>2, <2>3, <2>4, <2>5 DEF Node
  <2>8. \A u \in Node' \ Node : fsmInterNodes'[u] = p
    BY <2>2, <2>3 
  <2> QED BY <1>2, <2>2, <2>3, <2>6, <2>7, <2>8 DEF Node
<1> QED BY <1>1, <1>2


LEMMA BeginNodeInv == InterInv /\ BeginNode => InterInv'
<1> SUFFICES ASSUME InterInv, BeginNode PROVE InterInv'
  OBVIOUS
<1> DEFINE p == Head(nodeList)
<1>1. /\ UNCHANGED <<f1, f2, trans>> /\ nSource = 0
      /\ todo' = Matching(p) /\ visited' = visited \cup {nSource'}
      /\ nSource' \in Node' /\ fsmInterNodes'[nSource'] = p
  BY DEF BeginNode, Node
<1>2. /\ p \in PairsOf /\ p = nodeList[1] /\ Len(nodeList) \in Nat \ {0}
      /\ nodeList' \in Seq(PairsOf) /\ Len(nodeList') = Len(nodeList) - 1
      /\ \A i \in 1 .. Len(nodeList') : nodeList'[i] = nodeList[i + 1]
  BY DEF BeginNode, InterInv, InterTypes
<1>3. ElementsOf(nodeList) = {p} \cup ElementsOf(nodeList')
  <2>1. \A i \in 1 .. Len(nodeList) : i = 1 \/ (i - 1 \in 1 .. Len(nodeList') /\ (i - 1) + 1 = i)
    BY <1>2
  <2>2. \A i \in 1 .. Len(nodeList') : i + 1 \in 1 .. Len(nodeList)
    BY <1>2
  <2>3. ElementsOf(nodeList) \subseteq {p} \cup ElementsOf(nodeList')
    <3> SUFFICES ASSUME NEW i \in 1 .. Len(nodeList), i # 1
                 PROVE  \E j \in 1 .. Len(nodeList') : nodeList'[j] = nodeList[i]
      BY <1>2 DEF ElementsOf
    <3> QED BY <1>2, <2>1
  <2>4. {p} \cup ElementsOf(nodeList') \subseteq ElementsOf(nodeList)
    BY <1>2, <2>2 DEF ElementsOf
  <2> QED BY <2>3, <2>4
<1>4. FindOrCreate(p, << >>)
  BY DEF BeginNode
<1> HIDE DEF p
<1>5. /\ fsmInterNodes' \in Seq(PairsOf)
      /\ Node \subseteq Node'
      /\ \A u \in Node : fsmInterNodes'[u] = fsmInterNodes[u]
      /\ \A u \in Node' \ Node : fsmInterNodes'[u] = p
      /\ \A u, v \in Node' : fsmInterNodes'[u] = fsmInterNodes'[v] => u = v
      /\ fsmInterNodes' # << >>
      /\ fsmInterNodes = << >> => fsmInterNodes'[1] = p
  BY <1>1, <1>2, <1>4, FindOrCreateFacts
<1>6. UNCHANGED <<PairsOf, IsFsm(f1), IsFsm(f2)>> /\ 0 \notin Node /\ 0 \notin Node'
      /\ \A pr : Matching(pr)' = Matching(pr)
  BY <1>1 DEF PairsOf, Node, IsFsm, StatesOf, Matching
<1>7. InterTypes'
  BY <1>1, <1>2, <1>5, <1>6 DEF InterInv, InterTypes
<1>8. TodoOfSource'
  BY <1>1, <1>6 DEF TodoOfSource
<1>9. InitialFirst'
  <2>1. CASE fsmInterNodes = << >>
    <3>1. p = <<f1.init, f2.init>>
      BY <1>2, <2>1 DEF InterInv, InitialFirst
    <3> QED BY <1>1, <1>5, <2>1, <3>1 DEF InitialFirst
  <2>2. CASE fsmInterNodes # << >>
    <3>1. 1 \in Node
      BY <2>2 DEF Node, InterInv, InterTypes
    <3> QED BY <1>1, <1>5, <2>2, <3>1 DEF InterInv, InitialFirst
  <2> QED BY <2>1, <2>2
<1>10. ListedAreNodes'
  <2>1. CASE fsmInterNodes = << >>
    <3>1. ElementsOf(nodeList') = {}
      BY <1>2, <2>1 DEF InterInv, InitialFirst, ElementsOf
    <3> QED BY <3>1 DEF ListedAreNodes, ElementsOf
  <2>2. CASE fsmInterNodes # << >>
    <3>1. ElementsOf(fsmInterNodes) \subseteq ElementsOf(fsmInterNodes')
      BY <1>5 DEF ElementsOf, Node
    <3> QED BY <1>3, <2>2, <3>1 DEF InterInv, ListedAreNodes, ElementsOf
  <2> QED BY <2>1, <2>2
<1>11. PendingListed'
  <2> SUFFICES ASSUME NEW u \in Node', u \notin visited'
               PROVE  fsmInterNodes'[u] \in ElementsOf(nodeList')
    BY DEF PendingListed, ElementsOf
  <2>1. fsmInterNodes'[u] # p
    BY <1>1, <1>5
  <2>2. fsmInterNodes'[u] \in ElementsOf(nodeList)
    BY <1>1, <1>5, <2>1 DEF InterInv, PendingListed
  <2> QED BY <1>3, <2>1, <2>2
<1>12. WorkedOnOnce'
  <2>1. \A i, j \in 1 .. Len(nodeList') : nodeList'[i] = nodeList'[j] => i = j
    <3> SUFFICES ASSUME NEW i \in 1 .. Len(nodeList'), NEW j \in 1 .. Len(nodeList'),
                        nodeList'[i] = nodeList'[j]
                 PROVE  i = j
      OBVIOUS
    <3>1. i + 1 \in 1 .. Len(nodeList) /\ j + 1 \in 1 .. Len(nodeList)
      BY <1>2
    <3>2. i + 1 = j + 1
      BY <1>2, <3>1 DEF InterInv, WorkedOnOnce
    <3> QED BY <3>2
  <2>2. ASSUME NEW i \in 1 .. Len(nodeList'), NEW u \in visited'
        PROVE  fsmInterNodes'[u] # nodeList'[i]
    <3>1. i + 1 \in 1 .. Len(nodeList) /\ 1 \in 1 .. Len(nodeList) /\ i + 1 # 1
      BY <1>2
    <3>2. nodeList[i + 1] # p
      BY <1>2, <3>1 DEF InterInv, WorkedOnOnce
    <3>3. CASE u = nSource'
      BY <1>1, <1>2, <3>2, <3>3
    <3>4. CASE u \in visited
      <4>1. fsmInterNodes[u] # nodeList[i + 1] /\ u \in Node
        BY <3>1, <3>4 DEF InterInv, WorkedOnOnce, InterTypes
      <4> QED BY <1>2, <1>5, <4>1
    <3> QED BY <1>1, <3>3, <3>4
  <2> QED BY <1>5, <2>1, <2>2 DEF WorkedOnOnce
<1>13. ProductSound'
  <2> SUFFICES ASSUME NEW t \in trans
               PROVE  /\ t[1] \in visited'
                      /\ \E m \in Matching(fsmInterNodes'[t[1]]) :
                           t[2] = m[1][2] /\ fsmInterNodes'[t[3]] = Target(m)
    BY <1>1, <1>6 DEF ProductSound, Target
  <2>1. t[1] \in Node /\ t[3] \in Node
    BY DEF InterInv, InterTypes
  <2> QED BY <1>1, <1>5, <2>1 DEF InterInv, ProductSound
<1>14. ProductComplete'
  <2> SUFFICES ASSUME NEW u \in visited', NEW m \in Matching(fsmInterNodes'[u])
               PROVE  \/ u = nSource' /\ m \in todo'
                      \/ \E v \in Node' : <<u, m[1][2], v>> \in trans' /\ fsmInterNodes'[v] = Target(m)
    BY <1>6 DEF ProductComplete, Target
  <2>1. CASE u = nSource'
    BY <1>1, <2>1
  <2>2. CASE u \in visited
    <3>1. u \in Node /\ u # nSource /\ m \in Matching(fsmInterNodes[u])
      BY <1>1, <1>5, <1>6, <2>2 DEF InterInv, InterTypes
    <3>2. PICK v \in Node : <<u, m[1][2], v>> \in trans /\ fsmInterNodes[v] = Target(m)
      BY <2>2, <3>1 DEF InterInv, ProductComplete
    <3> QED BY <1>1, <1>5, <3>2
  <2> QED BY <1>1, <2>1, <2>2
<1> QED BY <1>7, <1>8, <1>9, <1>10, <1>11, <1>12, <1>13, <1>14 DEF InterInv

LEMMA EndNodeInv == InterInv /\ EndNode => InterInv'
<1> SUFFICES ASSUME InterInv, EndNode PROVE InterInv'
  OBVIOUS
<1>1. /\ UNCHANGED <<f1, f2, nodeList, fsmInterNodes, visited, todo, trans, Node, PairsOf>>
      /\ todo = {} /\ nSource' = 0
  BY DEF EndNode, Node, PairsOf, StatesOf
<1>2. InterTypes' /\ TodoOfSource'
  BY <1>1 DEF InterInv, InterTypes, TodoOfSource, IsFsm, StatesOf
<1>3. InitialFirst' /\ ListedAreNodes' /\ PendingListed' /\ WorkedOnOnce'
  BY <1>1 DEF InterInv, InitialFirst, ListedAreNodes, PendingListed, WorkedOnOnce, ElementsOf
<1>4. \A pr : Matching(pr)' = Matching(pr)
  BY <1>1 DEF Matching
<1>5. ProductSound'
  BY <1>1, <1>4 DEF InterInv, ProductSound, Target
<1>6. ProductComplete'
  <2> SUFFICES ASSUME NEW u \in visited', NEW m \in Matching(fsmInterNodes'[u])
               PROVE  \E v \in Node' : <<u, m[1][2], v>> \in trans' /\ fsmInterNodes'[v] = Target(m)
    BY <1>4 DEF ProductComplete, Target
  <2>1. u \in visited /\ m \in Matching(fsmInterNodes[u]) /\ m \notin todo
    BY <1>1
  <2>2. PICK v \in Node : <<u, m[1][2], v>> \in trans /\ fsmInterNodes[v] = Target(m)
    BY <2>1 DEF InterInv, ProductComplete
  <2> QED BY <1>1, <2>2
<1> QED BY <1>2, <1>3, <1>5, <1>6 DEF InterInv


LEMMA AddTransitionInv ==
  ASSUME InterInv, NEW m \in todo, AddTransition(m)
  PROVE  InterInv'
<1> DEFINE p == Target(m)
           l == m[1][2]
<1>1. /\ UNCHANGED <<f1, f2, visited, nSource>> /\ nSource # 0
      /\ todo' = todo \ {m} /\ m \in todo
  BY DEF AddTransition, TodoAfter
<1>2. nSource \in visited /\ nSource \in Node /\ m \in Matching(fsmInterNodes[nSource])
  BY <1>1 DEF InterInv, InterTypes, TodoOfSource
<1>3. l \in Label /\ p \in PairsOf
  BY <1>2, MatchingFacts DEF InterInv, InterTypes
<1>4. FindOrCreate(p, TraceOfTarget(l))
  BY DEF AddTransition, Target
<1>5. PICK n \in Node' : /\ fsmInterNodes'[n] = p
                         /\ trans' = trans \cup {<<nSource, l, n>>}
                         /\ Enqueue(n, p)
  BY DEF AddTransition, Target, Node
<1> HIDE DEF p, l
<1>6. /\ fsmInterNodes' \in Seq(PairsOf)
      /\ Node \subseteq Node'
      /\ \A u \in Node : fsmInterNodes'[u] = fsmInterNodes[u]
      /\ \A u \in Node' \ Node : fsmInterNodes'[u] = p
      /\ \A u, v \in Node' : fsmInterNodes'[u] = fsmInterNodes'[v] => u = v
      /\ fsmInterNodes' # << >>
  BY <1>1, <1>3, <1>4, FindOrCreateFacts
<1>7. UNCHANGED <<PairsOf, IsFsm(f1), IsFsm(f2)>> /\ \A pr : Matching(pr)' = Matching(pr)
  BY <1>1 DEF PairsOf, IsFsm, StatesOf, Matching
<1>8. nodeList \in Seq(PairsOf) /\ Len(nodeList) \in Nat
  BY DEF InterInv, InterTypes
<1>9. \/ /\ n \in visited \/ p \in ElementsOf(nodeList)
         /\ nodeList' = nodeList
      \/ /\ n \notin visited /\ p \notin ElementsOf(nodeList)
         /\ nodeList' \in Seq(PairsOf) /\ Len(nodeList') = Len(nodeList) + 1
         /\ nodeList'[Len(nodeList) + 1] = p
         /\ \A i \in 1 .. Len(nodeList) : nodeList'[i] = nodeList[i]
  BY <1>3, <1>5, <1>8 DEF Enqueue
<1>10. ElementsOf(nodeList) \subseteq ElementsOf(nodeList') /\ ElementsOf(nodeList') \subseteq ElementsOf(nodeList) \cup {p}
  BY <1>8, <1>9 DEF ElementsOf
<1>11. n \in visited \/ p \in ElementsOf(nodeList')
  BY <1>8, <1>9 DEF ElementsOf
<1>12. visited \subseteq Node /\ trans \subseteq Node \X Label \X Node
  BY DEF InterInv, InterTypes
<1>13. InterTypes'
  <2>1. nodeList' \in Seq(PairsOf)
    BY <1>8, <1>9
  <2>2. trans' \subseteq Node' \X Label \X Node'
    BY <1>2, <1>3, <1>5, <1>6, <1>12
  <2> QED BY <1>1, <1>2, <1>6, <1>7, <1>12, <2>1, <2>2 DEF InterInv, InterTypes
<1>14. TodoOfSource'
  BY <1>1, <1>2, <1>6, <1>7 DEF TodoOfSource, InterInv
<1>15. InitialFirst'
  <2>1. fsmInterNodes # << >> /\ 1 \in Node
    BY <1>2 DEF Node, InterInv, InterTypes
  <2> QED BY <1>1, <1>6, <2>1 DEF InterInv, InitialFirst
<1>16. ListedAreNodes'
  <2>1. fsmInterNodes # << >>
    BY <1>2 DEF Node, InterInv, InterTypes
  <2>2. ElementsOf(fsmInterNodes) \subseteq ElementsOf(fsmInterNodes')
    BY <1>6 DEF ElementsOf, Node
  <2>3. p \in ElementsOf(fsmInterNodes')
    BY <1>5 DEF ElementsOf, Node
  <2>4. ElementsOf(nodeList') \subseteq ElementsOf(fsmInterNodes')
    BY <1>10, <2>1, <2>2, <2>3 DEF InterInv, ListedAreNodes
  <2> QED BY <2>4 DEF ListedAreNodes, ElementsOf
<1>17. PendingListed'
  <2> SUFFICES ASSUME NEW u \in Node', u \notin visited
               PROVE  fsmInterNodes'[u] \in ElementsOf(nodeList')
    BY <1>1 DEF PendingListed, ElementsOf
  <2>1. CASE u \in Node
    BY <1>6, <1>10, <2>1 DEF InterInv, PendingListed
  <2>2. CASE u \notin Node
    <3>1. u = n
      BY <1>5, <1>6, <2>2
    <3> QED BY <1>5, <1>11, <3>1
  <2> QED BY <2>1, <2>2
<1>18. WorkedOnOnce'
  <2>1. \A i, j \in 1 .. Len(nodeList') : nodeList'[i] = nodeList'[j] => i = j
    BY <1>8, <1>9 DEF InterInv, WorkedOnOnce, ElementsOf
  <2>2. ASSUME NEW i \in 1 .. Len(nodeList'), NEW u \in visited
        PROVE  fsmInterNodes'[u] # nodeList'[i]
    <3>1. u \in Node /\ u \in Node' /\ fsmInterNodes'[u] = fsmInterNodes[u]
      BY <1>6, <1>12
    <3>2. CASE i \in 1 .. Len(nodeList)
      BY <1>9, <3>1, <3>2 DEF InterInv, WorkedOnOnce
    <3>3. CASE i \notin 1 .. Len(nodeList)
      <4>1. nodeList'[i] = p /\ n \notin visited
        BY <1>8, <1>9, <3>3
      <4> QED BY <1>5, <1>6, <3>1, <4>1
    <3> QED BY <3>2, <3>3
  <2> QED BY <1>1, <1>6, <2>1, <2>2 DEF WorkedOnOnce
<1>19. ProductSound'
  <2> SUFFICES ASSUME NEW t \in trans'
               PROVE  /\ t[1] \in visited
                      /\ \E mt \in Matching(fsmInterNodes'[t[1]]) :
                           t[2] = mt[1][2] /\ fsmInterNodes'[t[3]] = Target(mt)
    BY <1>1, <1>7 DEF ProductSound, Target
  <2>1. CASE t \in trans
    <3>1. t[1] \in Node /\ t[3] \in Node
      BY <1>12, <2>1
    <3> QED BY <1>6, <2>1, <3>1 DEF InterInv, ProductSound
  <2>2. CASE t = <<nSource, l, n>>
    BY <1>2, <1>5, <1>6, <2>2 DEF l, p
  <2> QED BY <1>5, <2>1, <2>2
<1>20. ProductComplete'
  <2> SUFFICES ASSUME NEW u \in visited, NEW mu \in Matching(fsmInterNodes'[u]),
                      ~(u = nSource /\ mu \in todo \ {m})
               PROVE  \E v \in Node' : <<u, mu[1][2], v>> \in trans' /\ fsmInterNodes'[v] = Target(mu)
    BY <1>1, <1>7 DEF ProductComplete, Target
  <2>1. mu \in Matching(fsmInterNodes[u])
    BY <1>6, <1>12
  <2>2. CASE u = nSource /\ mu = m
    BY <1>5, <2>2 DEF l, p
  <2>3. CASE ~(u = nSource /\ mu = m)
    <3>1. PICK v \in Node : <<u, mu[1][2], v>> \in trans /\ fsmInterNodes[v] = Target(mu)
      BY <2>1, <2>3 DEF InterInv, ProductComplete
    <3> QED BY <1>5, <1>6, <3>1
  <2> QED BY <2>2, <2>3
<1> QED BY <1>13, <1>14, <1>15, <1>16, <1>17, <1>18, <1>19, <1>20 DEF InterInv

LEMMA InterStepInv == InterInv /\ [Next]_vars => InterInv'
<1>1. ASSUME InterInv, UNCHANGED vars PROVE InterInv'
  <2>1. UNCHANGED <<f1, f2, nodeList, fsmInterNodes, visited, nSource, todo, trans, Node, PairsOf>>
    BY <1>1 DEF vars, Node, PairsOf, StatesOf
  <2>2. \A pr : Matching(pr)' = Matching(pr)
    BY <2>1 DEF Matching
  <2>3. InterTypes'
    BY <1>1, <2>1 DEF InterInv, InterTypes, IsFsm, StatesOf
  <2>4. TodoOfSource'
    BY <1>1, <2>1, <2>2 DEF InterInv, TodoOfSource
  <2>5. InitialFirst' /\ ListedAreNodes' /\ PendingListed' /\ WorkedOnOnce'
    BY <1>1, <2>1 DEF InterInv, InitialFirst, ListedAreNodes, PendingListed, WorkedOnOnce, ElementsOf
  <2>6. ProductSound'
    BY <1>1, <2>1, <2>2 DEF InterInv, ProductSound, Target
  <2>7. ProductComplete'
    <3> SUFFICES ASSUME NEW u \in visited', NEW m \in Matching(fsmInterNodes'[u]),
                        ~(u = nSource' /\ m \in todo')
                 PROVE  \E v \in Node' : <<u, m[1][2], v>> \in trans' /\ fsmInterNodes'[v] = Target(m)
      BY <2>2 DEF ProductComplete, Target
    <3>1. u \in visited /\ m \in Matching(fsmInterNodes[u]) /\ ~(u = nSource /\ m \in todo)
      BY <2>1
    <3>2. PICK v \in Node : <<u, m[1][2], v>> \in trans /\ fsmInterNodes[v] = Target(m)
      BY <1>1, <3>1 DEF InterInv, ProductComplete
    <3> QED BY <2>1, <3>2
  <2> QED BY <2>3, <2>4, <2>5, <2>6, <2>7 DEF InterInv
<1> QED BY <1>1, BeginNodeInv, AddTransitionInv, EndNodeInv DEF Next

(* When the list is empty, nothing is left to do for any node. *)
LEMMA InterInvFinished ==
  ASSUME InterInv, Finished, NEW u \in Node, NEW m \in Matching(fsmInterNodes[u])
  PROVE  \E v \in Node : <<u, m[1][2], v>> \in trans /\ fsmInterNodes[v] = Target(m)
<1>1. u \in visited
  <2>1. ElementsOf(nodeList) = {}
    BY DEF Finished, ElementsOf
  <2> QED BY <2>1 DEF InterInv, PendingListed
<1>2. u # nSource
  BY DEF Finished, Node
<1> QED BY <1>1, <1>2 DEF InterInv, ProductComplete

LEMMA InterInvImpliesProduct == InterInv => ProductConstruction
<1> SUFFICES ASSUME InterInv, Finished, NEW u \in Node
             PROVE  {<<t[2], fsmInterNodes[t[3]]>> : t \in {e \in trans : e[1] = u}}
                      = {<<m[1][2], <<m[1][3], m[2][3]>>>> : m \in Matching(fsmInterNodes[u])}
  BY DEF ProductConstruction, ProductExact, InterInv
<1> DEFINE move(t) == <<t[2], fsmInterNodes[t[3]]>>
           both(m) == <<m[1][2], <<m[1][3], m[2][3]>>>>
<1>1. ASSUME NEW t \in trans, t[1] = u
      PROVE  \E m \in Matching(fsmInterNodes[u]) : move(t) = both(m)
  BY <1>1 DEF InterInv, ProductSound, Target
<1>2. ASSUME NEW m \in Matching(fsmInterNodes[u])
      PROVE  \E t \in trans : t[1] = u /\ move(t) = both(m)
  <2>1. PICK v \in Node : <<u, m[1][2], v>> \in trans /\ fsmInterNodes[v] = Target(m)
    BY InterInvFinished
  <2> QED BY <2>1 DEF Target
<1>3. {move(t) : t \in {e \in trans : e[1] = u}} = {both(m) : m \in Matching(fsmInterNodes[u])}
  <2> HIDE DEF move, both
  <2> QED BY <1>1, <1>2
<1> QED BY <1>3


TraceInv ==
  /\ reachTrace \in Seq(Seq(Label))
  /\ Len(reachTrace) = Len(fsmInterNodes)
  /\ ReachTraceLeadsToNode
  /\ \A u \in Node : Len(reachTrace[u]) < u

LEMMA FindOrCreateTraces ==
  ASSUME InterInv, TraceInv, UNCHANGED <<f1, f2>>, NEW p \in PairsOf, NEW tr \in Seq(Label),
         FindOrCreate(p, tr),
         p \notin ElementsOf(fsmInterNodes) =>
           /\ p[1] \in Follow(f1.trans, {f1.init}, tr)
           /\ p[2] \in Follow(f2.trans, {f2.init}, tr)
           /\ Len(tr) <= Len(fsmInterNodes)
  PROVE  TraceInv'
<1>1. CASE p \in ElementsOf(fsmInterNodes)
  <2>1. UNCHANGED <<f1, f2, fsmInterNodes, reachTrace, Node>>
    BY <1>1 DEF FindOrCreate, Node
  <2> QED BY <2>1 DEF TraceInv, ReachTraceLeadsToNode
<1>2. CASE p \notin ElementsOf(fsmInterNodes)
  <2> DEFINE n == Len(fsmInterNodes) + 1
  <2>1. fsmInterNodes \in Seq(PairsOf) /\ n \in Nat \ {0} /\ Len(reachTrace) = Len(fsmInterNodes)
    BY DEF InterInv, InterTypes, TraceInv
  <2>2. /\ fsmInterNodes' = Append(fsmInterNodes, p) /\ Len(fsmInterNodes') = n
        /\ reachTrace' = Append(reachTrace, tr) /\ reachTrace' \in Seq(Seq(Label))
        /\ Len(reachTrace') = n
    <3>1. fsmInterNodes' = Append(fsmInterNodes, p) /\ reachTrace' = Append(reachTrace, tr)
      BY <1>2 DEF FindOrCreate
    <3>2. reachTrace \in Seq(Seq(Label))
      BY DEF TraceInv
    <3>3. reachTrace' \in Seq(Seq(Label)) /\ Len(reachTrace') = Len(reachTrace) + 1
      BY <3>1, <3>2
    <3>4. Len(fsmInterNodes') = n
      BY <2>1, <3>1
    <3> QED BY <2>1, <3>1, <3>3, <3>4
  <2>3. /\ fsmInterNodes'[n] = p /\ reachTrace'[n] = tr
        /\ \A u \in Node : fsmInterNodes'[u] = fsmInterNodes[u] /\ reachTrace'[u] = reachTrace[u]
    BY <2>1, <2>2 DEF TraceInv, Node
  <2>4. Node' = Node \cup {n}
    BY <2>1, <2>2 DEF Node
  <2>5. Len(tr) < n
    BY <1>2, <2>1
  <2> HIDE DEF n
  <2>6. ReachTraceLeadsToNode'
    <3> SUFFICES ASSUME NEW u \in Node'
                 PROVE  /\ fsmInterNodes'[u][1] \in Follow(f1.trans, {f1.init}, reachTrace'[u])
                        /\ fsmInterNodes'[u][2] \in Follow(f2.trans, {f2.init}, reachTrace'[u])
      BY DEF ReachTraceLeadsToNode
    <3>1. CASE u \in Node
      BY <2>3, <3>1 DEF TraceInv, ReachTraceLeadsToNode
    <3>2. CASE u = n
      BY <1>2, <2>3, <3>2
    <3> QED BY <2>4, <3>1, <3>2
  <2>7. \A u \in Node' : Len(reachTrace'[u]) < u
    BY <2>3, <2>4, <2>5 DEF TraceInv
  <2> QED BY <2>2, <2>6, <2>7 DEF TraceInv
<1> QED BY <1>1, <1>2

LEMMA TraceStepInv == InterInv /\ TraceInv /\ [Next]_vars => TraceInv'
<1>1. ASSUME InterInv, TraceInv, UNCHANGED <<f1, f2, fsmInterNodes, reachTrace>> PROVE TraceInv'
  BY <1>1 DEF TraceInv, ReachTraceLeadsToNode, Node
<1>2. ASSUME InterInv, TraceInv, BeginNode PROVE TraceInv'
  <2> DEFINE p == Head(nodeList)
  <2>1. p \in PairsOf /\ p \in ElementsOf(nodeList) /\ FindOrCreate(p, << >>) /\ UNCHANGED <<f1, f2>>
    BY <1>2 DEF BeginNode, InterInv, InterTypes, ElementsOf
  <2>2. ASSUME p \notin ElementsOf(fsmInterNodes) PROVE p = <<f1.init, f2.init>> /\ Len(fsmInterNodes) = 0
    BY <1>2, <2>1, <2>2 DEF InterInv, ListedAreNodes, InitialFirst
  <2>3. << >> \in Seq(Label) /\ Len(<< >>) = 0
    OBVIOUS
  <2> HIDE DEF p
  <2>4. p \notin ElementsOf(fsmInterNodes) =>
           /\ p[1] \in Follow(f1.trans, {f1.init}, << >>)
           /\ p[2] \in Follow(f2.trans, {f2.init}, << >>)
           /\ Len(<< >>) <= Len(fsmInterNodes)
    BY <2>2, <2>3, FollowEmpty
  <2> QED BY <1>2, <2>1, <2>3, <2>4, FindOrCreateTraces
<1>3. ASSUME InterInv, TraceInv, NEW m \in todo, AddTransition(m) PROVE TraceInv'
  <2> DEFINE p == Target(m)
             l == m[1][2]
             tr == TraceOfTarget(l)
  <2>1. /\ nSource \in Node /\ m \in Matching(fsmInterNodes[nSource]) /\ UNCHANGED <<f1, f2>>
        /\ FindOrCreate(p, tr)
    BY <1>3 DEF AddTransition, InterInv, InterTypes, TodoOfSource, Target
  <2>2. l \in Label /\ p \in PairsOf /\ m[1] \in f1.trans /\ m[2] \in f2.trans
    BY <1>3, <2>1, MatchingFacts DEF InterInv, InterTypes
  <2>3. /\ reachTrace[nSource] \in Seq(Label) /\ Len(reachTrace[nSource]) < nSource
        /\ fsmInterNodes[nSource][1] \in Follow(f1.trans, {f1.init}, reachTrace[nSource])
        /\ fsmInterNodes[nSource][2] \in Follow(f2.trans, {f2.init}, reachTrace[nSource])
    <3>1. reachTrace \in Seq(Seq(Label)) /\ Node = 1 .. Len(reachTrace)
      BY <1>3 DEF TraceInv, Node
    <3>2. reachTrace[nSource] \in Seq(Label)
      BY <2>1, <3>1
    <3> QED BY <1>3, <2>1, <3>2 DEF TraceInv, ReachTraceLeadsToNode
  <2>4. tr \in Seq(Label) /\ Len(tr) = Len(reachTrace[nSource]) + 1
    BY <2>2, <2>3 DEF TraceOfTarget
  <2>5. Len(tr) <= Len(fsmInterNodes)
    BY <1>3, <2>1, <2>3, <2>4 DEF Node, InterInv, InterTypes
  <2>6. p[1] \in Follow(f1.trans, {f1.init}, tr)
    <3>1. p[1] \in Step(f1.trans, Follow(f1.trans, {f1.init}, reachTrace[nSource]), l)
      BY <2>1, <2>2, <2>3 DEF Step, Matching, Target
    <3> QED BY <2>2, <2>3, <3>1, FollowAppend DEF TraceOfTarget
  <2>7. p[2] \in Follow(f2.trans, {f2.init}, tr)
    <3>1. p[2] \in Step(f2.trans, Follow(f2.trans, {f2.init}, reachTrace[nSource]), l)
      BY <2>1, <2>2, <2>3 DEF Step, Matching, Target
    <3> QED BY <2>2, <2>3, <3>1, FollowAppend DEF TraceOfTarget
  <2> HIDE DEF p, tr
  <2> QED BY <1>3, <2>1, <2>2, <2>4, <2>5, <2>6, <2>7, FindOrCreateTraces
<1> QED BY <1>1, <1>2, <1>3 DEF Next, EndNode, vars


-----------------------------------------------------------------------------
(* the labels that a state has transitions for *)
LabelsAt(f, s) == {t[2] : t \in {e \in f.trans : e[1] = s}}

LEMMA StepOfState ==
  ASSUME NEW f, IsFsm(f), NEW s, NEW l \in Label
  PROVE  Step(f.trans, {s}, l) # {} <=> l \in LabelsAt(f, s)
BY DEF Step, LabelsAt

LEMMA StepObservable ==
  ASSUME NEW f, Observable(f), NEW s, NEW l, NEW t \in f.trans, t[1] = s, t[2] = l
  PROVE  Step(f.trans, {s}, l) = {t[3]}
<1>1. \A e \in f.trans : e[1] = s /\ e[2] = l => e = t
  BY DEF Observable
<1> QED BY <1>1 DEF Step

(* A trace of both FSMs leads to the pair of states of a node. *)
LEMMA PairReached ==
  ASSUME InterInv, Finished, Observable(f1), Observable(f2),
         NEW n \in Nat, NEW word \in [1 .. n -> Label],
         Follow(f1.trans, {f1.init}, word) # {}, Follow(f2.trans, {f2.init}, word) # {}
  PROVE  \E u \in Node : /\ Follow(f1.trans, {f1.init}, word) = {fsmInterNodes[u][1]}
                         /\ Follow(f2.trans, {f2.init}, word) = {fsmInterNodes[u][2]}
<1> DEFINE F1(w) == Follow(f1.trans, {f1.init}, w)
           F2(w) == Follow(f2.trans, {f2.init}, w)
           AtNode(w) == \E u \in Node : F1(w) = {fsmInterNodes[u][1]} /\ F2(w) = {fsmInterNodes[u][2]}
           A == {m \in Nat : \A w \in [1 .. m -> Label] : F1(w) # {} /\ F2(w) # {} => AtNode(w)}
<1>1. fsmInterNodes # << >> /\ 1 \in Node /\ fsmInterNodes[1] = <<f1.init, f2.init>>
  BY DEF Finished, InterInv, InitialFirst, InterTypes, Node
<1>2. 0 \in A
  <2> SUFFICES ASSUME NEW w \in [1 .. 0 -> Label] PROVE AtNode(w)
    OBVIOUS
  <2>1. w = << >>
    OBVIOUS
  <2>2. F1(w) = {f1.init} /\ F2(w) = {f2.init}
    BY <2>1, FollowEmpty
  <2> HIDE DEF F1, F2
  <2> QED BY <1>1, <2>2
<1>3. ASSUME NEW m \in Nat, m \in A PROVE m + 1 \in A
  <2> SUFFICES ASSUME NEW w \in [1 .. m + 1 -> Label], F1(w) # {}, F2(w) # {} PROVE AtNode(w)
    <3> HIDE DEF F1, F2, AtNode
    <3> QED OBVIOUS
  <2> DEFINE v == [i \in 1 .. m |-> w[i]]
             l == w[m + 1]
  <2>1. v \in [1 .. m -> Label] /\ v \in Seq(Label) /\ l \in Label /\ w = Append(v, l)
    OBVIOUS
  <2>2. F1(w) = Step(f1.trans, F1(v), l) /\ F2(w) = Step(f2.trans, F2(v), l)
    <3> HIDE DEF v, l
    <3> QED BY <2>1, FollowAppend
  <2> HIDE DEF v, l, F1, F2
  <2>3. F1(v) # {} /\ F2(v) # {}
    BY <2>2 DEF Step
  <2>4. PICK u \in Node : F1(v) = {fsmInterNodes[u][1]} /\ F2(v) = {fsmInterNodes[u][2]}
    BY <1>3, <2>1, <2>3
  <2>5. PICK t1 \in f1.trans : t1[1] = fsmInterNodes[u][1] /\ t1[2] = l
    BY <2>2, <2>4 DEF Step
  <2>6. PICK t2 \in f2.trans : t2[1] = fsmInterNodes[u][2] /\ t2[2] = l
    BY <2>2, <2>4 DEF Step
  <2>7. F1(w) = {t1[3]} /\ F2(w) = {t2[3]}
    <3> DEFINE p == fsmInterNodes[u]
    <3>1. t1[1] = p[1] /\ t2[1] = p[2]
      BY <2>5, <2>6
    <3> HIDE DEF p
    <3>2. Step(f1.trans, {p[1]}, l) = {t1[3]}
      BY <2>5, <3>1, StepObservable
    <3>3. Step(f2.trans, {p[2]}, l) = {t2[3]}
      BY <2>6, <3>1, StepObservable
    <3> QED BY <2>2, <2>4, <3>2, <3>3 DEF p
  <2>8. <<t1, t2>> \in Matching(fsmInterNodes[u])
    BY <2>5, <2>6 DEF Matching
  <2>9. PICK x \in Node : fsmInterNodes[x] = Target(<<t1, t2>>)
    BY <2>8, InterInvFinished
  <2>10. fsmInterNodes[x][1] = t1[3] /\ fsmInterNodes[x][2] = t2[3]
    BY <2>9 DEF Target
  <2> QED BY <2>7, <2>10
<1> HIDE DEF A
<1>4. n \in A
  BY <1>2, <1>3, SetInduction
<1> QED BY <1>4 DEF A

(* what isStrongSemiReductionOf asks of a node, in labels *)
LEMMA InputsAtNode ==
  ASSUME InterInv, Finished, NEW u \in Node
  PROVE  DefinedInputs(trans, u) =
           {l[1] : l \in LabelsAt(f1, fsmInterNodes[u][1]) \cap LabelsAt(f2, fsmInterNodes[u][2])}
<1> DEFINE p == fsmInterNodes[u]
           common == LabelsAt(f1, p[1]) \cap LabelsAt(f2, p[2])
           labels == {t[2] : t \in {e \in trans : e[1] = u}}
<1>1. ASSUME NEW t \in trans, t[1] = u PROVE t[2] \in common
  <2>1. PICK m \in Matching(p) : t[2] = m[1][2]
    <3> HIDE DEF common
    <3> QED BY <1>1 DEF InterInv, ProductSound
  <2> QED BY <2>1 DEF Matching, LabelsAt
<1>2. ASSUME NEW l \in common PROVE \E t \in trans : t[1] = u /\ t[2] = l
  <2>1. PICK t1 \in f1.trans : t1[1] = p[1] /\ t1[2] = l
    BY DEF LabelsAt
  <2>2. PICK t2 \in f2.trans : t2[1] = p[2] /\ t2[2] = l
    BY DEF LabelsAt
  <2>3. <<t1, t2>> \in Matching(p)
    BY <2>1, <2>2 DEF Matching
  <2>4. PICK x \in Node : <<u, t1[2], x>> \in trans
    BY <2>3, InterInvFinished
  <2> QED BY <2>1, <2>4
<1> HIDE DEF common
<1>3. {t[2][1] : t \in {e \in trans : e[1] = u}} = {l[1] : l \in common}
  BY <1>1, <1>2
<1> QED BY <1>3 DEF DefinedInputs, common


(* after a word that leads to the state s, the labels that s has transitions for are enabled *)
LEMMA LabelsAfter ==
  ASSUME NEW f, IsFsm(f), NEW word \in Seq(Label), NEW s, Follow(f.trans, {f.init}, word) = {s}
  PROVE  /\ {l \in Label : Follow(f.trans, {f.init}, Append(word, l)) # {}} = LabelsAt(f, s)
         /\ DefinedInputs(f.trans, s) = {l[1] : l \in LabelsAt(f, s)}
<1>1. \A l \in Label : Follow(f.trans, {f.init}, Append(word, l)) # {} <=> l \in LabelsAt(f, s)
  <2> SUFFICES ASSUME NEW l \in Label
               PROVE  Follow(f.trans, {f.init}, Append(word, l)) # {} <=> l \in LabelsAt(f, s)
    OBVIOUS
  <2>1. Follow(f.trans, {f.init}, Append(word, l)) = Step(f.trans, Follow(f.trans, {f.init}, word), l)
    BY FollowAppend
  <2> QED BY <2>1, StepOfState
<1>2. LabelsAt(f, s) \subseteq Label
  BY DEF LabelsAt, IsFsm
<1>3. DefinedInputs(f.trans, s) = {l[1] : l \in LabelsAt(f, s)}
  BY DEF DefinedInputs, LabelsAt
<1> QED BY <1>1, <1>2, <1>3

(* the verdict at a node, in the labels of its two states *)
LEMMA VerdictAtNode ==
  ASSUME InterInv, Finished
  PROVE  isStrongSemiReductionOf <=>
           \A u \in Node :
             LET L1 == LabelsAt(f1, fsmInterNodes[u][1])
                 L2 == LabelsAt(f2, fsmInterNodes[u][2])
             IN  {l[1] : l \in L1} = {l[1] : l \in L2} /\ L1 \subseteq L2
<1> SUFFICES ASSUME NEW u \in Node
             PROVE  LET thisNode == fsmInterNodes[u][1]
                        otherNode == fsmInterNodes[u][2]
                        inputs == DefinedInputs(f1.trans, thisNode)
                        L1 == LabelsAt(f1, thisNode)
                        L2 == LabelsAt(f2, otherNode)
                    IN  (/\ inputs = DefinedInputs(f2.trans, otherNode)
                         /\ inputs = DefinedInputs(trans, u)
                         /\ \A t \in f1.trans :
                              t[1] = thisNode => \E e \in f2.trans : e[1] = otherNode /\ e[2] = t[2])
                        <=> ({l[1] : l \in L1} = {l[1] : l \in L2} /\ L1 \subseteq L2)
  BY DEF isStrongSemiReductionOf
<1> DEFINE a == fsmInterNodes[u][1]
           b == fsmInterNodes[u][2]
           L1 == LabelsAt(f1, a)
           L2 == LabelsAt(f2, b)
<1>1. DefinedInputs(f1.trans, a) = {l[1] : l \in L1} /\ DefinedInputs(f2.trans, b) = {l[1] : l \in L2}
  BY DEF DefinedInputs, LabelsAt
<1>2. DefinedInputs(trans, u) = {l[1] : l \in L1 \cap L2}
  BY InputsAtNode
<1>3. L1 \subseteq L2 <=>
        \A t \in f1.trans : t[1] = a => \E e \in f2.trans : e[1] = b /\ e[2] = t[2]
  BY DEF LabelsAt
<1>4. L1 \subseteq L2 => L1 \cap L2 = L1
  OBVIOUS
<1> DEFINE Inputs(L) == {l[1] : l \in L}
<1>5. (/\ DefinedInputs(f1.trans, a) = DefinedInputs(f2.trans, b)
       /\ DefinedInputs(f1.trans, a) = DefinedInputs(trans, u)
       /\ L1 \subseteq L2)
      <=> (Inputs(L1) = Inputs(L2) /\ L1 \subseteq L2)
  <2> HIDE DEF L1, L2, Inputs
  <2> QED BY <1>1, <1>2, <1>4 DEF Inputs
<1> QED BY <1>3, <1>5

LEMMA InvImpliesVerdict ==
  ASSUME InterInv, TraceInv, TraceBound \in Nat, Len(fsmInterNodes) <= TraceBound + 1
  PROVE  VerdictByTraces
<1> DEFINE Labels(f, word) == {l \in Label : Follow(f.trans, {f.init}, Append(word, l)) # {}}
           Inputs(L) == {l[1] : l \in L}
           InBoth(word) ==
             Follow(f1.trans, {f1.init}, word) # {} /\ Follow(f2.trans, {f2.init}, word) # {}
           Agree(L1, L2) == Inputs(L1) = Inputs(L2) /\ L1 \subseteq L2
           AgreeAfter(word) == Agree(Labels(f1, word), Labels(f2, word))
           AgreeAt(u) == Agree(LabelsAt(f1, fsmInterNodes[u][1]), LabelsAt(f2, fsmInterNodes[u][2]))
<1>1. SUFFICES ASSUME Finished, Observable(f1), Observable(f2)
               PROVE  isStrongSemiReductionOf <=>
                        \A len \in 0 .. TraceBound : \A word \in [1 .. len -> Label] :
                          InBoth(word) => AgreeAfter(word)
  BY DEF VerdictByTraces
<1>2. isStrongSemiReductionOf <=> \A u \in Node : AgreeAt(u)
  BY <1>1, VerdictAtNode
<1>3. ASSUME NEW n \in Nat, NEW word \in [1 .. n -> Label], NEW u \in Node,
             Follow(f1.trans, {f1.init}, word) = {fsmInterNodes[u][1]},
             Follow(f2.trans, {f2.init}, word) = {fsmInterNodes[u][2]}
      PROVE  AgreeAfter(word) <=> AgreeAt(u)
  <2>1. word \in Seq(Label) /\ IsFsm(f1) /\ IsFsm(f2)
    BY DEF InterInv, InterTypes
  <2>2. Labels(f1, word) = LabelsAt(f1, fsmInterNodes[u][1])
    BY <1>3, <2>1, LabelsAfter
  <2>3. Labels(f2, word) = LabelsAt(f2, fsmInterNodes[u][2])
    BY <1>3, <2>1, LabelsAfter
  <2> HIDE DEF Labels, Agree
  <2> QED BY <2>2, <2>3
<1> HIDE DEF AgreeAfter, AgreeAt
<1>4. ASSUME \A u \in Node : AgreeAt(u), NEW n \in Nat, NEW word \in [1 .. n -> Label], InBoth(word)
      PROVE  AgreeAfter(word)
  <2>1. PICK u \in Node : /\ Follow(f1.trans, {f1.init}, word) = {fsmInterNodes[u][1]}
                          /\ Follow(f2.trans, {f2.init}, word) = {fsmInterNodes[u][2]}
    BY <1>1, <1>4, PairReached
  <2> QED BY <1>3, <1>4, <2>1
<1>5. ASSUME NEW u \in Node
      PROVE  \E n \in 0 .. TraceBound : \E word \in [1 .. n -> Label] :
               InBoth(word) /\ (AgreeAfter(word) <=> AgreeAt(u))
  <2> DEFINE word == reachTrace[u]
             n == Len(word)
  <2>1. /\ reachTrace \in Seq(Seq(Label)) /\ u \in 1 .. Len(reachTrace)
        /\ n < u /\ u <= Len(fsmInterNodes)
        /\ fsmInterNodes[u][1] \in Follow(f1.trans, {f1.init}, word)
        /\ fsmInterNodes[u][2] \in Follow(f2.trans, {f2.init}, word)
    <3>1. Node = 1 .. Len(reachTrace) /\ Len(fsmInterNodes) \in Nat
      BY DEF TraceInv, Node, InterInv, InterTypes
    <3>2. u <= Len(fsmInterNodes)
      BY <3>1 DEF Node
    <3> QED BY <3>1, <3>2 DEF TraceInv, ReachTraceLeadsToNode
  <2>2. word \in Seq(Label)
    BY <2>1
  <2> HIDE DEF word
  <2>3. n \in Nat /\ word \in [1 .. n -> Label]
    BY <2>2
  <2>4. n \in 0 .. TraceBound
    BY <2>1, <2>3 DEF InterInv, InterTypes
  <2>5. PICK v \in Node : /\ Follow(f1.trans, {f1.init}, word) = {fsmInterNodes[v][1]}
                          /\ Follow(f2.trans, {f2.init}, word) = {fsmInterNodes[v][2]}
    BY <1>1, <2>1, <2>3, PairReached
  <2>6. fsmInterNodes[u][1] = fsmInterNodes[v][1] /\ fsmInterNodes[u][2] = fsmInterNodes[v][2]
    BY <2>1, <2>5
  <2>7. AgreeAfter(word) <=> AgreeAt(u)
    <3>1. /\ Follow(f1.trans, {f1.init}, word) = {fsmInterNodes[u][1]}
          /\ Follow(f2.trans, {f2.init}, word) = {fsmInterNodes[u][2]}
      BY <2>5, <2>6
    <3> QED BY <1>3, <2>3, <3>1
  <2> QED BY <2>1, <2>3, <2>4, <2>7
<1> HIDE DEF InBoth
<1>6. \A n \in 0 .. TraceBound : n \in Nat
  OBVIOUS
<1>7. ASSUME \A u \in Node : AgreeAt(u)
      PROVE  \A n \in 0 .. TraceBound : \A word \in [1 .. n -> Label] : InBoth(word) => AgreeAfter(word)
  BY <1>4, <1>6, <1>7
<1>8. ASSUME \A n \in 0 .. TraceBound : \A word \in [1 .. n -> Label] : InBoth(word) => AgreeAfter(word)
      PROVE  \A u \in Node : AgreeAt(u)
  BY <1>5, <1>8
<1> QED BY <1>2, <1>7, <1>8

-----------------------------------------------------------------------------
(***************************************************************************)
(* The two calls.  Until intersect is called, the product has not begun.   *)
(***************************************************************************)
ProductNotBegun ==
  /\ IsFsm(f1) /\ IsFsm(f2)
  /\ nodeList = << <<f1.init, f2.init>> >>
  /\ fsmInterNodes = << >> /\ reachTrace = << >>
  /\ visited = {} /\ nSource = 0 /\ todo = {} /\ trans = {}

PInv ==
  /\ stage \in {"transform", "intersect"}
  /\ stage = "transform" => ProductNotBegun
  /\ ObsInv /\ InterInv /\ TraceInv

(* A record of transitions and an initial state is an FSM over its own states. *)
LEMMA RecordIsFsm ==
  ASSUME NEW S, NEW f \in FsmRecord(S)
  PROVE  IsFsm(f)
BY DEF FsmRecord, IsFsm, StatesOf

LEMMA NotBegunInv == ProductNotBegun => InterInv /\ TraceInv
<1> SUFFICES ASSUME ProductNotBegun PROVE InterInv /\ TraceInv
  OBVIOUS
<1>1. InterInv
  BY InterInitInv DEF ProductNotBegun
<1>2. TraceInv
  BY DEF ProductNotBegun, TraceInv, ReachTraceLeadsToNode, Node
<1> QED BY <1>1, <1>2

LEMMA PInitInv == PInit => PInv
<1> SUFFICES ASSUME PInit PROVE PInv
  OBVIOUS
<1>1. stage \in {"transform", "intersect"}
  BY CallsAssumption DEF PInit
<1>2. IsFsm(f1) /\ IsFsm(f2)
  BY RecordIsFsm, Fsms1Assumption, Fsms2Assumption DEF PInit, Init
<1>3. ProductNotBegun
  BY <1>2 DEF PInit, Init, ProductNotBegun
<1> QED BY <1>1, <1>3, NotBegunInv, ObsInitInv DEF PInit, PInv

LEMMA CallIntersectInv == PInv /\ CallIntersect => PInv'
<1> SUFFICES ASSUME PInv, CallIntersect PROVE PInv'
  OBVIOUS
<1>1. f1' = [trans |-> obsTrans, init |-> 1] /\ f2' = f2 /\ stage' = "intersect" /\ UNCHANGED obsVars
  BY DEF CallIntersect
<1>2. ObsInv'
  BY <1>1, ObsStepInv DEF PInv
<1>3. IsFsm(f1)'
  <2>1. obsTrans \in SUBSET (ObsNode \X Label \X ObsNode)
    BY DEF PInv, ObsInv, ObsTypes
  <2> QED BY <1>1, <2>1 DEF IsFsm, StatesOf
<1>4. IsFsm(f2)'
  BY <1>1 DEF IsFsm, StatesOf, PInv, InterInv, InterTypes
<1>5. ProductNotBegun'
  BY <1>1, <1>3, <1>4 DEF CallIntersect, ProductNotBegun, PInv
<1>6. (ProductNotBegun => InterInv /\ TraceInv)'
  BY NotBegunInv, PTL
<1> QED BY <1>1, <1>2, <1>5, <1>6 DEF PInv

LEMMA PStepInv == PInv /\ [PNext]_allVars => PInv'
<1> SUFFICES ASSUME PInv, [PNext]_allVars PROVE PInv'
  OBVIOUS
<1>1. CASE Transform
  <2>1. ObsInv'
    BY <1>1, ObsStepInv DEF Transform, PInv
  <2>2. UNCHANGED vars /\ UNCHANGED stage
    BY <1>1 DEF Transform, interVars, vars
  <2>3. InterInv' /\ TraceInv'
    BY <2>2, InterStepInv, TraceStepInv DEF PInv
  <2>4. ProductNotBegun'
    BY <1>1, <2>2 DEF Transform, PInv, ProductNotBegun, IsFsm, StatesOf, vars
  <2> QED BY <2>1, <2>2, <2>3, <2>4 DEF PInv
<1>2. CASE CallIntersect
  BY <1>2, CallIntersectInv
<1>3. CASE Intersect
  <2>1. InterInv' /\ TraceInv'
    BY <1>3, InterStepInv, TraceStepInv DEF Intersect, PInv
  <2>2. ObsInv'
    BY <1>3, ObsStepInv DEF Intersect, PInv
  <2> QED BY <1>3, <2>1, <2>2 DEF Intersect, PInv
<1>4. CASE UNCHANGED allVars
  <2>1. UNCHANGED stage /\ UNCHANGED obsVars /\ UNCHANGED vars
    BY <1>4 DEF allVars, interVars, vars
  <2>2. ObsInv' /\ InterInv' /\ TraceInv'
    BY <2>1, ObsStepInv, InterStepInv, TraceStepInv DEF PInv
  <2>3. ProductNotBegun => ProductNotBegun'
    BY <2>1 DEF ProductNotBegun, IsFsm, StatesOf, vars
  <2> QED BY <2>1, <2>2, <2>3 DEF PInv
<1> QED BY <1>1, <1>2, <1>3, <1>4 DEF PNext, Done

LEMMA PSpecInv == PSpec => []PInv
BY PInitInv, PStepInv, PTL DEF PSpec

(***************************************************************************)
(* For all FSMs: transformToObservableFSM makes one node for each set of   *)
(* states and joins the nodes as the sets are joined.                      *)
(***************************************************************************)
THEOREM SubsetConstructionHolds == PSpec => []SubsetConstruction
<1>1. PInv => SubsetConstruction
  BY ObsInvImpliesExact DEF PInv
<1> QED BY <1>1, PSpecInv, PTL

(***************************************************************************)
(* For all FSMs: intersect makes one node for each pair, works on it once, *)
(* and gives it the transitions of the product, also when the first FSM is *)
(* one that transformToObservableFSM has made.                             *)
(***************************************************************************)
THEOREM ProductConstructionHolds == PSpec => []ProductConstruction
<1>1. PInv => ProductConstruction
  BY InterInvImpliesProduct DEF PInv
<1> QED BY <1>1, PSpecInv, PTL

(***************************************************************************)
(* For all FSMs: the reach trace that intersect stores with a node leads   *)
(* both FSMs to the node's states.                                         *)
(***************************************************************************)
THEOREM ReachTracesLead == PSpec => []ReachTraceLeadsToNode
<1>1. PInv => ReachTraceLeadsToNode
  BY DEF PInv, TraceInv
<1> QED BY <1>1, PSpecInv, PTL

(***************************************************************************)
(* For all observable FSMs, isStrongSemiReductionOf answers what its       *)
(* comment says of traces.  The traces up to a length that no reach trace  *)
(* exceeds are enough to tell.                                             *)
(***************************************************************************)
THEOREM VerdictHolds == PSpec => [](Len(fsmInterNodes) <= TraceBound + 1 => VerdictByTraces)
<1>1. PInv => (Len(fsmInterNodes) <= TraceBound + 1 => VerdictByTraces)
  BY InvImpliesVerdict, TraceBoundAssumption DEF PInv
<1> QED BY <1>1, PSpecInv, PTL

=============================================================================
