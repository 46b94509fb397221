-------------------------- MODULE Searches_proofs --------------------------
(***************************************************************************)
(* Proofs about three searches that go through a finite space step by step *)
(* and may leave nothing out.                                              *)
(*                                                                         *)
(* The walk through the nodes of an Fsm and the removal of what it has not *)
(* marked, for every Fsm:                                                  *)
(*                                                                         *)
(*   - if the initial state is node 0, it stays the initial state, ids and *)
(*     names follow the indexes, and all variables keep their types;       *)
(*   - until a client marks nodes through apply, walks mark exactly the    *)
(*     nodes that can be reached, and no such node is removed;             *)
(*   - a removal keeps only nodes that can be reached, whatever was marked.*)
(*                                                                         *)
(* The inductive invariant says of the walk that every marked node has its *)
(* targets marked, queued or still to be looked at, and that the initial   *)
(* state is marked or queued once a walk has begun; so when a walk is done *)
(* the marked nodes are closed under transitions and hold the initial      *)
(* state.                                                                  *)
(*                                                                         *)
(* The enumerator delivers every machine once, for any number of inputs,   *)
(* outputs and states: UpdateTable yields the next table in the            *)
(* lexicographic order, so the tables passed are those up to the current   *)
(* one, and it stops at the last of all tables.                            *)
(*                                                                         *)
(* If every HittingSet object is asked before the next one is constructed, *)
(* which is how calcStateIdentificationSets uses the class,                *)
(* calcMinCardHittingSet returns a smallest hitting set, for every system  *)
(* of finite sets.  The argument (Search): a hitting set g that would be   *)
(* smaller than the best candidate is still ahead of the search, because   *)
(* an activation of expandNode on the stack has yet to leave out an        *)
(* element that g does not contain.  When the stack is empty, there is no  *)
(* such g.                                                                 *)
(***************************************************************************)
EXTENDS Reachability, Enumerator, HittingSet, FiniteSetTheorems, SequenceTheorems, WellFoundedInduction, TLAPS

(* Induction on the naturals, as a fact about a set. *)
LEMMA SetInduction ==
  ASSUME NEW A, 0 \in A, \A n \in Nat : n \in A => n + 1 \in A
  PROVE  Nat \subseteq A
<1> DEFINE T == {n \in Nat : n \notin A}
           R == {ss \in Nat \X Nat : ss[1] < ss[2]}
<1> SUFFICES ASSUME T # {} PROVE FALSE
  OBVIOUS
<1>1. IsWellFoundedOn(R, Nat)
  BY NatLessThanWellFounded DEF OpToRel
<1>2. PICK x \in T : \A y \in T : ~(<<y, x>> \in R)
  <2> HIDE DEF R
  <2> QED BY <1>1, WFMin
<1>3. x # 0
  OBVIOUS
<1>4. x - 1 \in T
  BY <1>3
<1>5. <<x - 1, x>> \in R
  BY <1>3
<1> QED BY <1>2, <1>4, <1>5

-----------------------------------------------------------------------------
(***************************************************************************)
(* The walk and the removal.                                               *)
(***************************************************************************)
Queued == {bfsq[i] : i \in DOMAIN bfsq}
Pending == {todo[i][2] : i \in DOMAIN todo}

(* only a walk in progress has nodes queued or transitions pending *)
QueuesIdle == pc \in {"idle", "drop"} => WalkDone

(* until apply marks nodes, the targets of a marked node are marked, queued or pending *)
MarkedCovered ==
  ~applied =>
    /\ visited \subseteq Node
    /\ \A n \in visited : \A t \in Targets(n) : t \in visited \/ t \in Queued \/ t \in Pending

(* a walk starts at the initial state, and what was dropped was dropped after a walk *)
WalkFromStart ==
  /\ pc \in {"accept", "mark"} => startNode \in visited \/ startNode \in Queued
  /\ pc = "drop" => startNode \in visited

(* the initial state is the first node, of nodes and of the new nodes *)
StartFirst ==
  /\ initStateIdx = 0
  /\ nodes # << >>
  /\ nodes[1] = startNode
  /\ pc = "drop" => /\ newNodes = << >> => subtractFromId = 0
                    /\ newNodes # << >> => newNodes[1] = startNode

(* what is not yet looked at by a removal is numbered and named as before *)
Unseen(j) == j \in DOMAIN nodes /\ (pc = "drop" => j >= Index)

IdsAligned ==
  /\ \A i, j \in DOMAIN nodes : nodes[i] = nodes[j] => i = j
  /\ \A j \in DOMAIN nodes : Unseen(j) => id[nodes[j]] = j - 1
  /\ pc = "drop" =>
       /\ Index <= Len(nodes) + 1
       /\ \A i \in DOMAIN newNodes :
            /\ id[newNodes[i]] = i - 1
            /\ \A j \in DOMAIN newNodes : newNodes[i] = newNodes[j] => i = j
            /\ \A j \in DOMAIN nodes : Unseen(j) => newNodes[i] # nodes[j]

NamesAligned ==
  state2String = IF pc = "drop" THEN newNodes \o SubSeq(nodes, Index, Len(nodes)) ELSE nodes

(* the types of all variables but the marks and the history variable of the marks *)
Types ==
  /\ trans \in [Node -> Seq(Input \X Node)]
  /\ nodes \in Seq(Node)
  /\ initStateIdx \in Nat
  /\ maxState \in Nat
  /\ id \in [Node -> Int]
  /\ state2String \in Seq(Node)
  /\ startNode \in Node
  /\ pc \in {"idle", "accept", "mark", "drop"}
  /\ bfsq \in Seq(Node)
  /\ todo \in Seq(Input \X Node)
  /\ newNodes \in Seq(Node)
  /\ subtractFromId \in Nat
  /\ unreachableNodes \subseteq Node

IInv == Types /\ QueuesIdle /\ MarkedCovered /\ WalkFromStart /\ StartFirst
             /\ OnlyUnreachableRemoved /\ IdsAligned /\ NamesAligned

-----------------------------------------------------------------------------
(* Everything below is about Fsms whose initial state is node 0, as every   *)
(* constructor from a node vector leaves it.                                *)
InitAtZero == \A f \in FreshFsms : f.initStateIdx = 0

LEMMA TailElements ==
  ASSUME NEW S, NEW seq \in Seq(S), seq # << >>
  PROVE  /\ Tail(seq) \in Seq(S)
         /\ Head(seq) \in S
         /\ {seq[i] : i \in DOMAIN seq} = {Head(seq)} \cup {Tail(seq)[i] : i \in DOMAIN Tail(seq)}
<1>1. Tail(seq) \in Seq(S) /\ Len(Tail(seq)) = Len(seq) - 1 /\ Len(seq) \in Nat \ {0} /\ Head(seq) = seq[1]
  OBVIOUS
<1>2. \A i \in DOMAIN Tail(seq) : i + 1 \in DOMAIN seq /\ Tail(seq)[i] = seq[i + 1]
  OBVIOUS
<1>3. \A i \in DOMAIN seq : i = 1 \/ (i - 1 \in DOMAIN Tail(seq) /\ seq[i] = Tail(seq)[i - 1])
  BY <1>1
<1>4. 1 \in DOMAIN seq
  BY <1>1
<1>5. {seq[i] : i \in DOMAIN seq} \subseteq {Head(seq)} \cup {Tail(seq)[i] : i \in DOMAIN Tail(seq)}
  <2>1. ASSUME NEW i \in DOMAIN seq
        PROVE  seq[i] = Head(seq) \/ \E j \in DOMAIN Tail(seq) : seq[i] = Tail(seq)[j]
    <3>1. CASE i = 1
      BY <1>1, <3>1
    <3>2. CASE i - 1 \in DOMAIN Tail(seq) /\ seq[i] = Tail(seq)[i - 1]
      BY ONLY <3>2
    <3> QED BY ONLY <1>3, <2>1, <3>1, <3>2
  <2> QED BY ONLY <2>1
<1>6. {Tail(seq)[i] : i \in DOMAIN Tail(seq)} \subseteq {seq[i] : i \in DOMAIN seq}
  BY <1>2
<1> QED BY <1>1, <1>4, <1>5, <1>6

(* what is left of seq from i on loses its first element *)
LEMMA RestElements ==
  ASSUME NEW S, NEW seq \in Seq(S), NEW i \in 1 .. Len(seq) + 1
  PROVE  /\ SubSeq(seq, i, Len(seq)) \in Seq(S)
         /\ Len(SubSeq(seq, i, Len(seq))) = Len(seq) - i + 1
         /\ \A k \in 1 .. Len(seq) - i + 1 : SubSeq(seq, i, Len(seq))[k] = seq[i + k - 1]
OBVIOUS

LEMMA MoveNext ==
  ASSUME NEW S, NEW seq \in Seq(S), NEW t \in Seq(S), NEW i \in 1 .. Len(seq)
  PROVE  t \o SubSeq(seq, i, Len(seq)) = Append(t, seq[i]) \o SubSeq(seq, i + 1, Len(seq))
<1> DEFINE r == SubSeq(seq, i + 1, Len(seq))
<1>1. i \in 1 .. Len(seq) /\ Len(seq) \in i .. Len(seq) /\ i + 1 \in 1 .. Len(seq) + 1 /\ seq[i] \in S
  OBVIOUS
<1>2. SubSeq(seq, i, Len(seq)) = <<seq[i]>> \o r
  BY <1>1, SubSeqRecursiveFirst
<1>3. r \in Seq(S)
  BY <1>1, RestElements
<1>4. <<seq[i]>> \in Seq(S)
  BY <1>1
<1> HIDE DEF r
<1>5. t \o (<<seq[i]>> \o r) = (t \o <<seq[i]>>) \o r
  BY <1>3, <1>4, ConcatAssociative, SMTT(60)
<1>6. t \o <<seq[i]>> = Append(t, seq[i])
  BY <1>1, AppendIsConcat
<1> QED BY <1>2, <1>5, <1>6 DEF r

LEMMA RemoveNext ==
  ASSUME NEW S, NEW seq \in Seq(S), NEW t \in Seq(S), NEW i \in 1 .. Len(seq)
  PROVE  EraseAt(t \o SubSeq(seq, i, Len(seq)), Len(t) + 1) = t \o SubSeq(seq, i + 1, Len(seq))
<1> DEFINE u == SubSeq(seq, i + 1, Len(seq))
           c == Append(t, seq[i])
           a == c \o u
<1>1. i + 1 \in 1 .. Len(seq) + 1 /\ seq[i] \in S /\ Len(t) \in Nat
  OBVIOUS
<1>2. u \in Seq(S) /\ Len(u) \in Nat
  BY <1>1, RestElements
<1>3. c \in Seq(S) /\ Len(c) = Len(t) + 1 /\ \A k \in 1 .. Len(t) : c[k] = t[k]
  BY <1>1
<1>4. t \o SubSeq(seq, i, Len(seq)) = a
  BY MoveNext
<1> HIDE DEF u, c
<1>5. a \in Seq(S) /\ Len(a) = Len(t) + 1 + Len(u)
        /\ (\A k \in 1 .. Len(t) : a[k] = t[k])
        /\ (\A k \in 1 .. Len(u) : a[Len(t) + 1 + k] = u[k])
  <2>1. /\ c \o u \in Seq(S) /\ Len(c \o u) = Len(c) + Len(u)
        /\ \A k \in 1 .. Len(c) + Len(u) : (c \o u)[k] = IF k <= Len(c) THEN c[k] ELSE u[k - Len(c)]
    BY <1>2, <1>3, ConcatProperties
  <2>2. \A k \in 1 .. Len(t) : a[k] = t[k]
    BY <1>1, <1>2, <1>3, <2>1
  <2>3. ASSUME NEW k \in 1 .. Len(u) PROVE a[Len(t) + 1 + k] = u[k]
    <3>1. /\ Len(t) + 1 + k \in 1 .. Len(c) + Len(u)
          /\ ~(Len(t) + 1 + k <= Len(c))
          /\ Len(t) + 1 + k - Len(c) = k
      BY <1>1, <1>2, <1>3
    <3> DEFINE n == Len(t) + 1 + k
    <3>2. n \in 1 .. Len(c) + Len(u) /\ ~(n <= Len(c)) /\ n - Len(c) = k
      BY ONLY <3>1
    <3> HIDE DEF n
    <3>3. (c \o u)[n] = u[k]
      BY ONLY <2>1, <3>2
    <3> QED BY ONLY <3>3 DEF n
  <2> QED BY <1>1, <1>2, <1>3, <2>1, <2>2, <2>3
<1> HIDE DEF a
<1>6. SubSeq(a, 1, Len(t)) = t
  <2>1. SubSeq(a, 1, Len(t)) \in Seq(S) /\ Len(SubSeq(a, 1, Len(t))) = Len(t)
          /\ \A k \in 1 .. Len(t) : SubSeq(a, 1, Len(t))[k] = t[k]
    BY <1>1, <1>2, <1>5
  <2> QED BY <2>1, SeqEqual
<1>7. SubSeq(a, Len(t) + 2, Len(a)) = u
  <2>1. SubSeq(a, Len(t) + 2, Len(a)) \in Seq(S) /\ Len(SubSeq(a, Len(t) + 2, Len(a))) = Len(u)
          /\ \A k \in 1 .. Len(u) : SubSeq(a, Len(t) + 2, Len(a))[k] = u[k]
    BY <1>1, <1>2, <1>5
  <2> QED BY <1>2, <2>1, SeqEqual
<1>8. EraseAt(a, Len(t) + 1) = SubSeq(a, 1, Len(t)) \o SubSeq(a, Len(t) + 2, Len(a))
  <2>1. Len(t) + 1 \in 1 .. Len(a) /\ Len(t) + 1 - 1 = Len(t) /\ Len(t) + 1 + 1 = Len(t) + 2
    BY <1>1, <1>2, <1>5
  <2> DEFINE m == Len(t) + 1
  <2>2. m \in 1 .. Len(a) /\ m - 1 = Len(t) /\ m + 1 = Len(t) + 2
    BY <2>1
  <2> HIDE DEF m
  <2>3. EraseAt(a, m) = SubSeq(a, 1, m - 1) \o SubSeq(a, m + 1, Len(a))
    BY ONLY <2>2 DEF EraseAt, RemoveAt
  <2> QED BY ONLY <2>2, <2>3 DEF m
<1> QED BY <1>4, <1>6, <1>7, <1>8 DEF u

(* reachability is about the transitions only *)
LEMMA ReachableUnchanged ==
  ASSUME OnlyUnreachableRemoved, UNCHANGED <<trans, startNode, unreachableNodes, applied>>
  PROVE  OnlyUnreachableRemoved'
<1>1. \A n : Targets(n)' = Targets(n)
  BY DEF Targets
<1>2. \A C : Closed(C)' <=> Closed(C)
  BY <1>1 DEF Closed
<1>3. ReachableFrom(startNode)' = ReachableFrom(startNode)
  BY <1>2 DEF ReachableFrom
<1> QED BY <1>3 DEF OnlyUnreachableRemoved

LEMMA InitIInv ==
  ASSUME InitAtZero, Init
  PROVE  IInv
<1>1. PICK f \in FreshFsms :
        /\ trans = f.trans
        /\ nodes = f.nodes
        /\ initStateIdx = f.initStateIdx
        /\ maxState = Len(f.nodes) - 1
        /\ id = [n \in Node |-> IF \E i \in DOMAIN f.nodes : f.nodes[i] = n
                          THEN (CHOOSE i \in DOMAIN f.nodes : f.nodes[i] = n) - 1
                          ELSE -1]
        /\ visited = {}
        /\ state2String = f.nodes
        /\ startNode = f.nodes[f.initStateIdx + 1]
        /\ applied = FALSE
        /\ pc = "idle"
        /\ bfsq = << >>
        /\ todo = << >>
        /\ newNodes = << >>
        /\ subtractFromId = 0
        /\ unreachableNodes = {}
  BY DEF Init
<1>2. IsFsm(f) /\ f.initStateIdx = 0
  BY FreshFsmsAssumption DEF InitAtZero
<1>3. f.nodes \in Seq(Node) /\ Len(f.nodes) \in Nat \ {0} /\ 1 \in DOMAIN f.nodes
  BY <1>2 DEF IsFsm
<1>4. \A i \in DOMAIN nodes : nodes[i] \in Node /\ id[nodes[i]] = i - 1
  <2> SUFFICES ASSUME NEW i \in DOMAIN nodes PROVE nodes[i] \in Node /\ id[nodes[i]] = i - 1
    OBVIOUS
  <2>1. nodes[i] \in Node
    BY <1>1, <1>3
  <2>2. (CHOOSE j \in DOMAIN f.nodes : f.nodes[j] = nodes[i]) = i
    BY <1>1, <1>2 DEF IsFsm
  <2> QED BY <1>1, <2>1, <2>2
<1>5. id \in [Node -> Int]
  <2>1. ASSUME NEW n \in Node, \E i \in DOMAIN f.nodes : f.nodes[i] = n
        PROVE  (CHOOSE i \in DOMAIN f.nodes : f.nodes[i] = n) \in Int
    BY <2>1, <1>3
  <2> QED BY <1>1, <2>1
<1>6. Types
  BY <1>1, <1>2, <1>3, <1>5 DEF Types, IsFsm
<1>7. QueuesIdle /\ MarkedCovered /\ WalkFromStart /\ OnlyUnreachableRemoved
  BY <1>1 DEF QueuesIdle, WalkDone, MarkedCovered, WalkFromStart, OnlyUnreachableRemoved
<1>8. StartFirst
  BY <1>1, <1>2, <1>3 DEF StartFirst, IsFsm
<1>9. IdsAligned /\ NamesAligned
  BY <1>1, <1>2, <1>4 DEF IdsAligned, NamesAligned, Unseen, IsFsm
<1> QED BY <1>6, <1>7, <1>8, <1>9 DEF IInv

-----------------------------------------------------------------------------
(* a finished walk has marked all reachable nodes *)
LEMMA ReachableMarked ==
  ASSUME ~applied, MarkedCovered, WalkDone, startNode \in visited
  PROVE  ReachableFrom(startNode) \subseteq visited
<1>1. Queued = {} /\ Pending = {}
  BY DEF WalkDone, Queued, Pending
<1>2. Closed(visited)
  BY <1>1 DEF MarkedCovered, Closed
<1>3. visited \in SUBSET Node
  BY DEF MarkedCovered
<1> QED BY <1>2, <1>3 DEF ReachableFrom

(* apply sets marks and nothing else; what is claimed of the marks ends with it *)
LEMMA ApplyStep ==
  ASSUME IInv, NEW itrc, Apply(itrc)
  PROVE  IInv'
<1> USE DEF IInv, Apply, walkVars, removeVars
<1>1. Types' /\ QueuesIdle'
  BY DEF Types, QueuesIdle, WalkDone
<1>2. MarkedCovered' /\ OnlyUnreachableRemoved'
  BY DEF MarkedCovered, OnlyUnreachableRemoved
<1>3. WalkFromStart' /\ StartFirst'
  BY DEF WalkFromStart, StartFirst
<1>4. IdsAligned' /\ NamesAligned'
  BY DEF IdsAligned, NamesAligned, Unseen, Index
<1> QED BY <1>1, <1>2, <1>3, <1>4

LEMMA BeginWalkStep ==
  ASSUME IInv, NEW c \in {"accept", "mark"}, BeginWalk(c)
  PROVE  IInv'
<1> USE DEF IInv, BeginWalk, fsmVars, removeVars
<1>1. InitialState \in Node /\ InitialState = startNode
  BY DEF Types, StartFirst, InitialState
<1>2. Types'
  BY <1>1 DEF Types
<1>3. Queued' = {startNode}
  BY <1>1 DEF Queued
<1>4. QueuesIdle' /\ MarkedCovered' /\ WalkFromStart'
  <2>1. MarkedCovered'
    BY DEF MarkedCovered, Targets, QueuesIdle, WalkDone, Queued, Pending
  <2> QED BY <1>3, <2>1 DEF QueuesIdle, WalkFromStart
<1>5. StartFirst' /\ OnlyUnreachableRemoved'
  BY ReachableUnchanged DEF StartFirst
<1>6. IdsAligned' /\ NamesAligned'
  BY DEF IdsAligned, NamesAligned, Unseen, Index
<1> QED BY <1>2, <1>4, <1>5, <1>6

LEMMA AcceptNodeStep ==
  ASSUME IInv, AcceptNode
  PROVE  IInv'
<1> USE DEF IInv, AcceptNode, fsmVars, removeVars
<1>1. bfsq \in Seq(Node) /\ bfsq # << >>
  BY DEF Types
<1>2. Queued = {Head(bfsq)} \cup Queued' /\ Head(bfsq) \in Node /\ bfsq' \in Seq(Node)
  BY <1>1, TailElements DEF Queued
<1>3. todo' \in Seq(Input \X Node)
  BY <1>2 DEF Types
<1>4. Types'
  BY <1>2, <1>3 DEF Types
<1>5. Pending = {} /\ Pending' = Targets(Head(bfsq))
  BY DEF Pending, Targets
<1>6. MarkedCovered'
  BY <1>2, <1>5 DEF MarkedCovered, Targets
<1>7. QueuesIdle' /\ WalkFromStart'
  BY <1>2 DEF QueuesIdle, WalkDone, WalkFromStart
<1>8. StartFirst' /\ OnlyUnreachableRemoved'
  BY ReachableUnchanged DEF StartFirst
<1>9. IdsAligned' /\ NamesAligned'
  BY DEF IdsAligned, NamesAligned, Unseen, Index
<1> QED BY <1>4, <1>6, <1>7, <1>8, <1>9

LEMMA PushTargetStep ==
  ASSUME IInv, PushTarget
  PROVE  IInv'
<1> USE DEF IInv, PushTarget, fsmVars, removeVars
<1> DEFINE t == Head(todo)[2]
<1>1. todo \in Seq(Input \X Node) /\ todo # << >> /\ bfsq \in Seq(Node)
  BY DEF Types
<1>2. /\ Head(todo) \in Input \X Node
      /\ todo' \in Seq(Input \X Node)
      /\ {todo[i] : i \in DOMAIN todo} = {Head(todo)} \cup {todo'[i] : i \in DOMAIN todo'}
  <2>1. todo' = Tail(todo)
    OBVIOUS
  <2>2. \A S : todo \in Seq(S) =>
            /\ Tail(todo) \in Seq(S)
            /\ Head(todo) \in S
            /\ {todo[i] : i \in DOMAIN todo}
                 = {Head(todo)} \cup {Tail(todo)[i] : i \in DOMAIN Tail(todo)}
    BY ONLY <1>1, TailElements
  <2>3. /\ Tail(todo) \in Seq(Input \X Node)
        /\ Head(todo) \in Input \X Node
        /\ {todo[i] : i \in DOMAIN todo}
             = {Head(todo)} \cup {Tail(todo)[i] : i \in DOMAIN Tail(todo)}
    BY ONLY <1>1, <2>2
  <2> QED BY ONLY <2>1, <2>3
<1>3. Pending = {t} \cup Pending'
  <2>1. \A i \in DOMAIN todo : todo[i] \in {Head(todo)} \cup {todo'[j] : j \in DOMAIN todo'}
    BY ONLY <1>2
  <2>2. \A j \in DOMAIN todo' : todo'[j] \in {todo[i] : i \in DOMAIN todo}
    BY ONLY <1>2
  <2>3. Head(todo) \in {todo[i] : i \in DOMAIN todo}
    BY ONLY <1>2
  <2> QED BY ONLY <2>1, <2>2, <2>3 DEF Pending
<1>4. t \in Node
  BY <1>2
<1>5. bfsq' \in Seq(Node) /\ Queued \subseteq Queued' /\ (t \in visited \/ t \in Queued')
  <2>1. CASE t \in visited
    BY <2>1, <1>1 DEF Queued
  <2>2. CASE t \notin visited
    <3>1. bfsq' = Append(bfsq, t)
      BY <2>2
    <3>2. \A i \in DOMAIN bfsq : i \in DOMAIN bfsq' /\ bfsq'[i] = bfsq[i]
      BY <3>1, <1>1, <1>4
    <3>3. Len(bfsq) + 1 \in DOMAIN bfsq' /\ bfsq'[Len(bfsq) + 1] = t /\ bfsq' \in Seq(Node)
      BY <3>1, <1>1, <1>4
    <3> QED BY <3>2, <3>3 DEF Queued
  <2> QED BY <2>1, <2>2
<1>6. Types'
  BY <1>2, <1>5 DEF Types
<1>7. MarkedCovered'
  BY <1>3, <1>5 DEF MarkedCovered, Targets
<1>8. QueuesIdle' /\ WalkFromStart'
  BY <1>1, <1>5 DEF QueuesIdle, WalkDone, WalkFromStart
<1>9. StartFirst' /\ OnlyUnreachableRemoved'
  BY ReachableUnchanged DEF StartFirst
<1>10. IdsAligned' /\ NamesAligned'
  BY DEF IdsAligned, NamesAligned, Unseen, Index
<1> QED BY <1>6, <1>7, <1>8, <1>9, <1>10

LEMMA EndClientWalkStep ==
  ASSUME IInv, EndClientWalk
  PROVE  IInv'
<1> USE DEF IInv, EndClientWalk, fsmVars, removeVars, walkVars
<1>1. Types' /\ QueuesIdle' /\ WalkFromStart'
  BY DEF Types, QueuesIdle, WalkFromStart, WalkDone
<1>2. MarkedCovered'
  BY DEF MarkedCovered, Targets, Queued, Pending
<1>3. StartFirst' /\ OnlyUnreachableRemoved'
  BY ReachableUnchanged DEF StartFirst
<1>4. IdsAligned' /\ NamesAligned'
  BY DEF IdsAligned, NamesAligned, Unseen, Index
<1> QED BY <1>1, <1>2, <1>3, <1>4

LEMMA BeginDropStep ==
  ASSUME IInv, BeginDrop
  PROVE  IInv'
<1> USE DEF IInv, BeginDrop, fsmVars, walkVars
<1>1. Types' /\ QueuesIdle'
  BY DEF Types, QueuesIdle, WalkDone
<1>2. WalkFromStart'
  BY DEF WalkFromStart, WalkDone, Queued
<1>3. MarkedCovered'
  BY DEF MarkedCovered, Targets, Queued, Pending
<1>4. StartFirst' /\ OnlyUnreachableRemoved'
  BY ReachableUnchanged DEF StartFirst
<1>5. Index' = 1 /\ nodes' \in Seq(Node) /\ Len(nodes') \in Nat
  BY DEF Index, Types
<1>6. IdsAligned'
  BY <1>5 DEF IdsAligned, Unseen
<1>7. NamesAligned'
  <2>1. SubSeq(nodes, 1, Len(nodes)) = nodes /\ << >> \o nodes = nodes
    BY <1>5
  <2> QED BY <2>1, <1>5 DEF NamesAligned
<1> QED BY <1>1, <1>2, <1>3, <1>4, <1>6, <1>7

(* the loop of removeUnreachableNodes: facts used by all of its steps *)
LEMMA LoopFacts ==
  ASSUME IInv, pc = "drop"
  PROVE  /\ Index \in Nat \ {0}
         /\ Index = Len(newNodes) + subtractFromId + 1
         /\ newNodes \in Seq(Node) /\ Len(newNodes) \in Nat /\ subtractFromId \in Nat
         /\ nodes \in Seq(Node) /\ Len(nodes) \in Nat \ {0} /\ DOMAIN nodes = 1 .. Len(nodes)
         /\ Index \in 1 .. Len(nodes) + 1
         /\ ~applied => ReachableFrom(startNode) \subseteq visited
         /\ id \in [Node -> Int]
         /\ \A i, j \in 1 .. Len(nodes) : nodes[i] = nodes[j] => i = j
         /\ \A j \in Index .. Len(nodes) : id[nodes[j]] = j - 1
         /\ \A i \in 1 .. Len(newNodes) :
              /\ id[newNodes[i]] = i - 1
              /\ \A j \in Index .. Len(nodes) : newNodes[i] # nodes[j]
<1>1. /\ newNodes \in Seq(Node) /\ Len(newNodes) \in Nat /\ subtractFromId \in Nat
      /\ nodes \in Seq(Node) /\ Len(nodes) \in Nat \ {0} /\ DOMAIN nodes = 1 .. Len(nodes)
      /\ id \in [Node -> Int]
  BY DEF IInv, Types, StartFirst
<1>2. Index \in Nat \ {0} /\ Index = Len(newNodes) + subtractFromId + 1
  BY <1>1 DEF Index
<1>3. Index <= Len(nodes) + 1
  BY DEF IInv, IdsAligned
<1>4. ~applied => ReachableFrom(startNode) \subseteq visited
  BY ReachableMarked DEF IInv, QueuesIdle, WalkFromStart
<1>5. DOMAIN newNodes = 1 .. Len(newNodes)
  BY <1>1
<1>6. \A j \in Index .. Len(nodes) : Unseen(j)
  BY <1>1, <1>2 DEF Unseen
<1>7. IdsAligned
  BY DEF IInv
<1>8. \A i, j \in 1 .. Len(nodes) : nodes[i] = nodes[j] => i = j
  BY <1>1, <1>7 DEF IdsAligned
<1>9. \A j \in Index .. Len(nodes) : j \in DOMAIN nodes
  BY <1>1, <1>2
<1>10. \A j \in Index .. Len(nodes) : id[nodes[j]] = j - 1
  BY <1>6, <1>7, <1>9 DEF IdsAligned
<1>11. \A i \in 1 .. Len(newNodes) :
          /\ id[newNodes[i]] = i - 1
          /\ \A j \in Index .. Len(nodes) : newNodes[i] # nodes[j]
  BY <1>5, <1>6, <1>7, <1>9 DEF IdsAligned
<1>12. Index \in 1 .. Len(nodes) + 1
  BY ONLY <1>1, <1>2, <1>3
<1> QED BY ONLY <1>1, <1>2, <1>4, <1>8, <1>10, <1>11, <1>12

LEMMA DropNodeStep ==
  ASSUME IInv, DropNode
  PROVE  IInv'
<1> USE DEF DropNode, walkVars
<1>1. /\ Index \in 1 .. Len(nodes)
      /\ nodes[Index] \in Node
      /\ Index' = Index + 1
      /\ Len(newNodes) \in Nat
      /\ subtractFromId \in Nat
      /\ Index = Len(newNodes) + subtractFromId + 1
  BY LoopFacts DEF IInv, Types, Index
<1>2. id[nodes[Index]] - subtractFromId + 1 = Len(newNodes) + 1
  <2>1. id[nodes[Index]] = Index - 1
    <3>1. Index \in Index .. Len(nodes)
      BY ONLY <1>1
    <3> QED BY <3>1, LoopFacts
  <2> QED BY ONLY <1>1, <2>1
<1>3. state2String' = newNodes \o SubSeq(nodes, Index + 1, Len(nodes))
  <2>1. state2String = newNodes \o SubSeq(nodes, Index, Len(nodes))
    BY DEF IInv, NamesAligned
  <2>2. state2String' = EraseAt(state2String, Len(newNodes) + 1)
    BY <1>2
  <2>3. nodes \in Seq(Node) /\ newNodes \in Seq(Node)
    BY LoopFacts
  <2> QED BY ONLY <1>1, <2>1, <2>2, <2>3, RemoveNext
<1>4. Types'
  <2>1. state2String' \in Seq(Node)
    <3>1. SubSeq(nodes, Index + 1, Len(nodes)) \in Seq(Node)
      BY ONLY <1>1, LoopFacts, RestElements, IInv, pc = "drop", Index + 1 \in 1 .. Len(nodes) + 1
    <3> QED BY ONLY <1>3, <3>1, LoopFacts, IInv, pc = "drop"
  <2>2. subtractFromId' \in Nat /\ unreachableNodes' \subseteq Node
    BY <1>1 DEF IInv, Types
  <2> QED BY <2>1, <2>2 DEF IInv, Types
<1>5. QueuesIdle' /\ MarkedCovered' /\ WalkFromStart'
  BY DEF IInv, QueuesIdle, WalkDone, MarkedCovered, WalkFromStart, Targets, Queued, Pending
<1>6. StartFirst'
  <2>1. newNodes # << >>
    <3> SUFFICES ASSUME newNodes = << >> PROVE FALSE
      OBVIOUS
    <3>1. Index = 1 /\ nodes[1] \in visited
      BY <1>1 DEF IInv, StartFirst, WalkFromStart
    <3> QED BY <3>1
  <2> QED BY <2>1 DEF IInv, StartFirst
<1>7. OnlyUnreachableRemoved'
  <2>1. ~applied => nodes[Index] \notin ReachableFrom(startNode)
    BY LoopFacts
  <2>2. ReachableFrom(startNode)' = ReachableFrom(startNode)
    BY DEF ReachableFrom, Closed, Targets
  <2> QED BY <2>1, <2>2 DEF IInv, OnlyUnreachableRemoved
<1>8. IdsAligned'
  <2>1. IdsAligned /\ DOMAIN nodes = 1 .. Len(nodes)
    BY LoopFacts DEF IInv
  <2> QED BY <1>1, <2>1 DEF IdsAligned, Unseen
<1>9. NamesAligned'
  BY <1>1, <1>3 DEF NamesAligned
<1> QED BY <1>9, <1>4, <1>5, <1>6, <1>7, <1>8 DEF IInv

LEMMA KeepNodeStep ==
  ASSUME IInv, KeepNode
  PROVE  IInv'
<1> USE DEF KeepNode, walkVars
<1> DEFINE n == nodes[Index]
<1>1. /\ Index \in 1 .. Len(nodes)
      /\ n \in Node
      /\ Index' = Index + 1
      /\ newNodes \in Seq(Node) /\ Len(newNodes) \in Nat
      /\ nodes \in Seq(Node)
      /\ subtractFromId \in Nat
      /\ Index = Len(newNodes) + subtractFromId + 1
      /\ id \in [Node -> Int]
  <2>1. /\ newNodes \in Seq(Node) /\ Len(newNodes) \in Nat
        /\ nodes \in Seq(Node) /\ Len(nodes) \in Nat
        /\ subtractFromId \in Nat
        /\ Index = Len(newNodes) + subtractFromId + 1
        /\ id \in [Node -> Int]
    BY LoopFacts
  <2>2. Index \in 1 .. Len(nodes)
    BY LoopFacts
  <2>3. n \in Node
    BY ONLY <2>1, <2>2
  <2>4. newNodes' = Append(newNodes, n) /\ subtractFromId' = subtractFromId
    OBVIOUS
  <2>5. Len(newNodes') = Len(newNodes) + 1
    BY ONLY <2>1, <2>3, <2>4
  <2>6. Index' = Index + 1
    BY <2>1, <2>4, <2>5 DEF Index
  <2> QED BY ONLY <2>1, <2>2, <2>3, <2>6
<1>2. id[n] = Index - 1
  <2>1. Index \in Index .. Len(nodes)
    BY ONLY <1>1
  <2> QED BY <2>1, LoopFacts
<1>3. id' \in [Node -> Int] /\ id'[n] = Len(newNodes) /\ \A m \in Node : m # n => id'[m] = id[m]
  BY <1>1, <1>2
<1>4. newNodes' \in Seq(Node) /\ newNodes' # << >>
      /\ Len(newNodes') = Len(newNodes) + 1 /\ newNodes'[Len(newNodes) + 1] = n
      /\ \A i \in 1 .. Len(newNodes) : newNodes'[i] = newNodes[i]
  <2>1. newNodes' = Append(newNodes, n)
    OBVIOUS
  <2> HIDE DEF n
  <2> QED BY ONLY <1>1, <2>1, AppendProperties
<1>5. Types'
  BY <1>3, <1>4 DEF IInv, Types
<1>6. QueuesIdle' /\ MarkedCovered' /\ WalkFromStart'
  BY DEF IInv, QueuesIdle, WalkDone, MarkedCovered, WalkFromStart, Targets, Queued, Pending
<1>7. StartFirst'
  <2>1. CASE newNodes = << >>
    <3>1. Index = 1
      BY <1>1, <2>1 DEF IInv, StartFirst
    <3> QED BY <1>4, <2>1, <3>1 DEF IInv, StartFirst
  <2>2. CASE newNodes # << >>
    <3>1. newNodes'[1] = newNodes[1]
      BY <1>1, <1>4, <2>2
    <3> QED BY <1>4, <2>2, <3>1 DEF IInv, StartFirst
  <2> QED BY <2>1, <2>2
<1>8. OnlyUnreachableRemoved'
  BY ReachableUnchanged DEF IInv
<1>9. IdsAligned'
  <2>1. /\ DOMAIN nodes = 1 .. Len(nodes)
        /\ DOMAIN newNodes' = 1 .. Len(newNodes) + 1
    BY <1>1, <1>4
  <2>2. \A j \in 1 .. Len(nodes) : nodes[j] \in Node
    BY <1>1
  <2>3. \A i \in 1 .. Len(newNodes) : newNodes[i] \in Node
    BY <1>1
  <2>4. ASSUME NEW j \in Index + 1 .. Len(nodes)
        PROVE  nodes[j] # n /\ id'[nodes[j]] = j - 1
    <3>1. j \in Index .. Len(nodes) /\ j \in 1 .. Len(nodes) /\ j # Index
      BY <1>1
    <3>2. nodes[j] # n
      BY <1>1, <3>1, LoopFacts
    <3> QED BY <1>3, <2>2, <3>1, <3>2, LoopFacts
  <2>5. ASSUME NEW i \in 1 .. Len(newNodes)
        PROVE  newNodes[i] # n /\ id'[newNodes[i]] = i - 1
    <3>1. Index \in Index .. Len(nodes)
      BY ONLY <1>1
    <3>2. newNodes[i] # n
      BY <3>1, LoopFacts
    <3> QED BY <1>3, <2>3, <3>2, LoopFacts
  <2>6. ASSUME NEW i \in 1 .. Len(newNodes) + 1
        PROVE  id'[newNodes'[i]] = i - 1
    <3>1. CASE i = Len(newNodes) + 1
      BY ONLY <1>1, <1>3, <1>4, <3>1
    <3>2. CASE i \in 1 .. Len(newNodes)
      BY ONLY <1>4, <2>5, <3>2
    <3> QED BY ONLY <1>1, <3>1, <3>2, i \in 1 .. Len(newNodes) + 1
  <2>7. \A i, j \in 1 .. Len(newNodes) + 1 : newNodes'[i] = newNodes'[j] => i = j
    <3> SUFFICES ASSUME NEW i \in 1 .. Len(newNodes) + 1, NEW j \in 1 .. Len(newNodes) + 1,
                        newNodes'[i] = newNodes'[j]
                 PROVE  i = j
      OBVIOUS
    <3>1. i - 1 = j - 1
      BY <2>6
    <3> QED BY ONLY <1>1, <3>1, i \in 1 .. Len(newNodes) + 1, j \in 1 .. Len(newNodes) + 1
  <2>8. ASSUME NEW i \in 1 .. Len(newNodes) + 1, NEW j \in Index + 1 .. Len(nodes)
        PROVE  newNodes'[i] # nodes[j]
    <3>1. id'[newNodes'[i]] = i - 1 /\ id'[nodes[j]] = j - 1
      BY <2>4, <2>6
    <3>2. i - 1 # j - 1
      BY ONLY <1>1, i \in 1 .. Len(newNodes) + 1, j \in Index + 1 .. Len(nodes)
    <3> QED BY ONLY <3>1, <3>2
  <2>9. \A i, j \in DOMAIN nodes : nodes[i] = nodes[j] => i = j
    BY <2>1, LoopFacts
  <2>10. \A j \in DOMAIN nodes : Unseen(j)' => j \in Index + 1 .. Len(nodes)
    BY <1>1, <2>1 DEF Unseen
  <2>11. Index' <= Len(nodes') + 1 /\ pc' = "drop" /\ nodes' = nodes
    BY <1>1
  <2> QED BY ONLY <2>1, <2>4, <2>6, <2>7, <2>8, <2>9, <2>10, <2>11 DEF IdsAligned
<1>10. NamesAligned'
  <2>1. newNodes \o SubSeq(nodes, Index, Len(nodes))
          = Append(newNodes, n) \o SubSeq(nodes, Index + 1, Len(nodes))
    BY ONLY <1>1, MoveNext
  <2> QED BY <1>1, <2>1 DEF IInv, NamesAligned
<1> QED BY <1>5, <1>6, <1>7, <1>8, <1>9, <1>10 DEF IInv

LEMMA EndDropStep ==
  ASSUME IInv, EndDrop
  PROVE  IInv'
<1> USE DEF EndDrop, walkVars, removeVars
<1>1. newNodes \in Seq(Node) /\ newNodes # << >> /\ Index = Len(nodes) + 1
  <2>1. /\ Index \in 1 .. Len(nodes) + 1 /\ Index \notin 1 .. Len(nodes) /\ Len(nodes) \in Nat \ {0}
        /\ newNodes \in Seq(Node) /\ subtractFromId \in Nat
        /\ Index = Len(newNodes) + subtractFromId + 1
    BY LoopFacts
  <2>2. Index = Len(nodes) + 1
    BY ONLY <2>1
  <2>3. newNodes # << >>
    BY ONLY <2>1, <2>2, IInv, pc = "drop" DEF IInv, StartFirst
  <2> QED BY ONLY <2>1, <2>2, <2>3
<1>2. Types' /\ QueuesIdle' /\ WalkFromStart'
  BY <1>1 DEF IInv, Types, QueuesIdle, WalkFromStart, WalkDone
<1>3. MarkedCovered'
  BY DEF IInv, MarkedCovered, Targets, Queued, Pending
<1>4. StartFirst' /\ OnlyUnreachableRemoved'
  BY <1>1, ReachableUnchanged DEF IInv, StartFirst
<1>5. IdsAligned'
  BY DEF IInv, IdsAligned, Unseen
<1>6. NamesAligned'
  <2>1. state2String = newNodes \o SubSeq(nodes, Len(nodes) + 1, Len(nodes))
    BY <1>1 DEF IInv, NamesAligned
  <2>2. SubSeq(nodes, Len(nodes) + 1, Len(nodes)) = << >>
    BY DEF IInv, Types
  <2>3. state2String = newNodes
    BY <1>1, <2>1, <2>2
  <2> QED BY <2>3 DEF NamesAligned
<1> QED BY <1>2, <1>3, <1>4, <1>5, <1>6 DEF IInv

LEMMA StutterStep ==
  ASSUME IInv, UNCHANGED vars
  PROVE  IInv'
<1> USE DEF vars, fsmVars, walkVars, removeVars
<1>1. Types' /\ QueuesIdle' /\ WalkFromStart' /\ StartFirst'
  BY DEF IInv, Types, QueuesIdle, WalkFromStart, WalkDone, StartFirst, Queued
<1>2. MarkedCovered'
  BY DEF IInv, MarkedCovered, Targets, Queued, Pending
<1>3. OnlyUnreachableRemoved'
  BY ReachableUnchanged DEF IInv
<1>4. IdsAligned' /\ NamesAligned'
  BY DEF IInv, IdsAligned, NamesAligned, Unseen, Index
<1> QED BY <1>1, <1>2, <1>3, <1>4 DEF IInv

-----------------------------------------------------------------------------
(* IInv is inductive. *)
THEOREM Inductive ==
  ASSUME InitAtZero
  PROVE  Spec => []IInv
<1>1. Init => IInv
  BY InitIInv
<1>2. IInv /\ [Next]_vars => IInv'
  <2> SUFFICES ASSUME IInv, [Next]_vars PROVE IInv'
    OBVIOUS
  <2>1. ASSUME NEW itrc \in MarkingTraces, Apply(itrc) PROVE IInv'
    BY <2>1, ApplyStep
  <2>2. CASE BeginWalk("accept")
    BY <2>2, BeginWalkStep
  <2>3. CASE BeginWalk("mark")
    BY <2>3, BeginWalkStep
  <2>4. CASE WalkStep
    BY <2>4, AcceptNodeStep, PushTargetStep DEF WalkStep
  <2>5. CASE EndClientWalk
    BY <2>5, EndClientWalkStep
  <2>6. CASE RemoveStep
    BY <2>6, BeginDropStep, DropNodeStep, KeepNodeStep, EndDropStep DEF RemoveStep
  <2>7. CASE UNCHANGED vars
    BY <2>7, StutterStep
  <2> QED BY <2>1, <2>2, <2>3, <2>4, <2>5, <2>6, <2>7 DEF Next
<1> QED BY <1>1, <1>2, PTL DEF Spec

(* removeUnreachableNodes never hands back a node that is reachable from   *)
(* the state the Fsm started in, after any number of walks and removals    *)
(* before the first apply that marks, for every Fsm of every size.         *)
THEOREM RemovalIsSound ==
  ASSUME InitAtZero
  PROVE  Spec => []OnlyUnreachableRemoved
<1>1. IInv => OnlyUnreachableRemoved
  BY DEF IInv
<1> QED BY <1>1, Inductive, PTL

(* The initial state of the Fsm is the same node for ever, whatever marks  *)
(* the removals have relied on.                                            *)
THEOREM InitialStateStays ==
  ASSUME InitAtZero
  PROVE  Spec => []InitialStateKept
<1>1. IInv => InitialStateKept
  BY DEF IInv, Types, StartFirst, InitialStateKept, InitialState
<1> QED BY <1>1, Inductive, PTL

(* Between operations ids and names agree with the positions in nodes,     *)
(* whatever marks the removals have relied on.                             *)
THEOREM IdsAndNamesFollowNodes ==
  ASSUME InitAtZero
  PROVE  Spec => []IdIsIndex
<1>1. IInv => IdIsIndex
  BY DEF IInv, IdsAligned, NamesAligned, Unseen, IdIsIndex
<1> QED BY <1>1, Inductive, PTL

-----------------------------------------------------------------------------
(***************************************************************************)
(* What is marked can be reached: the leaves that apply marks as well as   *)
(* the nodes a walk marks, has queued or is about to look at.              *)
(***************************************************************************)
(* the leaves after one input more *)
NextLeaves(Q, x) == UNION {IF After(n, x) = {} THEN {n} ELSE After(n, x) : n \in Q}

(* They stay in a closed set. *)
LEMMA NextLeavesIn ==
  ASSUME NEW C, Closed(C), NEW Q \in SUBSET C, NEW x
  PROVE  NextLeaves(Q, x) \subseteq C
<1>1. ASSUME NEW n \in C PROVE After(n, x) \subseteq C
  BY DEF Closed, After, Targets
<1> QED BY <1>1 DEF NextLeaves

(* Leaves(itrc) is the function its definition describes *)
LEMMA LeavesAre ==
  ASSUME NEW itrc \in Seq(Input)
  PROVE  \A k \in 0 .. Len(itrc) :
           Leaves(itrc)[k] = IF k = 0 THEN {InitialState} ELSE NextLeaves(Leaves(itrc)[k - 1], itrc[k])
<1> DEFINE N == Len(itrc)
           Is(f, m) == f = [k \in 0 .. m |-> IF k = 0 THEN {InitialState} ELSE NextLeaves(f[k - 1], itrc[k])]
           A == {m \in Nat : \E f : Is(f, m)}
<1>0. N \in Nat
  OBVIOUS
<1>1. 0 \in A
  <2> DEFINE f == [k \in 0 .. 0 |-> {InitialState}]
  <2>1. Is(f, 0)
    OBVIOUS
  <2> QED BY <2>1
<1>2. ASSUME NEW m \in Nat, m \in A PROVE m + 1 \in A
  <2>1. PICK f : Is(f, m)
    BY <1>2
  <2> DEFINE g == [k \in 0 .. m + 1 |-> IF k <= m THEN f[k] ELSE NextLeaves(f[m], itrc[m + 1])]
  <2>2. ASSUME NEW k \in 0 .. m + 1
        PROVE  g[k] = IF k = 0 THEN {InitialState} ELSE NextLeaves(g[k - 1], itrc[k])
    <3>1. CASE k = 0
      BY <2>1, <3>1
    <3>2. CASE k \in 1 .. m
      <4>1. k \in 0 .. m /\ k - 1 \in 0 .. m /\ k # 0 /\ k - 1 <= m /\ k <= m
        BY <3>2
      <4>2. f[k] = NextLeaves(f[k - 1], itrc[k])
        BY <2>1, <4>1
      <4> QED BY <4>1, <4>2
    <3>3. CASE k = m + 1
      <4>1. ~(k <= m) /\ k - 1 = m /\ m \in 0 .. m + 1 /\ k # 0
        BY <3>3
      <4> QED BY <3>3, <4>1
    <3> QED BY <3>1, <3>2, <3>3
  <2>3. Is(g, m + 1)
    <3> DEFINE next == [k \in 0 .. m + 1 |-> IF k = 0 THEN {InitialState} ELSE NextLeaves(g[k - 1], itrc[k])]
    <3>1. \A k \in 0 .. m + 1 : g[k] = next[k]
      BY <2>2
    <3>2. DOMAIN g = 0 .. m + 1 /\ DOMAIN next = 0 .. m + 1
      OBVIOUS
    <3>3. g = [k \in 0 .. m + 1 |-> g[k]] /\ next = [k \in 0 .. m + 1 |-> next[k]]
      OBVIOUS
    <3> HIDE DEF g, next
    <3>4. g = next
      BY <3>1, <3>3
    <3> QED BY <3>4 DEF next
  <2> HIDE DEF g
  <2> QED BY <2>3
<1> HIDE DEF A
<1>3. N \in A
  BY <1>0, <1>1, <1>2, SetInduction
<1>4. PICK f : Is(f, N)
  BY <1>3 DEF A
<1>5. Is(Leaves(itrc), N)
  <2>1. Leaves(itrc) = CHOOSE f1 : Is(f1, N)
    BY DEF Leaves, NextLeaves
  <2> QED BY <1>4, <2>1
<1> QED BY <1>5

(* So do all leaves of a trace. *)
LEMMA LeavesIn ==
  ASSUME NEW C, Closed(C), InitialState \in C, NEW itrc \in Seq(Input)
  PROVE  \A k \in 0 .. Len(itrc) : Leaves(itrc)[k] \subseteq C
<1> DEFINE A == {k \in Nat : k <= Len(itrc) => Leaves(itrc)[k] \subseteq C}
<1>1. 0 \in A
  BY LeavesAre
<1>2. ASSUME NEW k \in Nat, k \in A PROVE k + 1 \in A
  <2> SUFFICES ASSUME k + 1 <= Len(itrc) PROVE Leaves(itrc)[k + 1] \subseteq C
    OBVIOUS
  <2>1. k + 1 \in 0 .. Len(itrc) /\ k + 1 # 0 /\ (k + 1) - 1 = k /\ k <= Len(itrc)
    OBVIOUS
  <2>2. Leaves(itrc)[k + 1] = NextLeaves(Leaves(itrc)[k], itrc[k + 1])
    BY <2>1, LeavesAre
  <2>3. Leaves(itrc)[k] \in SUBSET C
    BY <1>2, <2>1
  <2> QED BY <2>2, <2>3, NextLeavesIn
<1> HIDE DEF A
<1>3. Nat \subseteq A
  BY <1>1, <1>2, SetInduction
<1> QED BY <1>3 DEF A

-----------------------------------------------------------------------------
Reachable == ReachableFrom(startNode)

MarkedReachable == visited \cup Queued \cup Pending \subseteq Reachable

(* a removal keeps marked nodes *)
KeptMarked == pc = "drop" => \A i \in DOMAIN newNodes : newNodes[i] \in visited

(* The reachable nodes are such a set, ... *)
LEMMA ReachableFacts ==
  ASSUME Types
  PROVE  Reachable \subseteq Node /\ startNode \in Reachable /\ Closed(Reachable)
<1>1. Reachable \subseteq Node /\ startNode \in Reachable
  BY DEF Reachable, ReachableFrom, Types
<1>2. ASSUME NEW n \in Reachable, NEW t \in Targets(n) PROVE t \in Reachable
  <2>1. n \in Node /\ trans[n] \in Seq(Input \X Node)
    BY <1>1 DEF Types
  <2>2. t \in Node
    <3>1. PICK k \in DOMAIN trans[n] : t = trans[n][k][2]
      BY <1>2 DEF Targets
    <3>2. trans[n][k] \in Input \X Node
      BY <2>1, <3>1
    <3> QED BY <3>1, <3>2
  <2>3. ASSUME NEW C \in SUBSET Node, startNode \in C, Closed(C) PROVE t \in C
    <3>1. n \in C
      BY <2>3 DEF Reachable, ReachableFrom
    <3> QED BY <1>2, <2>3, <3>1 DEF Closed
  <2> QED BY <2>2, <2>3 DEF Reachable, ReachableFrom
<1> QED BY <1>1, <1>2 DEF Closed

(* ... which no operation changes. *)
LEMMA SameReachable == UNCHANGED <<trans, startNode>> => Reachable' = Reachable
<1> SUFFICES ASSUME UNCHANGED <<trans, startNode>> PROVE Reachable' = Reachable
  OBVIOUS
<1>1. \A n : Targets(n)' = Targets(n)
  BY DEF Targets
<1>2. \A C : Closed(C)' <=> Closed(C)
  BY <1>1 DEF Closed
<1> QED BY <1>2 DEF Reachable, ReachableFrom

(* At the start nothing is marked. *)
LEMMA InitMarked == Init => MarkedReachable /\ KeptMarked
BY DEF Init, MarkedReachable, KeptMarked, Queued, Pending

(* Every step keeps both. *)
LEMMA StepMarked ==
  ASSUME IInv, MarkedReachable, KeptMarked, [Next]_vars
  PROVE  MarkedReachable' /\ KeptMarked'
<1>0. UNCHANGED <<trans, startNode>>
  BY DEF Next, Apply, BeginWalk, WalkStep, AcceptNode, PushTarget, EndClientWalk, RemoveStep,
         BeginDrop, DropNode, KeepNode, EndDrop, vars, fsmVars
<1>1. /\ Reachable' = Reachable /\ Types /\ InitialState = startNode
      /\ startNode \in Reachable /\ Closed(Reachable)
  BY <1>0, SameReachable, ReachableFacts DEF IInv, StartFirst, InitialState
<1> HIDE DEF Reachable
<1>2. ASSUME NEW itrc \in MarkingTraces, Apply(itrc) PROVE MarkedReachable' /\ KeptMarked'
  <2>1. itrc \in Seq(Input)
    BY MarkingTracesAssumption
  <2>2. \A k \in 0 .. Len(itrc) : Leaves(itrc)[k] \subseteq Reachable
    BY <1>1, <2>1, LeavesIn
  <2>3. /\ visited' = visited \cup UNION {Leaves(itrc)[k] : k \in 0 .. Len(itrc)}
        /\ pc = "idle" /\ pc' = pc /\ Queued' = Queued /\ Pending' = Pending
    BY <1>2 DEF Apply, walkVars, Queued, Pending
  <2> QED BY <1>1, <2>2, <2>3 DEF MarkedReachable, KeptMarked
<1>3. ASSUME NEW c \in {"accept", "mark"}, BeginWalk(c) PROVE MarkedReachable' /\ KeptMarked'
  <2>1. Queued' = {startNode} /\ Pending' = Pending /\ visited' = visited /\ pc' # "drop"
    BY <1>1, <1>3 DEF BeginWalk, Queued, Pending
  <2> QED BY <1>1, <2>1 DEF MarkedReachable, KeptMarked
<1>4. CASE AcceptNode
  <2>1. bfsq \in Seq(Node) /\ bfsq # << >>
    BY <1>1, <1>4 DEF Types, AcceptNode
  <2>2. Queued = {Head(bfsq)} \cup Queued'
    BY <1>4, <2>1, TailElements DEF Queued, AcceptNode
  <2>3. Pending' = Targets(Head(bfsq)) /\ visited' = visited \cup {Head(bfsq)}
    BY <1>4 DEF AcceptNode, Pending, Targets
  <2>4. pc' = pc /\ newNodes' = newNodes
    BY <1>4 DEF AcceptNode, removeVars
  <2>5. Head(bfsq) \in Reachable
    BY <2>2 DEF MarkedReachable
  <2>6. Targets(Head(bfsq)) \subseteq Reachable
    BY <1>1, <2>5 DEF Closed
  <2>7. MarkedReachable'
    BY ONLY MarkedReachable, <1>1, <2>2, <2>3, <2>5, <2>6 DEF MarkedReachable
  <2>8. KeptMarked'
    BY <2>3, <2>4 DEF KeptMarked
  <2> QED BY <2>7, <2>8
<1>5. CASE PushTarget
  <2> DEFINE t == Head(todo)[2]
  <2>1. todo \in Seq(Input \X Node) /\ todo # << >> /\ bfsq \in Seq(Node) /\ todo' = Tail(todo)
    BY <1>1, <1>5 DEF Types, PushTarget
  <2>2. todo[1] = Head(todo) /\ 1 \in DOMAIN todo
    BY <2>1
  <2>3. t \in Pending /\ t \in Node
    <3>1. todo[1] \in Input \X Node
      BY <2>1, <2>2
    <3> QED BY <2>2, <3>1 DEF Pending
  <2>4. Pending' \subseteq Pending
    <3>1. \A i \in DOMAIN todo' : i + 1 \in DOMAIN todo /\ todo'[i] = todo[i + 1]
      BY <2>1
    <3> QED BY <3>1 DEF Pending
  <2>5. Queued' \subseteq Queued \cup {t}
    <3>1. bfsq' = bfsq \/ bfsq' = Append(bfsq, t)
      BY <1>5 DEF PushTarget
    <3> HIDE DEF t
    <3>2. CASE bfsq' = Append(bfsq, t)
      <4>1. \A i \in DOMAIN bfsq' : bfsq'[i] = t \/ (i \in DOMAIN bfsq /\ bfsq'[i] = bfsq[i])
        BY <2>1, <2>3, <3>2
      <4> QED BY <4>1 DEF Queued
    <3> QED BY <3>1, <3>2 DEF Queued
  <2>6. visited' = visited /\ pc' = pc /\ newNodes' = newNodes
    BY <1>5 DEF PushTarget, removeVars
  <2> QED BY <1>1, <2>3, <2>4, <2>5, <2>6 DEF MarkedReachable, KeptMarked
<1>6. CASE EndClientWalk \/ BeginDrop \/ DropNode \/ EndDrop \/ UNCHANGED vars
  <2>1. visited' = visited /\ Queued' = Queued /\ Pending' = Pending
    BY <1>6 DEF EndClientWalk, BeginDrop, DropNode, EndDrop, vars, walkVars, Queued, Pending
  <2>2. pc' = "drop" => newNodes' = << >> \/ (pc = "drop" /\ newNodes' = newNodes)
    BY <1>6 DEF EndClientWalk, BeginDrop, DropNode, EndDrop, vars, removeVars
  <2> QED BY <1>1, <2>1, <2>2 DEF MarkedReachable, KeptMarked
<1>7. CASE KeepNode
  <2>1. visited' = visited /\ Queued' = Queued /\ Pending' = Pending
    BY <1>7 DEF KeepNode, walkVars, Queued, Pending
  <2>2. /\ pc = "drop" /\ newNodes' = Append(newNodes, nodes[Index]) /\ nodes[Index] \in visited
        /\ newNodes \in Seq(Node) /\ nodes \in Seq(Node) /\ Index \in DOMAIN nodes
    BY <1>1, <1>7 DEF KeepNode, Types
  <2>3. \A i \in DOMAIN newNodes' :
           newNodes'[i] = nodes[Index] \/ (i \in DOMAIN newNodes /\ newNodes'[i] = newNodes[i])
    BY <2>2
  <2> QED BY <1>1, <2>1, <2>2, <2>3 DEF MarkedReachable, KeptMarked
<1> QED BY <1>2, <1>3, <1>4, <1>5, <1>6, <1>7 DEF Next, WalkStep, RemoveStep

(* What an ended walk has marked, and what a removal keeps. *)
LEMMA StepMarks ==
  ASSUME IInv, MarkedReachable, KeptMarked, [Next]_vars
  PROVE  [/\ EndClientWalk /\ ~applied => visited = ReachableFrom(InitialState)
          /\ EndDrop => \A i \in DOMAIN nodes' : nodes'[i] \in ReachableFrom(startNode)]_vars
<1>1. InitialState = startNode
  BY DEF IInv, StartFirst, InitialState
<1>2. ASSUME EndClientWalk, ~applied PROVE visited = ReachableFrom(InitialState)
  <2>1. startNode \in visited
    BY <1>2 DEF EndClientWalk, IInv, WalkFromStart, WalkDone, Queued
  <2>2. ReachableFrom(startNode) \subseteq visited
    BY <1>2, <2>1, ReachableMarked DEF EndClientWalk, IInv
  <2> QED BY <1>1, <2>2 DEF MarkedReachable, Reachable
<1>3. ASSUME EndDrop, NEW i \in DOMAIN nodes' PROVE nodes'[i] \in ReachableFrom(startNode)
  <2>1. nodes' = newNodes /\ pc = "drop"
    BY <1>3 DEF EndDrop
  <2> QED BY <1>3, <2>1 DEF KeptMarked, MarkedReachable, Reachable
<1> QED BY <1>2, <1>3

(* A client's walk that ends has marked exactly the nodes that can be     *)
(* reached, if nothing but walks has marked any; and a removal keeps only *)
(* nodes that can be reached, whatever has marked them: for every Fsm of  *)
(* every size and any number of operations.                               *)
THEOREM MarksAreReachability ==
  ASSUME InitAtZero
  PROVE  Spec => WalksMarkReachable
<1>1. Init => MarkedReachable /\ KeptMarked
  BY InitMarked
<1>2. IInv /\ MarkedReachable /\ KeptMarked /\ [Next]_vars => MarkedReachable' /\ KeptMarked'
  BY StepMarked
<1>3. IInv /\ MarkedReachable /\ KeptMarked /\ [Next]_vars
        => [/\ EndClientWalk /\ ~applied => visited = ReachableFrom(InitialState)
            /\ EndDrop => \A i \in DOMAIN nodes' : nodes'[i] \in ReachableFrom(startNode)]_vars
  BY StepMarks
<1> QED BY <1>1, <1>2, <1>3, Inductive, PTL DEF Spec, WalksMarkReachable

(* Every variable keeps its type, whatever is marked: no index leaves its  *)
(* vector, and the counter removeUnreachableNodes subtracts never goes     *)
(* below zero.                                                             *)
THEOREM TypeCorrect ==
  ASSUME InitAtZero
  PROVE  Spec => []TypeOK
<1>1. Init => applied \in BOOLEAN
  BY DEF Init
<1>2. applied \in BOOLEAN /\ [Next]_vars => (applied \in BOOLEAN)'
  BY DEF Next, Apply, BeginWalk, WalkStep, AcceptNode, PushTarget, EndClientWalk, RemoveStep,
         BeginDrop, DropNode, KeepNode, EndDrop, vars, fsmVars
<1>3. Init => MarkedReachable /\ KeptMarked
  BY InitMarked
<1>4. IInv /\ MarkedReachable /\ KeptMarked /\ [Next]_vars => MarkedReachable' /\ KeptMarked'
  BY StepMarked
<1>5. IInv /\ MarkedReachable /\ applied \in BOOLEAN => TypeOK
  <2>1. IInv /\ MarkedReachable => Types /\ visited \subseteq Node
    BY ReachableFacts DEF IInv, MarkedReachable
  <2> QED BY <2>1 DEF Types, TypeOK
<1> QED BY <1>1, <1>2, <1>3, <1>4, <1>5, Inductive, PTL DEF Spec

-----------------------------------------------------------------------------
(***************************************************************************)
(* The enumerator.                                                         *)
(***************************************************************************)
Tables == [1 .. TableEntries -> AllStates \cup {-1}]

Deliverable(t) == size.generateSmallerFsms \/ ReachableIn(t) = AllStates

(* the lexicographic order *)
Precedes(t, u) ==
  \E i \in 1 .. TableEntries : t[i] < u[i] /\ \A j \in 1 .. TableEntries : j < i => t[j] = u[j]

UpTo(u) == {t \in Tables : t = u \/ Precedes(t, u)}

(* what currentTable can be, the table before the first one included *)
IsTable(t) ==
  /\ t \in [1 .. TableEntries -> -2 .. size.maxState]
  /\ \A j \in 1 .. TableEntries : j < TableEntries => t[j] # -2

EInv ==
  /\ size \in Sizes
  /\ IsTable(currentTable)
  /\ delivered = {t \in UpTo(currentTable) : Deliverable(t)}

-----------------------------------------------------------------------------
(* A nonempty set of naturals has a least element, a bounded one a greatest. *)
LEMMA LeastElement ==
  ASSUME NEW T, T \subseteq Nat, T # {}
  PROVE  \E x \in T : \A y \in T : x <= y
<1> DEFINE R == {ss \in Nat \X Nat : ss[1] < ss[2]}
<1>1. IsWellFoundedOn(R, Nat)
  BY NatLessThanWellFounded DEF OpToRel
<1>2. \E x \in T : \A y \in T : ~(<<y, x>> \in R)
  <2> HIDE DEF R
  <2> QED BY <1>1, WFMin
<1>3. PICK x \in T : \A y \in T : ~(<<y, x>> \in R)
  BY <1>2
<1>4. ASSUME NEW y \in T PROVE x <= y
  <2>1. x \in Nat /\ y \in Nat /\ ~(<<y, x>> \in R)
    BY <1>3
  <2> QED BY <2>1
<1> QED BY <1>4

LEMMA GreatestElement ==
  ASSUME NEW n \in Nat, NEW T, T \subseteq 1 .. n, T # {}
  PROVE  Max(T) \in T /\ \A y \in T : y <= Max(T)
<1> DEFINE D == {n - x : x \in T}
<1>1. D \subseteq Nat /\ D # {}
  <2>1. \A x \in T : x \in 1 .. n /\ n - x \in Nat
    OBVIOUS
  <2>2. D # {}
    OBVIOUS
  <2> QED BY <2>1, <2>2
<1>2. PICK d \in D : \A y \in D : d <= y
  <2> HIDE DEF D
  <2> QED BY <1>1, LeastElement
<1>3. PICK x \in T : d = n - x
  BY <1>2
<1>4. \A y \in T : x >= y
  <2> SUFFICES ASSUME NEW y \in T PROVE x >= y
    OBVIOUS
  <2>1. d <= n - y
    BY <1>2
  <2> QED BY <2>1, <1>3
<1>5. \E z \in T : \A y \in T : z >= y
  BY <1>4
<1>6. Max(T) \in T /\ \A y \in T : Max(T) >= y
  BY <1>5 DEF Max
<1> QED BY <1>6

LEMMA Dimensions ==
  ASSUME size \in Sizes
  PROVE  /\ size.maxState \in Nat
         /\ TableEntries \in Nat \ {0}
         /\ TableEntries = (size.maxState + 1) * (TableEntries \div (size.maxState + 1))
         /\ TableEntries \div (size.maxState + 1) \in Nat
<1> DEFINE m == size.maxState + 1
           a == size.maxInput + 1
           b == size.maxOutput + 1
           w == a * b
<1>1. m \in Nat \ {0} /\ a \in Nat \ {0} /\ b \in Nat \ {0} /\ size.maxState \in Nat
  BY SizesAssumption
<1>2. TableEntries = (m * a) * b
  BY DEF TableEntries
<1> HIDE DEF m, a, b
<1>3. w \in Nat \ {0}
  BY <1>1
<1>4. (m * a) * b = m * w
  BY <1>1
<1>5. m * w \in Nat \ {0} /\ (m * w) \div m = w
  <2> HIDE DEF w
  <2> QED BY <1>1, <1>3
<1> HIDE DEF w
<1>6. TableEntries \in Nat \ {0} /\ TableEntries \div m = w /\ TableEntries = m * w
  BY <1>2, <1>4, <1>5
<1> QED BY <1>1, <1>3, <1>6 DEF m

LEMMA SizesNat ==
  ASSUME size \in Sizes
  PROVE  size.maxState \in Nat /\ TableEntries \in Nat \ {0}
BY Dimensions

(* What UpdateTable does: the last entry that can grow grows, those behind  *)
(* it start again.                                                         *)
LEMMA Updated ==
  ASSUME size \in Sizes, NEW t, IsTable(t), UpdatePossible(t)
  PROVE  \E i \in 1 .. TableEntries :
           /\ t[i] < size.maxState
           /\ \A j \in 1 .. TableEntries : j > i => t[j] = size.maxState
           /\ UpdateTable(t) = [j \in 1 .. TableEntries |->
                                  IF j < i THEN t[j] ELSE IF j = i THEN t[i] + 1 ELSE -1]
<1> DEFINE S == {j \in DOMAIN t : t[j] < size.maxState}
           i == Max(S)
<1>1. DOMAIN t = 1 .. TableEntries /\ \A j \in 1 .. TableEntries : t[j] \in -2 .. size.maxState
  BY DEF IsTable
<1>2. S \subseteq 1 .. TableEntries /\ S # {}
  BY <1>1 DEF UpdatePossible
<1>3. i \in S /\ \A j \in S : j <= i
  <2> HIDE DEF S
  <2> QED BY <1>2, SizesNat, GreatestElement
<1>4. UpdateTable(t) = [j \in DOMAIN t |-> IF j < i THEN t[j] ELSE IF j = i THEN t[i] + 1 ELSE -1]
  BY DEF UpdateTable
<1> HIDE DEF i
<1>5. ASSUME NEW j \in 1 .. TableEntries, j > i PROVE t[j] = size.maxState
  <2>1. j \notin S
    <3> HIDE DEF S
    <3> SUFFICES ASSUME j \in S PROVE FALSE
      OBVIOUS
    <3>1. i \in 1 .. TableEntries /\ j <= i
      BY <1>2, <1>3
    <3> QED BY <1>5, <3>1, SizesNat
  <2> QED BY <1>1, <2>1, SizesNat
<1>6. i \in 1 .. TableEntries /\ t[i] < size.maxState
  BY <1>1, <1>3
<1> QED BY <1>1, <1>4, <1>5, <1>6

LEMMA UpdateIsTable ==
  ASSUME size \in Sizes, NEW t, IsTable(t), UpdatePossible(t)
  PROVE  UpdateTable(t) \in Tables /\ IsTable(UpdateTable(t))
<1> DEFINE u == UpdateTable(t)
<1>1. PICK i \in 1 .. TableEntries :
        /\ t[i] < size.maxState
        /\ u = [j \in 1 .. TableEntries |-> IF j < i THEN t[j] ELSE IF j = i THEN t[i] + 1 ELSE -1]
  BY Updated
<1> HIDE DEF u
<1>2. ASSUME NEW j \in 1 .. TableEntries PROVE u[j] \in -1 .. size.maxState
  <2>1. t[j] \in -2 .. size.maxState /\ (j < TableEntries => t[j] # -2) /\ t[i] \in -2 .. size.maxState
    BY DEF IsTable
  <2>. DEFINE m == size.maxState
  <2>2. u[j] = IF j < i THEN t[j] ELSE IF j = i THEN t[i] + 1 ELSE -1
    BY <1>1
  <2> QED BY <1>1, <2>1, <2>2, SizesNat
<1>3. u = [j \in 1 .. TableEntries |-> u[j]]
  BY <1>1
<1>4. -1 .. size.maxState = AllStates \cup {-1}
  BY SizesNat DEF AllStates
<1>5. u \in Tables
  BY <1>2, <1>3, <1>4 DEF Tables
<1>6. IsTable(u)
  <2>1. \A j \in 1 .. TableEntries : u[j] \in -2 .. size.maxState /\ u[j] # -2
    BY <1>2, SizesNat
  <2> QED BY <1>3, <2>1 DEF IsTable
<1> QED BY <1>5, <1>6 DEF u

LEMMA TableValues ==
  ASSUME size \in Sizes, NEW t \in Tables
  PROVE  \A j \in 1 .. TableEntries : t[j] \in Int /\ -1 <= t[j] /\ t[j] <= size.maxState
<1>1. AllStates \cup {-1} = -1 .. size.maxState
  BY SizesNat DEF AllStates
<1>2. t \in [1 .. TableEntries -> -1 .. size.maxState]
  BY <1>1 DEF Tables
<1>3. \A j \in 1 .. TableEntries : t[j] \in -1 .. size.maxState
  BY <1>2
<1> QED BY <1>3, SizesNat

(* Where two tables differ, they differ in a first entry. *)
LEMMA FirstDifference ==
  ASSUME size \in Sizes, NEW t \in Tables, NEW u \in [1 .. TableEntries -> Int], t # u
  PROVE  \E k \in 1 .. TableEntries :
           t[k] # u[k] /\ \A j \in 1 .. TableEntries : j < k => t[j] = u[j]
<1> DEFINE D == {k \in 1 .. TableEntries : t[k] # u[k]}
<1>1. D \subseteq Nat /\ D # {}
  <2>1. D # {}
    <3>1. t = [k \in 1 .. TableEntries |-> t[k]] /\ u = [k \in 1 .. TableEntries |-> u[k]]
      BY DEF Tables
    <3> SUFFICES ASSUME \A k \in 1 .. TableEntries : t[k] = u[k] PROVE t = u
      OBVIOUS
    <3> QED BY <3>1
  <2>2. \A k \in 1 .. TableEntries : k \in Nat
    BY SizesNat
  <2> QED BY <2>1, <2>2
<1>2. PICK k \in D : \A j \in D : k <= j
  <2> HIDE DEF D
  <2> QED BY <1>1, LeastElement
<1>3. ASSUME NEW j \in 1 .. TableEntries, j < k PROVE t[j] = u[j]
  BY <1>2, <1>3
<1> QED BY <1>2, <1>3

(* No table lies between a table and its update. *)
LEMMA UpdateIsNext ==
  ASSUME size \in Sizes, NEW t, IsTable(t), UpdatePossible(t)
  PROVE  /\ UpTo(UpdateTable(t)) = UpTo(t) \cup {UpdateTable(t)}
         /\ UpdateTable(t) \notin UpTo(t)
<1> DEFINE u == UpdateTable(t)
           E == 1 .. TableEntries
           m == size.maxState
<1>1. PICK i \in E :
        /\ t[i] < m
        /\ \A j \in E : j > i => t[j] = m
        /\ u = [j \in E |-> IF j < i THEN t[j] ELSE IF j = i THEN t[i] + 1 ELSE -1]
  BY Updated
<1>2. u \in Tables
  BY UpdateIsTable
<1>3. t \in [E -> Int] /\ m \in Nat /\ TableEntries \in Nat
  BY SizesNat DEF IsTable
<1> HIDE DEF u
<1>4. /\ \A j \in E : j < i => u[j] = t[j]
      /\ u[i] = t[i] + 1
      /\ \A j \in E : j > i => u[j] = -1
  BY <1>1
<1> HIDE DEF m
<1>5. ASSUME NEW v \in Tables, v # u, Precedes(v, u) PROVE v = t \/ Precedes(v, t)
  <2>1. PICK k \in E : v[k] < u[k] /\ \A j \in E : j < k => v[j] = u[j]
    BY <1>5 DEF Precedes
  <2>2. \A j \in E : v[j] \in Int /\ -1 <= v[j] /\ v[j] <= m
    BY TableValues DEF m
  <2>3. k <= i
    BY <1>4, <2>1, <2>2
  <2>4. CASE k < i
    <3>1. v[k] < t[k] /\ \A j \in E : j < k => v[j] = t[j]
      BY <1>4, <2>1, <2>4
    <3> QED BY <3>1 DEF Precedes
  <2>5. CASE k = i /\ v # t
    <3>1. PICK d \in E : v[d] # t[d] /\ \A j \in E : j < d => v[j] = t[j]
      BY <1>3, <2>5, FirstDifference
    <3>2. \A j \in E : j < i => v[j] = t[j]
      BY <1>4, <2>1, <2>5
    <3>3. v[i] <= t[i]
      BY <1>3, <1>4, <2>1, <2>2, <2>5
    <3>4. v[d] < t[d]
      <4>1. CASE d < i
        BY <3>1, <3>2, <4>1
      <4>2. CASE d = i
        BY <1>3, <2>2, <3>1, <3>3, <4>2
      <4>3. CASE d > i
        <5>1. t[d] = m /\ v[d] \in Int /\ v[d] <= m /\ v[d] # t[d]
          BY <1>1, <2>2, <3>1, <4>3
        <5> QED BY <1>3, <5>1
      <4> QED BY <4>1, <4>2, <4>3
    <3> QED BY <3>1, <3>4 DEF Precedes
  <2> QED BY <2>3, <2>4, <2>5
<1>6. ASSUME NEW v \in Tables, v = t \/ Precedes(v, t) PROVE Precedes(v, u)
  <2>1. CASE v = t
    <3>1. v[i] < u[i] /\ \A j \in E : j < i => v[j] = u[j]
      BY <1>3, <1>4, <2>1
    <3> QED BY <3>1 DEF Precedes
  <2>2. CASE Precedes(v, t)
    <3>1. PICK k \in E : v[k] < t[k] /\ \A j \in E : j < k => v[j] = t[j]
      BY <2>2 DEF Precedes
    <3>2. \A j \in E : v[j] \in Int
      BY TableValues
    <3>3. CASE k <= i
      <4>1. v[k] < u[k] /\ \A j \in E : j < k => v[j] = u[j]
        BY <1>3, <1>4, <3>1, <3>2, <3>3
      <4> QED BY <4>1 DEF Precedes
    <3>4. CASE k > i
      <4>1. v[i] < u[i] /\ \A j \in E : j < i => v[j] = u[j]
        BY <1>3, <1>4, <3>1, <3>4
      <4> QED BY <4>1 DEF Precedes
    <3> QED BY <3>3, <3>4
  <2> QED BY <1>6, <2>1, <2>2
<1>7. ~Precedes(u, u)
  BY <1>2, TableValues DEF Precedes
<1>8. UpTo(u) = UpTo(t) \cup {u}
  BY <1>2, <1>5, <1>6 DEF UpTo
<1>9. u \notin UpTo(t)
  BY <1>2, <1>6, <1>7 DEF UpTo
<1> QED BY <1>8, <1>9 DEF u

(* A table that cannot be updated is the last of all. *)
LEMMA NoUpdateIsLast ==
  ASSUME size \in Sizes, NEW t, IsTable(t), ~UpdatePossible(t)
  PROVE  UpTo(t) = Tables
<1>1. t \in [1 .. TableEntries -> Int] /\ size.maxState \in Nat
  BY SizesNat DEF IsTable
<1>2. \A j \in 1 .. TableEntries : t[j] = size.maxState
  BY <1>1 DEF IsTable, UpdatePossible
<1>3. ASSUME NEW v \in Tables, v # t PROVE Precedes(v, t)
  <2>1. PICK k \in 1 .. TableEntries :
          v[k] # t[k] /\ \A j \in 1 .. TableEntries : j < k => v[j] = t[j]
    BY <1>1, <1>3, FirstDifference
  <2>2. v[k] < t[k]
    BY <1>1, <1>2, <2>1, TableValues
  <2> QED BY <2>1, <2>2 DEF Precedes
<1> QED BY <1>3 DEF UpTo

(* The table before the first one precedes all. *)
LEMMA FirstIsBeforeAll ==
  ASSUME size \in Sizes, NEW t,
         t = [i \in 1 .. TableEntries |-> IF i = TableEntries THEN -2 ELSE -1]
  PROVE  IsTable(t) /\ UpTo(t) = {}
<1>1. IsTable(t)
  BY SizesNat DEF IsTable
<1>2. ASSUME NEW v \in Tables PROVE v # t /\ ~Precedes(v, t)
  <2>1. \A j \in 1 .. TableEntries : v[j] \in Int /\ -1 <= v[j]
    BY TableValues
  <2>2. \A j \in 1 .. TableEntries : t[j] <= -1
    OBVIOUS
  <2>3. TableEntries \in 1 .. TableEntries /\ t[TableEntries] = -2
    BY SizesNat
  <2>4. v # t
    BY <2>1, <2>3
  <2>5. \A j \in 1 .. TableEntries : t[j] \in Int
    OBVIOUS
  <2>6. ~Precedes(v, t)
    BY <2>1, <2>2, <2>5 DEF Precedes
  <2> QED BY <2>4, <2>6
<1> QED BY <1>1, <1>2 DEF UpTo

-----------------------------------------------------------------------------
(* The states reached in a table are states. *)
Step(t, Q) == Q \cup UNION {Successors(t, q) : q \in Q}

IsReached(f, t) ==
  f = [k \in 0 .. size.maxState |-> IF k = 0 THEN {0} ELSE Step(t, f[k - 1])]

LEMMA SuccessorsAreStates ==
  ASSUME size \in Sizes, NEW t \in Tables, NEW q \in AllStates
  PROVE  Successors(t, q) \subseteq AllStates
<1> DEFINE w == TableEntries \div (size.maxState + 1)
           m == size.maxState
<1>1. m \in Nat /\ w \in Nat /\ TableEntries = (m + 1) * w /\ q \in 0 .. m
  BY Dimensions DEF AllStates
<1> HIDE DEF w, m
<1>2. w * (q + 1) <= (m + 1) * w /\ 0 <= w * q
  BY <1>1
<1>3. w * q \in Nat /\ w * (q + 1) \in Nat /\ TableEntries \in Nat
  BY <1>1
<1>4. ASSUME NEW i \in w * q + 1 .. w * (q + 1) PROVE i \in 1 .. TableEntries
  BY <1>1, <1>2, <1>3
<1>5. \A i \in w * q + 1 .. w * (q + 1) : t[i] \in AllStates \cup {-1}
  BY <1>4 DEF Tables
<1> QED BY <1>5 DEF Successors, w

LEMMA StepOfStates ==
  ASSUME size \in Sizes, NEW t \in Tables, NEW Q \in SUBSET AllStates
  PROVE  Step(t, Q) \in SUBSET AllStates
BY SuccessorsAreStates DEF Step

LEMMA ReachedExists ==
  ASSUME size \in Sizes, NEW t \in Tables
  PROVE  \E f : IsReached(f, t)
<1> DEFINE Is(f, n) == f = [k \in 0 .. n |-> IF k = 0 THEN {0} ELSE Step(t, f[k - 1])]
           A == {n \in Nat : \E f : Is(f, n)}
<1>1. 0 \in A
  <2> DEFINE f == [k \in 0 .. 0 |-> {0}]
  <2>1. Is(f, 0)
    OBVIOUS
  <2> QED BY <2>1
<1>2. ASSUME NEW n \in Nat, n \in A PROVE n + 1 \in A
  <2>1. PICK f : Is(f, n)
    BY <1>2
  <2> DEFINE st == [k \in 0 .. n + 1 |-> IF k <= n THEN f[k] ELSE Step(t, f[n])]
  <2>2. \A k \in 0 .. n : f[k] = IF k = 0 THEN {0} ELSE Step(t, f[k - 1])
    BY <2>1
  <2>3. ASSUME NEW k \in 0 .. n + 1
        PROVE  st[k] = IF k = 0 THEN {0} ELSE Step(t, st[k - 1])
    <3>1. CASE k <= n
      <4>1. k \in 0 .. n /\ st[k] = f[k] /\ (k # 0 => st[k - 1] = f[k - 1])
        BY <3>1
      <4> QED BY <2>2, <4>1
    <3>2. CASE k = n + 1
      BY <3>2
    <3> QED BY <3>1, <3>2
  <2>4. Is(st, n + 1)
    <3>1. st = [k \in 0 .. n + 1 |-> st[k]]
      OBVIOUS
    <3> HIDE DEF st
    <3> QED BY <2>3, <3>1
  <2> HIDE DEF Is
  <2> QED BY <2>4
<1> HIDE DEF A
<1>3. size.maxState \in A
  BY <1>1, <1>2, SetInduction, SizesNat
<1> QED BY <1>3 DEF A, IsReached

LEMMA ReachedAreStates ==
  ASSUME size \in Sizes, NEW t \in Tables
  PROVE  ReachableIn(t) \subseteq AllStates
<1> DEFINE f == CHOOSE g : IsReached(g, t)
<1>1. IsReached(f, t)
  BY ReachedExists
<1>2. ReachableIn(t) = f[size.maxState]
  BY DEF ReachableIn, IsReached, Step
<1> HIDE DEF f
<1> DEFINE A == {k \in Nat : k <= size.maxState => f[k] \in SUBSET AllStates}
<1>3. 0 \in A
  BY <1>1, SizesNat DEF IsReached, AllStates
<1>4. ASSUME NEW k \in Nat, k \in A PROVE k + 1 \in A
  <2> SUFFICES ASSUME k + 1 <= size.maxState PROVE f[k + 1] \in SUBSET AllStates
    OBVIOUS
  <2>1. k + 1 \in 0 .. size.maxState /\ k + 1 # 0 /\ (k + 1) - 1 = k /\ k <= size.maxState
    BY SizesNat
  <2>2. f[k + 1] = Step(t, f[k])
    BY <1>1, <2>1 DEF IsReached
  <2> QED BY <1>4, <2>1, <2>2, StepOfStates
<1> HIDE DEF A
<1>5. size.maxState \in A
  BY <1>3, <1>4, SetInduction, SizesNat
<1> QED BY <1>2, <1>5, SizesNat DEF A

-----------------------------------------------------------------------------
LEMMA EInvInit == EnumInit => EInv
<1> SUFFICES ASSUME EnumInit PROVE EInv
  OBVIOUS
<1>1. size \in Sizes /\ IsTable(currentTable) /\ UpTo(currentTable) = {}
  BY FirstIsBeforeAll DEF EnumInit
<1> QED BY <1>1 DEF EInv, EnumInit

(* what the property says of one step *)
Each ==
  /\ answer' = "yes" => currentTable' \notin delivered
  /\ answer' = "no" =>
       delivered = {t \in [1 .. TableEntries -> AllStates \cup {-1}] :
                      size.generateSmallerFsms \/ ReachableIn(t) = AllStates}

LEMMA HasNextStep ==
  ASSUME EInv, HasNext
  PROVE  EInv' /\ Each
<1> DEFINE u == UpdateTable(currentTable)
<1>1. /\ size \in Sizes /\ IsTable(currentTable) /\ UpdatePossible(currentTable)
      /\ size' = size /\ currentTable' = u
  BY DEF EInv, HasNext
<1>2. u \in Tables /\ IsTable(u)
  BY <1>1, UpdateIsTable
<1>3. UpTo(u) = UpTo(currentTable) \cup {u} /\ u \notin UpTo(currentTable)
  BY <1>1, UpdateIsNext
<1> HIDE DEF u
<1>4. AllStates \ ReachableIn(u) = {} <=> ReachableIn(u) = AllStates
  BY <1>1, <1>2, ReachedAreStates
<1>5. /\ delivered' = IF Deliverable(u) THEN delivered \cup {u} ELSE delivered
      /\ answer' \in {"yes", "skipped"}
  <2>1. AllStates' = AllStates /\ ReachableIn(currentTable') = ReachableIn(u)
    BY <1>1 DEF AllStates
  <2> QED BY <1>4, <2>1, <1>1 DEF HasNext, Deliverable
<1>6. \A t : Deliverable(t)' <=> Deliverable(t)
  BY <1>1 DEF Deliverable, ReachableIn, Successors, AllStates, TableEntries
<1>7. \A t : IsTable(t)' <=> IsTable(t)
  BY <1>1 DEF IsTable, TableEntries
<1>8. UpTo(currentTable)' = UpTo(u)
  BY <1>1 DEF UpTo, Precedes, Tables, TableEntries, AllStates
<1>9. delivered' = {t \in UpTo(u) : Deliverable(t)}
  BY <1>3, <1>5 DEF EInv
<1>10. EInv'
  BY <1>1, <1>2, <1>6, <1>7, <1>8, <1>9 DEF EInv
<1>11. Each
  BY <1>1, <1>3, <1>5 DEF Each, EInv
<1> QED BY <1>10, <1>11

LEMMA HasNoNextStep ==
  ASSUME EInv, HasNoNext
  PROVE  EInv' /\ Each
<1>1. EInv'
  BY DEF EInv, HasNoNext, IsTable, UpTo, Precedes, Tables, TableEntries, AllStates,
         Deliverable, ReachableIn, Successors
<1>2. UpTo(currentTable) = Tables /\ answer' = "no"
  BY NoUpdateIsLast DEF EInv, HasNoNext
<1>3. Each
  BY <1>2 DEF Each, EInv, Tables, Deliverable
<1> QED BY <1>1, <1>3

(***************************************************************************)
(* For every number of inputs, outputs and states, hasNext stops at each   *)
(* machine with the states asked for once, and answers no after the last.  *)
(***************************************************************************)
THEOREM EachMachineOnce == EnumSpec => EnumeratesEachOnce
<1>1. EInv /\ [EnumNext]_enumVars => EInv' /\ [Each]_enumVars
  <2> SUFFICES ASSUME EInv, [EnumNext]_enumVars PROVE EInv' /\ [Each]_enumVars
    OBVIOUS
  <2>1. CASE EnumNext
    BY <2>1, HasNextStep, HasNoNextStep DEF EnumNext
  <2>2. CASE UNCHANGED enumVars
    <3>1. EInv'
      BY <2>2 DEF enumVars, EInv, IsTable, UpTo, Precedes, Tables, TableEntries, AllStates,
                  Deliverable, ReachableIn, Successors
    <3> QED BY <2>2, <3>1
  <2> QED BY <2>1, <2>2
<1> QED BY <1>1, EInvInit, PTL DEF EnumSpec, EnumeratesEachOnce, Each

-----------------------------------------------------------------------------

(***************************************************************************)
(* Hitting sets.                                                           *)
(***************************************************************************)
(* the clients' discipline *)
OneAtATime == Overlapping = FALSE

Frames(stk) == {stk[i] : i \in 1 .. Len(stk)}

FrameSet == [x : SUBSET Element, todo : SUBSET Element]

(* at most one object waits for its call or is being searched *)
Discipline ==
  \A o, p \in Object :
    phase[o] \in {"constructed", "searching"} /\ phase[p] \in {"constructed", "searching"} => o = p

Fresh == \A o \in Object : phase[o] = "constructed" => hSmallest = h(o)

GoodCandidate(o) ==
  /\ hSmallest \subseteq h(o)
  /\ {} \notin s[o] => Hits(hSmallest, s[o])
  /\ {} \in s[o] => hSmallest = h(o)

Ahead(g, f) == \E a \in f.todo : g \subseteq f.x \ {a}

SearchInv(o) ==
  /\ GoodCandidate(o)
  /\ \A f \in Frames(stack) : f.x \subseteq h(o)
  /\ \A g \in SUBSET h(o) :
       Hits(g, s[o]) => \/ Cardinality(hSmallest) <= Cardinality(g)
                        \/ \E f \in Frames(stack) : Ahead(g, f)

Searching == \A o \in Object : phase[o] = "searching" => SearchInv(o)

HSInv == HSTypeOK /\ Discipline /\ Fresh /\ Searching /\ ResultIsSmallest

-----------------------------------------------------------------------------
LEMMA FramesOfStack ==
  ASSUME NEW stk \in Seq(FrameSet)
  PROVE  /\ Frames(stk) \subseteq FrameSet
         /\ \A f \in FrameSet : /\ <<f>> \o stk \in Seq(FrameSet)
                                /\ Frames(<<f>> \o stk) = {f} \cup Frames(stk)
         /\ stk # << >> => /\ stk[1] \in FrameSet
                           /\ Tail(stk) \in Seq(FrameSet)
                           /\ Frames(stk) = {stk[1]} \cup Frames(Tail(stk))
<1>1. Frames(stk) \subseteq FrameSet
  BY DEF Frames
<1>2. ASSUME NEW f \in FrameSet
      PROVE  /\ <<f>> \o stk \in Seq(FrameSet)
             /\ Frames(<<f>> \o stk) = {f} \cup Frames(stk)
  <2> DEFINE t == <<f>> \o stk
  <2>1. t \in Seq(FrameSet) /\ Len(t) = Len(stk) + 1 /\ t[1] = f
        /\ \A i \in 1 .. Len(stk) : t[i + 1] = stk[i]
    OBVIOUS
  <2>2. ASSUME NEW e \in Frames(t) PROVE e \in {f} \cup Frames(stk)
    <3>1. PICK i \in 1 .. Len(t) : e = t[i]
      BY DEF Frames
    <3>2. CASE i = 1
      BY <2>1, <3>1, <3>2
    <3>3. CASE i # 1
      <4>1. i - 1 \in 1 .. Len(stk) /\ (i - 1) + 1 = i
        BY <2>1, <3>3
      <4>2. e = stk[i - 1]
        BY <2>1, <3>1, <4>1
      <4> QED BY <4>1, <4>2 DEF Frames
    <3> QED BY <3>2, <3>3
  <2>3. f \in Frames(t)
    <3>1. 1 \in 1 .. Len(t)
      BY <2>1
    <3> QED BY <2>1, <3>1 DEF Frames
  <2>4. ASSUME NEW e \in Frames(stk) PROVE e \in Frames(t)
    <3>1. PICK i \in 1 .. Len(stk) : e = stk[i]
      BY DEF Frames
    <3>2. i + 1 \in 1 .. Len(t) /\ t[i + 1] = e
      BY <2>1, <3>1
    <3> QED BY <3>2 DEF Frames
  <2> QED BY <2>1, <2>2, <2>3, <2>4
<1>3. ASSUME stk # << >>
      PROVE  /\ stk[1] \in FrameSet
             /\ Tail(stk) \in Seq(FrameSet)
             /\ Frames(stk) = {stk[1]} \cup Frames(Tail(stk))
  <2>1. stk[1] \in FrameSet /\ Tail(stk) \in Seq(FrameSet) /\ Len(Tail(stk)) = Len(stk) - 1
        /\ Len(stk) \in Nat \ {0} /\ \A i \in 1 .. Len(Tail(stk)) : Tail(stk)[i] = stk[i + 1]
    BY <1>3
  <2>2. ASSUME NEW e \in Frames(stk) PROVE e \in {stk[1]} \cup Frames(Tail(stk))
    <3>1. PICK i \in 1 .. Len(stk) : e = stk[i]
      BY DEF Frames
    <3>2. CASE i = 1
      BY <3>1, <3>2
    <3>3. CASE i # 1
      <4>1. i - 1 \in 1 .. Len(Tail(stk)) /\ (i - 1) + 1 = i
        BY <2>1, <3>3
      <4>2. e = Tail(stk)[i - 1]
        BY <2>1, <3>1, <4>1
      <4> QED BY <4>1, <4>2 DEF Frames
    <3> QED BY <3>2, <3>3
  <2>3. stk[1] \in Frames(stk)
    <3>1. 1 \in 1 .. Len(stk)
      BY <2>1
    <3> QED BY <3>1 DEF Frames
  <2>4. ASSUME NEW e \in Frames(Tail(stk)) PROVE e \in Frames(stk)
    <3>1. PICK i \in 1 .. Len(Tail(stk)) : e = Tail(stk)[i]
      BY DEF Frames
    <3>2. i + 1 \in 1 .. Len(stk) /\ stk[i + 1] = e
      BY <2>1, <3>1
    <3> QED BY <3>2 DEF Frames
  <2> QED BY <2>1, <2>2, <2>3, <2>4
<1> QED BY <1>1, <1>2, <1>3

LEMMA EmptyStack == Frames(<< >>) = {}
BY DEF Frames

(* everything below h(o) is finite *)
LEMMA Finite ==
  ASSUME HSTypeOK, NEW o \in Object, NEW g, g \subseteq h(o)
  PROVE  g \subseteq Element /\ IsFiniteSet(g) /\ Cardinality(g) \in Nat
<1>1. g \subseteq Element
  BY DEF HSTypeOK, h
<1> QED BY <1>1, ElementAssumption, FS_Subset, FS_CardinalityType

(* the set of a node is a smaller set only if an element is left out *)
LEMMA RootIsAhead ==
  ASSUME NEW y, NEW g, g \subseteq y, g # y
  PROVE  Ahead(g, Frame(y))
BY DEF Ahead, Frame

(* a set in the system is met by the union of the system, unless it is empty *)
LEMMA UnionHits ==
  ASSUME NEW zs
  PROVE  /\ {} \notin zs => Hits(UNION zs, zs)
         /\ {} \in zs => \A g : ~Hits(g, zs)
BY DEF Hits

-----------------------------------------------------------------------------
LEMMA InitHSInv == HSInit => HSInv
<1> SUFFICES ASSUME HSInit PROVE HSInv
  OBVIOUS
<1>1. HSTypeOK
  BY DEF HSInit, HSTypeOK
<1> QED BY <1>1 DEF HSInit, HSInv, Discipline, Fresh, Searching, ResultIsSmallest

LEMMA ConstructStep ==
  ASSUME OneAtATime, HSInv, NEW o \in Object, Construct(o)
  PROVE  HSInv'
<1>1. PICK zs \in SetSystems : s' = [s EXCEPT ![o] = zs] /\ hSmallest' = UNION zs
  BY DEF Construct
<1>2. /\ phase[o] = "none" /\ phase' = [phase EXCEPT ![o] = "constructed"]
      /\ \A p \in Object : phase[p] \notin {"constructed", "searching"}
      /\ stack' = stack /\ result' = result
  BY DEF OneAtATime, Construct
<1>3. HSTypeOK
  BY DEF HSInv
<1>4. \A p \in Object : p # o => s'[p] = s[p] /\ phase'[p] = phase[p]
  BY <1>1, <1>2, <1>3 DEF HSTypeOK
<1>5. s'[o] = zs /\ phase'[o] = "constructed"
  BY <1>1, <1>2, <1>3 DEF HSTypeOK
<1>6. HSTypeOK'
  BY <1>1, <1>2, <1>3, SetSystemsAssumption DEF HSTypeOK
<1>7. Discipline' /\ Searching'
  BY <1>2, <1>4, <1>5 DEF Discipline, Searching
<1>8. Fresh'
  BY <1>1, <1>2, <1>4, <1>5 DEF Fresh, h
<1>9. ResultIsSmallest'
  BY <1>2, <1>4, <1>5 DEF HSInv, ResultIsSmallest
<1> QED BY <1>6, <1>7, <1>8, <1>9 DEF HSInv

LEMMA CalculateStep ==
  ASSUME HSInv, NEW o \in Object, Calculate(o)
  PROVE  HSInv'
<1>1. /\ phase[o] = "constructed" /\ phase' = [phase EXCEPT ![o] = "searching"]
      /\ stack' = << Frame(h(o)) >> /\ s' = s /\ hSmallest' = hSmallest /\ result' = result
  BY DEF Calculate
<1>2. HSTypeOK /\ hSmallest = h(o)
  BY <1>1 DEF HSInv, Fresh
<1>3. phase'[o] = "searching" /\ \A p \in Object : p # o => phase'[p] = phase[p]
  BY <1>1, <1>2 DEF HSTypeOK
<1>4. h(o) \subseteq Element /\ Frame(h(o)) \in FrameSet
  BY <1>2, Finite DEF Frame, FrameSet
<1>5. HSTypeOK'
  BY <1>1, <1>2, <1>4 DEF HSTypeOK, FrameSet
<1>6. Discipline'
  BY <1>1, <1>3 DEF HSInv, Discipline
<1>7. \A p \in Object : p # o => phase'[p] \notin {"constructed", "searching"}
  BY <1>1, <1>3 DEF HSInv, Discipline
<1>8. Frames(stack') = {Frame(h(o))}
  BY <1>1 DEF Frames
<1>9. SearchInv(o)'
  <2>1. GoodCandidate(o)'
    BY <1>1, <1>2, UnionHits DEF GoodCandidate, h
  <2>2. \A f \in Frames(stack') : f.x \subseteq h(o)
    BY <1>8 DEF Frame
  <2>3. ASSUME NEW g \in SUBSET h(o)
        PROVE  \/ Cardinality(hSmallest) <= Cardinality(g)
               \/ \E f \in Frames(stack') : Ahead(g, f)
    <3>1. CASE g = h(o)
      BY <1>2, <3>1, Finite
    <3>2. CASE g # h(o)
      BY <1>8, <3>2, RootIsAhead
    <3> QED BY <3>1, <3>2
  <2> QED BY <1>1, <2>1, <2>2, <2>3 DEF SearchInv, h
<1>10. Fresh' /\ Searching'
  BY <1>3, <1>7, <1>9 DEF Fresh, Searching
<1>11. ResultIsSmallest'
  BY <1>1, <1>3 DEF HSInv, ResultIsSmallest
<1> QED BY <1>5, <1>6, <1>10, <1>11 DEF HSInv

(* nothing is left of Fresh, Discipline and the results to be disturbed by a *)
(* step of the search of o                                                    *)
LEMMA SearchFrame ==
  ASSUME HSInv, NEW o \in Object, phase[o] = "searching", UNCHANGED <<s, phase, result>>,
         HSTypeOK', SearchInv(o)'
  PROVE  HSInv'
<1>1. \A p \in Object : p # o => phase[p] \notin {"constructed", "searching"}
  BY DEF HSInv, Discipline
<1>2. Discipline' /\ ResultIsSmallest'
  BY DEF HSInv, Discipline, ResultIsSmallest
<1>3. Fresh' /\ Searching'
  BY <1>1 DEF Fresh, Searching
<1> QED BY <1>2, <1>3 DEF HSInv

LEMMA LeaveOutStep ==
  ASSUME HSInv, NEW o \in Object, NEW a \in Element, LeaveOut(o, a)
  PROVE  HSInv'
<1> DEFINE f == stack[1]
           y == f.x \ {a}
           f2 == [f EXCEPT !.todo = f.todo \ {a}]
           rest == << f2 >> \o Tail(stack)
           hit == y # {} /\ Hits(y, s[o])
<1>1. /\ phase[o] = "searching" /\ stack # << >> /\ a \in f.todo
      /\ UNCHANGED <<s, phase, result>>
      /\ hit => Remember(y) /\ stack' = <<Frame(y)>> \o rest
      /\ ~hit => hSmallest' = hSmallest /\ stack' = rest
  BY DEF LeaveOut
<1>2. HSTypeOK /\ SearchInv(o) /\ stack \in Seq(FrameSet)
  BY <1>1 DEF HSInv, Searching, HSTypeOK, FrameSet
<1>3. /\ f \in FrameSet /\ Tail(stack) \in Seq(FrameSet)
      /\ Frames(stack) = {f} \cup Frames(Tail(stack))
  BY <1>1, <1>2, FramesOfStack
<1>4. f2 \in FrameSet /\ f2.x = f.x /\ f2.todo = f.todo \ {a}
  BY <1>3 DEF FrameSet
<1>5. rest \in Seq(FrameSet) /\ Frames(rest) = {f2} \cup Frames(Tail(stack))
  BY <1>3, <1>4, FramesOfStack
<1>6. f.x \subseteq h(o) /\ y \subseteq h(o) /\ y \subseteq Element /\ Frame(y) \in FrameSet
  <2>1. f.x \subseteq h(o)
    BY <1>2, <1>3 DEF SearchInv
  <2> QED BY <1>2, <2>1, Finite DEF Frame, FrameSet
<1>7. hit => /\ stack' \in Seq(FrameSet)
             /\ Frames(stack') = {Frame(y), f2} \cup Frames(Tail(stack))
  <2> HIDE DEF y, rest, f2
  <2>1. /\ <<Frame(y)>> \o rest \in Seq(FrameSet)
        /\ Frames(<<Frame(y)>> \o rest) = {Frame(y)} \cup Frames(rest)
    BY <1>5, <1>6, FramesOfStack
  <2> QED BY <1>1, <1>5, <2>1
<1>8. stack' \in Seq(FrameSet) /\ {f2} \cup Frames(Tail(stack)) \subseteq Frames(stack')
  BY <1>1, <1>5, <1>7
<1>9. /\ hSmallest \subseteq h(o) /\ Cardinality(hSmallest) \in Nat
      /\ hSmallest' = hSmallest \/ (hit /\ hSmallest' = y)
      /\ Cardinality(hSmallest') \in Nat
      /\ Cardinality(hSmallest') <= Cardinality(hSmallest)
      /\ hit => Cardinality(hSmallest') <= Cardinality(y)
  <2>1. hSmallest \subseteq h(o)
    BY <1>2 DEF SearchInv, GoodCandidate
  <2>2. Cardinality(hSmallest) \in Nat /\ Cardinality(y) \in Nat
    BY <1>2, <1>6, <2>1, Finite
  <2> HIDE DEF y
  <2> QED BY <1>1, <2>1, <2>2 DEF Remember
<1>10. HSTypeOK'
  <2>1. hSmallest' \subseteq Element
    BY <1>2, <1>6, <1>9, Finite
  <2> QED BY <1>1, <1>2, <1>8, <2>1 DEF HSTypeOK, FrameSet
<1>11. GoodCandidate(o)'
  <2>1. hit => {} \notin s[o]
    BY UnionHits
  <2>2. GoodCandidate(o) /\ s' = s
    BY <1>1, <1>2 DEF SearchInv
  <2> HIDE DEF y
  <2> QED BY <1>6, <1>9, <2>1, <2>2 DEF GoodCandidate, h
<1>12. \A e \in Frames(stack') : e.x \subseteq h(o)
  <2>1. \A e \in Frames(Tail(stack)) : e.x \subseteq h(o)
    BY <1>2, <1>3 DEF SearchInv
  <2>2. Frame(y).x = y
    BY DEF Frame
  <2> HIDE DEF y, f2
  <2> QED BY <1>1, <1>4, <1>5, <1>6, <1>7, <2>1, <2>2
<1>13. ASSUME NEW g \in SUBSET h(o), Hits(g, s[o])
       PROVE  \/ Cardinality(hSmallest') <= Cardinality(g)
              \/ \E e \in Frames(stack') : Ahead(g, e)
  <2>1. Cardinality(g) \in Nat
    BY <1>2, Finite
  <2>2. CASE Cardinality(hSmallest) <= Cardinality(g)
    BY <1>9, <2>1, <2>2
  <2>3. CASE \E e \in Frames(Tail(stack)) : Ahead(g, e)
    BY <1>8, <2>3
  <2>4. CASE Ahead(g, f)
    <3>1. PICK b \in f.todo : g \subseteq f.x \ {b}
      BY <2>4 DEF Ahead
    <3>2. CASE b # a
      <4>1. Ahead(g, f2)
        BY <1>4, <3>1, <3>2 DEF Ahead
      <4> QED BY <1>8, <4>1
    <3>3. CASE b = a
      <4>1. g \subseteq y /\ Hits(y, s[o])
        BY <1>13, <3>1, <3>3 DEF Hits
      <4>2. CASE y = {}
        <5>1. g = {} /\ s[o] = {}
          BY <1>13, <4>1, <4>2 DEF Hits
        <5>2. hSmallest = g
          BY <1>9, <5>1 DEF h
        <5> QED BY <1>9, <5>2
      <4>3. CASE y # {} /\ g = y
        BY <1>9, <4>1, <4>3
      <4>4. CASE y # {} /\ g # y
        <5>1. Ahead(g, Frame(y))
          BY <4>1, <4>4, RootIsAhead
        <5> QED BY <1>7, <4>1, <4>4, <5>1
      <4> QED BY <4>2, <4>3, <4>4
    <3> QED BY <3>2, <3>3
  <2> QED BY <1>2, <1>3, <1>13, <2>2, <2>3, <2>4 DEF SearchInv
<1>14. SearchInv(o)'
  BY <1>1, <1>11, <1>12, <1>13 DEF SearchInv, h
<1> QED BY <1>1, <1>10, <1>14, SearchFrame

LEMMA ReturnStep ==
  ASSUME HSInv, NEW o \in Object, Return(o)
  PROVE  HSInv'
<1>1. /\ phase[o] = "searching" /\ stack # << >> /\ stack[1].todo = {}
      /\ stack' = Tail(stack) /\ UNCHANGED <<s, phase, hSmallest, result>>
  BY DEF Return
<1>2. HSTypeOK /\ SearchInv(o) /\ stack \in Seq(FrameSet)
  BY <1>1 DEF HSInv, Searching, HSTypeOK, FrameSet
<1>3. /\ Tail(stack) \in Seq(FrameSet)
      /\ Frames(stack) = {stack[1]} \cup Frames(Tail(stack))
  BY <1>1, <1>2, FramesOfStack
<1>4. HSTypeOK'
  BY <1>1, <1>2, <1>3 DEF HSTypeOK, FrameSet
<1>5. \A g : ~Ahead(g, stack[1])
  BY <1>1 DEF Ahead
<1>6. SearchInv(o)'
  BY <1>1, <1>2, <1>3, <1>5 DEF SearchInv, GoodCandidate, h
<1> QED BY <1>1, <1>4, <1>6, SearchFrame

LEMMA AnswerStep ==
  ASSUME HSInv, NEW o \in Object, Answer(o)
  PROVE  HSInv'
<1>1. /\ phase[o] = "searching" /\ stack = << >>
      /\ phase' = [phase EXCEPT ![o] = "done"] /\ result' = [result EXCEPT ![o] = hSmallest]
      /\ UNCHANGED <<s, hSmallest, stack>>
  BY DEF Answer
<1>2. HSTypeOK /\ SearchInv(o)
  BY <1>1 DEF HSInv, Searching
<1>3. hSmallest \in MinHittingSets(s[o])
  <2>1. hSmallest \subseteq UNION s[o]
    BY <1>2 DEF SearchInv, GoodCandidate, h
  <2>2. ASSUME NEW g \in SUBSET UNION s[o], Hits(g, s[o])
        PROVE  Cardinality(hSmallest) <= Cardinality(g)
    BY <1>1, <1>2, <2>2, EmptyStack DEF SearchInv, h
  <2> QED BY <1>2, <2>1, <2>2 DEF MinHittingSets, SearchInv, GoodCandidate, h
<1>4. /\ phase'[o] = "done" /\ result'[o] = hSmallest
      /\ \A p \in Object : p # o => phase'[p] = phase[p] /\ result'[p] = result[p]
  BY <1>1, <1>2 DEF HSTypeOK
<1>5. HSTypeOK'
  BY <1>1, <1>2 DEF HSTypeOK
<1>6. Discipline' /\ Fresh'
  BY <1>1, <1>4 DEF HSInv, Discipline, Fresh, h
<1>7. Searching'
  BY <1>1, <1>4 DEF HSInv, Discipline, Searching
<1>8. ResultIsSmallest'
  BY <1>1, <1>3, <1>4 DEF HSInv, ResultIsSmallest
<1> QED BY <1>5, <1>6, <1>7, <1>8 DEF HSInv

LEMMA SearchStutters ==
  ASSUME HSInv, UNCHANGED hsVars
  PROVE  HSInv'
BY DEF hsVars, HSInv, HSTypeOK, Discipline, Fresh, Searching, SearchInv, GoodCandidate, h,
       ResultIsSmallest

-----------------------------------------------------------------------------
THEOREM SearchInductive == ASSUME OneAtATime PROVE HSSpec => []HSInv
<1>1. HSInv /\ [HSNext]_hsVars => HSInv'
  <2> SUFFICES ASSUME HSInv, [HSNext]_hsVars PROVE HSInv'
    OBVIOUS
  <2>1. CASE HSNext
    BY <2>1, ConstructStep, CalculateStep, LeaveOutStep, ReturnStep, AnswerStep DEF HSNext
  <2>2. CASE UNCHANGED hsVars
    BY <2>2, SearchStutters
  <2> QED BY <2>1, <2>2
<1> QED BY <1>1, InitHSInv, PTL DEF HSSpec

(* Every variable of the search keeps its type.                            *)
THEOREM SearchTypes == ASSUME OneAtATime PROVE HSSpec => []HSTypeOK
<1>1. HSInv => HSTypeOK
  BY DEF HSInv
<1> QED BY <1>1, SearchInductive, PTL

(* The set that calcMinCardHittingSet returns is a smallest hitting set,   *)
(* for every system of finite sets and every iteration order.              *)
THEOREM SmallestHittingSet == ASSUME OneAtATime PROVE HSSpec => []ResultIsSmallest
<1>1. HSInv => ResultIsSmallest
  BY DEF HSInv
<1> QED BY <1>1, SearchInductive, PTL
=============================================================================
