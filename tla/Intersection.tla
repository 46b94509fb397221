---------------------------- MODULE Intersection ----------------------------
(***************************************************************************)
(* Fsm::intersect: the product of two FSMs, built breadth first over pairs *)
(* of nodes.  Membership checks on the pairs made so far (findp) and on    *)
(* the work list (contains), and the visited marks, decide what is created *)
(* and what is worked on.                                                  *)
(*                                                                         *)
(* The outer loop takes a pair from the list, the inner loops look at      *)
(* every transition of the first node with every transition of the second; *)
(* one step of the model is one such pair of transitions with equal        *)
(* labels.  The order of the transition vectors is any order.              *)
(***************************************************************************)
EXTENDS FsmTraces

CONSTANTS
  State1, State2,   \* the nodes of this FSM and of the other
  Fsms1, Fsms2      \* the FSMs to start from: records of transitions and initial state

ASSUME Fsms1Assumption == Fsms1 \subseteq FsmRecord(State1)
ASSUME Fsms2Assumption == Fsms2 \subseteq FsmRecord(State2)

VARIABLES
  f1, f2,           \* this FSM and the other
  nodeList,         \* the pairs still to be worked on
  fsmInterNodes,    \* the pairs of the new nodes; a node's number is its place
  reachTrace,       \* FsmNode::reachTrace of the new nodes: their labels
  visited,          \* the new nodes marked as visited
  nSource,          \* the node worked on, 0 between nodes
  todo,             \* pairs of transitions with equal labels still to be looked at
  trans             \* transitions of the new FSM

vars == <<f1, f2, nodeList, fsmInterNodes, reachTrace, visited, nSource, todo, trans>>

Pair == State1 \X State2
Node == 1 .. Len(fsmInterNodes)

ElementsOf(sq) == {sq[i] : i \in 1 .. Len(sq)}

(* the transitions of the product that leave the pair p *)
Matching(p) ==
  {m \in f1.trans \X f2.trans :
     m[1][1] = p[1] /\ m[2][1] = p[2] /\ m[1][2] = m[2][2]}

Init ==
  /\ f1 \in Fsms1
  /\ f2 \in Fsms2
  /\ nodeList = << <<f1.init, f2.init>> >>
  /\ fsmInterNodes = << >>
  /\ reachTrace = << >>
  /\ visited = {}
  /\ nSource = 0
  /\ todo = {}
  /\ trans = {}

(* findp, and the creation of the node it does not find *)
FindOrCreate(p, tr) ==
  IF p \in ElementsOf(fsmInterNodes)
  THEN UNCHANGED <<fsmInterNodes, reachTrace>>
  ELSE fsmInterNodes' = Append(fsmInterNodes, p) /\ reachTrace' = Append(reachTrace, tr)

(* Take the head of the list.  Only the pair of the initial states has no  *)
(* node yet.                                                               *)
BeginNode ==
  /\ nSource = 0
  /\ nodeList # << >>
  /\ FindOrCreate(Head(nodeList), << >>)
  /\ nSource' \in {i \in 1 .. Len(fsmInterNodes') : fsmInterNodes'[i] = Head(nodeList)}
  /\ todo' = Matching(Head(nodeList))
  /\ nodeList' = Tail(nodeList)
  /\ visited' = visited \cup {nSource'}
  /\ UNCHANGED <<f1, f2, trans>>

(* The target is put into the list unless it was worked on or is there.    *)
(* Faulty variant: every node counts as worked on.                         *)
FaultyEnqueueNever(nTarget, pTarget) == nodeList' = nodeList

Enqueue(nTarget, pTarget) ==
  nodeList' = IF nTarget \in visited \/ pTarget \in ElementsOf(nodeList)
              THEN nodeList ELSE Append(nodeList, pTarget)

(* The label of the transition is put after the trace of its source.       *)
(* Faulty variant: before it.                                              *)
FaultyTraceOfTarget(l) == << l >> \o reachTrace[nSource]

TraceOfTarget(l) == Append(reachTrace[nSource], l)

TodoAfter(m) == todo \ {m}

(* The body of the inner loops for two transitions with the same label. *)
AddTransition(m) ==
  /\ nSource # 0
  /\ m \in todo
  /\ LET pTarget == <<m[1][3], m[2][3]>>
     IN  /\ FindOrCreate(pTarget, TraceOfTarget(m[1][2]))
         /\ \E nTarget \in 1 .. Len(fsmInterNodes') :
              /\ fsmInterNodes'[nTarget] = pTarget
              /\ trans' = trans \cup {<<nSource, m[1][2], nTarget>>}
              /\ Enqueue(nTarget, pTarget)
  /\ todo' = TodoAfter(m)
  /\ UNCHANGED <<f1, f2, visited, nSource>>

EndNode ==
  /\ nSource # 0
  /\ todo = {}
  /\ nSource' = 0
  /\ UNCHANGED <<f1, f2, nodeList, fsmInterNodes, reachTrace, visited, todo, trans>>

Finished == nSource = 0 /\ nodeList = << >>

Next ==
  \/ BeginNode
  \/ \E m \in todo : AddTransition(m)
  \/ EndNode

Spec == Init /\ [][Next]_vars

-----------------------------------------------------------------------------
(***************************************************************************)
(* A pair of states becomes one node and is worked on once: a pair in the  *)
(* list is neither there a second time nor has its node been marked        *)
(* before, although pairs are found again from many sides, themselves      *)
(* included.                                                               *)
(***************************************************************************)
WorkedOnOnce ==
  /\ \A u, v \in Node : fsmInterNodes[u] = fsmInterNodes[v] => u = v
  /\ \A i, j \in 1 .. Len(nodeList) : nodeList[i] = nodeList[j] => i = j
  /\ \A i \in 1 .. Len(nodeList) : \A u \in visited : fsmInterNodes[u] # nodeList[i]

(***************************************************************************)
(* When the list is empty, a node has exactly the transitions that its two *)
(* states can take together, and their targets are nodes: the new FSM is   *)
(* the intersection (Fsm.h: "a new FSM which equals the intersection of    *)
(* this and f").                                                           *)
(***************************************************************************)
ProductExact ==
  Finished =>
    \A u \in Node :
      {<<t[2], fsmInterNodes[t[3]]>> : t \in {e \in trans : e[1] = u}}
        = {<<m[1][2], <<m[1][3], m[2][3]>>>> : m \in Matching(fsmInterNodes[u])}

(* Both together: the product. *)
ProductConstruction == WorkedOnOnce /\ ProductExact

(***************************************************************************)
(* The reach trace stored with a node is a trace of both FSMs that leads   *)
(* to the node's two states.                                               *)
(***************************************************************************)
ReachTraceLeadsToNode ==
  \A u \in Node :
    /\ fsmInterNodes[u][1] \in Follow(f1.trans, {f1.init}, reachTrace[u])
    /\ fsmInterNodes[u][2] \in Follow(f2.trans, {f2.init}, reachTrace[u])

-----------------------------------------------------------------------------
DefinedInputs(tr, s) == {t[2][1] : t \in {e \in tr : e[1] = s}}

(* isStrongSemiReductionOf, from the nodes of the product.  Faulty          *)
(* variant: one common output for each input is enough.                    *)
FaultySemiReduction ==
  \A u \in Node :
    LET inputs == DefinedInputs(f1.trans, fsmInterNodes[u][1])
    IN  inputs = DefinedInputs(f2.trans, fsmInterNodes[u][2]) /\ inputs = DefinedInputs(trans, u)

isStrongSemiReductionOf ==
  \A u \in Node :
    LET thisNode == fsmInterNodes[u][1]
        otherNode == fsmInterNodes[u][2]
        inputs == DefinedInputs(f1.trans, thisNode)
    IN  /\ inputs = DefinedInputs(f2.trans, otherNode)
        /\ inputs = DefinedInputs(trans, u)
        /\ \A t \in f1.trans :
             t[1] = thisNode => \E e \in f2.trans : e[1] = otherNode /\ e[2] = t[2]

Observable(f) == \A t, e \in f.trans : t[1] = e[1] /\ t[2] = e[2] => t = e

(***************************************************************************)
(* For observable FSMs the verdict means what it says of traces: after     *)
(* every trace that both can perform, both define the same inputs, and     *)
(* every output of this FSM is one of the other (Fsm.h: "Returns true if   *)
(* and only if this Fsm is a strong semi-reduction of the other Fsm").     *)
(***************************************************************************)
VerdictByTraces ==
  Finished /\ Observable(f1) /\ Observable(f2) =>
    LET Labels(f, word) ==
          {l \in Label : Follow(f.trans, {f.init}, Append(word, l)) # {}}
        Inputs(L) == {l[1] : l \in L}
    IN  isStrongSemiReductionOf <=>
          \A len \in 0 .. TraceBound : \A word \in [1 .. len -> Label] :
            LET L1 == Labels(f1, word)
                L2 == Labels(f2, word)
            IN  Follow(f1.trans, {f1.init}, word) # {} /\ Follow(f2.trans, {f2.init}, word) # {} =>
                  Inputs(L1) = Inputs(L2) /\ L1 \subseteq L2
=============================================================================
