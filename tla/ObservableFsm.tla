--------------------------- MODULE ObservableFsm ---------------------------
(***************************************************************************)
(* Fsm::transformToObservableFSM: the observable FSM whose states are      *)
(* labelled with sets of states of the original FSM.                       *)
(*                                                                         *)
(* The new nodes are numbered in the order of their creation, and the work *)
(* list is served first in, first out; one step of the model is one        *)
(* input/output label looked at for the current node.                      *)
(***************************************************************************)
EXTENDS FsmTraces

CONSTANTS
  State,      \* states of the original FSM
  LabelSeq,   \* the labels in the order of the loops over x and y
  Fsms        \* the FSMs to start from: records of transitions and initial state

ASSUME LabelSeqAssumption ==
  /\ LabelSeq \in Seq(Label)
  /\ \A l \in Label : \E i \in 1 .. Len(LabelSeq) : LabelSeq[i] = l

ASSUME FsmsAssumption == Fsms \subseteq FsmRecord(State)

VARIABLES
  fsm,         \* the original FSM
  nodeLabel,   \* node2NodeLabel: for each new node, in order of creation, its set of states
  bfsLst,      \* the new nodes still to be processed
  q,           \* the node being processed, 0 between nodes
  k,           \* index into LabelSeq of the label looked at
  obsTrans     \* transitions of the new FSM

obsVars == <<fsm, nodeLabel, bfsLst, q, k, obsTrans>>

ObsNode == 1 .. Len(nodeLabel)

(* the states that a set S of states reaches under label l *)
Post(S, l) == {s \in State : \E n \in S : <<n, l, s>> \in fsm.trans}

ObsInit ==
  /\ fsm \in Fsms
  /\ nodeLabel = << {fsm.init} >>
  /\ bfsLst = << 1 >>
  /\ q = 0
  /\ k = 1
  /\ obsTrans = {}

PopNode ==
  /\ q = 0
  /\ bfsLst # << >>
  /\ q' = Head(bfsLst)
  /\ bfsLst' = Tail(bfsLst)
  /\ k' = 1
  /\ UNCHANGED <<fsm, nodeLabel, obsTrans>>

(* theNodeLabel: where the states of q go under the current label *)
theNodeLabel == Post(nodeLabel[q], LabelSeq[k])

AtLabel == q # 0 /\ k <= Len(LabelSeq)

(* Faulty variant: the label is not passed. *)
FaultyNoTransition == AtLabel /\ theNodeLabel = {} /\ UNCHANGED obsVars

NoTransition ==
  /\ AtLabel
  /\ theNodeLabel = {}
  /\ k' = k + 1
  /\ UNCHANGED <<fsm, nodeLabel, bfsLst, q, obsTrans>>

ToKnownNode ==
  /\ AtLabel
  /\ theNodeLabel # {}
  /\ \E u \in ObsNode :
       /\ nodeLabel[u] = theNodeLabel
       /\ obsTrans' = obsTrans \cup {<<q, LabelSeq[k], u>>}
  /\ k' = k + 1
  /\ UNCHANGED <<fsm, nodeLabel, bfsLst, q>>

(* Faulty variant: a node is made for every transition. *)
FaultyToNewNodeAlways ==
  /\ AtLabel
  /\ theNodeLabel # {}
  /\ nodeLabel' = Append(nodeLabel, theNodeLabel)
  /\ bfsLst' = Append(bfsLst, Len(nodeLabel) + 1)
  /\ obsTrans' = obsTrans \cup {<<q, LabelSeq[k], Len(nodeLabel) + 1>>}
  /\ k' = k + 1
  /\ UNCHANGED <<fsm, q>>

ToNewNode ==
  /\ AtLabel
  /\ theNodeLabel # {}
  /\ \A u \in ObsNode : nodeLabel[u] # theNodeLabel
  /\ nodeLabel' = Append(nodeLabel, theNodeLabel)
  /\ bfsLst' = Append(bfsLst, Len(nodeLabel) + 1)
  /\ obsTrans' = obsTrans \cup {<<q, LabelSeq[k], Len(nodeLabel) + 1>>}
  /\ k' = k + 1
  /\ UNCHANGED <<fsm, q>>

NodeDone ==
  /\ q # 0
  /\ k > Len(LabelSeq)
  /\ q' = 0
  /\ UNCHANGED <<fsm, nodeLabel, bfsLst, k, obsTrans>>

ObsFinished == q = 0 /\ bfsLst = << >>

ObsNext == PopNode \/ NoTransition \/ ToKnownNode \/ ToNewNode \/ NodeDone

ObsSpec == ObsInit /\ [][ObsNext]_obsVars

-----------------------------------------------------------------------------
(***************************************************************************)
(* When the work list is empty, every node has for every label the         *)
(* transition to the node of exactly those states that its own states      *)
(* reach together, and none if they reach no state.                        *)
(***************************************************************************)
TransitionsExact ==
  ObsFinished =>
    \A p \in ObsNode, l \in Label :
      {nodeLabel[t[3]] : t \in {e \in obsTrans : e[1] = p /\ e[2] = l}}
        = {Post(nodeLabel[p], l)} \ {{}}

(* The new FSM has no two nodes for one set of states, so a node has at    *)
(* most one transition for a label: the new FSM is observable.             *)
OneNodePerSet == \A u, v \in ObsNode : nodeLabel[u] = nodeLabel[v] => u = v

(* Both together: the subset construction. *)
SubsetConstruction == TransitionsExact /\ OneNodePerSet
=============================================================================
