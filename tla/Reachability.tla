--------------------------- MODULE Reachability ---------------------------
(***************************************************************************)
(* The node marking of class Fsm and what is built on it:                  *)
(*                                                                         *)
(*   - Fsm::accept / FsmNode::accept, the breadth-first visitor walk that  *)
(*     marks nodes as visited (the mark is never cleared by the walk);     *)
(*   - FsmNode::apply(itrc, markAsVisited), which sets the same mark;      *)
(*   - Fsm::removeUnreachableNodes, which trusts the mark, drops the       *)
(*     unmarked nodes and renumbers the others.                            *)
(*                                                                         *)
(* An Fsm object is the vector nodes of its FsmNode objects, the index     *)
(* initStateIdx of its initial state, and maxState.  Every node carries an *)
(* id that the table algorithms use as an index into nodes.  Nodes are     *)
(* abstract values; inputs are abstract; outputs play no role here.        *)
(***************************************************************************)
EXTENDS Integers, Sequences, SequencesExt

CONSTANTS
  Node,          \* FsmNode objects
  Input,         \* input events
  FreshFsms,     \* the freshly constructed Fsm objects to start from
  MarkingTraces  \* input traces the client applies with markAsVisited = true

(***************************************************************************)
(* A fresh Fsm: its node vector, its transitions (for every node the       *)
(* vector of its outgoing <<input, target>> pairs) and its initial state.  *)
(* Targets are nodes of the Fsm; a constructor receives no node twice.     *)
(***************************************************************************)
IsFsm(f) ==
  /\ f.nodes \in Seq(Node)
  /\ f.nodes # << >>
  /\ \A i, j \in DOMAIN f.nodes : f.nodes[i] = f.nodes[j] => i = j
  /\ f.trans \in [Node -> Seq(Input \X Node)]
  /\ f.initStateIdx \in 0 .. Len(f.nodes) - 1

ASSUME FreshFsmsAssumption == \A f \in FreshFsms : IsFsm(f)
ASSUME MarkingTracesAssumption == MarkingTraces \subseteq Seq(Input)

VARIABLES
  trans,            \* transitions of every node (a vector per node)
  nodes,            \* Fsm::nodes
  initStateIdx,     \* Fsm::initStateIdx, counted from 0
  maxState,         \* Fsm::maxState
  id,               \* FsmNode::id
  visited,          \* the nodes with FsmNode::visited set
  state2String,     \* the presentation layer's state names: the node each name was given for
  pc,               \* "idle", "accept" (a client's walk), "mark" or "drop" (in removeUnreachableNodes)
  bfsq,             \* the queue of Fsm::accept
  todo,             \* the transitions FsmNode::accept has still to look at
  newNodes,         \* local of removeUnreachableNodes
  subtractFromId,   \* local of removeUnreachableNodes
  unreachableNodes, \* nodes handed back by removeUnreachableNodes so far
  startNode,        \* history: the initial state the Fsm was constructed with
  applied           \* history: a client has marked nodes through apply

fsmVars == <<trans, nodes, initStateIdx, maxState, id, state2String, startNode,
             applied>>
walkVars == <<bfsq, todo>>
removeVars == <<newNodes, subtractFromId, unreachableNodes>>
vars == <<fsmVars, visited, pc, walkVars, removeVars>>

InitialState == nodes[initStateIdx + 1]

Targets(n) == {trans[n][k][2] : k \in DOMAIN trans[n]}

After(n, x) == {trans[n][k][2] : k \in {j \in DOMAIN trans[n] : trans[n][j][1] = x}}

(***************************************************************************)
(* The nodes reachable from the Fsm's initial state: the members of every  *)
(* set of nodes that holds it and is closed under transitions.             *)
(***************************************************************************)
Closed(C) == \A n \in C : Targets(n) \subseteq C

ReachableFrom(q) ==
  {n \in Node : \A C \in SUBSET Node : (q \in C /\ Closed(C)) => n \in C}

-----------------------------------------------------------------------------
Init ==
  \E f \in FreshFsms :
    /\ trans = f.trans
    /\ nodes = f.nodes
    /\ initStateIdx = f.initStateIdx
    /\ maxState = Len(f.nodes) - 1
    /\ id = [n \in Node |-> IF \E i \in DOMAIN f.nodes : f.nodes[i] = n
                            THEN (CHOOSE i \in DOMAIN f.nodes : f.nodes[i] = n) - 1
                            ELSE -1]
    /\ visited = {}
    /\ state2String = f.nodes
    /\ startNode = f.nodes[f.initStateIdx + 1]
    /\ applied = FALSE
    /\ pc = "idle"
    /\ bfsq = << >>
    /\ todo = << >>
    /\ newNodes = << >>
    /\ subtractFromId = 0
    /\ unreachableNodes = {}

(***************************************************************************)
(* FsmNode::apply on the initial state with markAsVisited.  The leaves of  *)
(* the output tree after k inputs are Leaves(itrc)[k]: a leaf whose state  *)
(* refuses an input stays a leaf and meets the next input in that state.   *)
(***************************************************************************)
Leaves(itrc) ==
  LET leaves[k \in 0 .. Len(itrc)] ==
        IF k = 0 THEN {InitialState}
        ELSE UNION {LET posts == After(n, itrc[k])
                    IN  IF posts = {} THEN {n} ELSE posts : n \in leaves[k - 1]}
  IN  leaves

Apply(itrc) ==
  /\ pc = "idle"
  /\ itrc # << >>
  /\ visited' = visited \cup UNION {Leaves(itrc)[k] : k \in 0 .. Len(itrc)}
  /\ applied' = TRUE
  /\ UNCHANGED <<trans, nodes, initStateIdx, maxState, id, state2String, startNode, pc,
                 walkVars, removeVars>>

(* Fsm::accept called by a client, or as the first thing removeUnreachableNodes does *)
BeginWalk(caller) ==
  /\ pc = "idle"
  /\ pc' = caller
  /\ bfsq' = <<InitialState>>
  /\ UNCHANGED <<fsmVars, visited, todo, removeVars>>

(* Faulty variant: the targets are marked instead of the node itself. *)
FaultyAcceptNode ==
  /\ bfsq # << >>
  /\ todo = << >>
  /\ bfsq' = Tail(bfsq)
  /\ todo' = trans[Head(bfsq)]
  /\ visited' = visited \cup Targets(Head(bfsq))
  /\ UNCHANGED <<fsmVars, pc, removeVars>>

(* The front of the queue is taken and marked; the mark of no node is cleared. *)
AcceptNode ==
  /\ bfsq # << >>
  /\ todo = << >>
  /\ bfsq' = Tail(bfsq)
  /\ todo' = trans[Head(bfsq)]
  /\ visited' = visited \cup {Head(bfsq)}
  /\ UNCHANGED <<fsmVars, pc, removeVars>>

(* Faulty variants: return after the first transition; stay at a marked target. *)
FaultyPushTargetReturns ==
  /\ todo # << >>
  /\ todo' = << >>
  /\ bfsq' = IF Head(todo)[2] \in visited THEN bfsq ELSE Append(bfsq, Head(todo)[2])
  /\ UNCHANGED <<fsmVars, visited, pc, removeVars>>

FaultyPushTargetStays ==
  /\ todo # << >>
  /\ IF Head(todo)[2] \in visited
     THEN UNCHANGED <<todo, bfsq>>
     ELSE todo' = Tail(todo) /\ bfsq' = Append(bfsq, Head(todo)[2])
  /\ UNCHANGED <<fsmVars, visited, pc, removeVars>>

(* A target not marked yet is queued, also when it is in the queue already. *)
PushTarget ==
  /\ todo # << >>
  /\ todo' = Tail(todo)
  /\ bfsq' = IF Head(todo)[2] \in visited THEN bfsq ELSE Append(bfsq, Head(todo)[2])
  /\ UNCHANGED <<fsmVars, visited, pc, removeVars>>

WalkDone == bfsq = << >> /\ todo = << >>

EndClientWalk ==
  /\ pc = "accept"
  /\ WalkDone
  /\ pc' = "idle"
  /\ UNCHANGED <<fsmVars, visited, walkVars, removeVars>>

BeginDrop ==
  /\ pc = "mark"
  /\ WalkDone
  /\ pc' = "drop"
  /\ newNodes' = << >>
  /\ subtractFromId' = 0
  /\ UNCHANGED <<fsmVars, visited, walkVars, unreachableNodes>>

(* the node the loop of removeUnreachableNodes looks at next, counted from 1 *)
Index == Len(newNodes) + subtractFromId + 1

(* The name at a node's index is erased with it (an index out of range erases nothing). *)
EraseAt(names, k) == IF k \in 1 .. Len(names) THEN RemoveAt(names, k) ELSE names

(* Faulty variants: the counter runs the wrong way; the id is not corrected; *)
(* the new vector is not stored.                                             *)
FaultyDropNode ==
  /\ pc = "drop"
  /\ Index \in DOMAIN nodes
  /\ nodes[Index] \notin visited
  /\ unreachableNodes' = unreachableNodes \cup {nodes[Index]}
  /\ subtractFromId' = subtractFromId - 1
  /\ UNCHANGED <<fsmVars, visited, pc, walkVars, newNodes>>

FaultyKeepNode ==
  /\ pc = "drop"
  /\ Index \in DOMAIN nodes
  /\ nodes[Index] \in visited
  /\ newNodes' = Append(newNodes, nodes[Index])
  /\ UNCHANGED <<fsmVars, visited, pc, walkVars, subtractFromId, unreachableNodes>>

DropNode ==
  /\ pc = "drop"
  /\ Index \in DOMAIN nodes
  /\ nodes[Index] \notin visited
  /\ unreachableNodes' = unreachableNodes \cup {nodes[Index]}
  /\ state2String' = EraseAt(state2String, id[nodes[Index]] - subtractFromId + 1)
  /\ subtractFromId' = subtractFromId + 1
  /\ UNCHANGED <<trans, nodes, initStateIdx, maxState, id, startNode, applied,
                 visited, pc, walkVars, newNodes>>

KeepNode ==
  /\ pc = "drop"
  /\ Index \in DOMAIN nodes
  /\ nodes[Index] \in visited
  /\ id' = [id EXCEPT ![nodes[Index]] = @ - subtractFromId]
  /\ newNodes' = Append(newNodes, nodes[Index])
  /\ UNCHANGED <<trans, nodes, initStateIdx, maxState, state2String, startNode, applied,
                 visited, pc, walkVars, subtractFromId, unreachableNodes>>

EndDrop ==
  /\ pc = "drop"
  /\ Index \notin DOMAIN nodes
  /\ nodes' = newNodes
  /\ pc' = "idle"
  /\ UNCHANGED <<trans, initStateIdx, maxState, id, state2String, startNode, applied,
                 visited, walkVars, removeVars>>

WalkStep == AcceptNode \/ PushTarget
RemoveStep == BeginDrop \/ DropNode \/ KeepNode \/ EndDrop

Next ==
  \/ \E itrc \in MarkingTraces : Apply(itrc)
  \/ BeginWalk("accept")
  \/ BeginWalk("mark")
  \/ WalkStep
  \/ EndClientWalk
  \/ RemoveStep

(* A walk or a removal, once called, runs to its end; a client need not call. *)
Fairness == WF_vars(WalkStep) /\ WF_vars(EndClientWalk) /\ WF_vars(RemoveStep)

Spec == Init /\ [][Next]_vars
FairSpec == Spec /\ Fairness

-----------------------------------------------------------------------------
TypeOK ==
  /\ trans \in [Node -> Seq(Input \X Node)]
  /\ nodes \in Seq(Node)
  /\ initStateIdx \in Nat
  /\ maxState \in Nat
  /\ id \in [Node -> Int]
  /\ visited \subseteq Node
  /\ state2String \in Seq(Node)
  /\ startNode \in Node
  /\ applied \in BOOLEAN
  /\ pc \in {"idle", "accept", "mark", "drop"}
  /\ bfsq \in Seq(Node)
  /\ todo \in Seq(Input \X Node)
  /\ newNodes \in Seq(Node)
  /\ subtractFromId \in Nat
  /\ unreachableNodes \subseteq Node

(***************************************************************************)
(* As long as the only marks are those of walks, what                      *)
(* removeUnreachableNodes hands back as unreachable is unreachable from    *)
(* the state the Fsm started in, over any sequence of walks and removals   *)
(* (Fsm.h: "removed, due to unreachability").                              *)
(***************************************************************************)
OnlyUnreachableRemoved ==
  ~applied => unreachableNodes \cap ReachableFrom(startNode) = {}

(***************************************************************************)
(* A client's walk that ends has marked the nodes reachable from the       *)
(* initial state and no others: walks do not disturb each other, although  *)
(* no walk clears the marks of the one before.  Fsm.h promises it whatever *)
(* was marked ("All Fsm nodes will be set to unvisited, before the         *)
(* traversal starts"); once apply has set marks it need not be so.  After  *)
(* a removal every node still in the Fsm is reachable, also when apply has *)
(* set marks, which makes the number of rows of the later tables the       *)
(* number of reachable states.                                             *)
(***************************************************************************)
WalksMarkReachable ==
  [][/\ EndClientWalk /\ ~applied => visited = ReachableFrom(InitialState)
     /\ EndDrop => \A i \in DOMAIN nodes' : nodes'[i] \in ReachableFrom(startNode)]_vars

(***************************************************************************)
(* Between operations every node's id is its index in nodes, which         *)
(* OFSMTable, PkTable and the copy constructor rely on, and the state      *)
(* names of the presentation layer stay aligned with them.                 *)
(***************************************************************************)
IdIsIndex ==
  pc = "idle" =>
    /\ \A i \in DOMAIN nodes : id[nodes[i]] = i - 1
    /\ state2String = nodes

(***************************************************************************)
(* The Fsm keeps its initial state across removals: minimise(), the state  *)
(* cover and every test method start from getInitialState() afterwards     *)
(* (Fsm.h calls initStateIdx the id of the initial state).                 *)
(***************************************************************************)
InitialStateKept ==
  /\ initStateIdx + 1 \in DOMAIN nodes
  /\ InitialState = startNode

(* A walk or removal terminates although a node may be queued several times. *)
WalkTerminates == (pc # "idle") ~> (pc = "idle")
===========================================================================
