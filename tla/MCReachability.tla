--------------------------- MODULE MCReachability ---------------------------
(***************************************************************************)
(* Instances of Reachability for TLC: every Fsm with NumNodes nodes whose  *)
(* node n has for each input at most one transition (deterministic,        *)
(* possibly partial), plus, for input "a", nondeterministic branching to   *)
(* two targets, which queues a node twice.                                 *)
(***************************************************************************)
EXTENDS Reachability

CONSTANTS NumNodes, InitIdxs, TraceLen

MCNode == 1 .. NumNodes
MCInput == {"a", "b"}

(* the vectors of transitions a node may have *)
MCVectors ==
  {<< >>}
  \cup {<<<<"a", t>>>> : t \in MCNode}
  \cup {<<<<"b", t>>>> : t \in MCNode}
  \cup {<<<<"a", t>>, <<"b", u>>>> : t \in MCNode, u \in MCNode}
  \cup {<<<<"a", t>>, <<"a", u>>>> : t \in MCNode, u \in MCNode}

MCFreshFsms ==
  {[nodes |-> [i \in MCNode |-> i], trans |-> f, initStateIdx |-> k] :
      f \in [MCNode -> MCVectors], k \in InitIdxs}

MCMarkingTraces == UNION {[1 .. k -> MCInput] : k \in 1 .. TraceLen}
=============================================================================
