----------------------------- MODULE SPYHMethod -----------------------------
(***************************************************************************)
(* Dfsm::spyhMethodOnMinimisedCompleteDfsm: a suite that grows transition  *)
(* by transition.  A convergence graph collects traces that are known to   *)
(* lead to the same state in every implementation that passes so far, and  *)
(* a pair of traces may be distinguished behind any two that converge with *)
(* them.                                                                   *)
(*                                                                         *)
(* The calls still to be made are kept on a stack.  Sets of pointers are   *)
(* walked in any order.                                                    *)
(***************************************************************************)
EXTENDS HMethod

VARIABLES
  nodes,      \* ConvergenceNodes: convergentNodes, as traces, and nextForInput (0 is null)
  calls,      \* calls in progress and pending, the current one first
  toVerify,   \* transitions <<source, input>> that are not verified yet
  missed      \* history: a pair was left undistinguished

spyhVars == <<hVars, nodes, calls, toVerify, missed>>

Root == 1
InputSeq == [i \in 1 .. maxInput + 1 |-> i - 1]

-----------------------------------------------------------------------------
NewNode(t) == [convergentNodes |-> {t}, nextForInput |-> [x \in Input |-> 0]]

(* ConvergenceGraph::after *)
NodeAfter(graph, trace) == FoldLeft(LAMBDA n, x : graph[n].nextForInput[x], Root, trace)

(* ConvergenceGraph::add *)
AddToGraph(graph, trace) ==
  LET AddPrefix(g, i) ==
        LET prefix == SubSeq(trace, 1, i)
            n == NodeAfter(g, Front(prefix))
            next == g[n].nextForInput[trace[i]]
        IN  IF next = 0
            THEN Append([g EXCEPT ![n].nextForInput[trace[i]] = Len(g) + 1], NewNode(prefix))
            ELSE [g EXCEPT ![next].convergentNodes = @ \cup {prefix}]
  IN  FoldLeft(AddPrefix, graph, [i \in 1 .. Len(trace) |-> i])

(* ConvergenceGraph::mergeInto *)
RECURSIVE MergeInto(_, _, _)
MergeInto(graph, node1, node2) ==
  LET MergeNext(g, x) ==
        LET next1 == g[node1].nextForInput[x]
            next2 == g[node2].nextForInput[x]
        IN  CASE next1 = 0 -> g
              [] next1 # 0 /\ next2 = 0 -> [g EXCEPT ![node2].nextForInput[x] = next1]
              [] OTHER -> MergeInto(g, next1, next2)
  IN  IF node1 = node2 THEN graph
      ELSE FoldLeft(MergeNext,
                    [graph EXCEPT ![node2].convergentNodes = @ \cup graph[node1].convergentNodes],
                    InputSeq)

(* ConvergenceGraph::merge.  Faulty variant: the edge keeps its old target. *)
FaultyMerge(graph, trace1, x, trace2) ==
  MergeInto(graph, NodeAfter(graph, Append(trace1, x)), NodeAfter(graph, trace2))

Merge(graph, trace1, x, trace2) ==
  LET node == NodeAfter(graph, trace1)
      nodeR == NodeAfter(graph, trace2)
  IN  MergeInto([graph EXCEPT ![node].nextForInput[x] = nodeR], graph[node].nextForInput[x], nodeR)

ConvergentTraces(trace) == nodes[NodeAfter(nodes, trace)].convergentNodes

IsDefined(t, x) == Append(t, x) \in iTree
IsLeaf(t) == t \in iTree /\ \A x \in Input : ~IsDefined(t, x)
HasLeaf(trace) == \E t \in ConvergentTraces(trace) : IsLeaf(t)

-----------------------------------------------------------------------------
OutputsDiffer(p, q, x) == Distinguished(p, q, <<x>>)
Lengths(T) == {Len(t) : t \in T}

FirstDistTrace(p, q) ==
  CHOOSE t \in ShortestDistTraces(p, q) : \A s \in ShortestDistTraces(p, q) : s = t \/ Before(t, s)

DistLength(p, q) == Len(FirstDistTrace(p, q))

(* spyhEstimateGrowthOfTestSuite *)
Estimate(p, q, x) ==
  LET px == StateAfter(p, <<x>>)
      qx == StateAfter(q, <<x>>)
  IN  CASE OutputsDiffer(p, q, x) -> 1
        [] ~OutputsDiffer(p, q, x) /\ (px = qx \/ {px, qx} = {p, q}) -> 2 * numStates
        [] OTHER -> 2 * DistLength(p, q) + 1

(* the pair of traces is distinguished by the suite already: the case that *)
(* spyhGetPrefixOfSeparatingTrace answers with 0                           *)
RECURSIVE AlreadySeparated(_, _)
AlreadySeparated(trace1, trace2) ==
  \E x \in Input, u \in ConvergentTraces(trace1), v \in ConvergentTraces(trace2) :
    LET p == StateAfter(0, u)
        q == StateAfter(0, v)
    IN  /\ IsDefined(u, x) /\ IsDefined(v, x)
        /\ \/ OutputsDiffer(p, q, x)
           \/ /\ StateAfter(p, <<x>>) # StateAfter(q, <<x>>)
              /\ AlreadySeparated(Append(u, x), Append(v, x))

(* spyhGetPrefixOfSeparatingTrace otherwise: the possible results.  The    *)
(* length of the shortest trace behind v is compared with that of u, so    *)
(* any trace shorter than u may be taken.                                  *)
RECURSIVE SeparatingPrefixes(_, _)
SeparatingPrefixes(trace1, trace2) ==
  LET convU == ConvergentTraces(trace1)
      convV == ConvergentTraces(trace2)
      p == StateAfter(0, trace1)
      q == StateAfter(0, trace2)
      uLen == Min({Len(trace1)} \cup Lengths(convU))
      shorter == {n \in Lengths(convV) : n < uLen}
      Growth(x, trace, len, other, otherLen) ==
        LET e == Estimate(p, q, x)
        IN  e + (IF e = 1 THEN 0
                 ELSE IF HasLeaf(trace) THEN 1
                 ELSE IF HasLeaf(Append(trace, x)) THEN 0 ELSE 1 + len)
              + (IF HasLeaf(other) THEN 0 ELSE otherLen)
      IfLess(best, e, x) == {IF e < best.est THEN [est |-> e, w |-> <<x>>] ELSE best}
      (* the recursive calls, each with one of its results *)
      Deeper(best, x, R) ==
        {[est |-> r.est, w |-> <<x>> \o r.w] :
           r \in {s \in UNION R : s.est <= best.est /\ \A S \in R : \E t \in S : t.est >= s.est}}
        \cup (IF \A S \in R : \E t \in S : t.est > best.est THEN {best} ELSE {})
      Try(best, x, vLen) ==
        LET onU == {u \in convU : IsDefined(u, x)}
            onV == {v \in convV : IsDefined(v, x)}
        IN  IF onU # {} /\ onV # {}
            THEN IF StateAfter(p, <<x>>) = StateAfter(q, <<x>>) THEN {best}
                 ELSE Deeper(best, x, {SeparatingPrefixes(Append(u, x), Append(v, x)) : u \in onU, v \in onV})
            ELSE IF onU # {} THEN IfLess(best, Growth(x, trace1, uLen, trace2, vLen), x)
            ELSE IF onV # {} THEN IfLess(best, Growth(x, trace2, vLen, trace1, uLen), x)
            ELSE {best}
      Start(vLen) ==
        [est |-> 2 * DistLength(p, q) + (IF HasLeaf(trace1) THEN 0 ELSE uLen)
                                        + (IF HasLeaf(trace2) THEN 0 ELSE vLen),
         w |-> << >>]
  IN  UNION {FoldLeft(LAMBDA results, x : UNION {Try(best, x, vLen) : best \in results},
                      {Start(vLen)}, InputSeq) :
             vLen \in IF shorter = {} THEN {Len(trace2)} ELSE shorter}

-----------------------------------------------------------------------------
Distinguish(u, from) == [op |-> "distinguish", u |-> u, from |-> from]
FromSet(u, v, from, depth) == [op |-> "fromSet", u |-> u, v |-> v, from |-> from, depth |-> depth]
Second(c) == [c EXCEPT !.op = "second"]
AppendSequence(u, sequence) == [op |-> "append", u |-> u, w |-> sequence]
MergeClasses(u, x, v) == [op |-> "merge", u |-> u, x |-> x, v |-> v]

Calling(op) == calls # << >> /\ Head(calls).op = op

SPYHInit ==
  /\ HInit
  /\ method = "SPYH" => Deterministic /\ CompletelySpecified
  /\ nodes = << >>
  /\ calls = << >>
  /\ toVerify = {}
  /\ missed = FALSE

(* transitions that a trace of the state cover takes need no verification *)
OnCover(q, x) ==
  \E u \in scov : \E i \in 1 .. Len(u) : x = u[i] /\ q = StateAfter(0, SubSeq(u, 1, i - 1))

BeginSPYH ==
  /\ stage = "sets" /\ method = "SPYH" /\ iTree = {}
  /\ iTree' = scov
  /\ nodes' = FoldLeft(AddToGraph, << NewNode(<< >>) >>, SetToSeq(Leaves(scov)))
  /\ \E order \in SetToSeqs(scov) : calls' = Map(LAMBDA u : Distinguish(u, scov), order)
  /\ toVerify' = {t \in State \X Input : ~OnCover(t[1], t[2])}
  /\ UNCHANGED <<suiteVars, open, missed>>

(* the traces behind which something has to be appended.  A pair that is   *)
(* separated stays so; the order of the loop matters among the others only. *)
ToSeparate(u, from) ==
  {v \in from : StateAfter(0, u) # StateAfter(0, v) /\ ~AlreadySeparated(u, v)}

(* spyhDistinguish, for the next of the traces to distinguish u from *)
DistinguishNext ==
  /\ Calling("distinguish")
  /\ LET u == Head(calls).u
         from == ToSeparate(u, Head(calls).from)
     IN  /\ from # {}
         /\ \E v \in from : \E r \in SeparatingPrefixes(u, v) :
              LET p == StateAfter(0, u \o r.w)
                  q == StateAfter(0, v \o r.w)
                  toAppend == IF p = q THEN r.w ELSE r.w \o FirstDistTrace(p, q)
              IN  /\ calls' = << AppendSequence(u, toAppend), AppendSequence(v, toAppend),
                                 Distinguish(u, from \ {v}) >> \o Tail(calls)
                  /\ missed' = (missed \/ ~Distinguished(StateAfter(0, u), StateAfter(0, v), toAppend))
  /\ UNCHANGED <<suiteVars, iTree, open, nodes, toVerify>>

DistinguishDone ==
  /\ Calling("distinguish")
  /\ ToSeparate(Head(calls).u, Head(calls).from) = {}
  /\ calls' = Tail(calls)
  /\ UNCHANGED <<suiteVars, iTree, open, nodes, toVerify, missed>>

Extend(trace) ==
  /\ iTree' = iTree \cup Prefixes(trace)
  /\ nodes' = AddToGraph(nodes, trace)

(* spyhAppendSeparatingSequence *)
AppendSeparating ==
  /\ Calling("append")
  /\ LET u == Head(calls).u
         sequence == Head(calls).w
         convergent == ConvergentTraces(u)
         Applied(t, i) == t \o SubSeq(sequence, 1, i)
         Reached(t) == Max({i \in 0 .. Len(sequence) : Applied(t, i) \in iTree})
         atLeaf == {t \in convergent : IsLeaf(Applied(t, Reached(t)))}
         shortest == {t \in convergent \cup {u} : \A s \in convergent \cup {u} : Len(t) <= Len(s)}
     IN  IF \E t \in convergent : Reached(t) = Len(sequence) THEN UNCHANGED <<iTree, nodes>>
         ELSE \E t \in IF atLeaf # {} THEN {s \in atLeaf : \A r \in atLeaf : Reached(r) <= Reached(s)}
                       ELSE IF u \in shortest THEN {u} ELSE shortest :
                Extend(t \o sequence)
  /\ calls' = Tail(calls)
  /\ UNCHANGED <<suiteVars, open, toVerify, missed>>

(* spyhDistinguishFromSet, up to its first call *)
DistinguishFromSet ==
  /\ Calling("fromSet")
  /\ LET c == Head(calls)
     IN  calls' = << Distinguish(c.u, c.from), Second(c) >> \o Tail(calls)
  /\ UNCHANGED <<suiteVars, iTree, open, nodes, toVerify, missed>>

(* Faulty variant: an input too few between the two traces and what is     *)
(* appended.                                                               *)
FaultyDistinguishSecond ==
  /\ Calling("second")
  /\ LET c == Head(calls)
         notReferenced == ConvergentTraces(c.v) \cap scov = {}
         from == c.from \cup {c.u} \cup (IF notReferenced THEN {c.v} ELSE {})
         Behind(x) == << AppendSequence(c.u, <<x>>), AppendSequence(c.v, <<x>>),
                         FromSet(Append(c.u, x), Append(c.v, x), from, c.depth - 1) >>
     IN  calls' = (IF notReferenced THEN << Distinguish(c.v, c.from) >> ELSE << >>)
                  \o (IF c.depth > 1 THEN FlattenSeq(Map(Behind, InputSeq)) ELSE << >>)
                  \o Tail(calls)
  /\ UNCHANGED <<suiteVars, iTree, open, nodes, toVerify, missed>>

(* and after it *)
DistinguishSecond ==
  /\ Calling("second")
  /\ LET c == Head(calls)
         notReferenced == ConvergentTraces(c.v) \cap scov = {}
         from == c.from \cup {c.u} \cup (IF notReferenced THEN {c.v} ELSE {})
         Behind(x) == << AppendSequence(c.u, <<x>>), AppendSequence(c.v, <<x>>),
                         FromSet(Append(c.u, x), Append(c.v, x), from, c.depth - 1) >>
     IN  calls' = (IF notReferenced THEN << Distinguish(c.v, c.from) >> ELSE << >>)
                  \o (IF c.depth > 0 THEN FlattenSeq(Map(Behind, InputSeq)) ELSE << >>)
                  \o Tail(calls)
  /\ UNCHANGED <<suiteVars, iTree, open, nodes, toVerify, missed>>

MergeConvergent ==
  /\ Calling("merge")
  /\ LET c == Head(calls)
     IN  nodes' = Merge(nodes, c.u, c.x, c.v)
  /\ calls' = Tail(calls)
  /\ UNCHANGED <<suiteVars, iTree, open, toVerify, missed>>

(* the lengths of the traces of the state cover for source and target *)
Weight(t) == Len(f2t[t[1]]) + Len(f2t[StateAfter(t[1], <<t[2]>>)])

VerifyTransition ==
  /\ calls = << >>
  /\ \E t \in toVerify :
       LET u == f2t[t[1]]
           x == t[2]
           v == f2t[StateAfter(t[1], <<x>>)]
       IN  /\ \A s \in toVerify : Weight(t) <= Weight(s)
           /\ Extend(Append(u, x))
           /\ calls' = << FromSet(Append(u, x), v, scov, numAddStates), MergeClasses(u, x, v) >>
           /\ toVerify' = toVerify \ {t}
  /\ UNCHANGED <<suiteVars, open, missed>>

GenerateSPYH ==
  /\ method = "SPYH" /\ stage = "sets" /\ iTree # {}
  /\ calls = << >> /\ toVerify = {}
  /\ tests' = Leaves(iTree)
  /\ iTree' = {}
  /\ nodes' = << >>
  /\ stage' = "test"
  /\ UNCHANGED <<vars, method, numAddStates, coverVars, bound, runVars, open, calls, toVerify, missed>>

SPYHNext ==
  \/ HNext /\ UNCHANGED <<nodes, calls, toVerify, missed>>
  \/ BeginSPYH \/ DistinguishNext \/ DistinguishDone \/ AppendSeparating
  \/ DistinguishFromSet \/ DistinguishSecond
  \/ MergeConvergent \/ VerifyTransition \/ GenerateSPYH

SPYHSpec == SPYHInit /\ [][SPYHNext]_spyhVars

-----------------------------------------------------------------------------
(***************************************************************************)
(* The convergence graph says of the suite what the search reads off it:   *)
(* every trace of the suite is in the class its inputs lead to, the traces *)
(* of a class lead to one state, and a class has a successor exactly if    *)
(* one of its traces is continued, although classes are merged while       *)
(* others refer to them.                                                   *)
(***************************************************************************)
GraphMatchesSuite ==
  nodes # << >> =>
    LET nodeOf == [t \in iTree |-> NodeAfter(nodes, t)]
    IN  \A n \in {nodeOf[t] : t \in iTree} :
          LET class == nodes[n].convergentNodes
          IN  /\ class = {t \in iTree : nodeOf[t] = n}
              /\ Cardinality({StateAfter(0, t) : t \in class}) = 1
              /\ \A x \in Input : nodes[n].nextForInput[x] # 0 <=> \E t \in class : IsDefined(t, x)

(***************************************************************************)
(* A suite of the SPYH method for which no pair of traces was left         *)
(* undistinguished is complete.                                            *)
(***************************************************************************)
SuiteCompleteUnlessMissed == verdict = "pass" /\ method = "SPYH" /\ ~missed => TR!Equivalent

(***************************************************************************)
(* Dfsm.h: "@return A complete test suite", for implementations with at    *)
(* most numAddStates more states than the reference machine.               *)
(***************************************************************************)
SPYHComplete == verdict = "pass" /\ method = "SPYH" => TR!Equivalent
=============================================================================
