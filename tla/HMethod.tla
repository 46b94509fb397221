------------------------------ MODULE HMethod ------------------------------
(***************************************************************************)
(* Dfsm::hMethodOnMinimisedDfsm: the suite of the H method for a minimal,  *)
(* deterministic, completely specified machine.  It starts from the state  *)
(* cover followed by all traces of length numAddStates + 1, and has then   *)
(* to distinguish many pairs of traces; for each pair it uses a trace that *)
(* the suite contains already, if there is one.                            *)
(***************************************************************************)
EXTENDS TestSuites

VARIABLES
  iTree,   \* the suite so far, as the set of all traces of the tree
  open     \* the pairs of traces still to be distinguished, in order

hVars == <<suiteVars, iTree, open>>

Deterministic ==
  \A q \in State, x \in Input : Cardinality({y \in Output : rows[q][<<x, y>>] >= 0}) = 1

-----------------------------------------------------------------------------
(* the only state of FsmNode::after(itrc), for a DFSM *)
StateAfter(q, itrc) ==
  FoldLeft(LAMBDA p, x : CHOOSE r \in State : \E y \in Output : rows[p][<<x, y>>] = r, q, itrc)

(* FsmNode::calcDistinguishingTrace on P_k-tables.  P_k relates the states *)
(* that no trace of length k tells apart, and so does Table[k].            *)
PkTrace(p, q) ==
  LET l == Min({k \in 1 .. numStates : <<p, q>> \notin Table[k]})
      MoveOn(c, k) ==
        LET x == Min({i \in Input :
                   <<StateAfter(c.qi, <<i>>), StateAfter(c.qj, <<i>>)>> \notin Table[l - k]})
        IN  [qi |-> StateAfter(c.qi, <<x>>), qj |-> StateAfter(c.qj, <<x>>),
             itrc |-> Append(c.itrc, x)]
      c == FoldLeft(MoveOn, [qi |-> p, qj |-> q, itrc |-> << >>], [k \in 1 .. l - 1 |-> k])
  IN  Append(c.itrc, Min({x \in Input : Distinguished(c.qi, c.qj, <<x>>)}))

(* calcDistTraces finds these in the order of their inputs *)
ShortestDistTraces(p, q) ==
  LET OfLength(l) == {t \in [1 .. l -> Input] : Distinguished(p, q, t)}
  IN  OfLength(Min({l \in 1 .. numStates : OfLength(l) # {}}))

(* Tree::getSubTree *)
SubTree(T, t) == {SubSeq(u, Len(t) + 1, Len(u)) : u \in {v \in T : IsPrefix(t, v)}}

(* Tree::getPrefixRelationTree: the leaves of each tree that are prefixes  *)
(* or extensions of a leaf of the other; a tree without edges is ignored.  *)
PrefixRelationTree(A, B) ==
  IF A = {<< >>} THEN B
  ELSE IF B = {<< >>} THEN A
  ELSE LET Related(S, T) == {s \in Leaves(S) : \E t \in Leaves(T) : IsPrefix(s, t) \/ IsPrefix(t, s)}
       IN  {<< >>} \cup UNION {Prefixes(t) : t \in Related(A, B) \cup Related(B, A)}

(* calcDistinguishingTraceInTree: breadth first *)
InTree(p, q, T) ==
  LET found == {t \in T : Distinguished(p, q, t)}
  IN  {t \in found : \A s \in found : Len(t) <= Len(s)}

(* calcDistinguishingTraceAfterTree *)
AfterTree(p, q, T) ==
  {t \o PkTrace(StateAfter(p, t), StateAfter(q, t)) :
     t \in {u \in Leaves(T) : StateAfter(p, u) # StateAfter(q, u)}}

(* Dfsm::calcDistinguishingTrace.  Which of several traces is found first  *)
(* depends on the order of the children in the tree and is left open.      *)
DistinguishingTraces(p, q, T) ==
  IF InTree(p, q, T) # {} THEN InTree(p, q, T)
  ELSE IF AfterTree(p, q, T) # {} THEN AfterTree(p, q, T)
  ELSE {PkTrace(p, q)}

-----------------------------------------------------------------------------
(* the rounds of two nested loops *)
Product(s, t) == FlattenSeq([i \in DOMAIN s |-> [j \in DOMAIN t |-> <<s[i], t[j]>>]])

(* indices i < j in the order of two nested loops *)
IndexPairs(n) == FlattenSeq([i \in 1 .. n |-> [k \in 1 .. n - i |-> <<i, i + k>>]])

Map(F(_), s) == [i \in DOMAIN s |-> F(s[i])]

(* the i-th input of a trace; the end of a trace comes after all inputs *)
At(t, i) == IF i \in DOMAIN t THEN t[i] ELSE maxInput + 1

(* TreeNode::traverse lists the children of a node in the order of their   *)
(* inputs, and before the node itself.                                     *)
Before(u, v) ==
  \E i \in DOMAIN u : (\A j \in 1 .. i - 1 : At(u, j) = At(v, j)) /\ At(u, i) < At(v, i)

Listed(S) == CHOOSE s \in SetToSeqs(S) : \A i, j \in DOMAIN s : i < j => Before(s[i], s[j])

iolV == Listed(scov)

(* IOListContainer with one length *)
Betas(k) == Listed(InputEnum(k, k))

(* step 1: the traces of the state cover *)
CoverPairs == Map(LAMBDA ij : <<iolV[ij[1]], iolV[ij[2]]>>, IndexPairs(Len(iolV)))

(* step 2: an extension of the cover, and the cover *)
ExtensionPairs ==
  LET allBeta == FlattenSeq([k \in 1 .. numAddStates + 1 |-> Betas(k)])
  IN  Map(LAMBDA r : <<r[2][1] \o r[1], r[2][2]>>, Product(allBeta, Product(iolV, iolV)))

(* step 3: two extensions of the same trace of the cover *)
PrefixPairs ==
  Map(LAMBDA r : <<r[1][1] \o SubSeq(r[1][2], 1, r[2][1]), r[1][1] \o SubSeq(r[1][2], 1, r[2][2])>>,
      Product(Product(iolV, Betas(numAddStates + 1)), IndexPairs(numAddStates + 1)))

-----------------------------------------------------------------------------
HInit ==
  /\ SuiteInit
  /\ method = "H" => Deterministic
  /\ iTree = {}
  /\ open = << >>

BeginH ==
  /\ stage = "sets" /\ method = "H" /\ iTree = {}
  /\ iTree' = Add(scov, InputEnum(numAddStates + 1, numAddStates + 1))
  /\ open' = CoverPairs \o ExtensionPairs \o PrefixPairs
  /\ UNCHANGED suiteVars

(* Faulty variant: the trace is added behind one of the two only. *)
FaultyDistinguishPair ==
  /\ open # << >>
  /\ open' = Tail(open)
  /\ LET u == Head(open)[1]
         v == Head(open)[2]
         p == StateAfter(0, u)
         q == StateAfter(0, v)
         T == PrefixRelationTree(SubTree(iTree, u), SubTree(iTree, v))
     IN  \/ p = q /\ UNCHANGED iTree
         \/ p # q /\ \E gamma \in DistinguishingTraces(p, q, T) :
                       iTree' = iTree \cup Prefixes(u \o gamma)
  /\ UNCHANGED suiteVars

(* the loop body of the three steps, for one pair of traces *)
DistinguishPair ==
  /\ open # << >>
  /\ open' = Tail(open)
  /\ LET u == Head(open)[1]
         v == Head(open)[2]
         p == StateAfter(0, u)
         q == StateAfter(0, v)
         T == PrefixRelationTree(SubTree(iTree, u), SubTree(iTree, v))
     IN  \/ p = q /\ UNCHANGED iTree
         \/ p # q /\ \E gamma \in DistinguishingTraces(p, q, T) :
                       iTree' = iTree \cup Prefixes(u \o gamma) \cup Prefixes(v \o gamma)
  /\ UNCHANGED suiteVars

(* getIOLists; the tree itself is a local variable *)
GenerateH ==
  /\ method = "H" /\ stage = "sets" /\ iTree # {} /\ open = << >>
  /\ tests' = Leaves(iTree)
  /\ iTree' = {}
  /\ stage' = "test"
  /\ UNCHANGED <<vars, method, numAddStates, coverVars, bound, runVars, open>>

HNext ==
  \/ SuiteNext /\ UNCHANGED <<iTree, open>>
  \/ BeginH \/ DistinguishPair \/ GenerateH

HSpec == HInit /\ [][HNext]_hVars

-----------------------------------------------------------------------------
(* t distinguishes the states behind u and v, and the suite applies it to both *)
SuiteTellsApart(u, v) ==
  \E t \in SubTree(iTree, u) \cap SubTree(iTree, v) : Distinguished(StateAfter(0, u), StateAfter(0, v), t)

(***************************************************************************)
(* When the loops are through, any two traces that are made of the state   *)
(* cover and at most numAddStates + 1 more inputs, and that belong to one  *)
(* of the three steps, are distinguished by the suite if they lead to      *)
(* different states.  In particular a trace that an earlier pair took from *)
(* the suite, or that the tree of the prefix relation offered, was one     *)
(* that the suite then applies behind both.                                *)
(***************************************************************************)
SuiteSatisfiesHCondition ==
  method = "H" /\ stage = "sets" /\ iTree # {} /\ open = << >> =>
    LET More(k) == {a \o b : a \in scov, b \in InputEnum(1, k)}
        TellsApart(u, v) == StateAfter(0, u) # StateAfter(0, v) => SuiteTellsApart(u, v)
    IN  /\ \A u \in scov \cup More(numAddStates + 1), v \in scov : TellsApart(u, v)
        /\ \A a \in scov, b \in InputEnum(1, numAddStates + 1) : \A i \in 1 .. Len(b) - 1 :
             TellsApart(a \o SubSeq(b, 1, i), a \o b)
=============================================================================
