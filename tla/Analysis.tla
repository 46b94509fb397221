------------------------------ MODULE Analysis ------------------------------
(***************************************************************************)
(* Questions an observable FSM can be asked: is it harmonised, that is     *)
(* do states reached by the same inputs accept the same inputs             *)
(* (Fsm::isHarmonized, with the generic refinement of partitions), and     *)
(* which of its inputs are equivalent (Fsm::getEquivalentInputs).  They     *)
(* rest on what its states answer to a sequence of inputs, which is asked   *)
(* as well.                                                                *)
(***************************************************************************)
EXTENDS Integers, Sequences, FiniteSets, SequencesExt

CONSTANT Analysed   \* the machines: [nodes, maxInput, maxOutput, post], post[q][x][y] a node or -1

VARIABLES
  analysed,       \* the machine
  partitioning,   \* isHarmonized: sequence of sequences of nodes
  answered,     \* its answer: "not asked", "open", "yes" or "no"
  x1,             \* getEquivalentInputs: the input looked at
  equivalentToSmallerInput,
  inputClasses

analysisVars == <<analysed, partitioning, answered, x1, equivalentToSmallerInput, inputClasses>>

NodesIn(m) == 0 .. m.nodes - 1
InputsIn(m) == 0 .. m.maxInput
OutputsIn(m) == 0 .. m.maxOutput

(* FsmNode::after(x) *)
Posts(m, q, x) == {m.post[q][x][y] : y \in OutputsIn(m)} \ {-1}
Accepted(m, q) == {x \in InputsIn(m) : Posts(m, q, x) # {}}

(* FsmNode::after(itrc) *)
PostsOf(m, q, xs) == FoldLeft(LAMBDA Q, x : UNION {Posts(m, p, x) : p \in Q}, {q}, xs)

(* FsmNode::getPossibleOutputs: the answers to xs and, in the same order,   *)
(* the nodes reached; an answer that cannot be completed is dropped         *)
OneInput(m, q, x) ==
  LET ys == SetToSortSeq({y \in OutputsIn(m) : m.post[q][x][y] # -1}, <)
  IN  [i \in DOMAIN ys |-> [outputs |-> <<ys[i]>>, node |-> m.post[q][x][ys[i]]]]
GetPossibleOutputs(m, q, xs) ==
  LET Continue(sofar, x) ==
        FlattenSeq([i \in DOMAIN sofar |->
          LET next == OneInput(m, sofar[i].node, x)
          IN  [j \in DOMAIN next |-> [next[j] EXCEPT !.outputs = sofar[i].outputs \o @]]])
  IN  FoldLeft(Continue, <<[outputs |-> << >>, node |-> q]>>, xs)

(* FsmNode::exhibitsBehaviour, by the first transition with the right label *)
ExhibitsBehaviour(m, q, xs, ys) ==
  FoldLeft(LAMBDA p, i : IF p = -1 THEN -1 ELSE m.post[p][xs[i]][ys[i]], q, [i \in DOMAIN xs |-> i]) # -1

(* Fsm::rDistinguishes, with a sequence of inputs *)
RDistinguishes(m, p, q, xs) ==
  LET outA == GetPossibleOutputs(m, p, xs)
      outB == GetPossibleOutputs(m, q, xs)
  IN  \A i \in DOMAIN outA, j \in DOMAIN outB : outA[i].outputs # outB[j].outputs

-----------------------------------------------------------------------------
(* mapStateToEquivalenceClass *)
ClassOf(parts, q) == CHOOSE i \in DOMAIN parts : \E j \in DOMAIN parts[i] : parts[i][j] = q

(* areStatesEquivalent.  Faulty variant: what only the second state reaches *)
(* is not seen.                                                             *)
FaultyAreStatesEquivalent(m, pre, p, q) ==
  \A x \in InputsIn(m) : {ClassOf(pre, r) : r \in Posts(m, p, x)} \subseteq {ClassOf(pre, r) : r \in Posts(m, q, x)}
AreStatesEquivalent(m, pre, p, q) ==
  \A x \in InputsIn(m) : {ClassOf(pre, r) : r \in Posts(m, p, x)} = {ClassOf(pre, r) : r \in Posts(m, q, x)}

(* refineStatePartitioning: a node joins the first class, of those made of  *)
(* any old one, whose first node it is equivalent to                        *)
RefineStatePartitioning(m, pre) ==
  LET Place(parts, q) ==
        LET matching == {i \in DOMAIN parts : AreStatesEquivalent(m, pre, parts[i][1], q)}
            i == CHOOSE j \in matching : \A k \in matching : j <= k
        IN  IF matching = {} THEN Append(parts, <<q>>) ELSE [parts EXCEPT ![i] = Append(@, q)]
  IN  FoldLeft(Place, << >>, FlattenSeq(pre))

(* createInitialPartitioning: by the inputs accepted.  The order of the     *)
(* classes is that of vectors of Booleans.                                  *)
Smaller(m, A, B) ==
  \E x \in B \ A : \A z \in InputsIn(m) : z < x => (z \in A <=> z \in B)
CreateInitialPartitioning(m) ==
  LET keys == SetToSortSeq({Accepted(m, q) : q \in NodesIn(m)}, LAMBDA A, B : Smaller(m, A, B))
      all == [i \in 1 .. m.nodes |-> i - 1]
  IN  [i \in DOMAIN keys |-> SelectSeq(all, LAMBDA q : Accepted(m, q) = keys[i])]

-----------------------------------------------------------------------------
(* minimise(), for getEquivalentInputs: states that are reached, and pairs   *)
(* of them that no table separates; Repeated applies F to a set n times      *)
Repeated(F(_), init, n) ==
  LET f[k \in 0 .. n] == IF k = 0 THEN init ELSE UNION {F(S) : S \in {f[k - 1]}} IN f[n]
ReachableNodes(m) ==
  LET More(Q) == Q \cup UNION {Posts(m, q, x) : q \in Q, x \in InputsIn(m)} IN Repeated(More, {0}, m.nodes)
Equal(m) ==
  LET Q == ReachableNodes(m)
      NotSeparated(E) == {pq \in E : \A x \in InputsIn(m), y \in OutputsIn(m) :
                        LET p == m.post[pq[1]][x][y]
                            q == m.post[pq[2]][x][y]
                        IN  p = q \/ (p >= 0 /\ q >= 0 /\ <<p, q>> \in E)}
  IN  Repeated(NotSeparated, Q \X Q, m.nodes)

(* OFSMTable::compareColumns on the table of the prime machine *)
CompareColumns(m, equal, y, a, b) ==
  \A pq \in equal : pq[1] = pq[2] =>
    LET p == m.post[pq[1]][a][y]
        q == m.post[pq[1]][b][y]
    IN  p = q \/ <<p, q>> \in equal

-----------------------------------------------------------------------------
AnalysisInit ==
  /\ analysed = << >>
  /\ partitioning = << >>
  /\ answered = "not asked"
  /\ x1 = 0
  /\ equivalentToSmallerInput = {}
  /\ inputClasses = << >>

(* a machine is given; fixpoint starts *)
Ask ==
  /\ answered = "not asked"
  /\ analysed' \in Analysed
  /\ partitioning' = CreateInitialPartitioning(analysed')
  /\ answered' = "open"
  /\ UNCHANGED <<x1, equivalentToSmallerInput, inputClasses>>

(* fixpoint, one round *)
Refine ==
  /\ answered = "open"
  /\ RefineStatePartitioning(analysed, partitioning) # partitioning
  /\ partitioning' = RefineStatePartitioning(analysed, partitioning)
  /\ UNCHANGED <<analysed, answered, x1, equivalentToSmallerInput, inputClasses>>

Decide ==
  /\ answered = "open"
  /\ RefineStatePartitioning(analysed, partitioning) = partitioning
  /\ answered' = IF \A i \in DOMAIN partitioning, x \in InputsIn(analysed) :
                        Cardinality({ClassOf(partitioning, q) : q \in Posts(analysed, partitioning[i][1], x)}) <= 1
                   THEN "yes" ELSE "no"
  /\ UNCHANGED <<analysed, partitioning, x1, equivalentToSmallerInput, inputClasses>>

(* the loop over the first of two inputs *)
NextInput ==
  /\ answered \in {"yes", "no"} /\ x1 <= analysed.maxInput
  /\ \E equal \in {Equal(analysed)} :
     LET same == {x2 \in x1 + 1 .. analysed.maxInput :
                    \A y \in OutputsIn(analysed) : CompareColumns(analysed, equal, y, x1, x2)}
     IN  IF x1 \in equivalentToSmallerInput
         THEN UNCHANGED <<equivalentToSmallerInput, inputClasses>>
         ELSE /\ equivalentToSmallerInput' = equivalentToSmallerInput \cup same
              /\ inputClasses' = Append(inputClasses, {x1} \cup same)
  /\ x1' = x1 + 1
  /\ UNCHANGED <<analysed, partitioning, answered>>

AnalysisDone == answered \in {"yes", "no"} /\ x1 > analysed.maxInput
AnalysisNext == Ask \/ Refine \/ Decide \/ NextInput

-----------------------------------------------------------------------------
(* pairs of states that some state reaches by the same inputs *)
ReachedTogether(m) ==
  LET More(P) == P \cup UNION {Posts(m, pq[1], x) \X Posts(m, pq[2], x) : pq \in P, x \in InputsIn(m)}
  IN  Repeated(More, {<<q, q>> : q \in NodesIn(m)}, m.nodes * m.nodes)

(* I/O-traces of a state, up to a length that tells any two states apart *)
IOTraces(m, q) ==
  LET More(T) == T \cup {<<Append(tq[1], <<x, y>>), m.post[tq[2]][x][y]>> :
                           <<tq, x, y>> \in {<<t, a, b>> \in T \X InputsIn(m) \X OutputsIn(m) : m.post[t[2]][a][b] >= 0}}
  IN  {tq[1] : tq \in Repeated(More, {<< << >>, q>>}, m.nodes)}

AnswersOf(m) ==
  \A language \in {[p \in NodesIn(m) |-> IOTraces(m, p)]}, n \in 1 .. m.nodes :
  \A xs \in [1 .. n -> InputsIn(m)], q \in NodesIn(m) :
    LET answers == GetPossibleOutputs(m, q, xs)
        Trace(ys) == [i \in 1 .. n |-> <<xs[i], ys[i]>>]
        said(p) == {ys \in [1 .. n -> OutputsIn(m)] : Trace(ys) \in language[p]}
    IN  /\ {answers[i].outputs : i \in DOMAIN answers} = said(q)
        /\ Len(answers) = Cardinality(said(q))
        /\ {answers[i].node : i \in DOMAIN answers} = PostsOf(m, q, xs)
        /\ \A ys \in [1 .. n -> OutputsIn(m)] : ExhibitsBehaviour(m, q, xs, ys) <=> ys \in said(q)
        /\ \A p \in NodesIn(m) : RDistinguishes(m, p, q, xs) <=> said(p) \cap said(q) = {}

(***************************************************************************)
(* Fsm.h: a machine is harmonised if the states reached from a state with  *)
(* the same input trace "accept the same set of inputs"; the answer is     *)
(* right although only the first state of each class is looked at.  Two    *)
(* inputs are equivalent if and only if, in every state that is reached,   *)
(* they allow the same outputs and what can follow them is the same; and   *)
(* every input is in one class.  What a state may answer, each answer once *)
(* and with the node it leads to, are its traces with these inputs; two     *)
(* states are r-distinguished by inputs if no answer is possible for both.  *)
(***************************************************************************)
AnalysesExact ==
  AnalysisDone =>
    LET m == analysed
        Following(q, x, y) == IF m.post[q][x][y] = -1 THEN {} ELSE IOTraces(m, m.post[q][x][y])
    IN  /\ answered = "yes" <=> \A pq \in ReachedTogether(m) : Accepted(m, pq[1]) = Accepted(m, pq[2])
        /\ \A a, b \in InputsIn(m) : a < b =>
             (\E i \in DOMAIN inputClasses : {a, b} \subseteq inputClasses[i])
             <=> (\A q \in ReachableNodes(m), y \in OutputsIn(m) : Following(q, a, y) = Following(q, b, y))
        /\ \A i, j \in DOMAIN inputClasses : i # j => inputClasses[i] \cap inputClasses[j] = {}
        /\ AnswersOf(m)
=============================================================================
