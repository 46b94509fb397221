-------------------------- MODULE StrongReduction --------------------------
(***************************************************************************)
(* StrongReductionTestSuiteGenerator: test suites for strong               *)
(* semi-reduction against an observable FSM that may be nondeterministic   *)
(* and partial, and their execution.  It calculates r-distinguishability   *)
(* and d-reachability again, in its own way, on the machine `rows'.        *)
(*                                                                         *)
(* An InputTree is the prefix-closed set of the input traces along its     *)
(* edges.  Loops over containers of pointers run in no particular order:   *)
(* the order of the states the suite is extended for and that of the       *)
(* r-distinguishable sets are left open, others are by number.             *)
(***************************************************************************)
EXTENDS StateCounting

VARIABLES
  sPhase,             \* "idle", "dreach", "graph", "sets", "initial", "update",
                      \* "generated", "pass", "fail"; "undefined": out of bounds access
  drQueue, drBlack,   \* the queue and the black nodes of the search in mObs
  dReachingSequences, \* dReachingSequences[q]: input trace or NoTrace
  rDistGraph,         \* rDistGraph[<<p, q>>]: input and targets of a pair told apart
  graphTodo, graphNext, reachedFixpoint,
  maximalRDistSets,   \* sequence of sets
  unextended,         \* d-reachable states the suite has not been extended for
  suite               \* the test suite

sVars == <<sPhase, drQueue, drBlack, dReachingSequences, rDistGraph, graphTodo, graphNext,
           reachedFixpoint, maximalRDistSets, unextended, suite>>

NoInput == -1
Sink == -1
NodeSeq == [i \in 1 .. numStates |-> i - 1]

SInit ==
  /\ sPhase = "idle"
  /\ drQueue = << >> /\ drBlack = {}
  /\ dReachingSequences = [q \in State |-> NoTrace]
  /\ rDistGraph = << >>
  /\ graphTodo = << >> /\ graphNext = << >> /\ reachedFixpoint = FALSE
  /\ maximalRDistSets = << >>
  /\ unextended = {} /\ suite = {}

StartStrong ==
  /\ sPhase = "idle" /\ rPhase = "done" /\ cPhase = "idle"
  /\ sPhase' = "dreach" /\ drQueue' = <<<<{0}, << >>>>>>
  /\ UNCHANGED <<drBlack, dReachingSequences, rDistGraph, graphTodo, graphNext,
                 reachedFixpoint, maximalRDistSets, unextended, suite>>

-----------------------------------------------------------------------------
(* calcDeterministicallyReachingSequences: breadth-first search through the *)
(* machine without outputs, made deterministic, in which an undefined input *)
(* leads to a sink.                                                         *)
SubsetAfter(S, x) ==
  UNION {IF q = Sink \/ Successors(q, x) = {} THEN {Sink} ELSE Successors(q, x) : q \in S}

DReachingStep ==
  /\ sPhase = "dreach" /\ drQueue # << >>
  /\ LET S == Head(drQueue)[1]
         xs == Head(drQueue)[2]
     IN  IF S \in drBlack
         THEN /\ drQueue' = Tail(drQueue)
              /\ UNCHANGED <<drBlack, dReachingSequences>>
         ELSE /\ drBlack' = drBlack \cup {S}
              /\ dReachingSequences' = [q \in State |-> IF S = {q} THEN xs ELSE dReachingSequences[q]]
              /\ drQueue' = Tail(drQueue) \o [i \in 1 .. maxInput + 1 |-> <<SubsetAfter(S, i - 1), Append(xs, i - 1)>>]
  /\ UNCHANGED <<sPhase, rDistGraph, graphTodo, graphNext, reachedFixpoint,
                 maximalRDistSets, unextended, suite>>

(* the order in which two nested loops list pairs *)
InOrder(s) ==
  \A i, j \in DOMAIN s : i < j => s[i][1] < s[j][1] \/ (s[i][1] = s[j][1] /\ s[i][2] < s[j][2])

(* calcRDistinguishingGraph begins with the pairs that differ in what they define *)
StartGraph ==
  /\ sPhase = "dreach" /\ drQueue = << >>
  /\ sPhase' = "graph"
  /\ LET zero == {p \in State \X State : DefinedInputs(rows, p[1]) # DefinedInputs(rows, p[2])}
     IN  /\ rDistGraph' = [p \in zero |-> <<NoInput, {}>>]
         /\ \E s \in SetToSeqs({p \in State \X State : p[1] < p[2]} \ zero) : InOrder(s) /\ graphTodo' = s
  /\ graphNext' = << >> /\ reachedFixpoint' = TRUE
  /\ UNCHANGED <<drQueue, drBlack, dReachingSequences, maximalRDistSets, unextended, suite>>

Targets(p, x) ==
  {<<rows[p[1]][<<x, y>>], rows[p[2]][<<x, y>>]>> : y \in OutputIntersection(p[1], p[2], x)}

(* Faulty variant: an input neither state defines is taken, too. *)
FaultyUsable(p) == {x \in In : Targets(p, x) \subseteq DOMAIN rDistGraph}

Usable(p) == {x \in DefinedInputs(rows, p[1]) : Targets(p, x) \subseteq DOMAIN rDistGraph}

(* the next pair: its entry may use what the same round has found *)
GraphStep ==
  /\ sPhase = "graph" /\ graphTodo # << >>
  /\ LET p == Head(graphTodo)
     IN  IF Usable(p) = {}
         THEN /\ graphNext' = Append(graphNext, p)
              /\ UNCHANGED <<rDistGraph, reachedFixpoint>>
         ELSE /\ \E x \in Usable(p) :
                   LET both == {p, <<p[2], p[1]>>}
                   IN  rDistGraph' = [r \in DOMAIN rDistGraph \cup both |->
                                        IF r \in both THEN <<x, Targets(p, x)>> ELSE rDistGraph[r]]
              /\ reachedFixpoint' = FALSE
              /\ UNCHANGED graphNext
  /\ graphTodo' = Tail(graphTodo)
  /\ UNCHANGED <<sPhase, drQueue, drBlack, dReachingSequences, maximalRDistSets, unextended, suite>>

(* Faulty variant: the mark of the last round is not reset. *)
FaultyGraphRound ==
  /\ sPhase = "graph" /\ graphTodo = << >>
  /\ IF graphNext = << >> THEN sPhase' = "sets" /\ UNCHANGED <<graphTodo, graphNext, reachedFixpoint>>
     ELSE graphTodo' = graphNext /\ graphNext' = << >> /\ reachedFixpoint' = FALSE /\ UNCHANGED sPhase
  /\ UNCHANGED <<drQueue, drBlack, dReachingSequences, rDistGraph, maximalRDistSets, unextended, suite>>

GraphRound ==
  /\ sPhase = "graph" /\ graphTodo = << >>
  /\ IF reachedFixpoint THEN sPhase' = "sets" /\ UNCHANGED <<graphTodo, graphNext, reachedFixpoint>>
     ELSE /\ graphTodo' = graphNext /\ graphNext' = << >> /\ reachedFixpoint' = TRUE
          /\ UNCHANGED sPhase
  /\ UNCHANGED <<drQueue, drBlack, dReachingSequences, rDistGraph, maximalRDistSets, unextended, suite>>

(* calcRDistinguishingTrees *)
rDistTree[p \in DOMAIN rDistGraph] ==
  LET x == rDistGraph[p][1]
      below == UNION {rDistTree[r] : r \in rDistGraph[p][2]}
  IN  IF x = NoInput THEN {<< >>}
      ELSE {<< >>, <<x>>} \cup {<<x>> \o w : w \in below}

(* calcMaximalRDistinguishableSets: one set per state, filled in the order of *)
(* the states; calcAllMaximalRDistinguishableSets: all maximal ones           *)
RDSet(q) ==
  FoldLeft(LAMBDA S, n : IF n \notin S /\ \A s \in S : <<s, n>> \in DOMAIN rDistGraph THEN S \cup {n} ELSE S,
           {q}, NodeSeq)
RDSets == {RDSet(q) : q \in State}
AllMaximalRDSets ==
  LET candidates == {S \in SUBSET State : \A p, q \in S : p # q => <<p, q>> \in DOMAIN rDistGraph}
  IN  {S \in candidates : \A T \in candidates : S \subseteq T => T = S}

dReached == {q \in State : dReachingSequences[q] # NoTrace}

CalcMaximalSets ==
  /\ sPhase = "sets" /\ maximalRDistSets = << >>
  /\ \E sets \in {RDSets, AllMaximalRDSets} : maximalRDistSets' \in SetToSeqs(sets)
  /\ sPhase' = "initial"
  /\ UNCHANGED <<drQueue, drBlack, dReachingSequences, rDistGraph, graphTodo, graphNext,
                 reachedFixpoint, unextended, suite>>

-----------------------------------------------------------------------------
(* getTerminationTuples and calcTraversalSet: the I/O traces from a state up *)
(* to where some set has been visited often enough, with the first such set. *)
(* A path that meets a state without transitions before yields nothing.      *)
(* Faulty variant: one visit less. *)
FaultyTerminationTuples ==
  [i \in DOMAIN maximalRDistSets |-> m - Cardinality(maximalRDistSets[i] \cap dReached)]

TerminationTuples ==
  [i \in DOMAIN maximalRDistSets |-> m - Cardinality(maximalRDistSets[i] \cap dReached) + 1]

VisitCounts == [DOMAIN maximalRDistSets -> Int]

Traverse[c \in State \X VisitCounts] ==
  LET q == c[1]
      missingVisits == c[2]
      terminating == {i \in DOMAIN missingVisits : missingVisits[i] <= 0}
      Next(r) == [i \in DOMAIN missingVisits |->
                    missingVisits[i] - (IF r \in maximalRDistSets[i] THEN 1 ELSE 0)]
  IN  IF terminating # {} THEN {<< << >>, maximalRDistSets[Min(terminating)] >>}
      ELSE UNION {{<< <<l>> \o tr[1], tr[2] >> : tr \in Traverse[<<rows[q][l], Next(rows[q][l])>>]} :
                  l \in {l \in IO : rows[q][l] >= 0}}
TraversalSet(q) == Traverse[<<q, TerminationTuples>>]

(* InputTree::sharedExtensions and what the root and a subtree of a tree are *)
After1(tree, x) == {Tail(w) : w \in {v \in tree : v # << >> /\ Head(v) = x}}
RootInputs(tree) == {w[1] : w \in tree \ {<< >>}}
SubTreeAfter(tree, xs) == {SubSeq(w, Len(xs) + 1, Len(w)) : w \in {v \in tree : IsPrefix(xs, v)}}
SharedExtensions(tree, xs, zs) == SubTreeAfter(tree, xs) \cap SubTreeAfter(tree, zs)

(* FsmNode::idRDistinguishedBy, of the states of a pair and a tree *)
idRDistinguishedBy[c \in (State \X State) \X SUBSET Seq(In)] ==
  LET p == c[1]
      tree == c[2]
  IN  \/ DefinedInputs(rows, p[1]) # DefinedInputs(rows, p[2])
      \/ \E x \in RootInputs(tree) \cap DefinedInputs(rows, p[1]) :
           \A r \in Targets(p, x) : idRDistinguishedBy[<<r, After1(tree, x)>>]

(* initialTestSuite *)
AddAfter(tree, xs, traces) == tree \cup UNION {{xs \o w : w \in Prefixes(z)} : z \in traces}
InitialTestSuite ==
  /\ sPhase = "initial"
  /\ suite' = {<< >>} \cup
       UNION {Prefixes(dReachingSequences[q]) \cup
              AddAfter({}, dReachingSequences[q], {Inputs(tr[1]) : tr \in TraversalSet(q)}) : q \in dReached}
  /\ unextended' = dReached
  /\ sPhase' = "update"
  /\ UNCHANGED <<drQueue, drBlack, dReachingSequences, rDistGraph, graphTodo, graphNext,
                 reachedFixpoint, maximalRDistSets>>

(* updateTestSuite: two traces reaching different states of the set are     *)
(* followed by traces that r-distinguish the states, unless they already are *)
Separate(tree, a, b) ==
  IF a[2] = b[2] \/ idRDistinguishedBy[<<<<a[2], b[2]>>, SharedExtensions(tree, a[1], b[1])>>] THEN tree
  ELSE AddAfter(AddAfter(tree, a[1], rDistTree[<<a[2], b[2]>>]), b[1], rDistTree[<<a[2], b[2]>>])

SeparateAll(tree, pairs) == FoldLeft(LAMBDA S, ab : Separate(S, ab[1], ab[2]), tree, pairs)

(* prefixes of the trace, the empty one last, each with the later ones and  *)
(* with the d-reached states of the set; then those with each other         *)
Within(s, R) == FoldLeft(LAMBDA r, a : IF a[2] \in R THEN Append(r, a) ELSE r, << >>, s)
Reaching(q, tr) ==
  LET at(k) == <<dReachingSequences[q] \o Inputs(SubSeq(tr[1], 1, k)), After(rows, q, SubSeq(tr[1], 1, k))>>
  IN  Within(Append([k \in 1 .. Len(tr[1]) |-> at(k)], at(0)), tr[2])
DRRD(tr) == Within([i \in 1 .. numStates |-> <<dReachingSequences[i - 1], i - 1>>], tr[2] \cap dReached)
Later(s, i) == SubSeq(s, i + 1, Len(s))
PairsOf(q, tr) ==
  LET a == Reaching(q, tr)
      d == DRRD(tr)
      with(x, s) == [j \in DOMAIN s |-> <<x, s[j]>>]
  IN  FlattenSeq([i \in DOMAIN a |-> with(a[i], Later(a, i) \o d)])
      \o FlattenSeq([i \in DOMAIN d |-> with(d[i], Later(d, i))])

(* one trace of the traversal set after the other *)
Extended(q) ==
  LET extended[traces \in SUBSET TraversalSet(q)] ==
        IF traces = {} THEN suite
        ELSE LET tr == CHOOSE tr \in traces : TRUE
             IN  UNION {SeparateAll(ts, PairsOf(q, tr)) : ts \in {extended[traces \ {tr}]}}
  IN  extended[TraversalSet(q)]

UpdateTestSuite(q) ==
  /\ sPhase = "update" /\ q \in unextended
  /\ unextended' = unextended \ {q}
  /\ suite' = Extended(q)
  /\ sPhase' = IF \E tr \in TraversalSet(q) : tr[2] \cap dReached = {} THEN "undefined"
               ELSE IF unextended' = {} THEN "generated" ELSE sPhase
  /\ UNCHANGED <<drQueue, drBlack, dReachingSequences, rDistGraph, graphTodo, graphNext,
                 reachedFixpoint, maximalRDistSets>>

SCalc == StartStrong \/ DReachingStep \/ StartGraph \/ GraphStep \/ GraphRound
         \/ CalcMaximalSets \/ InitialTestSuite \/ \E q \in State : UpdateTestSuite(q)

-----------------------------------------------------------------------------
(* Fsm::passesStrongSemiReductionTestSuite, with Fsm::getResponses: a test *)
(* is followed until an input is undefined in the state reached.  Of a      *)
(* response only the states it leads to are kept: of the specification (-1: *)
(* it is none of its traces) and of fsm, and whether it has ended.          *)
Leaves(tree) == {w \in tree : \A x \in In : Append(w, x) \notin tree}
FollowedBy(fsm, r, x) ==
  LET ys == PossibleOutputs(fsm, r.state, x)
  IN  IF r.ended \/ ys = {} THEN {[r EXCEPT !.ended = TRUE]}
      ELSE {[spec |-> IF r.spec < 0 THEN -1 ELSE rows[r.spec][<<x, y>>],
             state |-> fsm[r.state][<<x, y>>], ended |-> FALSE] : y \in ys}
GetResponses(fsm, xs) ==
  FoldLeft(LAMBDA rs, x : UNION {FollowedBy(fsm, r, x) : r \in rs},
           {[spec |-> 0, state |-> 0, ended |-> FALSE]}, xs)
SameInputs(fsm, r) == DefinedInputs(rows, r.spec) = DefinedInputs(fsm, r.state)
Passes(fsm) ==
  \A xs \in Leaves(suite) : \A r \in GetResponses(fsm, xs) : r.spec >= 0 /\ SameInputs(fsm, r)

Execute ==
  /\ sPhase = "generated"
  /\ iut' \in Implementations
  /\ sPhase' = IF Passes(iut') THEN "pass" ELSE "fail"
  /\ UNCHANGED <<cPhase, omega, t, tC, bOmegaT, failTrace>>
  /\ UNCHANGED <<drQueue, drBlack, dReachingSequences, rDistGraph, graphTodo, graphNext,
                 reachedFixpoint, maximalRDistSets, unextended, suite>>

-----------------------------------------------------------------------------
(* iut defines in every state it reaches the inputs the specification does, *)
(* and answers with outputs of the specification only                       *)
IsStrongSemiReduction ==
  \A s \in ReachedPairs(iut) :
    /\ DefinedInputs(iut, s[2]) = DefinedInputs(rows, s[1])
    /\ \A l \in IO : iut[s[2]][l] >= 0 => rows[s[1]][l] >= 0

(* The generator's distinguishing graph has an entry for exactly the pairs  *)
(* without a common reduct, partial machines included, the traces of every  *)
(* tree separate the states, and the generator's search for d-reaching      *)
(* sequences finds all calcDReachableStates finds, by traces no longer.     *)
GraphExact ==
  sPhase = "sets" =>
    /\ DOMAIN rDistGraph = (State \X State) \ Compatible
    /\ \A p \in DOMAIN rDistGraph : idRDistinguishedBy[<<p, rDistTree[p]>>]
    /\ \A q \in dReached : Reached(rows, dReachingSequences[q]) = {q}
    /\ \A q \in dReachableStates : q \in dReached /\ Len(dReachingSequences[q]) <= Len(dReachTrace[q])

(* An implementation with at most m states passes the suite only if it is a *)
(* strong semi-reduction, as long as the specification has no state without *)
(* transitions and iut defines the same inputs at every node of the suite:  *)
(* what passesStrongSemiReductionTestSuite sees at the leaves only.         *)
SameInputsAtNodes ==
  \A xs \in suite : \A r \in GetResponses(iut, xs) : r.spec >= 0 => SameInputs(iut, r)
HasDeadEnd == \E q \in State : DefinedInputs(rows, q) = {}
StrongSuiteComplete ==
  sPhase = "pass" /\ ~HasDeadEnd /\ SameInputsAtNodes => IsStrongSemiReduction

(* The generator's promise as it is documented, of every implementation     *)
PassedIsStrongSemiReduction == sPhase = "pass" => IsStrongSemiReduction
=============================================================================
