--------------------------- MODULE RandomMachines ---------------------------
(***************************************************************************)
(* The generators of random FSMs that feed the library's tests: both       *)
(* versions of Fsm::createRandomFsm, Fsm::createRandomOPFSM, and the        *)
(* constructor of a random Dfsm, createAtRandom.  A call of                 *)
(* rand() is a choice of every value it can yield, so a loop that draws     *)
(* until it finds something is a choice among what can be found.            *)
(*                                                                         *)
(* A machine has the nodes 0 .. n - 1, of which 0 is the initial one, and a *)
(* bag of transitions <<source, input, output, target>>: addTransition does *)
(* not recognise a label that is another object, so a transition may be     *)
(* there more than once.  Degrees are exact fractions <<numerator,          *)
(* denominator>> here and floats in the code.                               *)
(***************************************************************************)
EXTENDS Integers, Sequences, FiniteSets, Bags, FiniteSetsExt, SequencesExt

CONSTANTS
  Requests,    \* the arguments the generators are called with
  RetryBound   \* the retries before the generator starts again: 15

VARIABLES
  req,         \* the arguments
  phase,       \* the loop the generator is in, "done", or "threw"
  fsm,         \* the machine
  fsmMin,      \* the minimised machine of createRandomFsm
  search,      \* first version: queue, black nodes, current node and input
  newNodes,    \* nodes meetNumberOfStates created
  retryCount

rmVars == <<req, phase, fsm, fsmMin, search, newNodes, retryCount>>

In == 0 .. req.maxInput
Out == 0 .. req.maxOutput
numStates == req.maxState + 1

Nodes(m) == 0 .. m.n - 1
Added(m, t) == [m EXCEPT !.t = @ (+) SetToBag({t})]
Removed(m, ts) == [m EXCEPT !.t = [t \in DOMAIN @ \ ts |-> @[t]]]
RemovedOne(m, t) == [m EXCEPT !.t = @ (-) SetToBag({t})]
Transitions(m) == BagToSet(m.t)
From(m, q) == {t \in Transitions(m) : t[1] = q}

(* FsmNode::hasTransition, and how many transitions a node has for an input *)
HasTransition(m, q, x, y) == \E t \in From(m, q) : t[2] = x /\ t[3] = y
Count(m, ts) == MapThenSumSet(LAMBDA t : CopiesIn(t, m.t), ts)
Alternatives(m, q, x) == Count(m, {t \in From(m, q) : t[2] = x})
DefinedInputs(m, q) == {t[2] : t \in From(m, q)}
isObservable(m) ==
  \A t, u \in Transitions(m) : t[1] = u[1] /\ t[2] = u[2] /\ t[3] = u[3] => t = u /\ CopiesIn(t, m.t) = 1
isDeterministic(m) == \A q \in Nodes(m), x \in In : Alternatives(m, q, x) <= 1

Reachable(m) ==
  LET f[k \in Nat] == IF k = 0 THEN {0}
                      ELSE f[k - 1] \cup {t[4] : t \in {u \in Transitions(m) : u[1] \in f[k - 1]}}
  IN  f[m.n]
isCompletelyDefined(m) == \A q \in Nodes(m) : DefinedInputs(m, q) = In

-----------------------------------------------------------------------------
(* the degrees the machine is measured by, over a pool of nodes *)
getNumberOfPossibleTransitions(pool) == Cardinality(In) * Cardinality(Out) * Cardinality(pool)
getNumberOfTotalTransitions(m, pool) == Count(m, {t \in Transitions(m) : t[1] \in pool})
getNumberOfDifferentInputTransitions(m, pool) == MapThenSumSet(LAMBDA q : Cardinality(DefinedInputs(m, q)), pool)
getNumberOfNotDefinedDeterministicTransitions(m) ==
  MapThenSumSet(LAMBDA q : Cardinality(In \ DefinedInputs(m, q)), Nodes(m))
getNumberOfNonDeterministicTransitions(m, pool) ==
  Count(m, {t \in Transitions(m) : t[1] \in pool /\ Alternatives(m, t[1], t[2]) > 1})

(* getDegreeOfCompleteness(minus) >= degreeOfCompleteness *)
Complete(m, minus) ==
  (getNumberOfDifferentInputTransitions(m, Nodes(m)) - minus) * req.degree[2]
    >= req.degree[1] * Cardinality(In) * m.n
doesMeetDegreeOfCompleteness(m) ==
  \/ req.degree[1] <= 0
  \/ Complete(m, 0) /\ ~Complete(m, 1)

(* getDegreeOfNonDeterminism(1) compared with maxDegreeOfNonDeterminism: *)
(* both sides are multiplied by the number of transitions                *)
LeftHand(m, pool) ==
  IF getNumberOfTotalTransitions(m, pool) = 0 THEN 0
  ELSE (getNumberOfNonDeterministicTransitions(m, pool) + 1) * req.maxNonDet[2]
RightHand(m, pool) == req.maxNonDet[1] * Max({1, getNumberOfTotalTransitions(m, pool)})

moreTransitionsPossible(m, onlyNonDeterministic, pool) ==
  /\ getNumberOfTotalTransitions(m, pool) < getNumberOfPossibleTransitions(pool)
  /\ \/ LeftHand(m, pool) < RightHand(m, pool)
     \/ getNumberOfNotDefinedDeterministicTransitions(m) > 0 /\ ~onlyNonDeterministic

(* createRandomLabel: the labels it may return for node q *)
Labels(m, q, onlyNonDeterministic) ==
  IF LeftHand(m, Nodes(m)) <= RightHand(m, Nodes(m))
  THEN {l \in In \X Out : /\ ~onlyNonDeterministic \/ l[1] \in DefinedInputs(m, q)
                          /\ ~req.observable \/ ~HasTransition(m, q, l[1], l[2])}
  ELSE (In \ DefinedInputs(m, q)) \X Out

Selections(m, pool, onlyNonDeterministic) ==
  UNION {{<<q, l[1], l[2]>> : l \in Labels(m, q, onlyNonDeterministic)} :
         q \in {p \in pool : ~onlyNonDeterministic \/ From(m, p) # {}}}
AdditionsTo(m, targets, pool, onlyNonDeterministic) ==
  {Added(m, Append(s, r)) : s \in Selections(m, pool, onlyNonDeterministic), r \in targets}
Additions(m, pool, only) == AdditionsTo(m, Nodes(m), pool, only)

-----------------------------------------------------------------------------
(* Fsm::minimise: the states reached by the I/O traces, as sets of nodes,  *)
(* of which those with the same language are one; 0 stays the initial one  *)
(* and the order of the others is of no importance                         *)
Post(m, S, l) == {t[4] : t \in {u \in Transitions(m) : u[1] \in S /\ u[2] = l[1] /\ u[3] = l[2]}}
Subsets(m) ==
  LET f[k \in Nat] == IF k = 0 THEN {{0}} ELSE f[k - 1] \cup {Post(m, S, l) : S \in f[k - 1], l \in In \X Out}
  IN  f[2 ^ m.n] \ {{}}
Equivalent(m, sets) ==
  LET Keep(R) == {p \in R : \A l \in In \X Out :
                    LET a == Post(m, p[1], l)
                        b == Post(m, p[2], l)
                    IN  IF a = {} \/ b = {} THEN a = b ELSE <<a, b>> \in R}
      f[k \in Nat] == IF k = 0 THEN sets \X sets ELSE Keep(f[k - 1])
  IN  f[Cardinality(sets)]
Minimised(m) ==
  LET sets == Subsets(m)
      same == Equivalent(m, sets)
      class(S) == {U \in sets : <<S, U>> \in same}
      classes == {class(S) : S \in sets}
      number == CHOOSE f \in [classes -> 0 .. Cardinality(classes) - 1] :
                  f[class({0})] = 0 /\ \A c, d \in classes : f[c] = f[d] => c = d
      trans == {<<number[class(S)], l[1], l[2], number[class(Post(m, S, l))]>> :
                  <<S, l>> \in {sl \in sets \X (In \X Out) : Post(m, sl[1], sl[2]) # {}}}
  IN  [n |-> Cardinality(classes), t |-> SetToBag(trans)]

(* removeUnreachableNodes, which minimise calls first *)
Trimmed(m) ==
  LET left == Reachable(m)
      id(q) == Cardinality({p \in left : p < q})
      kept == {t \in Transitions(m) : t[1] \in left}
      renamed(t) == <<id(t[1]), t[2], t[3], id(t[4])>>
  IN  [n |-> Cardinality(left),
       t |-> [r \in {renamed(t) : t \in kept} |-> m.t[CHOOSE t \in kept : renamed(t) = r]]]

-----------------------------------------------------------------------------
Unconnected == [n |-> numStates, t |-> EmptyBag]
NoMachine == [n |-> 0, t |-> EmptyBag]
NoSearch == [queue |-> << >>, black |-> {}, src |-> -1, x |-> 0, x0 |-> -1]

RMInit ==
  /\ req \in Requests
  /\ phase = "called"
  /\ fsm = Unconnected /\ fsmMin = NoMachine
  /\ search = NoSearch
  /\ newNodes = {} /\ retryCount = 0

(* throws if nondeterminism is asked for that the outputs leave no room for *)
Called ==
  /\ phase = "called"
  /\ phase' = IF req.kind # "shaped" THEN req.kind
              ELSE IF req.force /\ req.maxOutput < 1 THEN "refused" ELSE "connect"
  /\ search' = IF req.kind = "complete" THEN [NoSearch EXCEPT !.queue = <<0>>, !.black = {0}] ELSE NoSearch
  /\ UNCHANGED <<req, fsm, fsmMin, newNodes, retryCount>>

(* createRandomFsm, first version.  A node from the queue is linked to a   *)
(* node not reached yet, if there is any ...                               *)
(* Faulty variant: the node looked for is the one at the random index. *)
FaultyPopSource ==
  /\ phase = "complete" /\ search.src < 0 /\ search.queue # << >>
  /\ LET src == Head(search.queue)
         popped == [search EXCEPT !.queue = Tail(@), !.src = src, !.x = 0]
     IN  \E x0 \in In, y0 \in Out, w \in Nodes(fsm) :
           IF w \in search.black THEN search' = [popped EXCEPT !.x0 = -1] /\ UNCHANGED fsm
           ELSE /\ fsm' = Added(fsm, <<src, x0, y0, w>>)
                /\ search' = [popped EXCEPT !.x0 = x0, !.black = @ \cup {w}, !.queue = Append(@, w)]
  /\ UNCHANGED <<req, phase, fsmMin, newNodes, retryCount>>

PopSource ==
  /\ phase = "complete" /\ search.src < 0 /\ search.queue # << >>
  /\ LET src == Head(search.queue)
         popped == [search EXCEPT !.queue = Tail(@), !.src = src, !.x = 0]
         white == Nodes(fsm) \ search.black
     IN  IF white = {} THEN search' = [popped EXCEPT !.x0 = -1] /\ UNCHANGED fsm
         ELSE \E x0 \in In, y0 \in Out, w \in white :
                /\ fsm' = Added(fsm, <<src, x0, y0, w>>)
                /\ search' = [popped EXCEPT !.x0 = x0, !.black = @ \cup {w}, !.queue = Append(@, w)]
  /\ UNCHANGED <<req, phase, fsmMin, newNodes, retryCount>>

(* ... and gets one or two transitions for each input, which may be skipped *)
(* if it was used for the link                                             *)
Tried(s, y, r) ==
  LET q == s.search.src
      x == s.search.x
  IN  IF req.observable /\ HasTransition(s.m, q, x, y) THEN s
      ELSE [m |-> Added(s.m, <<q, x, y, r>>),
            search |-> IF r \in s.search.black THEN s.search
                       ELSE [s.search EXCEPT !.black = @ \cup {r}, !.queue = Append(@, r)]]

ForInput ==
  /\ phase = "complete" /\ search.src >= 0
  /\ LET here == [m |-> fsm, search |-> search]
         once == {Tried(here, y, r) : y \in Out, r \in Nodes(fsm)}
         twice == {Tried(s, y, r) : s \in once, y \in Out, r \in Nodes(fsm)}
         skipped == IF search.x = search.x0 THEN {here} ELSE {}
     IN  \E s \in once \cup twice \cup skipped :
           /\ fsm' = s.m
           /\ search' = IF search.x = req.maxInput THEN [s.search EXCEPT !.src = -1, !.x = 0, !.x0 = -1]
                        ELSE [s.search EXCEPT !.x = @ + 1]
  /\ UNCHANGED <<req, phase, fsmMin, newNodes, retryCount>>

QueueEmpty ==
  /\ phase = "complete" /\ search.src < 0 /\ search.queue = << >>
  /\ phase' = "done"
  /\ search' = NoSearch
  /\ UNCHANGED <<req, fsm, fsmMin, newNodes, retryCount>>

(* createRandomOPFSM: a table is drawn until it is connected.  What          *)
(* transformToObservableFSM returns is thrown away, and the machine has all  *)
(* its nodes when it is asked for their number.                              *)
DrawTable ==
  /\ phase = "partial"
  /\ \E table \in [Nodes(fsm) \X In \X Out -> Nodes(fsm) \cup {-1}] :
       LET m == [fsm EXCEPT !.t = SetToBag({<<c[1], c[2], c[3], table[c]>> :
                                              c \in {d \in DOMAIN table : table[d] >= 0}})]
       IN  /\ req.chance = 100 => \A c \in DOMAIN table : table[c] >= 0
           /\ IF Reachable(m) = Nodes(m) THEN fsm' = m /\ phase' = "done" ELSE UNCHANGED <<fsm, phase>>
  /\ UNCHANGED <<req, fsmMin, search, newNodes, retryCount>>

(* Dfsm::createAtRandom: one transition for each node and input *)
CreateAtRandom ==
  /\ phase = "dfsm"
  /\ \E table \in [Nodes(fsm) \X In -> Out \X Nodes(fsm)] :
       fsm' = [fsm EXCEPT !.t = SetToBag({<<c[1], c[2], table[c][1], table[c][2]>> : c \in DOMAIN table})]
  /\ phase' = "done"
  /\ UNCHANGED <<req, fsmMin, search, newNodes, retryCount>>

-----------------------------------------------------------------------------
(* createRandomFsm, second version: the nodes are connected, the last one   *)
(* first, each from a node connected before.  targetNode is a reference to  *)
(* the element of unReachedNodes that pop_back then destroys.  Every read   *)
(* of it is undefined behaviour; modelled is the outcome of builds that     *)
(* leave the pointer in place, in which the vector keeps its memory and the *)
(* Fsm keeps the node.                                                      *)
Connected == Reachable(fsm)
Connect ==
  /\ phase = "connect"
  /\ LET left == Nodes(fsm) \ Connected
     IN  IF left = {} THEN phase' = "fill" /\ UNCHANGED fsm
         ELSE LET ms == AdditionsTo(fsm, {Max(left)}, Connected, FALSE)
              IN  IF ms = {} THEN phase' = "threw" /\ UNCHANGED fsm
                  ELSE fsm' \in ms /\ UNCHANGED phase
  /\ UNCHANGED <<req, fsmMin, search, newNodes, retryCount>>

(* addRandomTransitions: one transition more, until there is no room or    *)
(* the dice say so; what comes after the loop                               *)
Filling(m, pool, only) ==
  IF moreTransitionsPossible(m, only, pool) THEN Additions(m, pool, only) ELSE {}

AfterForce == IF req.minimal THEN "minimise" ELSE "done"
Fill ==
  /\ phase \in {"fill", "force"}
  /\ LET more == Filling(fsm, Nodes(fsm), phase = "force")
         then == IF phase = "fill" THEN "complete fsm" ELSE AfterForce
     IN  IF more = {} THEN phase' = then /\ UNCHANGED fsm
         ELSE fsm' \in more /\ phase' \in {phase, then}
  /\ UNCHANGED <<req, fsmMin, search, newNodes, retryCount>>

(* meetDegreeOfCompleteness, one turn of the loops: a transition is added,  *)
(* or the only one for an input is removed; if there is none of that kind,  *)
(* all for one input are.                                                   *)
Removals(m) ==
  LET deterministic == {t \in Transitions(m) : Alternatives(m, t[1], t[2]) = 1}
  IN  IF deterministic # {} THEN {RemovedOne(m, t) : t \in deterministic}
      ELSE {Removed(m, {u \in From(m, t[1]) : u[2] = t[2]}) : t \in Transitions(m)}

NeedsMore(m) == req.degree[1] > 0 /\ ~Complete(m, 0)
NeedsLess(m) == req.degree[1] > 0 /\ Complete(m, 0) /\ ~doesMeetDegreeOfCompleteness(m)
Completions(m) ==
  IF NeedsMore(m) THEN Additions(m, Nodes(m), FALSE)
  ELSE IF NeedsLess(m) THEN Removals(m) ELSE {}

(* after it nondeterminism is forced if it is asked for and not there yet *)
CompleteFsm ==
  /\ phase = "complete fsm"
  /\ IF NeedsMore(fsm) /\ Completions(fsm) = {} THEN phase' = "threw" /\ UNCHANGED fsm
     ELSE IF Completions(fsm) # {} THEN fsm' \in Completions(fsm) /\ UNCHANGED phase
     ELSE /\ UNCHANGED fsm
          /\ phase' = IF req.force /\ getNumberOfNonDeterministicTransitions(fsm, Nodes(fsm)) < 1
                      THEN "force" ELSE AfterForce
  /\ UNCHANGED <<req, fsmMin, search, newNodes, retryCount>>

Minimise ==
  /\ phase = "minimise"
  /\ fsmMin' = Minimised(fsm) /\ fsm' = Trimmed(fsm)
  /\ phase' = "check"
  /\ UNCHANGED <<req, search, newNodes, retryCount>>

-----------------------------------------------------------------------------
(* what the minimal machine still lacks; nondeterminism is looked for in the *)
(* machine that was minimised                                                *)
metNumberOfStates == fsmMin.n = numStates
metNonDeterminism == ~req.force \/ getNumberOfNonDeterministicTransitions(fsm, Nodes(fsm)) > 0
metAll == doesMeetDegreeOfCompleteness(fsmMin) /\ metNumberOfStates /\ metNonDeterminism

Accept ==
  /\ phase = "check" /\ metAll
  /\ fsm' = fsmMin /\ fsmMin' = NoMachine
  /\ retryCount' = 0
  /\ phase' = "done"
  /\ UNCHANGED <<req, search, newNodes>>

(* createRandomFsm calls itself with another seed *)
StartAgain ==
  /\ phase = "check" /\ ~metAll /\ retryCount = RetryBound
  /\ fsm' = Unconnected /\ fsmMin' = NoMachine
  /\ retryCount' = 0
  /\ phase' = "connect"
  /\ UNCHANGED <<req, search, newNodes>>

(* too many states are asked of the vector of new nodes if there are more *)
(* than required: its size is the difference, as an unsigned number        *)
Retry ==
  /\ phase = "check" /\ ~metAll /\ retryCount < RetryBound
  /\ retryCount' = retryCount + 1
  /\ phase' = IF fsmMin.n > numStates THEN "length_error"
              ELSE IF ~metNumberOfStates THEN "states"
              ELSE IF ~doesMeetDegreeOfCompleteness(fsmMin) THEN "complete fsmMin" ELSE "force again"
  /\ newNodes' = {}
  /\ UNCHANGED <<req, fsm, fsmMin, search>>

(* meetNumberOfStates: a node is connected from any other one, or takes a   *)
(* transition over if none can be added; then transitions of the new nodes  *)
(* are added                                                                *)
Redirected(m, r) == {Added(RemovedOne(m, t), <<t[1], t[2], t[3], r>>) : t \in Transitions(m)}
MeetNumberOfStates ==
  /\ phase = "states" /\ fsmMin.n < numStates
  /\ LET ms == AdditionsTo(fsmMin, {fsmMin.n}, Nodes(fsmMin), FALSE)
     IN  \E m \in IF ms = {} THEN Redirected(fsmMin, fsmMin.n) ELSE ms : fsmMin' = [m EXCEPT !.n = @ + 1]
  /\ newNodes' = newNodes \cup {fsmMin.n}
  /\ UNCHANGED <<req, phase, fsm, search, retryCount>>

FillNewNodes ==
  /\ phase = "states" /\ fsmMin.n = numStates
  /\ LET more == Filling(fsmMin, newNodes, FALSE)
     IN  IF more = {} THEN phase' = "again" /\ UNCHANGED fsmMin
         ELSE fsmMin' \in more /\ phase' \in {phase, "again"}
  /\ UNCHANGED <<req, fsm, search, newNodes, retryCount>>

CompleteFsmMin ==
  /\ phase = "complete fsmMin"
  /\ IF NeedsMore(fsmMin) /\ Completions(fsmMin) = {} THEN phase' = "threw" /\ UNCHANGED fsmMin
     ELSE IF Completions(fsmMin) # {} THEN fsmMin' \in Completions(fsmMin) /\ UNCHANGED phase
     ELSE phase' = "again" /\ UNCHANGED fsmMin
  /\ UNCHANGED <<req, fsm, search, newNodes, retryCount>>

(* transitions are added to fsm, not to fsmMin *)
ForceAgain ==
  /\ phase = "force again"
  /\ LET more == Filling(fsm, Nodes(fsm), TRUE)
     IN  IF more = {} THEN phase' = "again" /\ UNCHANGED fsm
         ELSE fsm' \in more /\ phase' \in {phase, "again"}
  /\ UNCHANGED <<req, fsmMin, search, newNodes, retryCount>>

MinimiseAgain ==
  /\ phase = "again"
  /\ fsmMin' = Minimised(fsmMin)
  /\ newNodes' = {}
  /\ phase' = "check"
  /\ UNCHANGED <<req, fsm, search, retryCount>>

RMNext ==
  \/ Called \/ PopSource \/ ForInput \/ QueueEmpty \/ DrawTable \/ CreateAtRandom
  \/ Connect \/ Fill \/ CompleteFsm \/ Minimise
  \/ Accept \/ StartAgain \/ Retry \/ MeetNumberOfStates \/ FillNewNodes
  \/ CompleteFsmMin \/ ForceAgain \/ MinimiseAgain

-----------------------------------------------------------------------------
(* A machine that is returned is what was asked for, whatever the dice say. *)
(* The first version returns complete machines with all nodes reachable;    *)
(* the second meets the degree of completeness, and, if the machine has to  *)
(* be minimal, has all the states, reachable and pairwise distinguishable;  *)
(* createRandomOPFSM returns connected ones, createAtRandom complete and     *)
(* deterministic ones.  Observability is kept.  The                         *)
(* exceptions whose message says "This shouldn't happen" do not: wherever a *)
(* transition must be added, a node and a label are found.                  *)
AsAsked ==
  /\ phase # "threw"
  /\ phase = "done" =>
       /\ fsm.n = numStates
       /\ req.observable => isObservable(fsm)
       /\ req.kind = "complete" => isCompletelyDefined(fsm) /\ Reachable(fsm) = Nodes(fsm)
       /\ req.kind = "shaped" =>
            /\ doesMeetDegreeOfCompleteness(fsm)
            /\ req.minimal => isObservable(fsm) /\ Minimised(fsm).n = fsm.n
       /\ req.kind = "partial" => Reachable(fsm) = Nodes(fsm)
       /\ req.kind = "dfsm" => isCompletelyDefined(fsm) /\ isDeterministic(fsm)

-----------------------------------------------------------------------------
(***************************************************************************)
(* What tests derive from a random FSM to stand for an implementation:     *)
(* Fsm::createMutant, createReduction and createLessDefinedFsm.  The       *)
(* machine derived is a copy, held as the sequence of its transitions, so  *)
(* that each of them can be told from its clones.                          *)
(***************************************************************************)
CONSTANT Jobs   \* the operations and their arguments

VARIABLES
  job,        \* the operation
  jobPhase,   \* "none", "targets", "outputs", "reducing", "lessening", "derived",
              \* or the exception thrown
  copy,       \* the transitions of the new machine
  touched,    \* cantTouchThis: indices of faulty transitions
  faults,     \* faults, transitions or inputs counted so far
  last        \* the node inputs were removed from last; -1: none

dmVars == <<job, jobPhase, copy, touched, faults, last>>

AsSeq(m) ==
  FlattenSeq([i \in 1 .. Cardinality(Transitions(m)) |->
                LET t == SetToSeq(Transitions(m))[i] IN [k \in 1 .. m.t[t] |-> t]])
AsMachine(s) ==
  [n |-> fsm.n, t |-> [t \in Range(s) |-> Cardinality({i \in DOMAIN s : s[i] = t})]]

NoJob == [op |-> "none"]
DMInit ==
  /\ job = NoJob /\ jobPhase = "none"
  /\ copy = << >> /\ touched = {} /\ faults = 0 /\ last = -1

(* the exceptions thrown before anything is done *)
Refusal(j) ==
  CASE j.op = "mutant" /\ j.keepObservability /\ ~isObservable(fsm) -> "not_observable"
    [] j.op = "mutant" /\ j.outputFaults > 0 /\ req.maxOutput < 1 -> "too_many_output_faults"
    [] j.op = "reduction" /\ j.force /\ isDeterministic(fsm) -> "reduction_not_possible"
    [] OTHER -> "none"
FirstPhase(j) ==
  CASE j.op = "mutant" -> "targets" [] j.op = "reduction" -> "reducing" [] j.op = "less" -> "lessening"

StartJob ==
  /\ phase = "done" /\ jobPhase = "none" /\ req.derive
  /\ job' \in Jobs
  /\ jobPhase' = IF Refusal(job') = "none" THEN FirstPhase(job') ELSE Refusal(job')
  /\ copy' = AsSeq(fsm)
  /\ touched' = {} /\ faults' = 0 /\ last' = -1

-----------------------------------------------------------------------------
(* createMutant: transitions get other targets, which are taken from the   *)
(* nodes that have transitions ...                                         *)
Sources == {copy[i][1] : i \in DOMAIN copy}
Retargetings == {<<i, r>> \in (DOMAIN copy \ touched) \X Sources : copy[i][4] # r}
TransitionFault ==
  /\ jobPhase = "targets" /\ faults < job.transitionFaults
  /\ IF Retargetings = {} THEN jobPhase' = "too_many_transition_faults" /\ UNCHANGED <<copy, touched, faults>>
     ELSE /\ \E f \in Retargetings :
               copy' = [copy EXCEPT ![f[1]][4] = f[2]] /\ touched' = touched \cup {f[1]}
          /\ faults' = faults + 1
          /\ UNCHANGED jobPhase
  /\ UNCHANGED <<job, last>>

TransitionFaultsDone ==
  /\ jobPhase = "targets" /\ faults = job.transitionFaults
  /\ jobPhase' = "outputs" /\ faults' = 0
  /\ UNCHANGED <<job, copy, touched, last>>

(* ... then other transitions get other outputs, as long as no transition   *)
(* of the node has the new label already, with the same target or, to keep  *)
(* the machine observable, with any                                         *)
Clashes(i, y) ==
  \E j \in DOMAIN copy \ {i} :
    /\ copy[j][1] = copy[i][1] /\ copy[j][2] = copy[i][2] /\ copy[j][3] = y
    /\ job.keepObservability \/ copy[j][4] = copy[i][4]
(* Faulty variant: transitions with another target may be changed again. *)
FaultyRelabellings == {<<i, y>> \in (DOMAIN copy) \X Out : copy[i][3] # y /\ ~Clashes(i, y)}

Relabellings == {<<i, y>> \in (DOMAIN copy \ touched) \X Out : copy[i][3] # y /\ ~Clashes(i, y)}
OutputFault ==
  /\ jobPhase = "outputs" /\ faults < job.outputFaults
  /\ IF Relabellings = {} THEN jobPhase' = "too_many_output_faults" /\ UNCHANGED <<copy, touched, faults>>
     ELSE /\ \E f \in Relabellings :
               copy' = [copy EXCEPT ![f[1]][3] = f[2]] /\ touched' = touched \cup {f[1]}
          /\ faults' = faults + 1
          /\ UNCHANGED jobPhase
  /\ UNCHANGED <<job, last>>

OutputFaultsDone ==
  /\ jobPhase = "outputs" /\ faults = job.outputFaults
  /\ jobPhase' = "derived"
  /\ UNCHANGED <<job, copy, touched, faults, last>>

-----------------------------------------------------------------------------

NonDeterministicTransitions ==
  {i \in DOMAIN copy : \E j \in DOMAIN copy \ {i} : copy[j][1] = copy[i][1] /\ copy[j][2] = copy[i][2]}
RemoveNonDeterminism ==
  /\ jobPhase = "reducing"
  /\ IF NonDeterministicTransitions = {} THEN jobPhase' = "derived" /\ UNCHANGED <<copy, faults>>
     ELSE /\ \E i \in NonDeterministicTransitions : copy' = RemoveAt(copy, i)
          /\ faults' = faults + 1
          /\ jobPhase' \in {"reducing", "derived"}
  /\ UNCHANGED <<job, touched, last>>

(* createLessDefinedFsm: an input is removed from a node; the node is put   *)
(* back among the others, and one of these is next if there is any          *)
NodesWithInputs == Sources
NextNodes == IF NodesWithInputs \subseteq {last} THEN NodesWithInputs ELSE NodesWithInputs \ {last}
RemoveInput ==
  /\ jobPhase = "lessening"
  /\ IF faults = job.removedInputs \/ NodesWithInputs = {}
     THEN jobPhase' = "derived" /\ UNCHANGED <<copy, faults, last>>
     ELSE /\ \E i \in DOMAIN copy :
               /\ copy[i][1] \in NextNodes
               /\ copy' = SelectSeq(copy, LAMBDA t : ~(t[1] = copy[i][1] /\ t[2] = copy[i][2]))
               /\ last' = copy[i][1]
          /\ faults' = faults + 1
          /\ UNCHANGED jobPhase
  /\ UNCHANGED <<job, touched>>

DMNext ==
  \/ TransitionFault \/ TransitionFaultsDone \/ OutputFault \/ OutputFaultsDone
  \/ RemoveNonDeterminism \/ RemoveInput

-----------------------------------------------------------------------------
Init == RMInit /\ DMInit
Generate == RMNext /\ UNCHANGED dmVars
Derive == (StartJob \/ DMNext) /\ UNCHANGED rmVars
Ended ==
  \/ phase \in {"refused", "threw", "length_error"}
  \/ phase = "done" /\ ~req.derive
  \/ jobPhase \notin {"none", "targets", "outputs", "reducing", "lessening"}
Stop == Ended /\ UNCHANGED <<rmVars, dmVars>>
Next == Generate \/ Derive \/ Stop
Spec == Init /\ [][Next]_<<rmVars, dmVars>>

(* A mutant has exactly the faults asked for: so many transitions lead to   *)
(* another node and so many others have another output, and all else is as  *)
(* it was.  It is complete if the machine is, and observable if asked.      *)
MutantAsAsked ==
  jobPhase = "derived" /\ job.op = "mutant" =>
    LET old == AsSeq(fsm)
        retargeted == {i \in DOMAIN old : copy[i] # old[i] /\ copy[i] = [old[i] EXCEPT ![4] = copy[i][4]]}
        relabelled == {i \in DOMAIN old : copy[i] # old[i] /\ copy[i] = [old[i] EXCEPT ![3] = copy[i][3]]}
    IN  /\ Cardinality(retargeted) = job.transitionFaults
        /\ Cardinality(relabelled) = job.outputFaults
        /\ \A i \in DOMAIN old \ (retargeted \cup relabelled) : copy[i] = old[i]
        /\ isCompletelyDefined(fsm) => isCompletelyDefined(AsMachine(copy))
        /\ job.keepObservability => isObservable(AsMachine(copy))

(* A reduction has fewer transitions, as many as it reports, and defines     *)
(* every input it did.  A less defined machine lacks as many inputs as were  *)
(* to be removed, or has none left, and keeps the transitions of the others. *)
LessAsAsked ==
  LET new == AsMachine(copy)
      lost == {<<q, x>> \in Nodes(fsm) \X In : x \in DefinedInputs(fsm, q) \ DefinedInputs(new, q)}
  IN  /\ jobPhase = "derived" /\ job.op = "reduction" =>
           /\ new.t \sqsubseteq fsm.t /\ lost = {}
           /\ BagCardinality(fsm.t) = BagCardinality(new.t) + faults
      /\ jobPhase = "derived" /\ job.op = "less" =>
           /\ Cardinality(lost) = Min({job.removedInputs, getNumberOfDifferentInputTransitions(fsm, Nodes(fsm))})
           /\ new.t = Removed(fsm, {t \in Transitions(fsm) : <<t[1], t[2]>> \in lost}).t

(* A random machine, and what is derived from one, is what was asked for. *)
MachinesAsAsked == AsAsked /\ MutantAsAsked /\ LessAsAsked
=============================================================================
