# A verification development for fsmlib-cpp

fsmlib-cpp is a C++ library for finite state machines (FSMs) and for generating
complete test suites from them. This directory holds TLA+ modules that model its
algorithms, TLC configurations that check the models on small instances, and
TLAPS proofs of results that should hold for instances of any size.

The library is sequential. What is hard about it is not concurrency but long
calculations over shared mutable node objects: marks and ids that one operation
sets and another trusts, tables whose class numbers are assigned while a loop is
running, caches that outlive what they were computed from, and traces that are
read off these tables and must have a meaning (distinguish two states, reach a
node) that no type expresses. A unit test sees a handful of machines; the models
are checked on all machines up to a size, in every order of operations the code
allows.

Paths below are relative to `src/src/`.

## 1. Inventory of the system

| Component (source) | State it keeps | Operations | Interaction |
|---|---|---|---|
| **Fsm** (`fsm/Fsm.*`) | `nodes`, `initStateIdx`, `maxState`, alphabets, cached `characterisationSet`, `stateIdentificationSets`, `ofsmTableLst`, `minimal` | construction, `accept`, `removeUnreachableNodes`, `transformToObservableFSM`, `minimise`, `intersect`, covers, W/Wp/HSI suites, adaptive state counting, `isHarmonized`, `getEquivalentInputs`, random machines and mutants | owns and mutates FsmNode objects, which several Fsm objects may share |
| **FsmNode** (`fsm/FsmNode.*`, `FsmTransition.*`, `FsmLabel.*`) | `transitions`, `id`, `visited`, `color`, `dReachable`, the trace and the pair of nodes it was derived from | `apply`, `after`, `distinguished`, `calcDistinguishingTrace`, `getPossibleOutputs`, `accept` | ids serve as row indexes of tables |
| **OFSM tables** (`fsm/OFSMTable.*`, `OFSMTableRow.*`) | rows and class numbers | `nextAfterZero`, `next`, `toFsm`, `compareColumns` | built by Fsm, read by distinguishing traces |
| **Dfsm, P_k tables** (`fsm/Dfsm.*`, `DFSMTable.*`, `PkTable.*`) | list of P_k tables | `toDFSMTable`, `calcPkTables`, `minimise`, W/Wp/T/D/H/SPY suites | the deterministic counterpart of the above |
| **Hitting sets** (`sets/`) | the set system; a *static* best candidate | `calcMinCardHittingSet` | used for minimal identification sets |
| **Trees** (`trees/`) | rooted trees of inputs or I/O pairs, with deletion marks | `addToRoot`, `add`, `addAfter`, `remove`, `unionTree`, `getIOLists`, tentative insertion, output-tree comparison | hold characterisation sets, covers and test suites |
| **Traces and containers** (`fsm/*Trace*`, `trees/*Container*`) | sequences with epsilons; lists and sets of them | prefix and suffix, `addRemovePrefixes`, `addUniqueRemovePrefixes` | hand test cases from one algorithm to the next |
| **Adaptive state counting** (`Fsm.cpp`, `RDistinguishability.*`, `VPrimeLazy.*`) | r-distinguishability per node, d-reachability marks | maximal r-distinguishable sets, the bounds, the test loop | on top of observable FSMs |
| **Strong reduction** (`fsm/StrongReductionTestSuiteGenerator.cpp`) | distinguishing graph, several trees and traversal sets | generator, execution | calculates r-distinguishability again, in its own way |
| **H, SPY, SPYH** (`Dfsm.cpp`, `ConvergenceGraph.*`, `generalized-h-method.hpp`) | a graph of convergent traces with merging of nodes | suites for deterministic machines | uses P_k tables or hsi |
| **Enumeration, mutants, random FSMs** (`Fsm.cpp`, `Dfsm.cpp`, `FsmEnumerator.*`) | a counter of transition tables, a work queue, `rand()` | `hasNext`, `createMutant`, `createReduction`, `createRandom*` | test inputs for the library itself |
| **Files, presentation layer, printing** | names of states, inputs, outputs | read and write `.fsm`, `.csv`, `.json`, `.dot` | names are erased together with nodes |
| **Harness, checker, generator, main** (`harness/`, `checker/`, `generator/`, `main/`) | the command line read so far, the line buffer, verdicts | read models, call a method, save a suite, execute it | clients of the library |

What makes the parts correct:

* marking and removal: exactly the unreachable nodes go, ids stay equal to
  indexes, the initial state stays the initial state;
* tables: a table separates two states exactly if a trace of bounded length
  does, class numbers have no gaps, the calculation ends, and the machine read
  off the last table is equivalent to the original and minimal;
* characterisation and identification: every pair of states is distinguished,
  and remains so while the tree of traces is extended;
* hitting sets: the answer is a *smallest* hitting set of *this* object's system;
* subset construction and product: exact on traces, one node per set or pair,
  each handled once, termination;
* test suites: complete for all implementations in the fault domain, for
  equivalence, reduction, strong semi-reduction or safety as the method says;
* trees and containers: operations mean what they say on sets of traces;
* files: what is read is what the file says, what is written is what the machine
  does;
* harness and checker: each line of a suite gets the verdict it deserves.

Behaviours that are hard to test are listed, each at its line, under `hazards`
in `PROJECT.json`.

## 2. Plan

The order is that of dependence: everything later relies on ids, tables and
minimal machines being right.

1. **Reachability**: marking walk, marking apply, removal. *Done, proved.*
2. **PartitionRefinement** (abstract), **OFSMTables**, **PkTables** (both
   implement it), composed in **Minimisation**. *Done, proved: both refinements,
   and that both minimised machines are equivalent to the original and minimal.*
3. **HittingSet** and **CharacterisationSet**. *Done, proved.*
4. **ObservableFsm**, **Intersection** with the verdict of `isStrongSemiReductionOf`, and
   **ObservableProduct**, which composes them. *Done, proved except that they end.*
5. **TestSuites** and **TestRun**: covers, the W, Wp, HSI and T suites, and their
   execution against *every* implementation with at most m states; **HMethod**,
   **SPYHMethod** and **SafeMethods**, executed with the same `TestRun`. *Done, checked;
   proved: the state cover, the sets, that W, Wp, HSI and H suites are complete, and that
   safe W and safe Wp suites are safe.*
6. **TraceSets** (abstract) and **TraceTrees**, which implements it; **TraceContainers**.
   *Done, checked.*
7. **RDistinguishability**, **StateCounting**, **StrongReduction**, composed in
   **ReductionTesting**. *Done, checked; proved: r-distinguishability, d-reaching traces, the distinguishing graph,
   the verdict of state counting and the completeness of suites for strong semi-reduction.*
8. **RandomMachines**, **Enumerator**, **FsmFiles**, **TestHarness**, **Generator**,
   **Analysis**: the library's surroundings and the questions a machine can
   be asked. *Done, checked; the enumeration is proved.*

Not reached by the plan: proofs of what `Analysis` and `TestHarness` answer.

## 3. Modules

### Reachability

State: the node vector, each node's transition vector, ids, visited marks,
`initStateIdx`, `maxState`, the list of state names of the presentation layer,
and the locals of the two loops (`bfsq`, `newNodes`, `subtractFromId`).
`AcceptNode` and `PushTarget` are one round each of the loops in `Fsm::accept` and
`FsmNode::accept`; `DropNode`, `KeepNode` and `EndDrop` are the loop of
`removeUnreachableNodes`; `Apply` is `FsmNode::apply` with `markAsVisited`.
Marks are never cleared by a walk, so a client that applied a marking trace
before decides what later walks reach. The history variable `applied` says
whether that has happened. Outputs are left out: no operation here looks at them.

What the check shows: as long as only walks mark nodes, removal hands back no
reachable node, leaves no transition to a dropped node, and a client's walk ends
with exactly the reachable nodes marked. Also with foreign marks, all unreachable
nodes go, ids and names stay aligned, and walks end. `initStateIdx` is not adapted
when a node in front of the initial state is dropped (`reachability_init`).

### PartitionRefinement, OFSMTables, PkTables, Minimisation

`PartitionRefinement` is what both table algorithms promise: an equivalence is
refined by all labels at once until nothing changes. Its result is bisimilarity.

`OFSMTables` has one action per branch of the loop body of `OFSMTable::next`
(`Skip`, `TakeReference`, `StayInClass`, `OpenClass`), one for the end of the loop
over states, and one for each outcome of a finished table. Class numbers are
assigned as the code assigns them: a state that differs from the reference row of
its class opens a class at once and takes later equal states along. That the
classes being built and the old ones never mix, and that numbers have no gap at
the end (`next` stops at the first empty class, `toFsm` dereferences a row of every
class), is what the refinement and `ClassesContiguous` are about. `toFsm` builds
the minimal FSM, whose initial state is always index 0.

`PkTables` models `getP1Table`, `getPkPlusOneTable` and `PkTable::toFsm` in the same
way for deterministic machines, undefined inputs (-1 in a row) included. All
tables are kept, since `calcDistinguishingTrace` searches the list later.

`Minimisation` sends the same deterministic machine through `Fsm::minimise` and then
through `Dfsm::minimise`. Each is compared with the original machine
(`MinimisedCorrect`: equivalent, minimal), and with the other: equally many tables
and the same states equivalent, although the two number classes differently.

In both, `initStateIdx` is in the model and the runs start with initial state 0.
With another one the minimised machine starts in the class of state 0, not of the
initial state: set `InitStates = {0, 1}` to see it.

### CharacterisationSet

`Fsm::getCharacterisationSet`: the double loop over pairs of states, the traces read
off the table list by `FsmNode::calcDistinguishingTrace`, and the tree `w` those
traces are added to. A tree is represented by its maximal traces, because that is
all `getIOLists` returns; adding a trace that extends another one therefore
replaces it. `calcDistinguishingTrace` is translated with its quirk that the inner
`break` leaves only the loop over outputs, so one table may move the pair of states
several times. After the set is there, one of `calcStateIdentificationSets`
(with the hitting sets of `MinHittingSets`) or its fast variant follows.

`FsmNode::apply` skips an input a leaf refuses, and goes on with the next. On
partial FSMs this makes a longer trace weaker than its prefix, which is how a pair
that was distinguished is lost again. Each trace distinguishes its pair when it is
calculated, also on partial machines (`TracesDistinguish`); that pairs stay
distinguished (`PassedPairsDistinguished`) and that both selections of identification
sets are right (`SetsIdentify`) holds of completely specified machines only.

### TestSuites, TestRun

`TestSuites` extends `CharacterisationSet` and adds what a method does around it:
`getStateCover` node by node with the colours (`VisitNode`), then the sets (`CalcSets`,
the actions of `CharacterisationSet`), then the suite (`Generate`) as a prefix-closed
set of traces whose leaves are the test cases. `Add` and `AddAfter` are what
`Tree::add` and `Tree::addAfter` do to the set of traces. In `wpMethod`, `remove` is
applied to a tree all of whose marked nodes have children, so it takes nothing
away, and nothing reads the marks later.

`TestRun` executes the suite: `createTestSuite` on both machines and the comparison
of output trees. The implementation is not part of the library; it is any completely
specified, observable machine with at most n + numAddStates states. It is not
enumerated: its transitions are chosen when a test first exercises them, and its
states are numbered in the order they appear. One behaviour therefore stands for
all implementations that answer the tests so far in the same way, and a suite is
complete exactly if no behaviour ends in verdict "pass" with a transition that is
wrong or was never exercised (`Equivalent`). Output trees are compared input by
input, which for completely specified machines gives the verdict of the comparison
at the end.

W and Wp suites are complete, also for nondeterministic machines. The HSI method
appends the harmonised sets only to the leaves of V.X^(k+1); a trace of the state
cover always has a successor, so it is never followed by its set. If single inputs
tell all states apart this does not matter, since V.X is tested, and
`SuiteComplete` claims completeness of HSI suites for those machines only;
drop that condition to see a faulty implementation without additional states pass.
The header marks the method as work in progress. The reference machine is one that `minimise()`
has left, so all its states can be reached; with unreachable ones the number of states, from which
the length of the tests is taken, would be too large and the implementation could have more
additional states than announced. `OutputFaultsFound` is what the suite of every method achieves, that of the T
method included: an implementation whose transitions lead where they should and that passes has the
right outputs.

### HMethod

`HMethod` extends `TestSuites` with `Dfsm::hMethodOnMinimisedDfsm`. `BeginH` builds the
initial suite V.X^(k+1) and lists the pairs of traces of the three steps in the order
of the loops; `DistinguishPair` is the body the three loops share: the subtrees behind
both traces are copied (`SubTree`), their leaves in prefix relation are collected
(`PrefixRelationTree`), and a distinguishing trace is searched in that tree, then
behind its leaves, then in the P_k tables (`DistinguishingTraces`, `PkTrace`). Which of
several equally short traces the breadth-first search meets first depends on the order
of children, and is left open. `SuiteSatisfiesHCondition` is the condition from which
completeness follows, stated without the loops; `SuiteFindsFaults` executes the suites.
P_k tables are represented by what they relate, which is the subject of `PkTables`.

### SPYHMethod

`SPYHMethod` extends `HMethod` with `Dfsm::spyhMethodOnMinimisedCompleteDfsm` and the
convergence graph. The graph is kept as it is in memory, nodes with the traces of a
class and an edge per input (`AddToGraph`, `Merge`, `MergeInto`), since what can go wrong
is an edge that still leads to a merged node; `GraphMatchesSuite` is about that. The
nested calls of `spyhDistinguishFromSet`, `spyhDistinguish` and
`spyhAppendSeparatingSequence` are a stack of pending calls, one action per call. The
case in which `spyhGetPrefixOfSeparatingTrace` returns 0 is `AlreadySeparated`, and
`SeparatingPrefixes` is the set of results it can have otherwise: the code walks sets of
pointers, and takes for the length of v that of any trace shorter than u.

The suite is not complete. `spyhEstimateGrowthOfTestSuite` gives an input after which
both states coincide the estimate 2 * size(), meant to be larger than any other, but the
search starts from a bound that grows with the length of the access traces. For a machine
with three states such an input is chosen, nothing that distinguishes is appended, and an
implementation with three states and a wrong structure passes (`spyh_claim`). The history
variable `missed` records that a pair was left undistinguished; where that never happens
the suites are complete (`SuiteCompleteUnlessMissed`).

### SafeMethods

`SafeMethods` extends `HMethod` with the generator's safe W, Wp and H methods. They take an
abstraction of the outputs and identify abstract states only; an implementation may then
pass although it is not equivalent, but not if an output is wrong *after* the
abstraction. `PassedIsSafe` states that of every pair of states the two machines reach by
a common input trace. The H variant works with segmented traces.
Where `safeHMethod` builds the deque C, `setPrefix` shortens a segment, which keeps as its
target the node where the whole segment leads (`SetPrefix`). `addSHTraces` compares these
targets, finds them equal for every pair of C and skips it, so the pairs that the comments
hand to it stay undistinguished (`safe_h_claim`). The part of `safeHMethod` before that,
under `#if 0`, is left out.

### MinHittingSets, HittingSet

`MinHittingSets` is the reference definition. `HittingSet` is the search:
`LeaveOut` and `Return` run the recursion of `expandNode` on an explicit stack;
`Remember` updates the static `hSmallest`. `unordered_set` iteration order is
open. Two objects share the static candidate. Used one after the other they get
their own smallest sets; constructed before the other's call, one gets the other's
candidate: set `Overlapping = TRUE` to see it. No caller in the library does that.

### ObservableFsm, Intersection, ObservableProduct

`ObservableFsm` is `transformToObservableFSM`: the queue of new nodes, the set of original
nodes each new node stands for, and the loop over labels, with one action per outcome for
a label: no transition, a known set, a new set. `SubsetConstruction` says that no set gets
two nodes, that each finished node has the exact sets of post-states, and that the result
has the traces of the original.

`Intersection` is `Fsm::intersect`: the worklist of pairs, the pairs of transitions of the
current node with equal labels, `findp`, `newNode`, and the reach trace each product
node gets when it is created. `ProductConstruction` is about the pairs found again while
they wait, while they are worked on, or afterwards, and about the product being exact.
`isStrongSemiReductionOf` is the verdict read off the product; `VerdictByTraces` compares
it with what it says about the traces of two observable FSMs.

`ObservableProduct` composes the two: a client intersects FSMs as they are, or makes the
first one observable and intersects the result. `CallIntersect` hands the nodes of
the subset construction over. `FsmTraces` holds what both share, the representation
of an FSM by its transitions and the states a word leads to.

### RDistinguishability, StateCounting, StrongReduction, ReductionTesting

`RDistinguishability` models `calcRDistinguishableStates` level by level
(`CalcROneDistinguishable`, `CalcRLevel`) together with the adaptive test cases each level
builds, and `calcDReachableStates` as its breadth-first search over sets of states
(`StartDReach`, `DReachStep`, `EndDReach`). An adaptive test case is the prefix-closed set of its
I/O traces. `RDistExact` compares with definitions that know no levels: two states are
r-distinguishable exactly if they have no common reduct, the test case of a pair separates
them whatever outputs are chosen (both for completely specified machines), and the input trace
recorded for a d-reachable state reaches only that state.

`StateCounting` is `adaptiveStateCounting` round by round: `ApplyTraces` applies the current
set of traces with the test cases, `Expand` keeps those whose bound (number of visits per
maximal r-distinguishable set, minus what V' already saw) is not reached. `VPrimeLazy`
enumerates the possible V'. `CountingVerdict` says it passes exactly reductions.

`StrongReduction` is the generator for strong semi-reduction, which calculates
r-distinguishability again as a graph of pairs (`GraphStep`, `GraphRound`), d-reaching
sequences in its own search (`DReachingStep`), maximal sets in two ways, traversal sets with
termination tuples, and the suite; `Execute` is `passesStrongSemiReductionTestSuite`.
Whether inputs are defined alike is compared after whole test cases only, not at inner
nodes, so an implementation that defines more inputs in between passes
(`strong_reduction_claim`); with `SameInputsAtNodes` as a condition the suite is complete.

`ReductionTesting` composes them: the analysis once, then one of the two methods, on one
specification and one implementation.

### TraceSets, TraceTrees, TraceContainers

`TraceSets` is what a tree promises, a prefix-closed set of traces some of which are marked
as deleted. `TraceTrees` has the nodes and edges and the recursive descents of `Tree`,
`TreeNode` and `InputTree`, one action per public operation; `RefinesTraceSets` maps each to
its set operation. `Tree::remove` takes children out of the vector it iterates over; when that
happens the state is `undefined` and the behaviour ends, as it does when the subtree behind a trace is asked
for that the tree does not have: `Tree::getSubTree` then calls `clone` on a null pointer. `AnswersExact` is about the
operations that answer something: sizes, tentative insertion (how many test cases or steps
an insertion *would* add), the prefix relation tree.

`TraceContainers` has `IOListContainer::addUniqueRemovePrefixes` and
`IOTreeContainer::addUniqueRemovePrefixes`. An empty trace is added to a list although it is a prefix of
every trace there (`containedIn`), and goes when a longer one is added. Adaptive test cases that are leaves have an input that is
never initialised, so it can have any value; `InputOutputTree::contains` compares output
traces down to the leaves, therefore real prefixes are never removed although the header
says so. Its second part has traces with epsilons, I/O traces and their container.
`ContainersExact` says of all of them that no test case is lost and none made up, and of I/O
traces that epsilons make no difference to prefixes and suffixes.

### RandomMachines, Enumerator

A call of `rand()` is a choice of every value it can yield. `RandomMachines` has both versions of
`createRandomFsm`, `createRandomOPFSM` and `Dfsm::createAtRandom`. The first is the interesting
one: it connects states (`PopSource`, `ForInput`), fills up to the wanted degrees (`Fill`), and
minimises and repairs (`Minimise`, `ForceAgain`, `Retry`, `StartAgain`) until it has what was
asked for. Its result may fall short, and does; `MachinesAsAsked` says what can be relied on.
The second part of the module has `createMutant`, `createReduction` and `createLessDefinedFsm`, each as the
sequence of draws it makes. `Enumerator` is `FsmEnumerator`: `HasNext` steps through the tables
as through numerals; `EnumeratesEachOnce` says that all machines wanted are delivered, none twice.

### FsmFiles, TestHarness, Generator, Analysis

`FsmFiles`: a file is what its tokens say. `ReadFile`, `WriteFile`, `Copy` and `Open` (reading with
the presentation layer of another machine) happen in any order. `FilesMeanMachines` relates
the machine before and after each to what the file says, under the rules the formats
silently assume (`Numbered`).

`TestHarness`: the harness with wrapper and example controller, and the checker with its model,
read the same file through a line buffer. `VerdictsTrue` is about the reset between test
cases, lines that are cut, and both programs agreeing with the file.

`Generator`: the command line, word by word (`ParseArgument`), the models read (`ReadModels`)
and the method called (`GenerateTestSuite`), with the outcome "undefined" where the code
dereferences a pointer that is null. `SuiteAsAsked` compares with the usage text.

`Analysis`: the generic refinement of partitions (`fixpoint`) under `isHarmonized`,
`getEquivalentInputs` with `compareColumns`, and what states answer to inputs
(`getPossibleOutputs`, `exhibitsBehaviour`, `rDistinguishes`).

### MC modules

`MCX` extends `X` and defines the sets of machines the constants are given. No
configuration replaces a definition of the modelled system. `MCMachines` and `MCTrees` put
independent modules side by side in one run; a behaviour is about one of them.

## 4. Runs and bounds

| Run | Instance | Shows |
|---|---|---|
| `reachability` | every FSM with 3 nodes, two inputs, partial, nondeterministic in `a`; marking traces of length 1; any number of operations | `OnlyUnreachableRemoved`, `IdIsIndex`, `InitialStateKept`, `WalksMarkReachable`, `WalkTerminates` |
| `reachability_init` | 2 nodes, any initial state | violation: the initial state is lost |
| `minimisation` | 10 000 deterministic machines with 4 states, partial ones among them | both table algorithms implement PartitionRefinement, end, and give equivalent, minimal machines; they agree |
| `test_suites` | sets: 3 states, 2 inputs; all partial FSMs with one output, and complete ones nondeterministic in input 0, up to renaming of outputs; two FSMs with an unreachable state. Suites: the deterministic ones that return from state 2 and one nondeterministic one with no additional state, three machines with one (H: the deterministic ones; SPYH: four with none, one of which also with one). 1.3 million states | traces distinguish; sets identify; covers are shortest; suites are complete and find output faults (`SuiteFindsFaults`, `SuiteCompleteUnlessMissed`) |
| `spyh_claim` | one machine, no additional state | violation: a faulty implementation passes |
| `observable_product` | 3 states, 2 labels, up to 4 transitions, made observable and intersected with an FSM that does everything; pairs with 2 states, 3 labels, up to 3 transitions each | both constructions exact, each pair once, the verdict right, both end |
| `reduction_testing` | 13 specifications with 3 states, complete, nondeterministic, partial, each against all implementations with 2 states, 2 inputs, 2 outputs and at most one input nondeterministic or undefined; m = 2 | both r-distinguishability calculations exact, both verdicts right, everything ends |
| `strong_reduction_claim` | the same | violation: an implementation that defines more passes |
| `machines` | see below | `MachinesAsAsked`, `EnumeratesEachOnce`, `FilesMeanMachines`, `VerdictsTrue`, `SuiteAsAsked`, `AnalysesExact` |
| `safe_methods` | 72 machines with 3 states, 2 inputs, 3 outputs of which two look alike; 0 and 1 additional states; W, Wp and H | no unsafe implementation passes |
| `safe_h_claim` | one machine, abstraction the identity | violation: a pair of C is left undistinguished |
| `trees` | see below | `RefinesTraceSets`, `AnswersExact`, `ContainersExact`; smallest hitting sets, the search ends |

Bounds of `machines`: random machines with 2 states and 1 input x 2 outputs or 2 inputs x 1
output, a few with 3 states or 2 x 2, for all degrees of completeness and nondeterminism in
{0, 1/2, 1}; `RetryBound` = 2 retries where the code has 15 (one retry and the restart after
the last are what differs); degrees are exact fractions, floats in the code. Enumerations
of up to 81 tables. Eighteen files and `MaxSteps` = 4 operations, enough to read, copy, write
and read again. `LineSize` = 13 tokens for the 100 000 characters of the line buffer: a test
case of two inputs fits, one of three does not. Command lines with up to three options and
two files. Analysed machines: all observable ones with 2 states, 2 inputs, 2 outputs, and
those with 3 states and 1 input or 1 output.

Bounds of `trees`: depth `MaxLength` = 2, up to `MaxDeleted` = 2 marked nodes, five trees to combine
with; up to `MaxAdded` = 4 traces of length 0 to 3 or adaptive test cases of depth 2 in a
container; up to `MaxPut` = 3 I/O traces of at most `MaxSymbols` = 3 symbols, epsilons among
them; hitting sets over 3 elements, all systems of two nonempty sets and all three
two-element sets at once.

The bounds are large enough for the cases that matter: three nodes allow a node
to be queued twice and a node to be hidden behind a marked one; four states give
the longest table list, one with a table for every state, and a class that splits
in three; three states give pairs whose trace extends another pair's, distinguishing
traces of length 3, and with one additional state implementations of four states.
Equivalence of machines with n and at most n states is decided by traces of length
2n - 1, which is the length used.

Fairness: each calculation is one call in a sequential program, which goes on
until it returns. `Reachability` has weak fairness on the steps of a walk or
removal in progress and none on the client's calls; `HittingSet` has it per
object's search; `Minimisation` and `ObservableProduct` describe calls that are left
running and have it on the next step as a whole. `ReductionTesting` states the same as
`Progress` (infinitely many steps unless it ends; the check for deadlock shows that a step
is possible until then), which spares TLC from evaluating ENABLED. `trees` runs with
`CHECK_DEADLOCK FALSE` since objects are used up and containers get full; the other runs either
loop for ever (client calls) or have an explicit end.

Many modules hold `Faulty...` variants of some definitions, each next to the one
it varies: a bug that could plausibly have been made there. Nothing uses them in
the specifications; putting one in place of the original makes TLC report a
property of the run as violated, which shows that the property depends on that
line of code.

## 5. Proofs

All proofs are for every value of the constants.

**OFSMTables_proofs.** `TypeCorrect`, `NoGaps`, `TablesRefinePartition`,
`RefinementEndsInBisimilarity`, `FinalClasses`. The invariant of the loop says which states already have a new
class, that states with new classes agree on class exactly if they are equal in the
sense of the code, that the numbers given out are exactly an initial segment, and
that states ahead of the loop that have a class got it from an earlier state of
the same old class. `TablesRefinePartition` maps every step to a refinement step
or a stutter. `RefinementEndsInBisimilarity` is about `PartitionRefinement` alone: its relation is
always a superset of every bisimulation, and at the end it is one itself. `FinalClasses` composes both: two states
share a class of the last table exactly if they are bisimilar. `MinimalFsm` goes on to
the machine `toFsm` builds: no two of its states have the same language and, if the
initial state has index 0, it has the language of the original. `LanguageInv` says that two
states share a class of table k exactly if they have the same words up to length k, and that
state 0 is the first of its class. That the last table stands for words of any length is an
induction on the length; it is done with the least counterexample (`WFMin` over
naturals), which needs no operator parameter.

**Minimisation_proofs.** `PkTablesRefinePartition` maps the P_k calculation to the
same abstract algorithm, undefined inputs included. `FirstAsFsm` shows that the
composition takes only steps of `OFSMTables`, so what is proved there holds here
(`FsmTablesOfDfsm`). `MinimisationFromStateZero` joins both: the relation of the k-th table of
one algorithm is that of the k-th table of the other, so both stop with the same
number of tables and the same classes, and both machines are equivalent to the
original. The condition on the initial state is that of section 3;
`BothMinimisationsCorrect` is the case `InitStates = {0}`, which is the run's. Assumptions:
`RowsOfAssumption` (the rows derived from a deterministic machine are among those the OFSM
half is about) and `LabelsUsedAssumption` (labels of transitions are labels).

**Searches_proofs**, of three searches that may leave nothing out.

*The walk and the removal* of `Reachability`. Assumption `InitAtZero`: the initial state has index 0, as
the constructors leave it. The inductive invariant `IInv` adds to the types: outside
a walk the queues are empty; until apply marks nodes, every marked node has its
targets marked, queued or pending (so at the end of a walk the marked set is closed
under transitions); a walk in progress has its start marked or queued; the initial
state is first in the old and the new vector; ids and names of the part of the
vector already seen are corrected and of the rest are untouched. From it:
`RemovalIsSound`, `InitialStateStays`, `IdsAndNamesFollowNodes`.
`MarksAreReachability` adds the other direction, whatever apply marks: marked, queued and
pending nodes are reachable from where marking began (`MarkedReachable`), and the vector of
a removal in progress has kept none that is not (`KeptMarked`). With closedness this gives
the action property `WalksMarkReachable`, and with it the types of the marks, `TypeCorrect`.
The nodes apply marks are a recursive function of the length of the trace: that there is such a
function, and that its values are reachable, are inductions over sets of naturals (`SetInduction`).

*The hitting sets* of `HittingSet`. `SearchTypes`, and `SmallestHittingSet` under the assumption
that objects are used one at a time. The invariant says that the candidate is a
hitting set and that every hitting set smaller than the candidate is still ahead
of the search: a frame on the stack has yet to leave out an element the set does
not contain. Supersets of hitting sets are hitting sets, so cutting off sets that
do not hit loses nothing, and when the stack is empty no smaller set is left.

*The enumeration*. `EachMachineOnce` is about `Enumerator`. `HasNext` steps to the next table in the lexicographic
order, carries included, so the tables passed are those up to the current one, and the
invariant says that of these exactly the ones wanted have been delivered. Assumption
`SizesAssumption`: the sizes are naturals.

**ObservableProduct_proofs.** `SubsetConstructionHolds`, `ProductConstructionHolds`,
`ReachTracesLead`, `VerdictHolds`. `ObsInv` says of the subset construction that the sets of
nodes differ, that the queue holds the nodes after the current one in the order of their
creation, and that a node's transitions are exact for the labels already handled; that
the traces are those of the original follows by induction on the word. `InterInv` says of
the product that a pair has one node, which is waiting, being worked on or done, and that
a node has exactly the transitions of the pairs of transitions already handled.
`TraceInv` gives each node a reach trace that leads to both states and is shorter than the number of
nodes. The verdict compares traces up to `TraceBound`; a disagreement shows at the end of
a reach trace, one step further, so the theorem has the condition
`Len(fsmInterNodes) <= TraceBound + 1`. Assumption `TraceBoundAssumption`: the bound is a natural.

**TestSuites_proofs.** About `CharacterisationSet` and what the methods build on it, for every
observable, minimal FSM, partial and nondeterministic ones included.
`PairsAreDistinguished`: the loop of `calcDistinguishingTrace` keeps a pair of states that the
trace so far leads to with the same outputs, and that the table it looks at, or the
one before, separates (`LoopInv`), the inner `break` included; so the trace distinguishes. `PairsInv`
adds that no trace of the tree is a prefix of another and that the pairs passed are separated:
in a completely specified machine they stay so, since traces are only ever extended.
`SetsAreIdentifying` adds `SetsInv`, with the set selected so far, for the greedy selection and
for hitting sets. `SuitesUseTheSets` and `HMethodUsesTheSets` are refinements: all actions of the methods are
steps of `CharacterisationSet` or leave it alone. `StateCoverIsShortest` and `StateCoverOfHMethod` need `CoverInv`, the invariant of
breadth-first search: grey states are those in the queue, depths in the queue grow and
span one level at most, black states have no white successors, and every trace leads to
its state. From it a trace shorter than the recorded one would lead to a state seen
earlier; a state not reached at the end is not reachable.

`SuitesFindFaults` is the completeness theorem of the W, the Wp and (for single inputs) the HSI
method, for every reference machine, every `numAddStates` and every implementation with at
most n + `numAddStates` states, nondeterministic ones included. Three parts lead to it.
*What is sufficient*: `Sufficient` lists what an implementation has to pass, the cover followed by up to m + 1
inputs, W behind the cover and m inputs, and behind each last input what tells the state there from the
others. Then every state of the implementation that is reached within m inputs belongs to one state of
the reference machine (`OneStateEach`); each further input reaches a new one until no more are, which by
their number is after m inputs at the latest (`NoMoreReached`); so the pairs reached are closed
under all inputs (`ReachedClosed`), and both machines answer alike in all of them
(`SufficientIsComplete`). *What the methods build*: trees of traces whose leaves, if passed, are
sufficient (`WConvincing`, `WpConvincing`, `HSIConvincing`); here the state cover has to be closed under
prefixes (`TreeInv`) and the sets finite (`TracesInv`), since traces of an infinite tree need not be
below a leaf. *The execution*: `TestInv` says of the suite that each test case is still to
come, is the one being applied, of which a part has been passed and leads to the pairs in `leaves`, or
was passed; and that it stays passed whatever transitions the implementation turns out to have
(`ExtendsKeeps`), though they are chosen one by one. That output faults are found follows from the same
invariant: the transition cover is part of every suite, and if the implementation has the
transitions of the reference machine it exercises every one of them. Assumption
`MaxAddStatesAssumption`: the largest `numAddStates` is a natural.

`HConditionHolds` and `HMethodFindsFaults` say the same of the H method, and reach it differently. *The
traces* that the loops choose distinguish their states wherever they come from: found in the tree, found
behind a leaf of it (`DifferBehind`), or read off the P_k tables (`PkTraceDistinguishes`: the pair looked at
is separated by one table less after each round, `PkInv`). *The loops*: `LoopKeeps` says that of all pairs
the condition names each is told apart by the tree so far or still listed in `open`; that the three nested
loops list all of them is proved of their sequences (`CoverPairsHave`, `ExtensionPairsHave`, `PrefixPairsHave`),
with prefixes shorter than m + 1 inputs extended first (`LongerTrace`). Trees only grow, so nothing
told apart is lost, and when `open` is empty the condition holds. *What it is good for*: suppose some trace behind the
cover fails, v.s with s as short as possible (`FailsFirst`). Its first m + 1 prefixes and the traces of
the cover are all passed and lead the implementation to different states: two that led to the same one
would, by the condition, lead the reference machine to the same state too, and then a shorter trace
would fail already (`PartOrCover`, `TwoParts`, `TwoOfCover`). That makes n + m + 1 states, one more than there are (`NoneFailsFirst`).

**SafeMethods_proofs.** `SafeSuitesAreSafe`: with any abstraction of the outputs, a suite of the safe W or the safe Wp method lets
no implementation pass that has an output wrong after the abstraction. Such a suite cannot be shown complete, because
states of one class of the minimised abstraction are never told apart; the pairs of states that matter are therefore those of
an implementation state with any state of *the* class it belongs to. *The sets*: `GillTrace` tells its two states apart, whichever table
separates them (`GillTraceApart`), so a characterisation set calculated from the P_k tables of the abstraction tells apart
exactly the classes (`CharacterisationSetTells`), and so do the hitting sets of the safe Wp method (`IdentifyingSetTells`). *What is sufficient*:
`SafeSufficient` lists the cover followed by what tells all states apart by their full outputs, the cover
followed by up to m + 1 inputs, and behind these what tells the classes apart, all of it behind up to m inputs;
`SafeWShape` and `SafeWpShape` find it in the trees the methods build. *Why it is*: two of these traces that lead to one state of the implementation
lead to one class of the reference machine (`SameImplClass`). Each further input shows a new state of the implementation
until there are no more, which by their number is after m inputs at the latest (`NoMoreSeen`), so the related pairs are closed under
all inputs, with right outputs (`SufficientIsSafe`), and every pair the property is about is one of them (`InputPairsIn`). *The execution* is that of
`TestSuites_proofs`; `SafeInv` joins it to the method. What the model defines by recursion is shown to exist, and to be what its equation says,
once for all four functions (`Recursion`). Assumptions: `MaxAddStatesAssumption`, as above, and `AbstractionsAssumption`
(abstractions are functions on outputs). The safe H method is excluded: the pairs that its comments promise to tell apart may
stay undistinguished (`safe_h_claim`), so an argument along those comments fails; that its suites are safe on the instances of `safe_methods` is
only checked.

**ReductionTesting_proofs.** `RDistinguishabilityExact`: what both methods that test for reduction
start from is exact. The inductive invariant `RInv` has one part for each thing that could be wrong. Told apart
are pairs of different states, both ways round, more with every level (`LevelInv`). No pair told
apart lies in a compatibility relation, as each has an input after which all common outputs lead to pairs told apart
before (`Sound`). Once a level finds nothing, no input separates any pair that is left (`StopsSettled`; `FirstLevel` has the
pairs without common outputs), so the pairs left are a compatibility relation themselves. The loop also stops at a
`limit`, and it is not obvious that it stops late enough: each level but the first takes a pair from `notRDist`, and there
are `limit` pairs to begin with, by counting the ordered ones (`LimitSuffices`). `SigmaInv` says that the trees stored
tell their states apart: the tree of a level is made of those below, and what the folds over the traces of a tree compute is
first proved step by step. `CoverInv` is about d-reachability. Assumptions: `SizeAssumption` (a machine has a state) and
`SpecificationsAssumption` (what the machines are).

`GraphIsExact` is about the second calculation of both, the graph and the search of `StrongReduction`. `SearchInv` is the
invariant of a breadth-first search that does not check whether a set of states is already
waiting: traces waiting get longer by one at most, and all shorter ones lead to sets that are black
(`ByLength`), so what is recorded for a set is a shortest trace (`ShortestRecorded`). Where
`calcDReachableStates` finds a trace the deterministic machine with a sink goes the same way (`DReachSub`). Of the graph, `ListInv`
says that a pair is in it, still listed for this round or already set aside, and that those set aside
in a round that has found nothing yet have no usable input; the round that ends with the mark
still set therefore leaves a compatibility relation outside (`OutsideIsCompatible`). That nothing compatible is inside, and
that the trees tell states apart, needs induction over how entries came about. `Grounded` is that induction, as a part of
the invariant: a set of pairs that has p whenever it has all pairs the entry of p leads to has every pair of the
graph. An entry for (q, p) may be that of (p, q), with targets the other way round; the graph being closed
under exchange makes up for that (`TargetsMirror`). The functions `rDistTree` and `idRDistinguishedBy`
recurse into the graph and the machine; that they satisfy their equations is shown by least fixpoints of monotone
functions (`LeastFixpoint`, `ToldExists`, `TreesExist`).

`CountingVerdictHolds` is the verdict of adaptive state counting. `CountInv` follows the test loop: the traces applied
include the deterministic state cover; those dealt with have no `Failures`; and each of them has had all its extensions applied or has
responses that are long enough for some set of answers seen (`Treated`, `EnoughIn`). The answers recorded are those of states of the implementation.
*A pass*: take a trace the implementation alone has, v.u with v a response to a trace of the cover and u
as short as possible (`Shortest`), so that v is the longest such prefix of everything between (`BaseIs`). The visits to a
maximal r-distinguishable set along u, the responses of the cover to d-reachable states of the set,
and the answers not seen after either belong to different states of the implementation (`BoundHolds`): two visits
to the same pair of states would leave a shorter u, and two states told apart by an adaptive test case that
has been applied after both answer it differently (`ToldSeparates`). The bound therefore never exceeds the number of states,
no part of u is long enough (`NotLongEnough`), and all of them are extended until v.u itself is applied and
fails. *A fail* shows a trace of the implementation alone, as answers of complete machines to a test case
can be extended (`FailureShows`). *V'*: the numbers VPrimeLazy counts through are mixed radix numbers (`Radices`,
`RadixOnto`, `RadixSame`); it begins with 1 and ends with the number of choices, which names the same choice as 0 (`RadixTop`).
Assumption `ImplementationsAssumption`: m is a natural, and implementations are observable FSMs with at most m states.

**StrongReduction_proofs.** `StrongSuiteCompleteHolds` is the completeness of the suites for strong semi-reduction. `StrongSuiteInv` adds to the invariant of
`GraphIsExact` what the suite holds (`SuiteInv`): the d-reaching sequences, each followed by every trace of its traversal set and,
where the loop of updateTestSuite has been, the states met along a trace followed by shared tests that tell them apart. *Traversal
sets*, recursive with as many branches as inputs, are the least sets that satisfy their equation; they are finite, each trace ends
at a set it visits often enough (`TraverseGood`), and every trace of the specification either runs through one of them or stops
where all defined inputs are tested (`TraverseFollows`). *A pass*: at every node of the suite the responses of the implementation
are traces of the specification (`NoneLost`) with the same inputs, so a fault lies behind the nodes. Take one as near as possible
to a d-reached state (`Nearest`): before it no two visits to the set of its traversal, the d-reached states included, are to one state of
the implementation, because two visits to one state of the specification would leave a nearer fault and two to different states
have shared tests that the implementation answers differently (`ToldNotSame`). They would be more
than m (`NearestNotLong`), so the tests do not end before the fault and show it (`FaultNotTested`). Assumptions are those of the
verdict of state counting; that no state is without transitions and that inputs agree at the nodes are hypotheses of the property
itself, and TLC shows what happens without the second (`strong_reduction_claim`).

Only model-checked: termination and everything else about liveness; completeness
and output faults for the SPYH method, what the safe H method promises; trees, containers, random machines,
files, programs and the answers of `Analysis`. Recursive definitions that the
proofs do reach are functions, and statements about all words or numbers are about sets of
them, with a least element. What an operator parameter would be needed for is out of
reach, as are modules that reach RECURSIVE operators (`TraceTrees`, `TraceContainers`, `SPYHMethod`
and what uses them, which recurse as the code does), liveness and ENABLED.

## 6. Not modelled

Listed with reasons in `PROJECT.json`. In short:

* `main/main.cpp`, a list of tests, and vendored jsoncpp;
* printing, the print, oracle and simulation visitors, and the logger, which change no state;
* the generalised H method: `getStatesAfter` (`generalized-h-method.hpp:66`) builds an `InputTrace`
  without presentation layer, and `FsmNode::getPossibleOutputs` (`FsmNode.cpp:291`) logs it and
  dereferences the layer, so no nonempty trace survives. `Generator` models that outcome.
  The `assert` in line 63 fills the OFSM tables, which a release build does not do;
* members of Fsm that cache a result. The characterisation set (`Fsm.cpp:1541`) and the OFSM
  tables (`Fsm.cpp:4942`) are not invalidated when nodes are removed or added, so calls
  after a change may see old ones; the models calculate each set once, on an unchanged machine;
* sharing of node objects between machines (`Dfsm(const Fsm&)`, `Dfsm.cpp:534`): removal in one
  renumbers nodes of the other;
* code that nothing calls: the part of `safeHMethod` under `#if 0`, `getDeterministicTestCases`,
  `rDistinguishesAllStates`, `ConvergenceGraph::replaceAfter`, concatenation of containers,
  distinguishing traces from segmented traces; hashing.

## 7. Facts met on the way

Observations about the code that the models express and that a maintainer may want to know;
the four that contradict a statement of the repository are `findings` in `PROJECT.json`.

* Walks start with whatever marks are there; only marks of earlier complete walks do no harm.
* Dropped nodes in front of the initial state leave `initStateIdx` pointing elsewhere; both
  `toFsm` variants put the initial state at index 0 and assume it was there before.
* `createRandomFsm`, asked for a minimal nondeterministic machine that is not observable, may throw
  `length_error` (`Fsm.cpp:4590`) or return a deterministic one although nondeterminism is
  forced; `createRandomOPFSM` discards the result of `transformToObservableFSM`;
  `createLessDefinedFsm` ignores its arguments `fsmName` and `pLayer`.
* Raw files: the first source is the initial state; gaps in the numbers leave null nodes; a
  repeated line is stored twice, as transitions are compared by the address of their label.
  `dumpFsm` loses an initial state that is not state 0. The copy constructor indexes nodes by
  `maxState`, which dot files set to the number of nodes.
* CSV files: the comment that `_nop` has code 0 is right only while no output sorts before it; a
  trailing blank line indexes beyond the nodes; with another machine's layer, columns are
  numbered by position. A JSON model whose layer lacks `_nop` keeps -1 as its number.
* Dot files: ids of one digit only, and edges with a comment are not matched.
* Harness: a last line without newline loses its closing parenthesis, so its last pair is
  not executed and the harness says PASS; lines longer than the buffer are executed in pieces, with
  a reset in between. An unknown input is the first event for the wrapper and -1 for the checker.
* Generator: an option is interpreted with the method that earlier options left; `-hsi -s model abs`
  takes the abstraction for the model. `-spyh` on a machine that is not minimal, `-sr` on a
  deterministic model and `-h` on a partial one reach a null pointer or an empty vector
  (`Dfsm.cpp:1785`, `fsm-test-generator.cpp:1288`, `FsmNode.cpp:785`).
* `Tree::getSubTree` dereferences null for a trace that is not in the tree (`Tree.cpp:102`);
  `IOListContainer::addUniqueRemovePrefixes` adds the empty trace beside the traces it is a prefix of.
* The second `createRandomFsm` keeps a reference to the last element of a vector across `pop_back`
  (`Fsm.cpp:3748`). `Connect` models builds that leave the destroyed pointer in place, where it still
  names the node.
* `Trace::isPrefix` accepts the empty trace as a proper prefix of itself; `IOTrace::size` counts
  epsilons, `Trace::size` does not. `addPossibleIOTraces` cleans a local copy of its traces only.
* `exhibitsBehaviour` commits to the first transition with a label, which is right for observable
  machines only.
* `StrongReductionTestSuiteGenerator.cpp:618` subtracts 1 from the size of a vector that may be
  empty when a state has no transitions.
