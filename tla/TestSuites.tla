----------------------------- MODULE TestSuites -----------------------------
(***************************************************************************)
(* Test suites for an observable, minimal FSM: the state cover             *)
(* (Fsm::getStateCover), the characterisation and identification sets      *)
(* (CharacterisationSet), the suites of the W, Wp, HSI and T methods, and  *)
(* the execution of a suite against an implementation (TestRun).           *)
(*                                                                         *)
(* A tree of input traces is the set of all its traces, which is closed    *)
(* under prefixes; the test cases are its leaves.                          *)
(***************************************************************************)
EXTENDS CharacterisationSet

CONSTANTS
  Methods,       \* the methods looked at: "W", "Wp", "HSI", "T", "H", "SPYH", "none",
                 \* and the safe ones, see SafeMethods
  maxAddStates   \* numAddStates is at most this

ASSUME MaxAddStatesAssumption == maxAddStates \in Nat

VARIABLES
  method,        \* the method that is called; "none": only the sets are calculated
  numAddStates,  \* its argument
  stage,         \* "cover", "sets", "test"
  bfsLst,        \* getStateCover: nodes waiting
  color,         \* FsmNode::color
  f2t,           \* getStateCover: the tree node of an FSM node, as its path
  bound, tests, impl, rest, leaves, verdict   \* see TestRun

TR == INSTANCE TestRun

coverVars == <<bfsLst, color, f2t>>
runVars == <<impl, rest, leaves, verdict>>
suiteVars == <<vars, method, numAddStates, stage, coverVars, bound, tests, runVars>>

-----------------------------------------------------------------------------
(* Tree::getIOLists *)
Leaves(T) == {t \in T : \A x \in Input : Append(t, x) \notin T}

(* Tree::addAfter: traces S behind the node that trace t leads to *)
AddAfter(t, S) == UNION {Prefixes(t \o s) : s \in S}

(* Tree::add: traces S behind every node of the tree *)
Add(T, S) == T \cup UNION {AddAfter(t, S) : t \in T}

(* IOListContainer(maxInput, minLength, maxLength): all traces of these lengths *)
InputEnum(minLength, maxLength) == UNION {[1 .. k -> Input] : k \in minLength .. maxLength}

(* FsmNode::after(itrc), from the initial state *)
After(itrc) ==
  FoldLeft(LAMBDA Q, x : {rows[q][<<x, y>>] : q \in Q, y \in Output} \ {-1}, {0}, itrc)

(* appendStateIdentificationSets: behind every leaf the set of each state *)
(* the leaf can lead to                                                   *)
AppendSets(T, sets) ==
  T \cup UNION {AddAfter(t, UNION {sets[q] : q \in After(t)}) : t \in Leaves(T)}

-----------------------------------------------------------------------------
scov == {f2t[q] : q \in {p \in State : color[p] = "black"}}

(* getTransitionCover *)
tcov == Add(scov, InputEnum(1, 1))

(* wMethodOnMinimisedFsm *)
WSuite ==
  Add(IF numAddStates > 0 THEN Add(tcov, InputEnum(1, numAddStates)) ELSE tcov, w)

(* Faulty variant: the second phase stops at the transition cover. *)
FaultyWpSuite ==
  LET Wp1 == IF numAddStates > 0 THEN Add(scov, InputEnum(1, numAddStates)) ELSE scov
  IN  Add(Wp1, w) \cup tcov

(* wpMethod.  tcov->remove(scov) marks nodes of tcov as deleted, but each   *)
(* of them has children and therefore stays in the tree; add does not look  *)
(* at the marks.                                                            *)
WpSuite ==
  LET Wp1 == IF numAddStates > 0 THEN Add(scov, InputEnum(1, numAddStates)) ELSE scov
      Wp2 == IF numAddStates > 0 THEN Add(tcov, InputEnum(numAddStates, numAddStates)) ELSE tcov
  IN  Add(Wp1, w) \cup AppendSets(Wp2, identification)

(* hsiMethod: for each pair of states the first trace of w that            *)
(* distinguishes them, w being the sequence order                          *)
HarmonisedSets(order) ==
  LET At(p, q) == {k \in DOMAIN order : Distinguished(p, q, order[k])}
  IN  [q \in State |-> {order[Min(At(p, q))] : p \in {r \in State \ {q} : At(r, q) # {}}}]

HSISuite(order) ==
  AppendSets(Add(scov, InputEnum(1, numAddStates + 1)), HarmonisedSets(order))

-----------------------------------------------------------------------------
SuiteInit ==
  /\ Init
  /\ method \in Methods
  /\ numAddStates \in 0 .. maxAddStates
  /\ stage = "cover"
  /\ bfsLst = <<0>>
  /\ color = [q \in State |-> IF q = 0 THEN "grey" ELSE "white"]
  /\ f2t = [q \in State |-> << >>]
  /\ bound = numStates + numAddStates
  /\ tests = {}
  /\ TR!RunInit

(* Faulty variant: waiting nodes are taken up again. *)
FaultyVisitNode ==
  /\ stage = "cover" /\ bfsLst # << >>
  /\ LET thisNode == Head(bfsLst)
         via == [q \in State |-> {x \in Input : \E y \in Output : rows[thisNode][<<x, y>>] = q}]
         new == {q \in State : color[q] # "black" /\ via[q] # {}}
     IN  /\ \E s \in SetToSeqs(new) :
              /\ \A i, j \in DOMAIN s : i < j => Min(via[s[i]]) <= Min(via[s[j]])
              /\ bfsLst' = Tail(bfsLst) \o s
         /\ color' = [q \in State |-> CASE q = thisNode -> "black"
                                        [] q \in new -> "grey"
                                        [] OTHER -> color[q]]
         /\ f2t' = [q \in State |-> IF q \in new THEN Append(f2t[thisNode], Min(via[q])) ELSE f2t[q]]
  /\ UNCHANGED <<vars, method, numAddStates, stage, bound, tests, runVars>>

(* getStateCover, one node taken from the queue: its white successors, in  *)
(* the order of the inputs, get the trace of the node and the first input  *)
(* that leads there.                                                       *)
VisitNode ==
  /\ stage = "cover" /\ bfsLst # << >>
  /\ LET thisNode == Head(bfsLst)
         via == [q \in State |-> {x \in Input : \E y \in Output : rows[thisNode][<<x, y>>] = q}]
         new == {q \in State : color[q] = "white" /\ via[q] # {}}
     IN  /\ \E s \in SetToSeqs(new) :
              /\ \A i, j \in DOMAIN s : i < j => Min(via[s[i]]) <= Min(via[s[j]])
              /\ bfsLst' = Tail(bfsLst) \o s
         /\ color' = [q \in State |-> CASE q = thisNode -> "black"
                                        [] q \in new -> "grey"
                                        [] OTHER -> color[q]]
         /\ f2t' = [q \in State |-> IF q \in new THEN Append(f2t[thisNode], Min(via[q])) ELSE f2t[q]]
  /\ UNCHANGED <<vars, method, numAddStates, stage, bound, tests, runVars>>

CoverDone ==
  /\ stage = "cover" /\ bfsLst = << >>
  /\ stage' = "sets"
  /\ UNCHANGED <<vars, method, numAddStates, coverVars, bound, tests, runVars>>

(* the other methods need none of the sets, and only the Wp method selects  *)
(* identification sets, with the fast variant                               *)
CalcSets ==
  /\ stage = "sets" /\ method \in {"W", "Wp", "HSI", "T", "SafeWp", "none"}
  /\ \/ CalcOFSMTables \/ SkipPair \/ AddTrace
     \/ PairsDone /\ (method = "none" \/ pc' = "fast")
     \/ SelectSet
     \/ method \in {"Wp", "none"} /\ (TryTrace \/ SetsDone)
  /\ UNCHANGED <<method, numAddStates, stage, coverVars, bound, tests, runVars>>

Generate ==
  /\ stage = "sets"
  /\ pc = IF method = "Wp" THEN "done" ELSE "fast"
  /\ \/ method = "W" /\ tests' = Leaves(WSuite)
     \/ method = "Wp" /\ tests' = Leaves(WpSuite)
     \/ method = "HSI" /\ \E order \in SetToSeqs(w) : tests' = Leaves(HSISuite(order))
     \/ method = "T" /\ tests' = Leaves(tcov)
  /\ stage' = "test"
  /\ UNCHANGED <<vars, method, numAddStates, coverVars, bound, runVars>>

Test ==
  /\ stage = "test"
  /\ TR!RunNext
  /\ UNCHANGED <<vars, method, numAddStates, stage, coverVars, bound>>

Finished == (verdict # "none" \/ (method = "none" /\ pc = "done")) /\ UNCHANGED suiteVars

SuiteNext == VisitNode \/ CoverDone \/ CalcSets \/ Generate \/ Test \/ Finished

SuiteSpec == SuiteInit /\ [][SuiteNext]_suiteVars

-----------------------------------------------------------------------------
(***************************************************************************)
(* The state cover holds a trace to every state that can be reached, no    *)
(* shorter trace leads there, and no trace leads to the other states.      *)
(***************************************************************************)
CoverIsShortest ==
  stage = "sets" /\ pc = "tables" =>
    \A q \in State :
      IF color[q] = "black"
      THEN /\ q \in After(f2t[q])
           /\ \A t \in InputEnum(0, Len(f2t[q]) - 1) : q \notin After(t)
      ELSE \A t \in InputEnum(0, numStates) : q \notin After(t)

(***************************************************************************)
(* Which faults the suites find.                                           *)
(*                                                                         *)
(* Fsm.h: "numAddStates: the maximal number of additional states which the *)
(* implementation may have".  An implementation with no more states than   *)
(* that passes the suite of the W, the Wp or the H method (see HMethod)    *)
(* only if it is I/O-equivalent to the reference machine; and that of the  *)
(* HSI method if each harmonised set is made of single inputs.  minimise() *)
(* leaves only states that can be reached, which are those of the cover.   *)
(*                                                                         *)
(* Every suite, that of the T method included, finds every output fault:   *)
(* an implementation whose transitions lead where those of the reference   *)
(* machine lead passes only if it is I/O-equivalent.                       *)
(***************************************************************************)
SuiteComplete ==
  /\ verdict = "pass" /\ CompletelySpecified
  /\ \A q \in State : color[q] = "black"
  /\ method \in {"W", "Wp", "H"} \/ (method = "HSI" /\ \A t \in w : Len(t) <= 1)
  => TR!Equivalent

OutputFaultsFound ==
  verdict = "pass" /\ CompletelySpecified /\ TR!SameStructure => TR!Equivalent

SuiteFindsFaults == SuiteComplete /\ OutputFaultsFound
=============================================================================
