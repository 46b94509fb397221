------------------------------ MODULE TestRun ------------------------------
(***************************************************************************)
(* Executing a test suite: the reference FSM and an implementation answer  *)
(* each test case (Fsm::createTestSuite), and the answers are compared     *)
(* (TestSuite::isEquivalentTo, operator== of OutputTree).                  *)
(*                                                                         *)
(* The implementation is a completely specified, observable FSM that was   *)
(* fixed beforehand.  Its transitions are chosen when they are first       *)
(* exercised; so one behaviour stands for all implementations that agree   *)
(* on what the tests have seen so far.  Its states are numbered in the     *)
(* order in which they are seen.                                           *)
(***************************************************************************)
EXTENDS Integers, Sequences, FiniteSets

CONSTANTS numStates, maxInput, maxOutput,
          maxAddStates    \* the largest numAddStates looked at

VARIABLES
  rows,       \* the reference FSM: rows[q][<<x, y>>] is the post-state or -1
  bound,      \* the implementation has at most this many states
  tests,      \* input traces that have not been applied yet
  impl,       \* the implementation; a row of -1 has not been exercised yet
  rest,       \* inputs of the current test case still to be applied
  leaves,     \* pairs of states after a common output trace of the two machines
  verdict     \* "none", "pass", "fail"

In == 0 .. maxInput
Out == 0 .. maxOutput
ImplState == 0 .. numStates + maxAddStates - 1
ImplRow == [Out -> ImplState \cup {-1}]

runVars == <<impl, rest, leaves, verdict>>

Exercised(im, i, x) == \E y \in Out : im[i][x][y] >= 0

SpecOutputs(q, x) == {y \in Out : rows[q][<<x, y>>] >= 0}
ImplOutputs(im, i, x) == {y \in Out : im[i][x][y] >= 0}

(* states of the implementation that are known, 0 is the initial one *)
Seen(im) == {0} \cup ({im[i][x][y] : i \in ImplState, x \in In, y \in Out} \ {-1})

(* the implementations that answer x in all states reached by the test *)
Extensions(x) ==
  LET new == {lf[2] : lf \in leaves} \cap {i \in ImplState : ~Exercised(impl, i, x)}
  IN  {im \in {[i \in ImplState |-> IF i \in new THEN [impl[i] EXCEPT ![x] = f[i]] ELSE impl[i]] :
                 f \in [new -> {r \in ImplRow : \E y \in Out : r[y] >= 0}]} :
        LET seen == Seen(im) IN Cardinality(seen) <= bound /\ seen = 0 .. Cardinality(seen) - 1}

RunInit ==
  /\ impl = [i \in ImplState |-> [x \in In |-> [y \in Out |-> -1]]]
  /\ rest = << >>
  /\ leaves = {<<0, 0>>}
  /\ verdict = "none"

(* the implementation is reset and the next test case is begun.  Since the *)
(* implementation is fixed, the order of the test cases does not matter.   *)
NextTest ==
  /\ verdict = "none" /\ rest = << >> /\ tests # {}
  /\ LET t == CHOOSE u \in tests : TRUE
     IN  rest' = t /\ tests' = tests \ {t}
  /\ leaves' = {<<0, 0>>}
  /\ UNCHANGED <<rows, bound, impl, verdict>>

Agree(im, x) == \A lf \in leaves : SpecOutputs(lf[1], x) = ImplOutputs(im, lf[2], x)

ApplyInput ==
  /\ verdict = "none" /\ rest # << >>
  /\ LET x == Head(rest)
     IN  \E im \in Extensions(x) :
           /\ Agree(im, x)
           /\ impl' = im
           /\ leaves' = UNION {{<<rows[lf[1]][<<x, y>>], im[lf[2]][x][y]>> : y \in SpecOutputs(lf[1], x)} :
                                lf \in leaves}
  /\ rest' = Tail(rest)
  /\ UNCHANGED <<rows, bound, tests, verdict>>

(* a difference in the outputs: the test case fails *)
Discrepancy ==
  /\ verdict = "none" /\ rest # << >>
  /\ {im \in Extensions(Head(rest)) : ~Agree(im, Head(rest))} # {}
  /\ verdict' = "fail"
  /\ UNCHANGED <<rows, bound, tests, impl, rest, leaves>>

AllPassed ==
  /\ verdict = "none" /\ rest = << >> /\ tests = {}
  /\ verdict' = "pass"
  /\ UNCHANGED <<rows, bound, tests, impl, rest, leaves>>

RunNext == NextTest \/ ApplyInput \/ Discrepancy \/ AllPassed

(* pairs of states the two machines reach with a common trace *)
ReachedPairs ==
  LET After(P) == P \cup UNION {{<<rows[p[1]][<<x, y>>], impl[p[2]][x][y]>> : x \in In, y \in Out} : p \in P}
      Both(P) == {p \in After(P) : p[1] >= 0 /\ p[2] >= 0}
      f[k \in Nat] == IF k = 0 THEN {<<0, 0>>} ELSE Both(f[k - 1])
  IN  f[numStates * (numStates + maxAddStates)]

(* I/O-equivalence; a transition that was never exercised can have any output *)
Equivalent ==
  \A p \in ReachedPairs, x \in In : SpecOutputs(p[1], x) = ImplOutputs(impl, p[2], x)

(* one state of the implementation for each state of the reference machine *)
SameStructure == \A p, q \in ReachedPairs : p[1] = q[1] <=> p[2] = q[2]
=============================================================================
