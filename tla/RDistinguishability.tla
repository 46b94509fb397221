------------------------ MODULE RDistinguishability ------------------------
(***************************************************************************)
(* What both methods that test for reduction start from: which states of   *)
(* an observable, possibly nondeterministic FSM can be told apart whatever *)
(* outputs are chosen (Fsm::calcRDistinguishableStates and the class       *)
(* RDistinguishability), and which states an input trace reaches whatever  *)
(* outputs are chosen (Fsm::calcDReachableStates).                         *)
(*                                                                         *)
(* An adaptive test case (InputOutputTree) is the prefix-closed set of the *)
(* I/O traces along its edges; the input of an inner node is the one its   *)
(* edges share.                                                            *)
(***************************************************************************)
EXTENDS Integers, Sequences, FiniteSets, FiniteSetsExt, SequencesExt

CONSTANTS numStates, maxInput, maxOutput

ASSUME SizeAssumption == numStates \in Nat \ {0} /\ maxInput \in Nat /\ maxOutput \in Nat

VARIABLES
  rows,       \* the FSM: rows[q][<<x, y>>] is the post-state or -1
  rPhase,     \* "one", "levels", "dreach", "done"
  rDist,      \* rDist[l]: the pairs found r-distinguishable up to level l
  notRDist,   \* pairs that are left at the current level
  again,      \* whether the last level found something and left something
  sigma,      \* sigma[<<q1, q2>>]: adaptive test case for q1 against q2
  bfsLst,     \* states to be worked on, by calcDReachableStates
  dReachTrace \* the input trace a state was d-reached by; unset: not d-reachable

rVars == <<rPhase, rDist, notRDist, again, sigma, bfsLst, dReachTrace>>

State == 0 .. numStates - 1
In == 0 .. maxInput
Out == 0 .. maxOutput
IO == In \X Out
NoTrace == <<-1>>
EmptyTree == {<< >>}

(* FsmNode::getPossibleOutputs and afterAsSet, of an observable FSM fsm *)
PossibleOutputs(fsm, q, x) == {y \in Out : fsm[q][<<x, y>>] >= 0}
DefinedInputs(fsm, q) == {x \in In : PossibleOutputs(fsm, q, x) # {}}
OutputIntersection(q1, q2, x) == PossibleOutputs(rows, q1, x) \cap PossibleOutputs(rows, q2, x)

(* FsmNode::after for an I/O trace; -1 when the trace is none of the state q *)
After(fsm, q, io) ==
  FoldLeft(LAMBDA s, e : IF s < 0 THEN -1 ELSE fsm[s][e], q, io)

isRDistinguishableWith(l, q1, q2) == \E i \in 1 .. l : <<q1, q2>> \in rDist[i]
RDistinguishable(q1, q2) == isRDistinguishableWith(Len(rDist), q1, q2)

-----------------------------------------------------------------------------
RInit ==
  /\ rPhase = "one" /\ again = TRUE
  /\ rDist = << >>
  /\ notRDist = {p \in State \X State : p[1] < p[2]}
  /\ sigma = [p \in State \X State |-> EmptyTree]
  /\ bfsLst = << >>
  /\ dReachTrace = [q \in State |-> NoTrace]

(* Faulty variant: one common output suffices. *)
FaultySeparates(p, x) ==
  \E y \in OutputIntersection(p[1], p[2], x) :
    LET a1 == rows[p[1]][<<x, y>>]
        a2 == rows[p[2]][<<x, y>>]
    IN  a1 # a2 /\ isRDistinguishableWith(Len(rDist), a1, a2)

(* the inputs that tell the states of a pair apart at this level: after a  *)
(* common output the states reached were told apart at a lower level       *)
Separates(p, x) ==
  \A y \in OutputIntersection(p[1], p[2], x) :
    LET a1 == rows[p[1]][<<x, y>>]
        a2 == rows[p[2]][<<x, y>>]
    IN  a1 # a2 /\ isRDistinguishableWith(Len(rDist), a1, a2)

(* input x, then after each output of q1 the test case for the states reached *)
TreeFor(q1, q2, x) ==
  {<< >>} \cup
  UNION {{<<<<x, y>>>> \o io :
            io \in IF y \in PossibleOutputs(rows, q2, x)
                   THEN sigma[<<rows[q1][<<x, y>>], rows[q2][<<x, y>>]>>] ELSE EmptyTree} :
         y \in PossibleOutputs(rows, q1, x)}

(* all pairs left are tried; what is found has no influence within the level *)
Level ==
  LET found == {p \in notRDist : \E x \in In : Separates(p, x)}
      input(p) == CHOOSE x \in In : Separates(p, x) /\ \A z \in In : Separates(p, z) => x <= z
      both == found \cup {<<p[2], p[1]>> : p \in found}
  IN  /\ rDist' = Append(rDist, both \cup (IF rDist = << >> THEN {} ELSE Last(rDist)))
      /\ notRDist' = notRDist \ found
      /\ sigma' = [p \in DOMAIN sigma |->
                     IF sigma[p] # EmptyTree THEN sigma[p]
                     ELSE IF p \in found THEN TreeFor(p[1], p[2], input(p))
                     ELSE IF p \in both THEN TreeFor(p[1], p[2], input(<<p[2], p[1]>>))
                     ELSE EmptyTree]
      /\ again' = (notRDist # {} /\ found # {})

CalcROneDistinguishable ==
  /\ rPhase = "one"
  /\ LET found == {p \in notRDist : \E x \in In : OutputIntersection(p[1], p[2], x) = {}}
         input(p) == Min({x \in In : OutputIntersection(p[1], p[2], x) = {}})
         both == found \cup {<<p[2], p[1]>> : p \in found}
     IN  /\ rDist' = <<both>>
         /\ notRDist' = notRDist \ found
         /\ sigma' = [p \in DOMAIN sigma |->
                        IF p \in found THEN TreeFor(p[1], p[2], input(p))
                        ELSE IF p \in both THEN TreeFor(p[1], p[2], input(<<p[2], p[1]>>))
                        ELSE EmptyTree]
  /\ rPhase' = "levels" /\ again' = TRUE
  /\ UNCHANGED <<rows, bfsLst, dReachTrace>>

limit == (numStates * (numStates - 1)) \div 2
MoreLevels == again /\ Len(rDist) < limit

CalcRLevel ==
  /\ rPhase = "levels" /\ MoreLevels
  /\ Level
  /\ UNCHANGED <<rows, rPhase, bfsLst, dReachTrace>>

(* Fsm::calcDReachableStates: the initial state is reached by no input *)
StartDReach ==
  /\ rPhase = "levels" /\ ~MoreLevels
  /\ rPhase' = "dreach"
  /\ bfsLst' = <<0>>
  /\ dReachTrace' = [dReachTrace EXCEPT ![0] = << >>]
  /\ UNCHANGED <<rows, rDist, notRDist, again, sigma>>

Successors(q, x) == {rows[q][<<x, y>>] : y \in PossibleOutputs(rows, q, x)}

(* a white state that is the only one reached by an input turns grey; the *)
(* states that do are queued in the order of the inputs                     *)
DReachStep ==
  /\ rPhase = "dreach" /\ bfsLst # << >>
  /\ LET q == Head(bfsLst)
         new == {t \in State : dReachTrace[t] = NoTrace /\ \E x \in In : Successors(q, x) = {t}}
         first(t) == Min({x \in In : Successors(q, x) = {t}})
     IN  /\ dReachTrace' = [t \in State |-> IF t \in new THEN Append(dReachTrace[q], first(t)) ELSE dReachTrace[t]]
         /\ \E s \in SetToSeqs(new) : /\ \A i, j \in DOMAIN s : i < j => first(s[i]) < first(s[j])
                                     /\ bfsLst' = Tail(bfsLst) \o s
  /\ UNCHANGED <<rows, rPhase, rDist, notRDist, again, sigma>>

EndDReach ==
  /\ rPhase = "dreach" /\ bfsLst = << >>
  /\ rPhase' = "done"
  /\ UNCHANGED <<rows, rDist, notRDist, again, sigma, bfsLst, dReachTrace>>

RNext == CalcROneDistinguishable \/ CalcRLevel \/ StartDReach \/ DReachStep \/ EndDReach

dReachableStates == {q \in State : dReachTrace[q] # NoTrace}
detStateCover == {dReachTrace[q] : q \in dReachableStates}

-----------------------------------------------------------------------------
(* Fsm::addPossibleIOTraces: what a state of fsm may answer to a test case. *)
(* The run ends where the tree has no edge for the output, or the state     *)
(* reached refuses the next input.                                          *)
PossibleIOTraces(fsm, q, tree) ==
  {w \in UNION {{Append(Front(io), <<Last(io)[1], y>>) : y \in Out} : io \in tree \ {<< >>}} :
     /\ After(fsm, q, w) >= 0
     /\ \A io \in tree : Len(io) = Len(w) + 1 /\ IsPrefix(w, io)
                        => PossibleOutputs(fsm, After(fsm, q, w), Last(io)[1]) = {}}

(* Fsm::rDistinguishes *)
rDistinguishes(q1, q2, tree) ==
  PossibleIOTraces(rows, q1, tree) \cap PossibleIOTraces(rows, q2, tree) = {}

(* Fsm::getMaximalSetsOfRDistinguishableStates: a set for each state that is *)
(* in none of the sets before, filled in the order of the states             *)
SetFor(q) ==
  FoldLeft(LAMBDA S, n : IF n # q /\ \A s \in S : RDistinguishable(n, s) THEN S \cup {n} ELSE S,
           {q}, [i \in 1 .. numStates |-> i - 1])
MaximalSets ==
  FoldLeft(LAMBDA R, q : IF q \in UNION R THEN R ELSE R \cup {SetFor(q)},
           {}, [i \in 1 .. numStates |-> i - 1])

-----------------------------------------------------------------------------
(* States with a common reduct: the largest relation that finds a common   *)
(* output for every input both define, leading to related states again.    *)
IsCompatible(R) ==
  \A p \in R :
    /\ DefinedInputs(rows, p[1]) = DefinedInputs(rows, p[2])
    /\ \A x \in DefinedInputs(rows, p[1]) : \E y \in OutputIntersection(p[1], p[2], x) :
            <<rows[p[1]][<<x, y>>], rows[p[2]][<<x, y>>]>> \in R
Compatible == UNION {R \in SUBSET (State \X State) : IsCompatible(R)}

(* the pairs of states the specification and fsm reach by the same I/O trace *)
ReachedPairs(fsm) ==
  LET Step(S) == S \cup
        {pr \in {<<rows[s[1]][l], fsm[s[2]][l]>> : s \in S, l \in IO} : pr[1] >= 0 /\ pr[2] >= 0}
      f[k \in Nat] == IF k = 0 THEN {<<0, 0>>} ELSE Step(f[k - 1])
  IN  f[numStates * Cardinality(DOMAIN fsm)]

IsComplete(fsm) == \A q \in DOMAIN fsm : DefinedInputs(fsm, q) = In

(* of the states an input trace may lead to *)
Reached(fsm, xs) ==
  FoldLeft(LAMBDA S, x : UNION {{fsm[s][<<x, y>>] : y \in PossibleOutputs(fsm, s, x)} : s \in S}, {0}, xs)

(* On a machine that defines every input in every state, r-distinguishing  *)
(* is a matter of outputs alone: calcRDistinguishableStates finds exactly   *)
(* the pairs of states that have no common reduct, and the adaptive test    *)
(* case stored for a pair tells its states apart.  On every machine a trace *)
(* of the deterministic state cover leads to its state whatever outputs are *)
(* chosen, so one response of the implementation stands for it.             *)
RDistExact ==
  /\ rPhase = "dreach" /\ IsComplete(rows) =>
       \A p \in State \X State :
         /\ RDistinguishable(p[1], p[2]) <=> p \notin Compatible
         /\ sigma[p] # EmptyTree <=> RDistinguishable(p[1], p[2])
         /\ sigma[p] # EmptyTree => rDistinguishes(p[1], p[2], sigma[p])
  /\ \A q \in dReachableStates : Reached(rows, dReachTrace[q]) = {q}
=============================================================================
