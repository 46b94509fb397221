------------------------ MODULE CharacterisationSet ------------------------
(***************************************************************************)
(* Fsm::getCharacterisationSet for an observable, minimal FSM, with the    *)
(* distinguishing traces read off the OFSM tables                          *)
(* (FsmNode::calcDistinguishingTrace), and the state identification sets   *)
(* that are selected from it (calcStateIdentificationSets and its Fast     *)
(* variant).                                                               *)
(*                                                                         *)
(* How the tables are computed is the subject of OFSMTables; here a table  *)
(* is the relation "not separated".  A tree of input traces is the set of  *)
(* its maximal traces, which is all that Tree::getIOLists returns.         *)
(***************************************************************************)
EXTENDS Integers, Sequences, SequencesExt, FiniteSets, FiniteSetsExt, MinHittingSets

CONSTANTS
  numStates,   \* number of FSM states
  maxInput,    \* inputs are 0 .. maxInput
  maxOutput,   \* outputs are 0 .. maxOutput
  Rows         \* the FSMs to start from: rows[q][<<x, y>>] is the post-state or -1

State == 0 .. numStates - 1
Input == 0 .. maxInput
Output == 0 .. maxOutput
Label == Input \X Output

ASSUME NumStatesAssumption == numStates \in Nat \ {0}
ASSUME AlphabetAssumption == maxInput \in Nat /\ maxOutput \in Nat
ASSUME RowsAssumption == Rows \subseteq [State -> [Label -> State \cup {-1}]]

VARIABLES
  rows,            \* the FSM
  ofsmTableLst,    \* Fsm::ofsmTableLst: function from 0 .. last to relations
  pc,              \* "tables", "pairs", "sets", "fast", "done"
  left, right,     \* the pair of states looked at
  w,               \* Fsm::characterisationSet, as its maximal traces
  todo,            \* traces of w the fast variant has not tried for state left
  distinguish,     \* pairs {i, j} the fast variant has a trace for
  identification   \* Fsm::stateIdentificationSets

vars == <<rows, ofsmTableLst, pc, left, right, w, todo, distinguish, identification>>

-----------------------------------------------------------------------------
(* the relation of the next OFSM table *)
Refined(E) ==
  {pq \in E : \A l \in Label :
     /\ rows[pq[1]][l] >= 0 <=> rows[pq[2]][l] >= 0
     /\ rows[pq[1]][l] >= 0 => <<rows[pq[1]][l], rows[pq[2]][l]>> \in E}

(* table k, if the list of tables is continued as long as one likes *)
Table[k \in 0 .. numStates] ==
  IF k = 0 THEN State \X State ELSE Refined(Table[k - 1])

(* a second table is always computed, a further one if it separates more *)
LastTable ==
  CHOOSE k \in 1 .. numStates :
    /\ Refined(Table[k]) = Table[k]
    /\ \A m \in 1 .. k - 1 : Refined(Table[m]) # Table[m]

(* FsmNode::apply: a leaf whose state refuses the input stays a leaf, and the *)
(* next input is tried on it.  The result is the set of output traces that    *)
(* operator== of OutputTree compares.                                         *)
Outputs(q, itrc) ==
  LET Grow(leaf, x) ==
        LET ys == {y \in Output : rows[leaf[2]][<<x, y>>] >= 0}
        IN  IF ys = {} THEN {leaf}
            ELSE {<<Append(leaf[1], y), rows[leaf[2]][<<x, y>>]>> : y \in ys}
      leaves == FoldLeft(LAMBDA ls, x : UNION {Grow(lf, x) : lf \in ls},
                         {<< << >>, q >>}, itrc)
  IN  {lf[1] : lf \in leaves}

Distinguished(p, q, itrc) == Outputs(p, itrc) # Outputs(q, itrc)

DistinguishedBy(p, q, traces) == \E itrc \in traces : Distinguished(p, q, itrc)

(* Tree::addToRoot: only maximal traces can be seen again *)
AddToRoot(tree, itrc) ==
  {t \in tree \cup {itrc} : \A s \in tree \cup {itrc} : IsPrefix(t, s) => t = s}

-----------------------------------------------------------------------------
(* FsmNode::calcDistinguishingTrace on OFSM tables *)
FirstSeparating(p, q) ==
  LET last == Max(DOMAIN ofsmTableLst)
      ls == {l \in 1 .. last : <<p, q>> \notin ofsmTableLst[l]}
  IN  IF ls = {} THEN last + 1 ELSE Min(ls)

(* Faulty variant: the second state is not moved on. *)
FaultyTakeInput(c, t, x) ==
  LET ys == {y \in Output : /\ rows[c.q1][<<x, y>>] >= 0
                            /\ rows[c.q2][<<x, y>>] >= 0
                            /\ <<rows[c.q1][<<x, y>>], rows[c.q2][<<x, y>>]>>
                                 \notin ofsmTableLst[t]}
  IN  IF ys = {} THEN c
      ELSE [c EXCEPT !.q1 = rows[c.q1][<<x, Min(ys)>>], !.itrc = Append(c.itrc, x)]

(* One round of the loop over x: the first y under which both states have  *)
(* post-states that table t separates is taken.  The break leaves only the *)
(* loop over y, so one table may move the pair for several inputs.         *)
TakeInput(c, t, x) ==
  LET ys == {y \in Output : /\ rows[c.q1][<<x, y>>] >= 0
                            /\ rows[c.q2][<<x, y>>] >= 0
                            /\ <<rows[c.q1][<<x, y>>], rows[c.q2][<<x, y>>]>>
                                 \notin ofsmTableLst[t]}
      l == <<x, Min(ys)>>
  IN  IF ys = {} THEN c
      ELSE [q1 |-> rows[c.q1][l], q2 |-> rows[c.q2][l], itrc |-> Append(c.itrc, x)]

(* tables l - 1, ..., 1, and all inputs in order for each *)
Rounds(l) ==
  [i \in 1 .. (l - 1) * (maxInput + 1) |->
     [t |-> l - 1 - (i - 1) \div (maxInput + 1), x |-> (i - 1) % (maxInput + 1)]]

calcDistinguishingTrace(p, q) ==
  LET c == FoldLeft(LAMBDA d, r : TakeInput(d, r.t, r.x),
                    [q1 |-> p, q2 |-> q, itrc |-> << >>], Rounds(FirstSeparating(p, q)))
      xs == {x \in Input : \E y \in Output :
               (rows[c.q1][<<x, y>>] >= 0) # (rows[c.q2][<<x, y>>] >= 0)}
  IN  IF xs = {} THEN c.itrc ELSE Append(c.itrc, Min(xs))

-----------------------------------------------------------------------------
(* \pre of getCharacterisationSet: the FSM is minimal *)
Init ==
  /\ rows \in Rows
  /\ Table[numStates] = {<<q, q>> : q \in State}
  /\ ofsmTableLst = << >>
  /\ pc = "tables"
  /\ left = 0
  /\ right = 1
  /\ w = {<< >>}
  /\ todo = {}
  /\ distinguish = {}
  /\ identification = [q \in State |-> {}]

CalcOFSMTables ==
  /\ pc = "tables"
  /\ ofsmTableLst' = [k \in 0 .. LastTable |-> Table[k]]
  /\ pc' = "pairs"
  /\ UNCHANGED <<rows, left, right, w, todo, distinguish, identification>>

NextPair ==
  IF right + 1 < numStates
  THEN left' = left /\ right' = right + 1
  ELSE left' = left + 1 /\ right' = left + 2

SkipPair ==
  /\ pc = "pairs"
  /\ right < numStates
  /\ DistinguishedBy(left, right, w)
  /\ NextPair
  /\ UNCHANGED <<rows, ofsmTableLst, pc, w, todo, distinguish, identification>>

AddTrace ==
  /\ pc = "pairs"
  /\ right < numStates
  /\ ~DistinguishedBy(left, right, w)
  /\ w' = AddToRoot(w, calcDistinguishingTrace(left, right))
  /\ NextPair
  /\ UNCHANGED <<rows, ofsmTableLst, pc, todo, distinguish, identification>>

(* getCharacterisationSet returns; one of the two calculations follows *)
PairsDone ==
  /\ pc = "pairs"
  /\ right >= numStates
  /\ pc' \in {"sets", "fast"}
  /\ left' = 0
  /\ todo' = w
  /\ UNCHANGED <<rows, ofsmTableLst, right, w, distinguish, identification>>

-----------------------------------------------------------------------------
(* calcStateIdentificationSets: the loop body for state left.  What        *)
(* calcMinCardHittingSet answers is the subject of HittingSet.             *)
SelectSet ==
  /\ pc = "sets"
  /\ left < numStates
  /\ \E h \in MinHittingSets({{t \in w : Distinguished(left, j, t)} : j \in State \ {left}}) :
       identification' = [identification EXCEPT ![left] = h]
  /\ left' = left + 1
  /\ UNCHANGED <<rows, ofsmTableLst, pc, right, w, todo, distinguish>>

(* Faulty variant: goes on to the next state when any state was distinguished. *)
FaultyTryTrace ==
  /\ pc = "fast"
  /\ left < numStates
  /\ \E t \in todo :
       LET open == {j \in State : j > left /\ {left, j} \notin distinguish}
           new == {j \in open : Distinguished(left, j, t)}
       IN  /\ distinguish' = distinguish \cup {{left, j} : j \in new}
           /\ identification' = [q \in State |->
                IF q \in new \/ (q = left /\ new # {}) THEN identification[q] \cup {t}
                ELSE identification[q]]
           /\ IF new # {} \/ todo = {t}
              THEN left' = left + 1 /\ todo' = w
              ELSE left' = left /\ todo' = todo \ {t}
  /\ UNCHANGED <<rows, ofsmTableLst, pc, right, w>>

(* calcStateIdentificationSetsFast: state left and one trace of w.  (The   *)
(* code takes the traces in the order of the tree; any order is allowed    *)
(* here.)                                                                  *)
TryTrace ==
  /\ pc = "fast"
  /\ left < numStates
  /\ \E t \in todo :
       LET open == {j \in State : j > left /\ {left, j} \notin distinguish}
           new == {j \in open : Distinguished(left, j, t)}
           complete == new = open
       IN  /\ distinguish' = distinguish \cup {{left, j} : j \in new}
           /\ identification' = [q \in State |->
                IF q \in new \/ (q = left /\ new # {}) THEN identification[q] \cup {t}
                ELSE identification[q]]
           /\ IF complete \/ todo = {t}
              THEN left' = left + 1 /\ todo' = w
              ELSE left' = left /\ todo' = todo \ {t}
  /\ UNCHANGED <<rows, ofsmTableLst, pc, right, w>>

SetsDone ==
  /\ pc \in {"sets", "fast"}
  /\ left = numStates
  /\ pc' = "done"
  /\ UNCHANGED <<rows, ofsmTableLst, left, right, w, todo, distinguish, identification>>

Done == pc = "done" /\ UNCHANGED vars

Next ==
  \/ CalcOFSMTables \/ SkipPair \/ AddTrace \/ PairsDone
  \/ SelectSet \/ TryTrace \/ SetsDone \/ Done

Spec == Init /\ [][Next]_vars

-----------------------------------------------------------------------------
(***************************************************************************)
(* The trace read off the tables distinguishes the two states, also when   *)
(* the FSM is partial or nondeterministic, and although the search moves   *)
(* on to further inputs after a hit.                                       *)
(***************************************************************************)
TracesDistinguish ==
  pc = "pairs" =>
    \A p, q \in State : p # q => Distinguished(p, q, calcDistinguishingTrace(p, q))

(***************************************************************************)
(* In a completely specified FSM, a pair of states that the loop of        *)
(* getCharacterisationSet has passed is distinguished by w, and stays so   *)
(* when later pairs extend the traces of the tree.                         *)
(***************************************************************************)
CompletelySpecified == \A q \in State, x \in Input : \E y \in Output : rows[q][<<x, y>>] >= 0

PassedPairsDistinguished ==
  CompletelySpecified => \A p, q \in State :
    p < q /\ (p < left \/ (p = left /\ q < right) \/ pc \notin {"tables", "pairs"}) =>
      DistinguishedBy(p, q, w)

(* A pair is distinguished when it is met and remains so to the end. *)
PairsDistinguished == TracesDistinguish /\ PassedPairsDistinguished

(***************************************************************************)
(* The identification set of a state of a completely specified FSM         *)
(* distinguishes it from all others, whichever way it was selected.        *)
(***************************************************************************)
SetsIdentify ==
  pc = "done" /\ CompletelySpecified =>
    \A p, q \in State : p # q => DistinguishedBy(p, q, identification[p])
=============================================================================
