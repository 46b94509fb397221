----------------------------- MODULE OFSMTables -----------------------------
(***************************************************************************)
(* Fsm::calcOFSMTables and OFSMTable: the tables by which an observable    *)
(* FSM is minimised, and Fsm::minimiseObservableFSM, which reads the       *)
(* minimal FSM off the last table.                                         *)
(*                                                                         *)
(* A table maps the state ids 0 .. numStates - 1 to class numbers (s2c).   *)
(* The rows are the same for all tables.  One step looks at one state n    *)
(* (the body of the loop over n), so that the numbering of the classes,    *)
(* which the loop does as it goes, is part of the model.                   *)
(***************************************************************************)
EXTENDS Integers, Sequences

CONSTANTS
  numStates,   \* number of FSM states (and rows)
  Label,       \* input/output pairs x/y
  Rows,        \* the row vectors to start from: rows[n][l], -1 where undefined
  InitStates   \* the indexes the initial state may have

State == 0 .. numStates - 1

ASSUME NumStatesAssumption == numStates \in Nat \ {0}
ASSUME RowsAssumption == Rows \subseteq [State -> [Label -> State \cup {-1}]]
ASSUME InitStatesAssumption == InitStates \subseteq State

VARIABLES
  rows,            \* OFSMTable::rows
  initStateIdx,    \* Fsm::initStateIdx
  s2c,             \* the classes of the last finished table
  tblId,           \* number of that table
  pc,              \* "first" (nextAfterZero), "next" (next), "toFsm", "done"
  n,               \* loop variable
  thisClass,       \* class being looked at; in nextAfterZero the next class number
  refRow,          \* state whose row is the reference row of thisClass, -1 for nullptr
  thisNewClassId,  \* next unused class number
  newS2C,          \* the classes of the table under construction, -1 where none yet
  haveNewClasses,
  minRows          \* the rows of the minimised FSM, one per class

loopVars == <<n, thisClass, refRow, thisNewClassId, newS2C, haveNewClasses>>
vars == <<rows, initStateIdx, s2c, tblId, pc, loopVars, minRows>>

maxClassId(c) == CHOOSE k \in {c[i] : i \in State} : \A i \in State : c[i] <= k

ioEquals(i, j) == \A l \in Label : rows[i][l] >= 0 <=> rows[j][l] >= 0

(* Faulty variant: the post-states are compared, not their classes. *)
FaultyClassEquals(i, j) == \A l \in Label : rows[i][l] = rows[j][l]

classEquals(i, j) ==
  /\ ioEquals(i, j)
  /\ \A l \in Label : rows[i][l] >= 0 => s2c[rows[i][l]] = s2c[rows[j][l]]

Unassigned == [i \in State |-> -1]

-----------------------------------------------------------------------------
(* Table 0, and the entry into nextAfterZero *)
StartTables ==
  /\ initStateIdx \in InitStates
  /\ s2c = [i \in State |-> 0]
  /\ tblId = 0
  /\ pc = "first"
  /\ n = 0
  /\ thisClass = 0
  /\ refRow = -1
  /\ thisNewClassId = 0
  /\ newS2C = Unassigned
  /\ haveNewClasses = FALSE
  /\ minRows = << >>

Init == rows \in Rows /\ StartTables

(* nextAfterZero: a state without a class opens one and takes all later    *)
(* states with the same labels along.                                      *)
FirstTableState ==
  /\ pc = "first"
  /\ n < numStates
  /\ n' = n + 1
  /\ IF newS2C[n] >= 0
     THEN UNCHANGED <<newS2C, thisClass>>
     ELSE /\ newS2C' = [m \in State |-> IF m = n \/ (m > n /\ ioEquals(n, m))
                                        THEN thisClass ELSE newS2C[m]]
          /\ thisClass' = thisClass + 1
  /\ UNCHANGED <<rows, initStateIdx, s2c, tblId, pc, refRow, thisNewClassId,
                 haveNewClasses, minRows>>

(* Faulty variant: the first new class number is one too high. *)
FaultyStartNext(c) ==
  /\ s2c' = c
  /\ tblId' = tblId + 1
  /\ pc' = "next"
  /\ n' = 0
  /\ thisClass' = 0
  /\ refRow' = -1
  /\ thisNewClassId' = maxClassId(c) + 2
  /\ newS2C' = Unassigned
  /\ haveNewClasses' = FALSE
  /\ UNCHANGED <<rows, initStateIdx, minRows>>

(* A finished table is the start of the next one (the locals of next()). *)
StartNext(c) ==
  /\ s2c' = c
  /\ tblId' = tblId + 1
  /\ pc' = "next"
  /\ n' = 0
  /\ thisClass' = 0
  /\ refRow' = -1
  /\ thisNewClassId' = maxClassId(c) + 1
  /\ newS2C' = Unassigned
  /\ haveNewClasses' = FALSE
  /\ UNCHANGED <<rows, initStateIdx, minRows>>

FirstTableDone ==
  /\ pc = "first"
  /\ n = numStates
  /\ StartNext(newS2C)

-----------------------------------------------------------------------------
(* next(): the cases of the loop body for state n *)
(* Faulty variant: n is not incremented. *)
FaultySkip ==
  /\ pc = "next"
  /\ n < numStates
  /\ s2c[n] # thisClass \/ newS2C[n] >= 0
  /\ UNCHANGED vars

Skip ==
  /\ pc = "next"
  /\ n < numStates
  /\ s2c[n] # thisClass \/ newS2C[n] >= 0
  /\ n' = n + 1
  /\ UNCHANGED <<rows, initStateIdx, s2c, tblId, pc, thisClass, refRow, thisNewClassId,
                 newS2C, haveNewClasses, minRows>>

Relevant ==
  /\ pc = "next"
  /\ n < numStates
  /\ s2c[n] = thisClass
  /\ newS2C[n] < 0

(* The first state of thisClass keeps the class number. *)
TakeReference ==
  /\ Relevant
  /\ refRow = -1
  /\ refRow' = n
  /\ newS2C' = [newS2C EXCEPT ![n] = thisClass]
  /\ n' = n + 1
  /\ UNCHANGED <<rows, initStateIdx, s2c, tblId, pc, thisClass, thisNewClassId,
                 haveNewClasses, minRows>>

StayInClass ==
  /\ Relevant
  /\ refRow # -1
  /\ classEquals(refRow, n)
  /\ newS2C' = [newS2C EXCEPT ![n] = thisClass]
  /\ n' = n + 1
  /\ UNCHANGED <<rows, initStateIdx, s2c, tblId, pc, thisClass, refRow, thisNewClassId,
                 haveNewClasses, minRows>>

(* A state that differs from the reference opens a class, and takes the    *)
(* later states of thisClass that are equal to it along.                   *)
OpenClass ==
  /\ Relevant
  /\ refRow # -1
  /\ ~classEquals(refRow, n)
  /\ haveNewClasses' = TRUE
  /\ newS2C' = [m \in State |->
                  IF m = n \/ (m > n /\ s2c[m] = thisClass /\ classEquals(n, m))
                  THEN thisNewClassId ELSE newS2C[m]]
  /\ thisNewClassId' = thisNewClassId + 1
  /\ n' = n + 1
  /\ UNCHANGED <<rows, initStateIdx, s2c, tblId, pc, thisClass, refRow, minRows>>

(* end of the loop over n: next class, until a class has no reference row *)
NextClass ==
  /\ pc = "next"
  /\ n = numStates
  /\ refRow # -1
  /\ n' = 0
  /\ thisClass' = thisClass + 1
  /\ refRow' = -1
  /\ UNCHANGED <<rows, initStateIdx, s2c, tblId, pc, thisNewClassId, newS2C,
                 haveNewClasses, minRows>>

NextTable ==
  /\ pc = "next"
  /\ n = numStates
  /\ refRow = -1
  /\ haveNewClasses
  /\ StartNext(newS2C)

(* next() returns nullptr: the last table in the list is the final one *)
LastTable ==
  /\ pc = "next"
  /\ n = numStates
  /\ refRow = -1
  /\ ~haveNewClasses
  /\ pc' = "toFsm"
  /\ UNCHANGED <<rows, initStateIdx, s2c, tblId, loopVars, minRows>>

-----------------------------------------------------------------------------
(* OFSMTable::toFsm: one state per class, with the transitions of the first  *)
(* row of the class; the initial state of the new FSM is the one at index 0. *)
Representative(c) ==
  CHOOSE i \in State : s2c[i] = c /\ \A j \in State : s2c[j] = c => i <= j

ToFsm ==
  /\ pc = "toFsm"
  /\ pc' = "done"
  /\ minRows' = [c \in 0 .. maxClassId(s2c) |->
                   [l \in Label |-> LET t == rows[Representative(c)][l]
                                    IN  IF t >= 0 THEN s2c[t] ELSE -1]]
  /\ UNCHANGED <<rows, initStateIdx, s2c, tblId, loopVars>>

MinInitStateIdx == 0

Done == pc = "done" /\ UNCHANGED vars

Next ==
  \/ FirstTableState \/ FirstTableDone
  \/ Skip \/ TakeReference \/ StayInClass \/ OpenClass
  \/ NextClass \/ NextTable \/ LastTable
  \/ ToFsm \/ Done

Spec == Init /\ [][Next]_vars

-----------------------------------------------------------------------------
(* The pairs of states that two observable FSMs, given by their rows, reach *)
(* from q1 and q2 by the same trace of at most k labels; the two states     *)
(* have the same traces of length k + 1 if the FSMs can do the same labels  *)
(* in each such pair.                                                       *)
ReachedPairs(r1, q1, r2, q2, k) ==
  LET f[j \in 0 .. k] ==
        IF j = 0 THEN {<<q1, q2>>}
        ELSE f[j - 1] \cup
             {p \in {<<r1[p[1]][l], r2[p[2]][l]>> : p \in f[j - 1], l \in Label} : p[1] >= 0 /\ p[2] >= 0}
  IN  f[k]

SameLanguage(r1, q1, r2, q2, k) ==
  \A p \in ReachedPairs(r1, q1, r2, q2, k - 1) : \A l \in Label :
    r1[p[1]][l] >= 0 <=> r2[p[2]][l] >= 0

TypeOK ==
  /\ rows \in [State -> [Label -> State \cup {-1}]]
  /\ initStateIdx \in InitStates
  /\ s2c \in [State -> Nat]
  /\ tblId \in Nat
  /\ pc \in {"first", "next", "toFsm", "done"}
  /\ n \in 0 .. numStates
  /\ thisClass \in Nat
  /\ refRow \in State \cup {-1}
  /\ thisNewClassId \in Nat
  /\ newS2C \in [State -> Nat \cup {-1}]
  /\ haveNewClasses \in BOOLEAN

(***************************************************************************)
(* The classes of a table are numbered without gaps, so the loop of next() *)
(* that stops at the first empty class has seen all classes, and toFsm     *)
(* finds a row (a null pointer otherwise) for every class up to the        *)
(* maximum.                                                                *)
(***************************************************************************)
ClassesContiguous ==
  {s2c[i] : i \in State} = 0 .. maxClassId(s2c)

(***************************************************************************)
(* The minimised FSM is equivalent to the original one (Fsm.h: "minimal    *)
(* observable FSM which is equivalent to this FSM").                       *)
(***************************************************************************)
MinimisedIsEquivalent ==
  pc = "done" =>
    SameLanguage(rows, initStateIdx, minRows, MinInitStateIdx, 2 * numStates - 1)

(* ... and minimal: different states have different languages. *)
MinimisedIsMinimal ==
  pc = "done" =>
    \A c, d \in DOMAIN minRows :
      c # d => ~SameLanguage(minRows, c, minRows, d, numStates)

(***************************************************************************)
(* The tables implement partition refinement: a finished table is one      *)
(* Refine step, a null pointer from next() the Finish step, and everything *)
(* the loops do in between is invisible.                                   *)
(***************************************************************************)
PR == INSTANCE PartitionRefinement WITH
        None <- -1,
        post <- rows,
        eq <- {pq \in State \X State : s2c[pq[1]] = s2c[pq[2]]},
        stable <- pc \in {"toFsm", "done"}

RefinesPartition == PR!Spec
=============================================================================
