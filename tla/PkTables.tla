------------------------------ MODULE PkTables ------------------------------
(***************************************************************************)
(* Dfsm::calcPkTables, DFSMTable::getP1Table, PkTable::getPkPlusOneTable   *)
(* and PkTable::toFsm: the tables by which a deterministic FSM, completely *)
(* specified or not, is minimised (Dfsm::minimise).                        *)
(*                                                                         *)
(* The row of a state holds an output (ioSection) and a post-state (i2p)   *)
(* for every input, both -1 where the input is not defined.  One step is   *)
(* one round of the loop over the rows.                                    *)
(***************************************************************************)
EXTENDS Integers, Sequences

CONSTANTS
  numStates,   \* number of states and rows
  Input, Output,
  Dfsms,       \* the machines to start from: records of io and i2p
  InitStates   \* the indexes the initial state may have

State == 0 .. numStates - 1

IsDfsm(m) ==
  /\ m.io \in [State -> [Input -> Output \cup {-1}]]
  /\ m.i2p \in [State -> [Input -> State \cup {-1}]]
  /\ \A q \in State, x \in Input : m.io[q][x] = -1 <=> m.i2p[q][x] = -1

(* what the constants must satisfy, assumed where they get their values *)
PkConstants ==
  /\ numStates \in Nat \ {0}
  /\ Output \subseteq Nat
  /\ \A m \in Dfsms : IsDfsm(m)
  /\ InitStates \subseteq State

VARIABLES
  io,              \* DFSMTableRow::ioSection of every row
  i2p,             \* DFSMTableRow::i2postSection of every row
  initStateIdx,    \* Fsm::initStateIdx
  pc,              \* "p1", "pk" (getPkPlusOneTable), "toFsm", "done"
  tables,          \* Dfsm::pktblLst: the class maps of the finished tables
  i,               \* loop variable
  thisClass,       \* class being looked at; in getP1Table the next class number
  refRow,          \* reference row of thisClass, -1 for nullptr
  thisNewClassId,  \* next unused class number
  pkp1,            \* the classes of the table under construction, -1 where none yet
  haveNewClasses,
  minDfsm          \* io and i2p of the minimised DFSM

loopVars == <<i, thisClass, refRow, thisNewClassId, pkp1, haveNewClasses>>
vars == <<io, i2p, initStateIdx, pc, tables, loopVars, minDfsm>>

Unassigned == [q \in State |-> -1]
maxClassId(c) == CHOOSE k \in {c[q] : q \in State} : \A q \in State : c[q] <= k

(* the class map of the last table; before the first one, of no table *)
s2c == tables[Len(tables)]

(* Faulty variant: the post-states are compared, not their classes. *)
FaultyIsEquivalent(q1, q2) == i2p[q1] = i2p[q2]

isEquivalent(q1, q2) ==
  \A x \in Input :
    \/ i2p[q1][x] = -1 /\ i2p[q2][x] = -1
    \/ i2p[q1][x] # -1 /\ i2p[q2][x] # -1 /\ s2c[i2p[q1][x]] = s2c[i2p[q2][x]]

-----------------------------------------------------------------------------
StartTables ==
  /\ initStateIdx \in InitStates
  /\ pc = "p1"
  /\ tables = << >>
  /\ i = 0
  /\ thisClass = 0
  /\ refRow = -1
  /\ thisNewClassId = 0
  /\ pkp1 = Unassigned
  /\ haveNewClasses = FALSE
  /\ minDfsm = << >>

Init == (\E m \in Dfsms : io = m.io /\ i2p = m.i2p) /\ StartTables

(* getP1Table: rows with the same outputs for all inputs share a class *)
P1Row ==
  /\ pc = "p1"
  /\ i < numStates
  /\ i' = i + 1
  /\ IF pkp1[i] >= 0
     THEN UNCHANGED <<pkp1, thisClass>>
     ELSE /\ pkp1' = [j \in State |->
                        IF j = i \/ (j > i /\ pkp1[j] < 0 /\ io[i] = io[j])
                        THEN thisClass ELSE pkp1[j]]
          /\ thisClass' = thisClass + 1
  /\ UNCHANGED <<io, i2p, initStateIdx, pc, tables, refRow, thisNewClassId,
                 haveNewClasses, minDfsm>>

(* A finished table is put into the list and its successor started. *)
PushTable ==
  /\ tables' = Append(tables, pkp1)
  /\ pc' = "pk"
  /\ i' = 0
  /\ thisClass' = 0
  /\ refRow' = -1
  /\ thisNewClassId' = maxClassId(pkp1) + 1
  /\ pkp1' = Unassigned
  /\ haveNewClasses' = FALSE
  /\ UNCHANGED <<io, i2p, initStateIdx, minDfsm>>

P1Done ==
  /\ pc = "p1"
  /\ i = numStates
  /\ PushTable

Relevant ==
  /\ pc = "pk"
  /\ i < numStates
  /\ s2c[i] = thisClass
  /\ pkp1[i] < 0

Skip ==
  /\ pc = "pk"
  /\ i < numStates
  /\ s2c[i] # thisClass \/ pkp1[i] >= 0
  /\ i' = i + 1
  /\ UNCHANGED <<io, i2p, initStateIdx, pc, tables, thisClass, refRow, thisNewClassId,
                 pkp1, haveNewClasses, minDfsm>>

TakeReference ==
  /\ Relevant
  /\ refRow = -1
  /\ refRow' = i
  /\ pkp1' = [pkp1 EXCEPT ![i] = thisClass]
  /\ i' = i + 1
  /\ UNCHANGED <<io, i2p, initStateIdx, pc, tables, thisClass, thisNewClassId,
                 haveNewClasses, minDfsm>>

StayInClass ==
  /\ Relevant
  /\ refRow # -1
  /\ isEquivalent(refRow, i)
  /\ pkp1' = [pkp1 EXCEPT ![i] = thisClass]
  /\ i' = i + 1
  /\ UNCHANGED <<io, i2p, initStateIdx, pc, tables, thisClass, refRow, thisNewClassId,
                 haveNewClasses, minDfsm>>

OpenClass ==
  /\ Relevant
  /\ refRow # -1
  /\ ~isEquivalent(refRow, i)
  /\ haveNewClasses' = TRUE
  /\ pkp1' = [j \in State |->
                IF j = i \/ (j > i /\ s2c[j] = thisClass /\ pkp1[j] < 0 /\ isEquivalent(i, j))
                THEN thisNewClassId ELSE pkp1[j]]
  /\ thisNewClassId' = thisNewClassId + 1
  /\ i' = i + 1
  /\ UNCHANGED <<io, i2p, initStateIdx, pc, tables, thisClass, refRow, minDfsm>>

NextClass ==
  /\ pc = "pk"
  /\ i = numStates
  /\ refRow # -1
  /\ i' = 0
  /\ thisClass' = thisClass + 1
  /\ refRow' = -1
  /\ UNCHANGED <<io, i2p, initStateIdx, pc, tables, thisNewClassId, pkp1,
                 haveNewClasses, minDfsm>>

AllClassesSeen == pc = "pk" /\ i = numStates /\ refRow = -1

NextTable == AllClassesSeen /\ haveNewClasses /\ PushTable

LastTable ==
  /\ AllClassesSeen
  /\ ~haveNewClasses
  /\ pc' = "toFsm"
  /\ UNCHANGED <<io, i2p, initStateIdx, tables, loopVars, minDfsm>>

(* PkTable::toFsm; the initial state of the new Dfsm is the one at index 0 *)
Representative(c) ==
  CHOOSE q \in State : s2c[q] = c /\ \A r \in State : s2c[r] = c => q <= r

(* Faulty variant: an undefined input is taken for one with output 0 and target 0. *)
FaultyToFsm ==
  /\ pc = "toFsm"
  /\ pc' = "done"
  /\ LET classes == 0 .. maxClassId(s2c)
         Post(c, x) == i2p[Representative(c)][x]
     IN  minDfsm' =
           [io  |-> [c \in classes |-> [x \in Input |->
                       IF Post(c, x) < 0 THEN 0 ELSE io[Representative(c)][x]]],
            i2p |-> [c \in classes |-> [x \in Input |->
                       IF Post(c, x) < 0 THEN 0 ELSE s2c[Post(c, x)]]]]
  /\ UNCHANGED <<io, i2p, initStateIdx, tables, loopVars>>

ToFsm ==
  /\ pc = "toFsm"
  /\ pc' = "done"
  /\ LET classes == 0 .. maxClassId(s2c)
         Post(c, x) == i2p[Representative(c)][x]
     IN  minDfsm' =
           [io  |-> [c \in classes |-> [x \in Input |->
                       IF Post(c, x) < 0 THEN -1 ELSE io[Representative(c)][x]]],
            i2p |-> [c \in classes |-> [x \in Input |->
                       IF Post(c, x) < 0 THEN -1 ELSE s2c[Post(c, x)]]]]
  /\ UNCHANGED <<io, i2p, initStateIdx, tables, loopVars>>

MinInitStateIdx == 0

Done == pc = "done" /\ UNCHANGED vars

Next ==
  \/ P1Row \/ P1Done
  \/ Skip \/ TakeReference \/ StayInClass \/ OpenClass
  \/ NextClass \/ NextTable \/ LastTable
  \/ ToFsm \/ Done

Spec == Init /\ [][Next]_vars

-----------------------------------------------------------------------------
(* Two states of DFSMs give the same outputs for input traces of length k,  *)
(* up to the first undefined input, if they do so for each input in every   *)
(* pair of states reached by the same trace of fewer than k inputs.         *)
ReachedPairs(m1, q1, m2, q2, k) ==
  LET f[j \in 0 .. k] ==
        IF j = 0 THEN {<<q1, q2>>}
        ELSE f[j - 1] \cup
             {p \in {<<m1.i2p[p[1]][x], m2.i2p[p[2]][x]>> : p \in f[j - 1], x \in Input} : p[1] >= 0 /\ p[2] >= 0}
  IN  f[k]

SameOutputs(m1, q1, m2, q2, k) ==
  \A p \in ReachedPairs(m1, q1, m2, q2, k - 1) : \A x \in Input : m1.io[p[1]][x] = m2.io[p[2]][x]

This == [io |-> io, i2p |-> i2p]

TypeOK ==
  /\ IsDfsm(This)
  /\ initStateIdx \in InitStates
  /\ pc \in {"p1", "pk", "toFsm", "done"}
  /\ \A k \in DOMAIN tables : tables[k] \in [State -> State]
  /\ i \in 0 .. numStates
  /\ thisClass \in Nat
  /\ refRow \in State \cup {-1}
  /\ thisNewClassId \in Nat
  /\ pkp1 \in [State -> State \cup {-1}]
  /\ haveNewClasses \in BOOLEAN

(***************************************************************************)
(* Dfsm::minimise yields an equivalent machine, also where inputs are not  *)
(* defined (undefined inputs are undefined in the minimal machine).        *)
(***************************************************************************)
MinimisedIsEquivalent ==
  pc = "done" =>
    SameOutputs(This, initStateIdx, minDfsm, MinInitStateIdx, 2 * numStates - 1)

(* ... and minimal: different states give different outputs. *)
MinimisedIsMinimal ==
  pc = "done" =>
    \A c, d \in DOMAIN minDfsm.io :
      c # d => ~SameOutputs(minDfsm, c, minDfsm, d, numStates - 1)

(***************************************************************************)
(* The P_k-tables implement partition refinement on the machine read as an *)
(* observable FSM; P_1 is the first refinement.                            *)
(***************************************************************************)
PR == INSTANCE PartitionRefinement WITH
        None <- -1,
        Label <- Input \X Output,
        post <- [q \in State |-> [l \in Input \X Output |->
                   IF io[q][l[1]] = l[2] THEN i2p[q][l[1]] ELSE -1]],
        eq <- {pq \in State \X State : tables = << >> \/ s2c[pq[1]] = s2c[pq[2]]},
        stable <- pc \in {"toFsm", "done"}

RefinesPartition == PR!Spec
=============================================================================
