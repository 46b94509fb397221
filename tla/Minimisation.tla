---------------------------- MODULE Minimisation ----------------------------
(***************************************************************************)
(* A deterministic machine is an observable FSM, too: Fsm::minimise works  *)
(* on it with OFSM tables, Dfsm::minimise with P_k tables.  Here the same  *)
(* machine goes through one after the other.                               *)
(***************************************************************************)
EXTENDS OFSMTables

CONSTANTS Input, Output, Dfsms

ASSUME LabelAssumption == Label \subseteq Input \X Output

VARIABLES
  io, i2p,       \* the DFSM table of the machine
  tables, minDfsm,
  pkPc, i, pkThisClass, pkRefRow, pkThisNewClassId, pkp1, pkHaveNewClasses

pkVars == <<io, i2p, tables, minDfsm, pkPc, i, pkThisClass, pkRefRow,
            pkThisNewClassId, pkp1, pkHaveNewClasses>>

Pk == INSTANCE PkTables WITH
        pc <- pkPc, thisClass <- pkThisClass, refRow <- pkRefRow,
        thisNewClassId <- pkThisNewClassId, haveNewClasses <- pkHaveNewClasses

ASSUME PkAssumption == Pk!PkConstants

(* Fsm::toDFSMTable, read the other way round *)
RowsOf(outputs, posts) ==
  [q \in State |-> [l \in Label |-> IF outputs[q][l[1]] = l[2] THEN posts[q][l[1]] ELSE -1]]

(* Both algorithms start from the same machines, and Label has every label   *)
(* that one of them uses.                                                    *)
ASSUME RowsOfAssumption == {RowsOf(d.io, d.i2p) : d \in Dfsms} \subseteq Rows
ASSUME LabelsUsedAssumption ==
  \A d \in Dfsms : \A q \in State, x \in Input :
    d.io[q][x] # -1 => <<x, d.io[q][x]>> \in Label

MinInit ==
  /\ \E d \in Dfsms : io = d.io /\ i2p = d.i2p /\ rows = RowsOf(d.io, d.i2p)
  /\ StartTables /\ Pk!StartTables

MinimiseAsFsm == pc # "done" /\ Next /\ UNCHANGED pkVars
MinimiseAsDfsm == pc = "done" /\ Pk!Next /\ UNCHANGED vars

MinNext == MinimiseAsFsm \/ MinimiseAsDfsm

(* Two calls that are left running. *)
MinSpec == MinInit /\ [][MinNext]_<<vars, pkVars>> /\ WF_<<vars, pkVars>>(MinNext)

-----------------------------------------------------------------------------
(* Both machines read off the tables are equivalent to the original one and *)
(* minimal (Fsm.h: "minimal observable FSM which is equivalent to this      *)
(* FSM"; undefined inputs stay undefined).  The two algorithms, which       *)
(* number classes and compare rows in their own ways, need equally many     *)
(* tables and find the same states equivalent.                              *)
MinimisedCorrect ==
  /\ pkPc = "p1" => MinimisedIsEquivalent /\ MinimisedIsMinimal
  /\ Pk!MinimisedIsEquivalent /\ Pk!MinimisedIsMinimal
  /\ pkPc = "done" =>
       /\ Len(tables) = tblId
       /\ \A q, r \in State : s2c[q] = s2c[r] <=> Pk!s2c[q] = Pk!s2c[r]

(* Both calculations end: each further table has a new class. *)
BothTerminate == <>(pkPc = "done")

(* The P_k tables implement partition refinement as the OFSM tables do. *)
PkRefinesPartition == Pk!RefinesPartition
=============================================================================
