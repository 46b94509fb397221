------------------------ MODULE Minimisation_proofs ------------------------
(***************************************************************************)
(* Proofs about Minimisation, for every deterministic machine: both ways   *)
(* of minimising it yield equivalent, minimal machines, and agree.         *)
(*                                                                         *)
(* The P_k tables are read as OFSM tables (OT): every step of PkTables is  *)
(* the corresponding step of OFSMTables (PkSimulation), because states     *)
(* with different outputs never share a class, and the invariants of       *)
(* OFSMTables_proofs hold of them.  What they say of languages of rows is  *)
(* carried over to the outputs of deterministic machines.                  *)
(***************************************************************************)
EXTENDS Minimisation, OFSMTables_proofs

(* the last P_k table and the loops over it, read as an OFSM table *)
PkClasses == IF tables = << >> THEN [q \in State |-> 0] ELSE Pk!s2c

PkPhase == IF pkPc = "p1" THEN "first" ELSE IF pkPc = "pk" THEN "next" ELSE pkPc

PkRows ==
  IF pkPc # "done" THEN << >>
  ELSE [c \in DOMAIN minDfsm.io |->
         [l \in Label |-> IF minDfsm.io[c][l[1]] = l[2] THEN minDfsm.i2p[c][l[1]] ELSE -1]]

OT == INSTANCE OFSMTables_proofs WITH
        s2c <- PkClasses, tblId <- Len(tables), pc <- PkPhase, n <- i, thisClass <- pkThisClass,
        refRow <- pkRefRow, thisNewClassId <- pkThisNewClassId, newS2C <- pkp1,
        haveNewClasses <- pkHaveNewClasses, minRows <- PkRows

Machine ==
  /\ Pk!IsDfsm(Pk!This)
  /\ rows = RowsOf(io, i2p)
  /\ \A q \in State, x \in Input : io[q][x] # -1 => <<x, io[q][x]>> \in Label

TableList ==
  /\ pkPc \in {"p1", "pk", "toFsm", "done"}
  /\ tables \in Seq([State -> Nat])
  /\ pkPc = "p1" <=> tables = << >>

PkMinimal ==
  pkPc = "done" =>
    LET classes == 0 .. Pk!maxClassId(Pk!s2c)
        Post(c, x) == i2p[Pk!Representative(c)][x]
    IN  minDfsm =
          [io  |-> [c \in classes |-> [x \in Input |->
                      IF Post(c, x) < 0 THEN -1 ELSE io[Pk!Representative(c)][x]]],
           i2p |-> [c \in classes |-> [x \in Input |->
                      IF Post(c, x) < 0 THEN -1 ELSE Pk!s2c[Post(c, x)]]]]

PkInv == Machine /\ TableList /\ OT!IInv /\ OT!LanguageInv

-----------------------------------------------------------------------------
LEMMA SameStates ==
  /\ Pk!State = State
  /\ OT!State = State
  /\ Pk!Unassigned = [q \in State |-> -1]
  /\ OT!Unassigned = [q \in State |-> -1]
BY DEF Pk!State, OT!State, State, Pk!Unassigned, OT!Unassigned

LEMMA NegativeIsNone ==
  \A q \in State \cup {-1} : (q < 0 <=> q = -1) /\ (q # -1 => q \in State /\ q >= 0)
BY StateFacts

LEMMA MachineFacts ==
  ASSUME Machine
  PROVE  /\ io \in [State -> [Input -> Output \cup {-1}]]
         /\ i2p \in [State -> [Input -> State \cup {-1}]]
         /\ \A q \in State, x \in Input : io[q][x] = -1 <=> i2p[q][x] = -1
         /\ \A l \in Label : l[1] \in Input /\ l[2] \in Output /\ l = <<l[1], l[2]>>
         /\ Output \subseteq Nat
<1>1. /\ io \in [State -> [Input -> Output \cup {-1}]]
      /\ i2p \in [State -> [Input -> State \cup {-1}]]
      /\ \A q \in State, x \in Input : io[q][x] = -1 <=> i2p[q][x] = -1
  BY SameStates DEF Machine, Pk!IsDfsm, Pk!This
<1>2. \A l \in Label : l[1] \in Input /\ l[2] \in Output /\ l = <<l[1], l[2]>>
  BY LabelAssumption
<1>3. Output \subseteq Nat
  BY PkAssumption DEF Pk!PkConstants
<1> QED BY <1>1, <1>2, <1>3

(* the rows of the deterministic machine *)
LEMMA MachineRows ==
  ASSUME Machine, NEW q \in State, NEW l \in Label
  PROVE  /\ rows[q][l] = IF io[q][l[1]] = l[2] THEN i2p[q][l[1]] ELSE -1
         /\ rows[q][l] >= 0 <=> io[q][l[1]] = l[2]
         /\ i2p[q][l[1]] \in State \cup {-1}
<1>1. rows[q][l] = IF io[q][l[1]] = l[2] THEN i2p[q][l[1]] ELSE -1
  BY DEF Machine, RowsOf
<1>2. l[1] \in Input /\ l[2] \in Nat
  BY MachineFacts
<1>3. i2p[q][l[1]] \in State \cup {-1} /\ (io[q][l[1]] = -1 <=> i2p[q][l[1]] = -1)
  BY <1>2, MachineFacts
<1>4. CASE io[q][l[1]] = l[2]
  <2>1. i2p[q][l[1]] \in State
    BY <1>2, <1>3, <1>4
  <2>2. i2p[q][l[1]] >= 0
    BY <2>1, StateFacts
  <2> QED BY <1>1, <1>3, <1>4, <2>2
<1>5. CASE io[q][l[1]] # l[2]
  BY <1>1, <1>3, <1>5
<1> QED BY <1>4, <1>5

LEMMA SameOutputsIsIoEquals ==
  ASSUME Machine, NEW p \in State, NEW q \in State
  PROVE  OT!ioEquals(p, q) <=> io[p] = io[q]
<1>1. ASSUME io[p] = io[q] PROVE OT!ioEquals(p, q)
  BY <1>1, MachineRows DEF OT!ioEquals
<1>2. ASSUME OT!ioEquals(p, q), NEW x \in Input PROVE io[p][x] = io[q][x]
  <2>1. \A l \in Label : io[p][l[1]] = l[2] <=> io[q][l[1]] = l[2]
    BY <1>2, MachineRows DEF OT!ioEquals
  <2>2. CASE io[p][x] # -1
    <3> DEFINE l == <<x, io[p][x]>>
    <3>1. l \in Label /\ l[1] = x /\ l[2] = io[p][x]
      BY <2>2 DEF Machine
    <3> QED BY <2>1, <3>1
  <2>3. CASE io[q][x] # -1
    <3> DEFINE l == <<x, io[q][x]>>
    <3>1. l \in Label /\ l[1] = x /\ l[2] = io[q][x]
      BY <2>3 DEF Machine
    <3> QED BY <2>1, <3>1
  <2> QED BY <2>2, <2>3
<1>3. io[p] \in [Input -> Output \cup {-1}] /\ io[q] \in [Input -> Output \cup {-1}]
  BY MachineFacts
<1> QED BY <1>1, <1>2, <1>3

LEMMA SameSuccessorsIsClassEquals ==
  ASSUME Machine, tables # << >>, NEW p \in State, NEW q \in State, io[p] = io[q]
  PROVE  Pk!isEquivalent(p, q) <=> OT!classEquals(p, q)
<1> DEFINE c == Pk!s2c
<1>1. PkClasses = c
  BY DEF PkClasses
<1>2. OT!classEquals(p, q) <=> \A l \in Label : rows[p][l] >= 0 => c[rows[p][l]] = c[rows[q][l]]
  BY <1>1, SameOutputsIsIoEquals DEF OT!classEquals
<1>3. Pk!isEquivalent(p, q) <=>
        \A x \in Input :
          \/ i2p[p][x] = -1 /\ i2p[q][x] = -1
          \/ i2p[p][x] # -1 /\ i2p[q][x] # -1 /\ c[i2p[p][x]] = c[i2p[q][x]]
  BY DEF Pk!isEquivalent
<1> HIDE DEF c
<1>4. \A x \in Input : io[p][x] = io[q][x] /\ (i2p[p][x] = -1 <=> io[p][x] = -1)
                                          /\ (i2p[q][x] = -1 <=> io[p][x] = -1)
  BY MachineFacts
<1>5. ASSUME Pk!isEquivalent(p, q), NEW l \in Label, rows[p][l] >= 0
      PROVE  c[rows[p][l]] = c[rows[q][l]]
  <2>1. l[1] \in Input /\ l[2] \in Nat
    BY MachineFacts
  <2>2. io[p][l[1]] = l[2] /\ rows[p][l] = i2p[p][l[1]] /\ rows[q][l] = i2p[q][l[1]]
    BY <1>4, <1>5, <2>1, MachineRows
  <2>3. i2p[p][l[1]] # -1
    BY <1>4, <2>1, <2>2
  <2> QED BY <1>3, <1>5, <2>1, <2>2, <2>3
<1>6. ASSUME OT!classEquals(p, q), NEW x \in Input, io[p][x] # -1
      PROVE  c[i2p[p][x]] = c[i2p[q][x]]
  <2> DEFINE l == <<x, io[p][x]>>
  <2>1. l \in Label /\ l[1] = x /\ l[2] = io[p][x]
    BY <1>6 DEF Machine
  <2>2. rows[p][l] >= 0 /\ rows[p][l] = i2p[p][x] /\ rows[q][l] = i2p[q][x]
    BY <1>4, <2>1, MachineRows
  <2> QED BY <1>2, <1>6, <2>1, <2>2
<1> QED BY <1>2, <1>3, <1>4, <1>5, <1>6

(* the same class of a P_k table: the same outputs *)
LEMMA SameClassSameOutputs ==
  ASSUME PkInv, tables # << >>, NEW p \in State, NEW q \in State, PkClasses[p] = PkClasses[q]
  PROVE  io[p] = io[q]
<1>1. PkPhase # "first"
  BY DEF PkInv, TableList, PkPhase
<1>2. Len(tables) \in Nat \ {0} /\ OT!SameLanguage(rows, p, rows, q, Len(tables))
  BY <1>1, SameStates DEF PkInv, OT!LanguageInv, OT!TableLanguage
<1>3. SameLanguage(rows, p, rows, q, Len(tables))
  BY <1>2 DEF OT!SameLanguage, SameLanguage, OT!ReachedPairs, ReachedPairs
<1>4. SameLanguage(rows, p, rows, q, 1)
  <2>1. 1 \in Nat \ {0} /\ Len(tables) \in Nat /\ 1 <= Len(tables)
    BY <1>2
  <2> QED BY <1>3, <2>1, LanguageMonotone
<1>5. SameLabels(rows, p, rows, q)
  BY <1>4, LanguageOne
<1> QED BY <1>5, SameOutputsIsIoEquals DEF PkInv, SameLabels, OT!ioEquals

-----------------------------------------------------------------------------
(* Every step of the P_k tables is the corresponding step of OFSM tables.   *)
LEMMA P1RowStep ==
  ASSUME PkInv, Pk!P1Row, UNCHANGED vars
  PROVE  OT!FirstTableState
<1> USE DEF Pk!P1Row
<1>1. Machine /\ OT!FirstLoop /\ OT!TypeOK /\ i \in State
  BY NumStatesAssumption, SameStates DEF PkInv, OT!IInv, OT!TypeOK, State
<1>2. PkPhase = "first" /\ PkPhase' = PkPhase /\ UNCHANGED <<PkClasses, Len(tables), PkRows>>
  BY DEF PkPhase, PkClasses, PkRows, Pk!s2c
<1>3. CASE pkp1[i] >= 0
  BY <1>2, <1>3 DEF OT!FirstTableState, vars, loopVars
<1>4. CASE ~(pkp1[i] >= 0)
  <2>1. \A j \in State : io[i] = io[j] <=> OT!ioEquals(i, j)
    BY <1>1, SameOutputsIsIoEquals
  <2>2. \A j \in State : OT!ioEquals(i, j) => pkp1[j] < 0
    <3> SUFFICES ASSUME NEW j \in State, OT!ioEquals(i, j), ~(pkp1[j] < 0) PROVE FALSE
      OBVIOUS
    <3>1. pkp1[j] \in Nat \cup {-1} /\ pkp1[i] \in Nat \cup {-1}
      BY <1>1, SameStates DEF OT!TypeOK
    <3>2. pkp1[j] >= 0
      BY <3>1
    <3>3. OT!ioEquals(j, i)
      BY <1>1, SameOutputsIsIoEquals
    <3>4. pkp1[j] = pkp1[i]
      BY <1>1, <1>2, <3>2, <3>3, SameStates DEF OT!FirstLoop
    <3> QED BY <1>4, <3>2, <3>4
  <2>3. pkp1' = [m \in State |-> IF m = i \/ (m > i /\ OT!ioEquals(i, m)) THEN pkThisClass ELSE pkp1[m]]
    BY <1>4, <2>1, <2>2, SameStates
  <2> QED BY <1>2, <1>4, <2>3, SameStates DEF OT!FirstTableState, vars, loopVars
<1> QED BY <1>3, <1>4

(* A pushed table is a finished one. *)
LEMMA PushStep ==
  ASSUME PkInv, Pk!PushTable, pkp1 \in [State -> Nat], UNCHANGED vars, pkPc # "done"
  PROVE  OT!StartNext(pkp1)
<1> USE DEF Pk!PushTable
<1>1. Len(tables) \in Nat /\ tables' # << >> /\ Len(tables') = Len(tables) + 1 /\ tables'[Len(tables')] = pkp1
  BY DEF PkInv, TableList
<1>2. PkClasses' = pkp1
  BY <1>1 DEF PkClasses, Pk!s2c
<1>3. PkPhase' = "next"
  BY DEF PkPhase
<1>4. PkRows' = PkRows
  BY DEF PkRows
<1>5. OT!maxClassId(pkp1) = Pk!maxClassId(pkp1)
  BY SameStates DEF OT!maxClassId, Pk!maxClassId
<1> QED BY <1>1, <1>2, <1>3, <1>4, <1>5, SameStates DEF OT!StartNext, vars

LEMMA P1DoneStep ==
  ASSUME PkInv, Pk!P1Done, UNCHANGED vars
  PROVE  OT!FirstTableDone /\ pkp1 \in [State -> Nat]
<1> USE DEF Pk!P1Done
<1>1. PkPhase = "first" /\ OT!FirstLoop /\ OT!TypeOK
  BY DEF PkInv, OT!IInv, PkPhase
<1>2. pkp1 \in [State -> Nat]
  <2>1. pkp1 \in [State -> Nat \cup {-1}]
    BY <1>1, SameStates DEF OT!TypeOK
  <2>2. \A q \in State : pkp1[q] >= 0
    BY <1>1, SameStates, StateFacts DEF OT!FirstLoop
  <2> QED BY <2>1, <2>2
<1>3. OT!StartNext(pkp1)
  BY <1>2, PushStep
<1> QED BY <1>1, <1>2, <1>3 DEF OT!FirstTableDone

(* what the loops of getPkPlusOneTable leave alone *)
LEMMA LoopUnchanged ==
  ASSUME pkPc = "pk", pkPc' = "pk", UNCHANGED <<tables, vars>>
  PROVE  PkPhase = "next" /\ PkPhase' = "next" /\ UNCHANGED <<PkClasses, Len(tables), PkRows, rows, initStateIdx>>
BY DEF PkPhase, PkClasses, PkRows, Pk!s2c, vars

LEMMA PkClassesIsLast ==
  ASSUME PkInv, pkPc # "p1"
  PROVE  tables # << >> /\ PkClasses = Pk!s2c
BY DEF PkInv, TableList, PkClasses

LEMMA SkipPkStep ==
  ASSUME PkInv, Pk!Skip, UNCHANGED vars
  PROVE  OT!Skip
BY LoopUnchanged, PkClassesIsLast DEF Pk!Skip, OT!Skip

LEMMA RelevantPk ==
  ASSUME PkInv, Pk!Relevant
  PROVE  OT!Relevant /\ i \in State /\ PkClasses = Pk!s2c /\ tables # << >> /\ pkPc = "pk" /\ PkPhase = "next"
<1> USE DEF Pk!Relevant
<1>1. i \in State
  BY NumStatesAssumption, SameStates DEF PkInv, OT!IInv, OT!TypeOK, State
<1>2. PkPhase = "next"
  BY DEF PkPhase
<1> QED BY <1>1, <1>2, PkClassesIsLast DEF OT!Relevant

LEMMA TakeReferencePkStep ==
  ASSUME PkInv, Pk!TakeReference, UNCHANGED vars
  PROVE  OT!TakeReference
BY RelevantPk, LoopUnchanged DEF Pk!TakeReference, OT!TakeReference

(* the reference row and the row looked at are in the same class *)
LEMMA ReferencePk ==
  ASSUME PkInv, Pk!Relevant, pkRefRow # -1
  PROVE  /\ pkRefRow \in State
         /\ Pk!isEquivalent(pkRefRow, i) <=> OT!classEquals(pkRefRow, i)
<1>1. OT!Reference /\ OT!TypeOK
  BY RelevantPk DEF PkInv, OT!IInv, OT!NextLoop
<1>2. pkRefRow \in State /\ PkClasses[pkRefRow] = pkThisClass
  BY <1>1, SameStates DEF OT!Reference, OT!TypeOK
<1>3. PkClasses[i] = pkThisClass
  BY RelevantPk DEF OT!Relevant
<1>4. io[pkRefRow] = io[i]
  BY <1>2, <1>3, RelevantPk, SameClassSameOutputs
<1> QED BY <1>2, <1>4, RelevantPk, SameSuccessorsIsClassEquals DEF PkInv

LEMMA StayInClassPkStep ==
  ASSUME PkInv, Pk!StayInClass, UNCHANGED vars
  PROVE  OT!StayInClass
BY RelevantPk, ReferencePk, LoopUnchanged DEF Pk!StayInClass, OT!StayInClass

(* The states that OpenClass takes along have no class yet. *)
LEMMA OpenClassPkStep ==
  ASSUME PkInv, Pk!OpenClass, UNCHANGED vars
  PROVE  OT!OpenClass
<1> USE DEF Pk!OpenClass
<1>1. OT!Relevant /\ i \in State /\ PkClasses = Pk!s2c /\ tables # << >> /\ pkPc = "pk" /\ PkPhase = "next"
  BY RelevantPk
<1>2. /\ OT!TypeOK /\ OT!Reference /\ OT!Agree /\ OT!Complete /\ OT!Progress
  BY <1>1 DEF PkInv, OT!IInv, OT!NextLoop
<1>3. pkp1 \in [State -> Nat \cup {-1}] /\ OT!OldMax \in Nat /\ pkp1[i] = -1 /\ PkClasses[i] = pkThisClass
      /\ pkThisClass \in Nat
  BY <1>1, <1>2, SameStates DEF OT!TypeOK, OT!Relevant, PkInv, OT!IInv, OT!TableDense
<1>4. ASSUME NEW j \in State, PkClasses[j] = pkThisClass
      PROVE  Pk!isEquivalent(i, j) <=> OT!classEquals(i, j)
  BY <1>1, <1>3, <1>4, SameClassSameOutputs, SameSuccessorsIsClassEquals DEF PkInv
<1>5. ASSUME NEW j \in State, PkClasses[j] = pkThisClass, OT!classEquals(i, j)
      PROVE  pkp1[j] < 0
  <2> SUFFICES ASSUME pkp1[j] >= 0 PROVE FALSE
    BY <1>3
  <2>1. OT!Same(i, j) /\ OT!Same(j, i)
    BY <1>3, <1>5 DEF OT!Same, OT!classEquals, OT!ioEquals
  <2>2. ~(pkp1[j] > OT!OldMax)
    BY <1>1, <1>2, <1>3, <2>1, SameStates DEF OT!Complete
  <2>3. pkp1[j] = pkThisClass
    BY <1>2, <1>3, <1>5, <2>2, SameStates DEF OT!Progress
  <2>4. pkRefRow \in State /\ pkp1[pkRefRow] = pkThisClass
    BY <1>2, SameStates DEF OT!Reference, OT!TypeOK
  <2>5. OT!Same(pkRefRow, j)
    BY <1>2, <1>3, <2>3, <2>4, SameStates DEF OT!Agree
  <2>6. OT!classEquals(pkRefRow, i)
    BY <2>1, <2>5 DEF OT!Same, OT!classEquals, OT!ioEquals
  <2> QED BY <2>6, ReferencePk
<1>6. pkp1' = [m \in State |->
                 IF m = i \/ (m > i /\ PkClasses[m] = pkThisClass /\ OT!classEquals(i, m))
                 THEN pkThisNewClassId ELSE pkp1[m]]
  BY <1>1, <1>4, <1>5, SameStates
<1>7. ~OT!classEquals(pkRefRow, i)
  BY ReferencePk
<1> QED BY <1>1, <1>6, <1>7, LoopUnchanged, SameStates DEF OT!OpenClass

LEMMA NextClassPkStep ==
  ASSUME PkInv, Pk!NextClass, UNCHANGED vars
  PROVE  OT!NextClass
BY LoopUnchanged DEF Pk!NextClass, OT!NextClass

LEMMA NextTablePkStep ==
  ASSUME PkInv, Pk!NextTable, UNCHANGED vars
  PROVE  OT!NextTable /\ pkp1 \in [State -> Nat]
<1> USE DEF Pk!NextTable, Pk!AllClassesSeen
<1>1. PkPhase = "next" /\ OT!IInv
  BY DEF PkPhase, PkInv
<1>2. pkp1 \in [State -> Nat]
  BY <1>1, NumStatesAssumption, RowsAssumption, InitStatesAssumption, OT!LoopEndFacts, SameStates DEF State
<1>3. OT!StartNext(pkp1)
  BY <1>2, PushStep
<1> QED BY <1>1, <1>2, <1>3 DEF OT!NextTable

LEMMA LastTablePkStep ==
  ASSUME PkInv, Pk!LastTable, UNCHANGED vars
  PROVE  OT!LastTable
BY DEF Pk!LastTable, Pk!AllClassesSeen, OT!LastTable, PkPhase, PkClasses, PkRows, Pk!s2c, vars,
       Pk!loopVars, OT!loopVars

(* The minimal DFSM, read as an observable FSM, is the one of toFsm. *)
LEMMA ToFsmPkStep ==
  ASSUME PkInv, Pk!ToFsm, UNCHANGED vars
  PROVE  OT!ToFsm
<1> USE DEF Pk!ToFsm
<1> DEFINE c == Pk!s2c
           classes == 0 .. Pk!maxClassId(c)
           rep == [d \in classes |-> Pk!Representative(d)]
<1>1. PkClasses = c /\ PkPhase = "toFsm" /\ PkPhase' = "done"
  BY PkClassesIsLast DEF PkPhase
<1>2. UNCHANGED <<PkClasses, Len(tables), rows, initStateIdx>>
  BY DEF PkClasses, Pk!s2c, vars
<1>3. OT!maxClassId(PkClasses) = Pk!maxClassId(c) /\ \A d : OT!Representative(d) = Pk!Representative(d)
  BY <1>1, SameStates DEF OT!maxClassId, Pk!maxClassId, OT!Representative, Pk!Representative
<1>4. ASSUME NEW d \in classes PROVE rep[d] \in State
  <2>1. OT!OldMax \in Nat /\ \A x \in 0 .. OT!OldMax : \E j \in State : PkClasses[j] = x
    BY SameStates DEF PkInv, OT!IInv, OT!TableDense, OT!Dense
  <2>2. PICK u \in State : PkClasses[u] = d
    BY <1>3, <2>1 DEF OT!OldMax
  <2>3. OT!Representative(PkClasses[u]) \in State
    BY NumStatesAssumption, RowsAssumption, InitStatesAssumption, OT!RepresentativeOfClass, SameStates DEF State
  <2> QED BY <1>3, <2>2, <2>3
<1>5. PkRows' = [d \in classes |-> [l \in Label |->
                   IF (IF i2p[rep[d]][l[1]] < 0 THEN -1 ELSE io[rep[d]][l[1]]) = l[2]
                   THEN IF i2p[rep[d]][l[1]] < 0 THEN -1 ELSE c[i2p[rep[d]][l[1]]]
                   ELSE -1]]
  <2> DEFINE f == [d \in classes |-> [x \in Input |-> IF i2p[rep[d]][x] < 0 THEN -1 ELSE io[rep[d]][x]]]
             g == [d \in classes |-> [x \in Input |-> IF i2p[rep[d]][x] < 0 THEN -1 ELSE c[i2p[rep[d]][x]]]]
  <2>1. minDfsm' = [io |-> f, i2p |-> g] /\ pkPc' = "done"
    OBVIOUS
  <2>2. PkRows' = [d \in DOMAIN f |-> [l \in Label |-> IF f[d][l[1]] = l[2] THEN g[d][l[1]] ELSE -1]]
    <3> HIDE DEF f, g
    <3>1. minDfsm'.io = f /\ minDfsm'.i2p = g /\ ~(pkPc' # "done")
      BY <2>1
    <3> QED BY ONLY <3>1 DEF PkRows
  <2>3. DOMAIN f = classes
    OBVIOUS
  <2>4. ASSUME NEW d \in classes, NEW l \in Label
        PROVE  /\ f[d][l[1]] = IF i2p[rep[d]][l[1]] < 0 THEN -1 ELSE io[rep[d]][l[1]]
               /\ g[d][l[1]] = IF i2p[rep[d]][l[1]] < 0 THEN -1 ELSE c[i2p[rep[d]][l[1]]]
    <3>1. l[1] \in Input
      BY MachineFacts DEF PkInv
    <3> HIDE DEF c, rep, classes
    <3> QED BY <3>1
  <2> HIDE DEF c, rep, classes, f, g
  <2> QED BY <2>2, <2>3, <2>4
<1>6. ASSUME NEW d \in classes, NEW l \in Label
      PROVE  (IF (IF i2p[rep[d]][l[1]] < 0 THEN -1 ELSE io[rep[d]][l[1]]) = l[2]
              THEN IF i2p[rep[d]][l[1]] < 0 THEN -1 ELSE c[i2p[rep[d]][l[1]]]
              ELSE -1) =
             (IF rows[rep[d]][l] >= 0 THEN c[rows[rep[d]][l]] ELSE -1)
  <2> DEFINE r == rep[d]
  <2>1. r \in State
    BY <1>4
  <2>2. l[1] \in Input /\ l[2] \in Nat
    BY MachineFacts DEF PkInv
  <2> HIDE DEF r, c
  <2>3. /\ rows[r][l] = IF io[r][l[1]] = l[2] THEN i2p[r][l[1]] ELSE -1
        /\ rows[r][l] >= 0 <=> io[r][l[1]] = l[2]
        /\ i2p[r][l[1]] \in State \cup {-1}
    BY <2>1, MachineRows DEF PkInv
  <2>4. i2p[r][l[1]] < 0 <=> io[r][l[1]] = -1
    BY <2>1, <2>2, <2>3, MachineFacts, StateFacts DEF PkInv
  <2>5. (IF (IF i2p[r][l[1]] < 0 THEN -1 ELSE io[r][l[1]]) = l[2]
         THEN IF i2p[r][l[1]] < 0 THEN -1 ELSE c[i2p[r][l[1]]]
         ELSE -1) =
        (IF rows[r][l] >= 0 THEN c[rows[r][l]] ELSE -1)
    BY <2>2, <2>3, <2>4
  <2> QED BY <2>5 DEF r
<1>7. PkRows' = [d \in classes |-> [l \in Label |-> IF rows[rep[d]][l] >= 0 THEN c[rows[rep[d]][l]] ELSE -1]]
  <2> HIDE DEF c, classes, rep
  <2> QED BY <1>5, <1>6
<1>8. PkRows' = [d \in 0 .. OT!maxClassId(PkClasses) |->
                  [l \in Label |-> LET t == rows[OT!Representative(d)][l]
                                   IN  IF t >= 0 THEN PkClasses[t] ELSE -1]]
  <2> HIDE DEF c
  <2> QED BY <1>1, <1>3, <1>7
<1> QED BY <1>1, <1>2, <1>8 DEF OT!ToFsm, Pk!loopVars, OT!loopVars, vars

LEMMA DonePkStep ==
  ASSUME PkInv, UNCHANGED <<pkVars, vars>>
  PROVE  UNCHANGED OT!vars
BY DEF OT!vars, OT!loopVars, vars, pkVars, PkPhase, PkClasses, PkRows, Pk!s2c

-----------------------------------------------------------------------------
LEMMA TableListStep ==
  ASSUME PkInv, Pk!Next, UNCHANGED vars
  PROVE  Machine' /\ TableList'
<1>1. UNCHANGED <<io, i2p>>
  BY DEF Pk!Next, Pk!P1Row, Pk!P1Done, Pk!PushTable, Pk!Skip, Pk!TakeReference, Pk!StayInClass,
         Pk!OpenClass, Pk!NextClass, Pk!NextTable, Pk!LastTable, Pk!ToFsm, Pk!Done, Pk!vars
<1>2. Machine'
  BY <1>1 DEF PkInv, Machine, Pk!IsDfsm, Pk!This, RowsOf, vars
<1>3. TableList'
  <2>1. CASE Pk!P1Done \/ Pk!NextTable
    <3>1. pkp1 \in [State -> Nat] /\ Pk!PushTable
      BY <2>1, P1DoneStep, NextTablePkStep DEF Pk!P1Done, Pk!NextTable
    <3>2. tables' \in Seq([State -> Nat]) /\ tables' # << >>
      BY <3>1 DEF PkInv, TableList, Pk!PushTable
    <3> QED BY <3>1, <3>2 DEF TableList, Pk!PushTable
  <2>2. CASE UNCHANGED <<pkPc, tables>>
    BY <2>2 DEF PkInv, TableList
  <2>3. CASE Pk!LastTable \/ Pk!ToFsm
    BY <2>3 DEF PkInv, TableList, Pk!LastTable, Pk!AllClassesSeen, Pk!ToFsm
  <2> QED BY <2>1, <2>2, <2>3
          DEF Pk!Next, Pk!P1Row, Pk!Skip, Pk!TakeReference, Pk!StayInClass, Pk!OpenClass, Pk!NextClass,
              Pk!Done, Pk!vars
<1> QED BY <1>2, <1>3

LEMMA PkSimulation ==
  ASSUME PkInv, Pk!Next, UNCHANGED vars
  PROVE  OT!Next \/ UNCHANGED OT!vars
<1>1. CASE Pk!P1Row
  BY <1>1, P1RowStep DEF OT!Next
<1>2. CASE Pk!P1Done
  BY <1>2, P1DoneStep DEF OT!Next
<1>3. CASE Pk!Skip
  BY <1>3, SkipPkStep DEF OT!Next
<1>4. CASE Pk!TakeReference
  BY <1>4, TakeReferencePkStep DEF OT!Next
<1>5. CASE Pk!StayInClass
  BY <1>5, StayInClassPkStep DEF OT!Next
<1>6. CASE Pk!OpenClass
  BY <1>6, OpenClassPkStep DEF OT!Next
<1>7. CASE Pk!NextClass
  BY <1>7, NextClassPkStep DEF OT!Next
<1>8. CASE Pk!NextTable
  BY <1>8, NextTablePkStep DEF OT!Next
<1>9. CASE Pk!LastTable
  BY <1>9, LastTablePkStep DEF OT!Next
<1>10. CASE Pk!ToFsm
  BY <1>10, ToFsmPkStep DEF OT!Next
<1>11. CASE Pk!Done
  <2>1. UNCHANGED <<pkVars, vars>>
    BY <1>11 DEF Pk!Done, Pk!vars, Pk!loopVars, pkVars
  <2> QED BY <2>1, DonePkStep
<1> QED BY <1>1, <1>2, <1>3, <1>4, <1>5, <1>6, <1>7, <1>8, <1>9, <1>10, <1>11 DEF Pk!Next

-----------------------------------------------------------------------------
(* The P_k tables start when the OFSM tables are finished. *)
OneAfterTheOther == pkPc # "p1" => pc = "done"

MinInv == IInv /\ LanguageInv /\ PkInv /\ PkMinimal /\ OneAfterTheOther

LEMMA MinInitInv == MinInit => Init /\ MinInv
<1> SUFFICES ASSUME MinInit PROVE Init /\ MinInv
  OBVIOUS
<1>1. PICK d \in Dfsms : io = d.io /\ i2p = d.i2p /\ rows = RowsOf(d.io, d.i2p)
  BY DEF MinInit
<1>2. rows \in Rows /\ Init /\ Pk!StartTables
  BY <1>1, RowsOfAssumption DEF MinInit, Init
<1>3. Machine
  <2>1. Pk!IsDfsm(d)
    BY PkAssumption DEF Pk!PkConstants
  <2>2. Pk!IsDfsm(Pk!This)
    BY <1>1, <2>1 DEF Pk!IsDfsm, Pk!This
  <2> QED BY <1>1, <2>2, LabelsUsedAssumption DEF Machine
<1>4. TableList
  BY <1>2 DEF Pk!StartTables, TableList
<1>5. OT!Init
  BY <1>2, SameStates DEF Pk!StartTables, OT!StartTables, OT!Init, PkClasses, PkPhase, PkRows, Init,
                          StartTables
<1>6. OT!IInv /\ OT!LanguageInv
  BY <1>5, NumStatesAssumption, RowsAssumption, InitStatesAssumption, OT!InitIInv, OT!InitLanguageInv
     DEF OT!State, State
<1>7. IInv /\ LanguageInv
  BY <1>2, InitIInv, InitLanguageInv
<1>8. PkMinimal /\ OneAfterTheOther
  BY <1>2 DEF Pk!StartTables, PkMinimal, OneAfterTheOther
<1> QED BY <1>2, <1>3, <1>4, <1>6, <1>7, <1>8 DEF MinInv, PkInv

(* No step of the OFSM tables changes the machine. *)
LEMMA RowsStay ==
  ASSUME [Next]_vars
  PROVE  UNCHANGED <<rows, initStateIdx>>
BY DEF Next, vars, FirstTableState, FirstTableDone, StartNext, Skip, TakeReference, StayInClass,
       OpenClass, NextClass, NextTable, LastTable, ToFsm, Done

LEMMA PkMinimalStays ==
  ASSUME PkMinimal, UNCHANGED <<io, i2p, tables, pkPc, minDfsm>>
  PROVE  PkMinimal'
<1> SUFFICES ASSUME pkPc = "done" PROVE PkMinimal'
  BY DEF PkMinimal
<1>1. Pk!s2c' = Pk!s2c
  BY DEF Pk!s2c
<1>2. Pk!maxClassId(Pk!s2c)' = Pk!maxClassId(Pk!s2c)
  BY <1>1 DEF Pk!maxClassId
<1>3. \A c : Pk!Representative(c)' = Pk!Representative(c)
  BY <1>1 DEF Pk!Representative
<1> QED BY <1>1, <1>2, <1>3 DEF PkMinimal

LEMMA PkMinimalStep ==
  ASSUME PkMinimal, Pk!Next
  PROVE  PkMinimal'
<1>1. CASE pkPc = "done"
  <2>1. UNCHANGED Pk!vars
    BY <1>1 DEF Pk!Next, Pk!P1Row, Pk!P1Done, Pk!Skip, Pk!TakeReference, Pk!StayInClass, Pk!OpenClass,
                Pk!Relevant, Pk!NextClass, Pk!NextTable, Pk!LastTable, Pk!AllClassesSeen, Pk!ToFsm, Pk!Done
  <2> QED BY <2>1, PkMinimalStays DEF Pk!vars
<1>2. CASE Pk!ToFsm
  BY <1>2 DEF Pk!ToFsm, PkMinimal, Pk!Representative, Pk!maxClassId, Pk!s2c
<1>3. CASE pkPc # "done" /\ ~Pk!ToFsm
  <2>1. pkPc' # "done"
    BY <1>3 DEF Pk!Next, Pk!P1Row, Pk!P1Done, Pk!PushTable, Pk!Skip, Pk!TakeReference, Pk!StayInClass,
                Pk!OpenClass, Pk!NextClass, Pk!NextTable, Pk!LastTable, Pk!AllClassesSeen, Pk!Done
  <2> QED BY <2>1 DEF PkMinimal
<1> QED BY <1>1, <1>2, <1>3

LEMMA MinStepInv ==
  ASSUME MinInv, [MinNext]_<<vars, pkVars>>
  PROVE  MinInv' /\ [Next]_vars
<1>1. CASE MinimiseAsFsm
  <2>1. [Next]_vars /\ UNCHANGED pkVars /\ pkPc = "p1"
    BY <1>1 DEF MinimiseAsFsm, MinInv, OneAfterTheOther
  <2>2. UNCHANGED <<rows, initStateIdx>>
    BY <2>1, RowsStay
  <2>3. IInv' /\ LanguageInv'
    BY <2>1, NextStep, LanguageInvStep DEF MinInv
  <2>4. UNCHANGED OT!vars
    BY <2>1, <2>2 DEF OT!vars, OT!loopVars, pkVars, PkPhase, PkClasses, PkRows, Pk!s2c
  <2>5. OT!IInv' /\ OT!LanguageInv'
    BY <2>4, NumStatesAssumption, RowsAssumption, InitStatesAssumption, OT!InvStep
       DEF MinInv, PkInv, OT!State, State
  <2>6. Machine' /\ TableList'
    BY <2>1, <2>2 DEF MinInv, PkInv, Machine, TableList, Pk!IsDfsm, Pk!This, RowsOf, pkVars
  <2>7. PkMinimal' /\ OneAfterTheOther'
    BY <2>1 DEF PkMinimal, OneAfterTheOther, pkVars
  <2> QED BY <2>1, <2>3, <2>5, <2>6, <2>7 DEF MinInv, PkInv
<1>2. CASE MinimiseAsDfsm
  <2>1. Pk!Next /\ UNCHANGED vars /\ pc = "done" /\ PkInv
    BY <1>2 DEF MinimiseAsDfsm, MinInv
  <2>2. IInv' /\ LanguageInv'
    BY <2>1, NextStep, LanguageInvStep DEF MinInv
  <2>3. [OT!Next]_(OT!vars)
    BY <2>1, PkSimulation
  <2>4. OT!IInv' /\ OT!LanguageInv'
    BY <2>3, NumStatesAssumption, RowsAssumption, InitStatesAssumption, OT!InvStep
       DEF MinInv, PkInv, OT!State, State
  <2>5. Machine' /\ TableList'
    BY <2>1, TableListStep
  <2>6. PkMinimal'
    BY <2>1, PkMinimalStep DEF MinInv
  <2>7. OneAfterTheOther'
    BY <2>1 DEF OneAfterTheOther, vars
  <2> QED BY <2>1, <2>2, <2>4, <2>5, <2>6, <2>7 DEF MinInv, PkInv
<1>3. CASE UNCHANGED <<vars, pkVars>>
  <2>1. UNCHANGED vars /\ UNCHANGED pkVars /\ PkInv
    BY <1>3 DEF MinInv
  <2>2. IInv' /\ LanguageInv'
    BY <2>1, NextStep, LanguageInvStep DEF MinInv
  <2>3. [OT!Next]_(OT!vars)
    BY <2>1, DonePkStep
  <2>4. OT!IInv' /\ OT!LanguageInv'
    BY <2>3, NumStatesAssumption, RowsAssumption, InitStatesAssumption, OT!InvStep
       DEF MinInv, PkInv, OT!State, State
  <2>5. Machine' /\ TableList'
    BY <2>1 DEF MinInv, PkInv, Machine, TableList, Pk!IsDfsm, Pk!This, RowsOf, pkVars, vars
  <2>6. PkMinimal'
    BY <2>1, PkMinimalStays DEF MinInv, pkVars
  <2>7. OneAfterTheOther'
    BY <2>1 DEF MinInv, OneAfterTheOther, pkVars, vars
  <2> QED BY <2>1, <2>2, <2>4, <2>5, <2>6, <2>7 DEF MinInv, PkInv
<1> QED BY <1>1, <1>2, <1>3 DEF MinNext

THEOREM MinInductive == MinSpec => []MinInv
<1> QED BY MinInitInv, MinStepInv, PTL DEF MinSpec

(* the first half is a behaviour of the OFSM tables *)
THEOREM FirstAsFsm == MinSpec => Spec
<1>1. MinInit => Init
  BY MinInitInv
<1> QED BY <1>1, MinInductive, MinStepInv, PTL DEF MinSpec, Spec

-----------------------------------------------------------------------------
(* The refinement over all pairs of an input and an output: the labels that *)
(* are not in Label are not defined in any state.                           *)
LEMMA CompatibleForAllLabels ==
  ASSUME Machine, NEW p \in State, NEW q \in State, NEW E
  PROVE  Pk!PR!Compatible(p, q, E) <=> OT!PR!Compatible(p, q, E)
<1> DEFINE Post(v, l) == IF io[v][l[1]] = l[2] THEN i2p[v][l[1]] ELSE -1
<1>1. ASSUME NEW v \in State
      PROVE  Pk!PR!Defined(v) = {l \in Input \X Output : Post(v, l) # -1}
  BY SameStates DEF Pk!PR!Defined
<1>2. ASSUME NEW v \in State
      PROVE  OT!PR!Defined(v) = {l \in Label : Post(v, l) # -1}
  BY MachineRows DEF OT!PR!Defined
<1>3. ASSUME NEW v \in State, NEW l \in Input \X Output, Post(v, l) # -1
      PROVE  l \in Label
  <2>1. l[1] \in Input /\ l[2] \in Output /\ l = <<l[1], l[2]>> /\ io[v][l[1]] = l[2]
    BY <1>3
  <2>2. l[2] # -1
    BY <2>1, MachineFacts
  <2> QED BY <2>1, <2>2 DEF Machine
<1>4. ASSUME NEW v \in State
      PROVE  Pk!PR!Defined(v) = OT!PR!Defined(v) /\ OT!PR!Defined(v) \subseteq Label
  <2> HIDE DEF Post
  <2> QED BY <1>1, <1>2, <1>3, LabelAssumption
<1> DEFINE P == [w \in Pk!State |-> [x \in Input \X Output |->
                   IF io[w][x[1]] = x[2] THEN i2p[w][x[1]] ELSE -1]]
<1>5. ASSUME NEW v \in State, NEW l \in Label
      PROVE  P[v][l] = rows[v][l]
  BY LabelAssumption, MachineRows, SameStates
<1>6. Pk!PR!Compatible(p, q, E) <=>
        /\ Pk!PR!Defined(p) = Pk!PR!Defined(q)
        /\ \A l \in Pk!PR!Defined(p) : <<P[p][l], P[q][l]>> \in E
  BY DEF Pk!PR!Compatible
<1>7. OT!PR!Compatible(p, q, E) <=>
        /\ OT!PR!Defined(p) = OT!PR!Defined(q)
        /\ \A l \in OT!PR!Defined(p) : <<rows[p][l], rows[q][l]>> \in E
  BY DEF OT!PR!Compatible
<1> HIDE DEF P
<1>8. \A l \in OT!PR!Defined(p) : <<P[p][l], P[q][l]>> = <<rows[p][l], rows[q][l]>>
  BY <1>4, <1>5
<1> QED BY <1>4, <1>6, <1>7, <1>8

LEMMA SameRefined ==
  ASSUME Machine, NEW E, E \subseteq State \X State
  PROVE  Pk!PR!Refined(E) = OT!PR!Refined(E)
<1>1. \A pq \in E : Pk!PR!Compatible(pq[1], pq[2], E) <=> OT!PR!Compatible(pq[1], pq[2], E)
  <2> SUFFICES ASSUME NEW pq \in E
               PROVE  Pk!PR!Compatible(pq[1], pq[2], E) <=> OT!PR!Compatible(pq[1], pq[2], E)
    OBVIOUS
  <2>1. pq[1] \in State /\ pq[2] \in State
    OBVIOUS
  <2> QED BY <2>1, CompatibleForAllLabels
<1> QED BY <1>1 DEF Pk!PR!Refined, OT!PR!Refined

LEMMA PkRefinementStep ==
  ASSUME MinInv, [MinNext]_<<vars, pkVars>>
  PROVE  Pk!PR!Next \/ UNCHANGED Pk!PR!vars
<1>1. CASE MinimiseAsFsm \/ UNCHANGED <<vars, pkVars>>
  BY <1>1 DEF MinimiseAsFsm, Pk!PR!vars, pkVars, Pk!s2c
<1>2. CASE MinimiseAsDfsm
  <2>1. Pk!Next /\ UNCHANGED vars /\ PkInv
    BY <1>2 DEF MinimiseAsDfsm, MinInv
  <2>2. OT!PR!Next \/ UNCHANGED OT!PR!vars
    BY <2>1, PkSimulation, OT!RefinementStep, NumStatesAssumption, RowsAssumption, InitStatesAssumption
       DEF PkInv, OT!State, State
  <2> DEFINE PkEq == {pq \in Pk!State \X Pk!State : tables = << >> \/ Pk!s2c[pq[1]] = Pk!s2c[pq[2]]}
             OtEq == {pq \in OT!State \X OT!State : PkClasses[pq[1]] = PkClasses[pq[2]]}
  <2>3. PkEq = OtEq
    BY SameStates DEF PkClasses
  <2>4. PkEq' = OtEq'
    BY SameStates DEF PkClasses, Pk!State, OT!State
  <2>5. Pk!PR!Refined(OtEq) = OT!PR!Refined(OtEq)
    <3>1. OtEq \subseteq State \X State
      BY SameStates
    <3> HIDE DEF OtEq
    <3> QED BY <2>1, <3>1, SameRefined DEF PkInv
  <2>6. UNCHANGED <<io, i2p>>
    BY <2>1 DEF Pk!Next, Pk!P1Row, Pk!P1Done, Pk!PushTable, Pk!Skip, Pk!TakeReference, Pk!StayInClass,
                Pk!OpenClass, Pk!NextClass, Pk!NextTable, Pk!LastTable, Pk!ToFsm, Pk!Done, Pk!vars
  <2>7. TableList /\ TableList'
    BY <2>1, TableListStep DEF PkInv
  <2>8. /\ (PkPhase \in {"toFsm", "done"}) <=> (pkPc \in {"toFsm", "done"})
        /\ (PkPhase \in {"toFsm", "done"})' <=> (pkPc \in {"toFsm", "done"})'
    BY <2>7 DEF TableList, PkPhase
  <2>9. CASE OT!PR!Refine
    <3>1. /\ ~(PkPhase \in {"toFsm", "done"})
          /\ OtEq' = OT!PR!Refined(OtEq)
          /\ ~(PkPhase \in {"toFsm", "done"})'
      BY <2>9 DEF OT!PR!Refine
    <3>2. PkEq' = Pk!PR!Refined(PkEq)
      <4> HIDE DEF PkEq, OtEq
      <4> QED BY <2>3, <2>4, <2>5, <3>1
    <3> QED BY <2>6, <2>8, <3>1, <3>2 DEF Pk!PR!Next, Pk!PR!Refine
  <2>10. CASE OT!PR!Finish
    <3>1. /\ ~(PkPhase \in {"toFsm", "done"})
          /\ OT!PR!Refined(OtEq) = OtEq
          /\ OtEq' = OtEq
          /\ (PkPhase \in {"toFsm", "done"})'
      BY <2>10 DEF OT!PR!Finish
    <3>2. PkEq' = PkEq /\ Pk!PR!Refined(PkEq) = PkEq
      <4> HIDE DEF PkEq, OtEq
      <4> QED BY <2>3, <2>4, <2>5, <3>1
    <3> QED BY <2>6, <2>8, <3>1, <3>2 DEF Pk!PR!Next, Pk!PR!Finish
  <2>11. CASE UNCHANGED OT!PR!vars
    <3>1. OtEq' = OtEq /\ ((PkPhase \in {"toFsm", "done"})' <=> (PkPhase \in {"toFsm", "done"}))
      BY <2>11 DEF OT!PR!vars
    <3>2. PkEq' = PkEq
      <4> HIDE DEF PkEq, OtEq
      <4> QED BY <2>3, <2>4, <3>1
    <3> QED BY <2>6, <2>8, <3>1, <3>2 DEF Pk!PR!vars
  <2> QED BY <2>2, <2>9, <2>10, <2>11 DEF OT!PR!Next
<1> QED BY <1>1, <1>2 DEF MinNext

(* The P_k tables implement partition refinement, for every deterministic   *)
(* machine.                                                                 *)
THEOREM PkTablesRefinePartition == MinSpec => PkRefinesPartition
<1>1. MinInit => Pk!PR!Init
  <2> SUFFICES ASSUME MinInit PROVE Pk!PR!Init
    OBVIOUS
  <2> DEFINE P == [q \in Pk!State |-> [l \in Input \X Output |->
                     IF io[q][l[1]] = l[2] THEN i2p[q][l[1]] ELSE -1]]
  <2>1. Pk!StartTables /\ Machine
    BY MinInitInv DEF MinInit, MinInv, PkInv
  <2>2. P \in [Pk!State -> [Input \X Output -> Pk!State \cup {-1}]]
    BY <2>1, MachineFacts, SameStates
  <2>3. P \in Pk!PR!Machines
    BY <2>2 DEF Pk!PR!Machines
  <2> QED BY <2>1, <2>3 DEF Pk!PR!Init, Pk!StartTables
<1>2. MinInv /\ [MinNext]_<<vars, pkVars>> => [Pk!PR!Next]_(Pk!PR!vars)
  BY PkRefinementStep
<1> QED BY <1>1, <1>2, MinInductive, PTL DEF MinSpec, PkRefinesPartition, Pk!RefinesPartition, Pk!PR!Spec

-----------------------------------------------------------------------------
(* The minimal DFSM *)
PkReach(m1, q1, m2, q2, k) == Reach(<<Input, m1.i2p, m2.i2p>>, <<q1, q2>>, k)

LEMMA PkReachedPairs ==
  ASSUME NEW m1, NEW q1, NEW m2, NEW q2, NEW k
  PROVE  Pk!ReachedPairs(m1, q1, m2, q2, k) = PkReach(m1, q1, m2, q2, k)
BY DEF Pk!ReachedPairs, PkReach, Reach, IsReach, Succ

LEMMA SameOutputsIs ==
  ASSUME NEW m1, NEW q1, NEW m2, NEW q2, NEW k \in Nat
  PROVE  Pk!SameOutputs(m1, q1, m2, q2, k + 1) <=>
           \A p \in PkReach(m1, q1, m2, q2, k) : \A x \in Input : m1.io[p[1]][x] = m2.io[p[2]][x]
<1>1. (k + 1) - 1 = k
  OBVIOUS
<1> QED BY <1>1, PkReachedPairs DEF Pk!SameOutputs

LEMMA SameLanguages ==
  ASSUME NEW r1, NEW a, NEW r2, NEW b, NEW k
  PROVE  OT!SameLanguage(r1, a, r2, b, k) <=> SameLanguage(r1, a, r2, b, k)
BY DEF OT!SameLanguage, SameLanguage, OT!ReachedPairs, ReachedPairs

PkDone == PkInv /\ PkMinimal /\ pkPc = "done"

LEMMA PkDoneFacts ==
  ASSUME PkDone
  PROVE  /\ PkPhase = "done" /\ tables # << >> /\ PkClasses = Pk!s2c
         /\ PkClasses \in [State -> Nat]
         /\ OT!OldMax \in Nat /\ OT!Dense(PkClasses, OT!OldMax + 1)
         /\ OT!OldMax = Pk!maxClassId(Pk!s2c)
         /\ \A p, q \in State : PkClasses[p] = PkClasses[q] => io[p] = io[q] /\ Pk!isEquivalent(p, q)
<1>1. PkPhase = "done" /\ tables # << >> /\ PkClasses = Pk!s2c
  BY PkClassesIsLast DEF PkDone, PkPhase
<1>2. PkClasses \in [State -> Nat] /\ OT!OldMax \in Nat /\ OT!Dense(PkClasses, OT!OldMax + 1)
  BY SameStates DEF PkDone, PkInv, OT!IInv, OT!TypeOK, OT!TableDense
<1>3. OT!OldMax = Pk!maxClassId(Pk!s2c)
  BY <1>1, SameStates DEF OT!OldMax, OT!maxClassId, Pk!maxClassId
<1>4. ASSUME NEW p \in State, NEW q \in State, PkClasses[p] = PkClasses[q]
      PROVE  io[p] = io[q] /\ Pk!isEquivalent(p, q)
  <2>1. io[p] = io[q]
    BY <1>1, <1>4, SameClassSameOutputs DEF PkDone
  <2>2. OT!classEquals(p, q)
    BY <1>1, <1>4, SameStates DEF PkDone, PkInv, OT!IInv, OT!FinalTable
  <2> QED BY <1>1, <2>1, <2>2, SameSuccessorsIsClassEquals DEF PkDone, PkInv
<1> QED BY <1>1, <1>2, <1>3, <1>4

(* The row of a class in the minimal DFSM is that of any state of the class. *)
LEMMA MinimalDfsmRow ==
  ASSUME PkDone, NEW u \in State, NEW x \in Input
  PROVE  /\ minDfsm.io[PkClasses[u]][x] = io[u][x]
         /\ minDfsm.i2p[PkClasses[u]][x] = IF i2p[u][x] < 0 THEN -1 ELSE PkClasses[i2p[u][x]]
<1> DEFINE d == PkClasses[u]
           r == Pk!Representative(d)
           classes == 0 .. Pk!maxClassId(Pk!s2c)
<1>1. d \in classes
  BY PkDoneFacts, SameStates DEF OT!Dense
<1>2. r \in State /\ PkClasses[r] = PkClasses[u]
  <2>1. OT!Representative(d) \in State /\ PkClasses[OT!Representative(d)] = PkClasses[u]
    BY NumStatesAssumption, RowsAssumption, InitStatesAssumption, OT!RepresentativeOfClass, SameStates DEF State
  <2>2. OT!Representative(d) = r
    BY PkDoneFacts, SameStates DEF OT!Representative, Pk!Representative
  <2> QED BY <2>1, <2>2
<1>3. /\ minDfsm.io[d][x] = IF i2p[r][x] < 0 THEN -1 ELSE io[r][x]
      /\ minDfsm.i2p[d][x] = IF i2p[r][x] < 0 THEN -1 ELSE Pk!s2c[i2p[r][x]]
  <2> DEFINE f == [c \in classes |-> [y \in Input |->
                     IF i2p[Pk!Representative(c)][y] < 0 THEN -1 ELSE io[Pk!Representative(c)][y]]]
             g == [c \in classes |-> [y \in Input |->
                     IF i2p[Pk!Representative(c)][y] < 0 THEN -1
                     ELSE Pk!s2c[i2p[Pk!Representative(c)][y]]]]
  <2>1. minDfsm = [io |-> f, i2p |-> g]
    BY DEF PkDone, PkMinimal
  <2>2. /\ f[d][x] = IF i2p[r][x] < 0 THEN -1 ELSE io[r][x]
        /\ g[d][x] = IF i2p[r][x] < 0 THEN -1 ELSE Pk!s2c[i2p[r][x]]
    <3> HIDE DEF classes, d
    <3> QED BY <1>1
  <2> HIDE DEF f, g
  <2>3. minDfsm.io = f /\ minDfsm.i2p = g
    BY <2>1
  <2> QED BY <2>2, <2>3
<1>4. io[r] = io[u] /\ Pk!isEquivalent(r, u)
  BY <1>2, PkDoneFacts
<1>5. /\ i2p[r][x] \in State \cup {-1} /\ i2p[u][x] \in State \cup {-1}
      /\ io[r][x] = -1 <=> i2p[r][x] = -1
  BY <1>2, MachineFacts DEF PkDone, PkInv
<1>6. i2p[r][x] < 0 <=> i2p[r][x] = -1
  BY <1>5, NegativeIsNone
<1>7. i2p[u][x] < 0 <=> i2p[u][x] = -1
  BY <1>5, NegativeIsNone
<1>8. \/ i2p[r][x] = -1 /\ i2p[u][x] = -1
      \/ i2p[r][x] # -1 /\ i2p[u][x] # -1 /\ Pk!s2c[i2p[r][x]] = Pk!s2c[i2p[u][x]]
  BY <1>4 DEF Pk!isEquivalent
<1>9. Pk!s2c = PkClasses
  BY PkDoneFacts
<1> HIDE DEF d, r
<1>10. minDfsm.io[d][x] = io[u][x]
  BY <1>3, <1>4, <1>5, <1>6
<1>11. minDfsm.i2p[d][x] = IF i2p[u][x] < 0 THEN -1 ELSE PkClasses[i2p[u][x]]
  BY <1>3, <1>6, <1>7, <1>8, <1>9
<1> QED BY <1>10, <1>11 DEF d

LEMMA PkEquivalent ==
  ASSUME PkDone, NEW u \in State, NEW k \in Nat
  PROVE  Pk!SameOutputs(Pk!This, u, minDfsm, PkClasses[u], k + 1)
<1> DEFINE m == <<Input, i2p, minDfsm.i2p>>
           X == {<<v, PkClasses[v]>> : v \in State}
<1>1. Pk!This.i2p = i2p /\ Pk!This.io = io
  BY DEF Pk!This
<1>2. Succ(m, X) \subseteq X
  <2> SUFFICES ASSUME NEW s \in Succ(m, X) PROVE s \in X
    OBVIOUS
  <2>1. PICK t \in X : \E x \in Input : s = <<i2p[t[1]][x], minDfsm.i2p[t[2]][x]>> /\ s[1] >= 0 /\ s[2] >= 0
    BY SuccOf
  <2>2. PICK v \in State : t = <<v, PkClasses[v]>>
    OBVIOUS
  <2>3. PICK x \in Input : s = <<i2p[v][x], minDfsm.i2p[PkClasses[v]][x]>> /\ i2p[v][x] >= 0
    BY <2>1, <2>2
  <2>4. i2p[v][x] \in State \cup {-1}
    BY MachineFacts DEF PkDone, PkInv
  <2>5. i2p[v][x] \in State /\ ~(i2p[v][x] < 0)
    BY <2>3, <2>4, NegativeIsNone
  <2>6. minDfsm.i2p[PkClasses[v]][x] = PkClasses[i2p[v][x]]
    BY <2>5, MinimalDfsmRow
  <2> QED BY <2>3, <2>5, <2>6
<1>3. Reach(m, <<u, PkClasses[u]>>, k) \subseteq X
  <2>1. <<u, PkClasses[u]>> \in X
    OBVIOUS
  <2> HIDE DEF m, X
  <2> QED BY <1>2, <2>1, ReachWithin
<1>4. ASSUME NEW p \in PkReach(Pk!This, u, minDfsm, PkClasses[u], k), NEW x \in Input
      PROVE  Pk!This.io[p[1]][x] = minDfsm.io[p[2]][x]
  <2>1. p \in Reach(m, <<u, PkClasses[u]>>, k)
    BY <1>1 DEF PkReach
  <2>2. p \in X
    <3> HIDE DEF m, X
    <3> QED BY <1>3, <2>1
  <2>3. PICK v \in State : p = <<v, PkClasses[v]>>
    BY <2>2
  <2> QED BY <1>1, <2>3, MinimalDfsmRow
<1> QED BY <1>4, SameOutputsIs

(* States of the minimal DFSM that give the same outputs do the same labels *)
(* when it is read as an observable FSM.                                    *)
LEMMA OutputsGiveLanguage ==
  ASSUME PkDone, NEW c \in 0 .. OT!OldMax, NEW d \in 0 .. OT!OldMax, NEW k \in Nat,
         Pk!SameOutputs(minDfsm, c, minDfsm, d, k + 1)
  PROVE  SameLanguage(PkRows, c, PkRows, d, k + 1)
<1> DEFINE ml == <<Label, PkRows, PkRows>>
           mx == <<Input, minDfsm.i2p, minDfsm.i2p>>
           Classes == 0 .. OT!OldMax
           X == Classes \X Classes
<1>1. \A e \in Classes : \E u \in State : PkClasses[u] = e
  BY PkDoneFacts, SameStates DEF OT!Dense
<1>2. \A u \in State : PkClasses[u] \in Classes
  BY PkDoneFacts, SameStates DEF OT!Dense
<1>3. ASSUME NEW e \in Classes, NEW l \in Label
      PROVE  PkRows[e][l] = IF minDfsm.io[e][l[1]] = l[2] THEN minDfsm.i2p[e][l[1]] ELSE -1
  <2>1. DOMAIN minDfsm.io = Classes
    BY PkDoneFacts DEF PkDone, PkMinimal
  <2> HIDE DEF Classes
  <2> QED BY <2>1 DEF PkRows, PkDone
<1>4. ASSUME NEW e \in Classes, NEW l \in Label, PkRows[e][l] >= 0
      PROVE  /\ minDfsm.io[e][l[1]] = l[2]
             /\ PkRows[e][l] = minDfsm.i2p[e][l[1]] /\ PkRows[e][l] \in Classes
  <2>1. PICK u \in State : PkClasses[u] = e
    BY <1>1
  <2>2. minDfsm.io[e][l[1]] = l[2] /\ PkRows[e][l] = minDfsm.i2p[e][l[1]]
    BY <1>3, <1>4
  <2>3. l[1] \in Input
    BY MachineFacts DEF PkDone, PkInv
  <2>4. minDfsm.i2p[e][l[1]] = IF i2p[u][l[1]] < 0 THEN -1 ELSE PkClasses[i2p[u][l[1]]]
    BY <2>1, <2>3, MinimalDfsmRow
  <2>5. i2p[u][l[1]] \in State \cup {-1}
    BY <2>3, MachineFacts DEF PkDone, PkInv
  <2>6. ~(i2p[u][l[1]] < 0)
    BY <1>4, <2>2, <2>4
  <2>7. i2p[u][l[1]] \in State
    BY <2>5, <2>6, NegativeIsNone
  <2> QED BY <1>2, <2>2, <2>4, <2>6, <2>7
<1>5. ASSUME NEW e \in Classes, NEW l \in Label
      PROVE  PkRows[e][l] >= 0 <=> minDfsm.io[e][l[1]] = l[2]
  <2>1. PICK u \in State : PkClasses[u] = e
    BY <1>1
  <2>2. l[1] \in Input /\ l[2] \in Nat
    BY MachineFacts DEF PkDone, PkInv
  <2>3. minDfsm.io[e][l[1]] = io[u][l[1]]
        /\ minDfsm.i2p[e][l[1]] = IF i2p[u][l[1]] < 0 THEN -1 ELSE PkClasses[i2p[u][l[1]]]
    BY <2>1, <2>2, MinimalDfsmRow
  <2>4. i2p[u][l[1]] \in State \cup {-1} /\ (io[u][l[1]] = -1 <=> i2p[u][l[1]] = -1)
    BY <2>2, MachineFacts DEF PkDone, PkInv
  <2>5. ASSUME minDfsm.io[e][l[1]] = l[2] PROVE PkRows[e][l] >= 0
    <3>1. i2p[u][l[1]] # -1
      BY <2>2, <2>3, <2>4, <2>5
    <3>2. i2p[u][l[1]] \in State /\ ~(i2p[u][l[1]] < 0)
      BY <2>4, <3>1, NegativeIsNone
    <3>3. PkRows[e][l] = PkClasses[i2p[u][l[1]]] /\ PkClasses[i2p[u][l[1]]] \in Classes
      BY <1>2, <1>3, <2>3, <2>5, <3>2
    <3>4. \A v \in Classes : v >= 0
      BY PkDoneFacts
    <3> HIDE DEF Classes
    <3> QED BY <3>3, <3>4
  <2> QED BY <1>4, <2>5
<1>6. Succ(ml, X) \subseteq X /\ \A t \in X : Succ(ml, {t}) \subseteq Succ(mx, {t})
  <2>1. ASSUME NEW t \in X, NEW l \in Label, NEW s, s = <<PkRows[t[1]][l], PkRows[t[2]][l]>>,
               s[1] >= 0, s[2] >= 0
        PROVE  s \in X /\ l[1] \in Input /\ s = <<minDfsm.i2p[t[1]][l[1]], minDfsm.i2p[t[2]][l[1]]>>
    <3>1. t[1] \in Classes /\ t[2] \in Classes /\ PkRows[t[1]][l] >= 0 /\ PkRows[t[2]][l] >= 0
      BY <2>1
    <3>2. l[1] \in Input
      BY MachineFacts DEF PkDone, PkInv
    <3>3. /\ PkRows[t[1]][l] = minDfsm.i2p[t[1]][l[1]] /\ PkRows[t[1]][l] \in Classes
          /\ PkRows[t[2]][l] = minDfsm.i2p[t[2]][l[1]] /\ PkRows[t[2]][l] \in Classes
      <4> HIDE DEF Classes
      <4> QED BY <1>4, <3>1
    <3> HIDE DEF Classes
    <3> QED BY <2>1, <3>2, <3>3
  <2>2. ASSUME NEW s \in Succ(ml, X) PROVE s \in X
    <3>1. PICK t \in X : \E l \in Label : s = <<PkRows[t[1]][l], PkRows[t[2]][l]>> /\ s[1] >= 0 /\ s[2] >= 0
      <4> HIDE DEF X
      <4> QED BY SuccOf
    <3> HIDE DEF X
    <3> QED BY <2>1, <3>1
  <2>3. ASSUME NEW t \in X, NEW s \in Succ(ml, {t}) PROVE s \in Succ(mx, {t})
    <3>1. PICK l \in Label : s = <<PkRows[t[1]][l], PkRows[t[2]][l]>> /\ s[1] >= 0 /\ s[2] >= 0
      <4> HIDE DEF X
      <4> QED BY SuccOf
    <3>2. l[1] \in Input /\ s = <<minDfsm.i2p[t[1]][l[1]], minDfsm.i2p[t[2]][l[1]]>>
      <4> HIDE DEF X
      <4> QED BY <2>1, <3>1
    <3>3. s \in Succ(mx, {t}) <=>
            \E y \in {t} : \E x \in mx[1] :
              s = <<mx[2][y[1]][x], mx[3][y[2]][x]>> /\ s[1] >= 0 /\ s[2] >= 0
      <4> HIDE DEF mx
      <4> QED BY SuccOf
    <3> HIDE DEF X
    <3> QED BY <3>1, <3>2, <3>3
  <2> HIDE DEF X, ml, mx
  <2> QED BY <2>2, <2>3
<1>7. <<c, d>> \in X
  OBVIOUS
<1>8. Reach(ml, <<c, d>>, k) \subseteq X
  <2> HIDE DEF ml, X
  <2> QED BY <1>6, <1>7, ReachWithin
<1>9. Reach(ml, <<c, d>>, k) \subseteq Reach(mx, <<c, d>>, k)
  <2> HIDE DEF ml, mx, X
  <2> QED BY <1>6, <1>7, ReachContained
<1>10. \A p \in Reach(mx, <<c, d>>, k) : \A x \in Input : minDfsm.io[p[1]][x] = minDfsm.io[p[2]][x]
  BY SameOutputsIs DEF PkReach
<1>11. ASSUME NEW t \in Reach(ml, <<c, d>>, k), NEW l \in Label
       PROVE  PkRows[t[1]][l] >= 0 <=> PkRows[t[2]][l] >= 0
  <2>1. t \in X /\ t \in Reach(mx, <<c, d>>, k)
    <3> HIDE DEF ml, mx, X
    <3> QED BY <1>8, <1>9
  <2>2. t[1] \in Classes /\ t[2] \in Classes
    BY <2>1
  <2>3. l[1] \in Input
    BY MachineFacts DEF PkDone, PkInv
  <2>4. minDfsm.io[t[1]][l[1]] = minDfsm.io[t[2]][l[1]]
    <3> HIDE DEF mx
    <3> QED BY <1>10, <2>1, <2>3
  <2> HIDE DEF Classes
  <2> QED BY <1>5, <2>2, <2>4
<1>12. \A t \in Reach(ml, <<c, d>>, k) : SameLabels(PkRows, t[1], PkRows, t[2])
  <2> HIDE DEF ml
  <2> QED BY <1>11 DEF SameLabels
<1> QED BY <1>12, LanguageIs

LEMMA PkMinimalInv ==
  ASSUME PkInv, PkMinimal
  PROVE  Pk!MinimisedIsMinimal
<1> SUFFICES ASSUME pkPc = "done", NEW c \in DOMAIN minDfsm.io, NEW d \in DOMAIN minDfsm.io, c # d,
                    Pk!SameOutputs(minDfsm, c, minDfsm, d, numStates - 1)
             PROVE  FALSE
  BY DEF Pk!MinimisedIsMinimal
<1>1. PkDone
  BY DEF PkDone
<1>2. DOMAIN minDfsm.io = 0 .. OT!OldMax
  BY <1>1, PkDoneFacts DEF PkMinimal
<1>3. PICK p \in State, q \in State : PkClasses[p] = c /\ PkClasses[q] = d
  BY <1>1, <1>2, PkDoneFacts, SameStates DEF OT!Dense
<1>4. OT!OldMax <= numStates - 1
  BY NumStatesAssumption, RowsAssumption, InitStatesAssumption, OT!ClassesAtMostStates DEF PkInv, OT!State, State
<1>5. OT!OldMax \in Nat /\ OT!OldMax # 0
  BY <1>1, <1>2, PkDoneFacts
<1>6. PICK k \in Nat : numStates - 1 = k + 1
  <2>1. numStates - 2 \in Nat /\ numStates - 1 = (numStates - 2) + 1
    BY <1>4, <1>5, NumStatesAssumption
  <2> QED BY <2>1
<1>7. SameLanguage(PkRows, c, PkRows, d, numStates - 1)
  BY <1>1, <1>2, <1>6, OutputsGiveLanguage
<1>8. ~OT!SameLanguage(PkRows, PkClasses[p], PkRows, PkClasses[q], numStates - 1)
  <2>1. PkPhase = "done" /\ numStates - 1 \in Nat /\ numStates - 1 <= numStates - 1
        /\ PkClasses[p] # PkClasses[q]
    BY <1>1, <1>3, <1>6, PkDoneFacts
  <2> QED BY <2>1, NumStatesAssumption, RowsAssumption, InitStatesAssumption, OT!ClassesDiffer
          DEF PkInv, OT!State, State
<1> QED BY <1>3, <1>7, <1>8, SameLanguages

-----------------------------------------------------------------------------
(* What both kinds of tables say of their last class map, for the machine   *)
(* with rows r: it has the classes c and the number k, is stable, and its   *)
(* predecessor was not.                                                     *)
LastTableOf(c, k) ==
  /\ k \in Nat \ {0}
  /\ \A p, q \in State : c[p] = c[q] <=> SameLanguage(rows, p, rows, q, k)
  /\ \A p, q \in State : c[p] = c[q] => \A j \in Nat : SameLanguage(rows, p, rows, q, j + 1)
  /\ k >= 2 => \E p, q \in State : SameLanguage(rows, p, rows, q, k - 1) /\ c[p] # c[q]

LEMMA NotEarlier ==
  ASSUME NEW c1, NEW k1, NEW c2, NEW k2, LastTableOf(c1, k1), LastTableOf(c2, k2)
  PROVE  ~(k1 < k2)
<1> SUFFICES ASSUME k1 < k2 PROVE FALSE
  OBVIOUS
<1>1. k1 \in Nat \ {0} /\ k2 - 1 \in Nat /\ k1 <= k2 - 1 /\ k2 >= 2 /\ (k2 - 1) + 1 = k2
  BY DEF LastTableOf
<1>2. PICK p \in State, q \in State : SameLanguage(rows, p, rows, q, k2 - 1) /\ c2[p] # c2[q]
  BY <1>1 DEF LastTableOf
<1>3. SameLanguage(rows, p, rows, q, k1)
  BY <1>1, <1>2, LanguageMonotone
<1>4. SameLanguage(rows, p, rows, q, (k2 - 1) + 1)
  BY <1>1, <1>3 DEF LastTableOf
<1> QED BY <1>1, <1>2, <1>4 DEF LastTableOf

LEMMA OneLastTable ==
  ASSUME NEW c1, NEW k1, NEW c2, NEW k2, LastTableOf(c1, k1), LastTableOf(c2, k2)
  PROVE  k1 = k2 /\ \A p, q \in State : c1[p] = c1[q] <=> c2[p] = c2[q]
<1>1. ~(k1 < k2) /\ ~(k2 < k1)
  BY NotEarlier
<1>2. k1 = k2
  BY <1>1 DEF LastTableOf
<1> QED BY <1>2 DEF LastTableOf

LEMMA LastOfsmTable ==
  ASSUME IInv, LanguageInv, pc = "done"
  PROVE  LastTableOf(s2c, tblId)
<1>1. \A p, q \in State : s2c[p] = s2c[q] => \A j \in Nat : SameLanguage(rows, p, rows, q, j + 1)
  BY FinalClassLanguage
<1> QED BY <1>1 DEF LastTableOf, LanguageInv, TableLanguage, TableGrows

LEMMA LastPkTable ==
  ASSUME PkInv, PkMinimal, pkPc = "done"
  PROVE  LastTableOf(PkClasses, Len(tables))
<1>1. PkPhase = "done"
  BY PkDoneFacts DEF PkDone
<1>2. ASSUME NEW p \in State, NEW q \in State, PkClasses[p] = PkClasses[q], NEW j \in Nat
      PROVE  SameLanguage(rows, p, rows, q, j + 1)
  <2>1. OT!SameLanguage(rows, p, rows, q, j + 1)
    BY <1>1, <1>2, NumStatesAssumption, RowsAssumption, InitStatesAssumption, OT!FinalClassLanguage
       DEF PkInv, OT!State, State
  <2> QED BY <2>1, SameLanguages
<1>3. OT!TableLanguage /\ OT!TableGrows
  BY DEF PkInv, OT!LanguageInv
<1>4. \A p, q \in State : PkClasses[p] = PkClasses[q] <=> SameLanguage(rows, p, rows, q, Len(tables))
  BY <1>1, <1>3, SameStates, SameLanguages DEF OT!TableLanguage
<1>5. Len(tables) >= 2 =>
        \E p, q \in State : SameLanguage(rows, p, rows, q, Len(tables) - 1) /\ PkClasses[p] # PkClasses[q]
  BY <1>3, SameStates, SameLanguages DEF OT!TableGrows
<1>6. Len(tables) \in Nat \ {0}
  BY <1>1, <1>3 DEF OT!TableLanguage
<1> QED BY <1>2, <1>4, <1>5, <1>6 DEF LastTableOf

LEMMA PkEquivalentInv ==
  ASSUME PkInv, PkMinimal, initStateIdx = 0
  PROVE  Pk!MinimisedIsEquivalent
<1> SUFFICES ASSUME pkPc = "done"
             PROVE  Pk!SameOutputs(Pk!This, 0, minDfsm, 0, 2 * numStates - 1)
  BY DEF Pk!MinimisedIsEquivalent, Pk!MinInitStateIdx
<1>1. PkDone /\ 0 \in State
  BY StateFacts DEF PkDone
<1>2. PICK k \in Nat : 2 * numStates - 1 = k + 1
  <2>1. 2 * numStates - 2 \in Nat /\ 2 * numStates - 1 = (2 * numStates - 2) + 1
    BY NumStatesAssumption
  <2> QED BY <2>1
<1>3. PkClasses[0] = 0
  BY DEF PkInv, OT!LanguageInv, OT!ZeroFirst
<1>4. Pk!SameOutputs(Pk!This, 0, minDfsm, PkClasses[0], k + 1)
  BY <1>1, PkEquivalent
<1> QED BY <1>2, <1>3, <1>4

(* A machine that starts in state 0, where toFsm starts the minimal ones:   *)
(* both minimal machines are equivalent to it and minimal, and both kinds   *)
(* of tables end with the same classes after equally many tables.           *)
THEOREM MinimisationFromStateZero == MinSpec => [](initStateIdx = 0 => MinimisedCorrect)
<1>1. MinInv => (initStateIdx = 0 => MinimisedCorrect)
  <2> SUFFICES ASSUME MinInv, initStateIdx = 0 PROVE MinimisedCorrect
    OBVIOUS
  <2>1. IInv /\ LanguageInv /\ PkInv /\ PkMinimal /\ OneAfterTheOther
    BY DEF MinInv
  <2>2. MinimisedIsEquivalent /\ MinimisedIsMinimal
    BY <2>1, EquivalentInv, MinimalInv
  <2>3. Pk!MinimisedIsEquivalent /\ Pk!MinimisedIsMinimal
    BY <2>1, PkEquivalentInv, PkMinimalInv
  <2>4. ASSUME pkPc = "done"
        PROVE  Len(tables) = tblId /\ \A q, r \in State : s2c[q] = s2c[r] <=> Pk!s2c[q] = Pk!s2c[r]
    <3>1. pc = "done" /\ PkClasses = Pk!s2c
      BY <2>1, <2>4, PkDoneFacts DEF OneAfterTheOther, PkDone
    <3>2. LastTableOf(s2c, tblId) /\ LastTableOf(PkClasses, Len(tables))
      BY <2>1, <2>4, <3>1, LastOfsmTable, LastPkTable
    <3> QED BY <3>1, <3>2, OneLastTable
  <2> QED BY <2>2, <2>3, <2>4 DEF MinimisedCorrect
<1> QED BY <1>1, MinInductive, PTL

(* ... and so the invariant that the run checks holds where all machines    *)
(* start in state 0.                                                        *)
THEOREM BothMinimisationsCorrect ==
  ASSUME InitStates = {0}
  PROVE  MinSpec => []MinimisedCorrect
<1>1. MinInv => initStateIdx = 0
  BY DEF MinInv, IInv, TypeOK
<1> QED BY <1>1, MinInductive, MinimisationFromStateZero, PTL

(* The properties of the OFSM tables hold when a deterministic machine is   *)
(* minimised, too.                                                          *)
THEOREM FsmTablesOfDfsm == MinSpec => [](TypeOK /\ ClassesContiguous) /\ RefinesPartition
BY FirstAsFsm, TypeCorrect, NoGaps, TablesRefinePartition, PTL

====
