-------------------------- MODULE OFSMTables_proofs --------------------------
(***************************************************************************)
(* Proofs about OFSMTables, for every observable FSM:                      *)
(*                                                                         *)
(*   - the classes of a table are numbered without gaps;                   *)
(*   - the tables implement PartitionRefinement, and so the classes of the *)
(*     last table are the bisimilar states;                                *)
(*   - the FSM that toFsm reads off the last table is minimal and has the  *)
(*     traces of the original one.                                         *)
(*                                                                         *)
(* The invariant of next() says what the table under construction already  *)
(* knows: which states have a class (Progress), that two states with a     *)
(* class share it exactly if they shared the old one and their post-states *)
(* do (Agree), that a class opened in this round is complete (Complete),   *)
(* and that the numbers given out have no gaps (Numbers).                  *)
(*                                                                         *)
(* For the traces, LanguageInv says that table k has the states with the   *)
(* same traces of k labels in one class (TableLanguage), that it has a     *)
(* class more than the one before (TableGrows), so that as many labels as  *)
(* there are states separate all classes, and that state 0 keeps class 0   *)
(* (ZeroFirst), the initial state of the minimal FSM.                      *)
(***************************************************************************)
EXTENDS OFSMTables, FiniteSetTheorems, WellFoundedInduction, TLAPS

Same(i, j) == s2c[i] = s2c[j] /\ classEquals(i, j)

(* c uses exactly the class numbers below k *)
Dense(c, k) ==
  /\ \A i \in State : c[i] < k
  /\ \A d \in 0 .. k - 1 : \E j \in State : c[j] = d

OldMax == maxClassId(s2c)

TableDense == OldMax \in Nat /\ Dense(s2c, OldMax + 1)

FirstLoop ==
  pc = "first" =>
    /\ s2c = [i \in State |-> 0]
    /\ \A i \in State : i < n => newS2C[i] >= 0
    /\ \A i, j \in State : newS2C[i] >= 0 => (newS2C[i] = newS2C[j] <=> ioEquals(i, j))
    /\ Dense(newS2C, thisClass)

Progress ==
  \A i \in State :
    /\ s2c[i] < thisClass => newS2C[i] >= 0
    /\ s2c[i] = thisClass /\ i < n => newS2C[i] >= 0
    /\ newS2C[i] >= 0 => s2c[i] <= thisClass
    /\ newS2C[i] >= 0 /\ newS2C[i] <= OldMax => newS2C[i] = s2c[i]

Agree ==
  \A i, j \in State :
    newS2C[i] >= 0 /\ newS2C[j] >= 0 => (newS2C[i] = newS2C[j] <=> Same(i, j))

Complete ==
  \A i, j \in State : newS2C[i] > OldMax /\ Same(i, j) => newS2C[j] >= 0

Reference ==
  /\ refRow = -1 => \A i \in State : s2c[i] = thisClass => i >= n /\ newS2C[i] = -1
  /\ refRow # -1 => s2c[refRow] = thisClass /\ newS2C[refRow] = thisClass

Numbers ==
  /\ thisClass <= OldMax + 1
  /\ OldMax + 1 <= thisNewClassId
  /\ \A i \in State : newS2C[i] < thisNewClassId
  /\ \A d \in 0 .. thisClass - 1 : \E j \in State : newS2C[j] = d
  /\ \A d \in OldMax + 1 .. thisNewClassId - 1 : \E j \in State : newS2C[j] = d
  /\ haveNewClasses <=> thisNewClassId > OldMax + 1

NextLoop == pc = "next" => Progress /\ Agree /\ Complete /\ Reference /\ Numbers

(* no table follows: the classes of the last one are respected by all labels *)
FinalTable ==
  pc \in {"toFsm", "done"} =>
    \A i, j \in State : s2c[i] = s2c[j] => classEquals(i, j)

IInv == TypeOK /\ TableDense /\ FirstLoop /\ NextLoop /\ FinalTable

-----------------------------------------------------------------------------
LEMMA StateFacts ==
  /\ State \subseteq Nat
  /\ 0 \in State
  /\ \A i \in State : i < numStates
  /\ -1 \notin State
  /\ \A k \in Nat : k < numStates => k \in State
BY NumStatesAssumption DEF State

LEMMA RowFacts ==
  ASSUME TypeOK
  PROVE  /\ \A i \in State, l \in Label : rows[i][l] \in State \cup {-1}
         /\ \A i \in State, l \in Label : rows[i][l] >= 0 <=> rows[i][l] \in State
<1>1. rows \in [State -> [Label -> State \cup {-1}]]
  BY DEF TypeOK
<1>2. \A q \in State \cup {-1} : q >= 0 <=> q \in State
  BY StateFacts
<1> QED BY <1>1, <1>2

LEMMA MaxOfDense ==
  ASSUME NEW c \in [State -> Nat], NEW k \in Nat \ {0}, Dense(c, k)
  PROVE  maxClassId(c) = k - 1
<1>1. PICK j \in State : c[j] = k - 1
  <2>1. k - 1 \in 0 .. k - 1
    OBVIOUS
  <2> QED BY <2>1 DEF Dense
<1>2. \A i \in State : c[i] <= k - 1 /\ c[i] \in Nat
  BY DEF Dense
<1>3. \A m \in {c[i] : i \in State} : (\A i \in State : c[i] <= m) <=> m = k - 1
  BY <1>1, <1>2
<1> QED BY <1>1, <1>3 DEF maxClassId

LEMMA ioEqualsIsEquivalence ==
  ASSUME NEW i, NEW j, NEW k
  PROVE  /\ ioEquals(i, i)
         /\ ioEquals(i, j) => ioEquals(j, i)
         /\ ioEquals(i, j) /\ ioEquals(j, k) => ioEquals(i, k)
BY DEF ioEquals

LEMMA SameIsEquivalence ==
  ASSUME NEW i, NEW j, NEW k
  PROVE  /\ Same(i, i)
         /\ Same(i, j) => Same(j, i)
         /\ Same(i, j) /\ Same(j, k) => Same(i, k)
BY DEF Same, classEquals, ioEquals

(* rows and classes are what ioEquals, classEquals and Same depend on *)
LEMMA SameUnchanged ==
  ASSUME UNCHANGED <<rows, s2c>>
  PROVE  /\ \A i, j : ioEquals(i, j)' <=> ioEquals(i, j)
         /\ \A i, j : classEquals(i, j)' <=> classEquals(i, j)
         /\ \A i, j : Same(i, j)' <=> Same(i, j)
         /\ OldMax' = OldMax
         /\ TableDense => TableDense'
BY DEF ioEquals, classEquals, Same, OldMax, TableDense, Dense

-----------------------------------------------------------------------------
LEMMA InitIInv == Init => IInv
<1> SUFFICES ASSUME Init PROVE IInv
  OBVIOUS
<1>1. s2c \in [State -> Nat] /\ Dense(s2c, 1)
  BY StateFacts DEF Init, StartTables, Dense
<1>2. OldMax = 0
  BY <1>1, MaxOfDense DEF OldMax
<1>3. TypeOK
  BY <1>1, StateFacts, NumStatesAssumption, RowsAssumption DEF Init, StartTables, TypeOK, Unassigned
<1>4. TableDense
  BY <1>1, <1>2 DEF TableDense
<1>5. FirstLoop
  BY StateFacts DEF Init, StartTables, FirstLoop, Unassigned, Dense
<1> QED BY <1>3, <1>4, <1>5 DEF Init, StartTables, IInv, NextLoop, FinalTable

LEMMA FirstTableStateStep ==
  ASSUME IInv, FirstTableState
  PROVE  IInv'
<1> USE DEF FirstTableState
<1>1. n \in State /\ n \in Nat /\ thisClass \in Nat /\ newS2C \in [State -> Nat \cup {-1}]
  BY StateFacts, NumStatesAssumption DEF IInv, TypeOK
<1>2. FirstLoop /\ pc = "first"
  BY DEF IInv
<1>3. TypeOK'
  BY <1>1, StateFacts, NumStatesAssumption DEF IInv, TypeOK
<1>4. TableDense'
  BY SameUnchanged DEF IInv
<1>5. FirstLoop'
  <2>1. CASE newS2C[n] >= 0
    BY <1>1, <1>2, <2>1, StateFacts DEF FirstLoop, ioEquals, Dense
  <2>2. CASE ~(newS2C[n] >= 0)
    <3>1. newS2C' = [m \in State |-> IF m = n \/ (m > n /\ ioEquals(n, m))
                                     THEN thisClass ELSE newS2C[m]]
          /\ thisClass' = thisClass + 1
      BY <2>2
    (* exactly the states equal to n get the new class *)
    <3>2. \A m \in State : ioEquals(n, m) => newS2C[m] = -1 /\ m >= n
      <4> SUFFICES ASSUME NEW m \in State, ioEquals(n, m) PROVE newS2C[m] = -1 /\ m >= n
        OBVIOUS
      <4>1. ~(newS2C[m] >= 0)
        BY <1>1, <1>2, <2>2, ioEqualsIsEquivalence DEF FirstLoop
      <4> QED BY <1>1, <1>2, <4>1, StateFacts DEF FirstLoop
    <3>3. \A m \in State : newS2C'[m] = IF ioEquals(n, m) THEN thisClass ELSE newS2C[m]
      BY <1>1, <3>1, <3>2, StateFacts, ioEqualsIsEquivalence
    <3>4. \A i \in State : newS2C[i] \in Nat \cup {-1} /\ newS2C[i] < thisClass
      BY <1>1, <1>2 DEF FirstLoop, Dense
    <3>5. \A i \in State : i < n' => newS2C'[i] >= 0
      BY <1>1, <1>2, <3>3, <3>4, StateFacts, ioEqualsIsEquivalence DEF FirstLoop
    <3>6. ASSUME NEW i \in State, NEW j \in State, newS2C'[i] >= 0
          PROVE  newS2C'[i] = newS2C'[j] <=> ioEquals(i, j)
      <4>1. CASE ioEquals(n, i)
        BY <1>1, <3>3, <3>4, <4>1, ioEqualsIsEquivalence
      <4>2. CASE ~ioEquals(n, i) /\ ioEquals(n, j)
        BY <1>1, <3>3, <3>4, <4>2, ioEqualsIsEquivalence
      <4>3. CASE ~ioEquals(n, i) /\ ~ioEquals(n, j)
        BY <1>2, <3>3, <3>6, <4>3 DEF FirstLoop
      <4> QED BY <4>1, <4>2, <4>3
    <3>7. \A i \in State : newS2C'[i] < thisClass + 1
      BY <1>1, <3>3, <3>4
    <3>8. ASSUME NEW d \in 0 .. thisClass
          PROVE  \E j \in State : newS2C'[j] = d
      <4>1. CASE d = thisClass
        BY <1>1, <3>3, <4>1, ioEqualsIsEquivalence
      <4>2. CASE d \in 0 .. thisClass - 1
        <5>1. PICK j \in State : newS2C[j] = d
          BY <1>2, <4>2 DEF FirstLoop, Dense
        <5>2. ~ioEquals(n, j)
          BY <3>2, <4>2, <5>1
        <5> QED BY <3>3, <5>1, <5>2
      <4> QED BY <1>1, <4>1, <4>2
    <3>9. s2c' = [i \in State |-> 0]
      BY <1>2 DEF FirstLoop
    <3>10. \A i, j : ioEquals(i, j)' <=> ioEquals(i, j)
      BY DEF ioEquals
    <3>11. Dense(newS2C, thisClass)'
      <4>1. Dense(newS2C', thisClass + 1)
        <5> DEFINE c == newS2C'
                   k == thisClass + 1
        <5>1. \A i \in State : c[i] < k
          BY <3>7
        <5>2. \A d \in 0 .. k - 1 : \E j \in State : c[j] = d
          <6>1. k - 1 = thisClass
            BY <1>1
          <6> QED BY ONLY <3>8, <6>1
        <5> HIDE DEF c, k
        <5>3. Dense(c, k)
          BY <5>1, <5>2 DEF Dense
        <5> QED BY <5>3 DEF c, k
      <4>2. Dense(newS2C', thisClass')
        BY ONLY <3>1, <4>1
      <4> QED BY ONLY <4>2 DEF Dense
    <3> QED BY <3>5, <3>6, <3>9, <3>10, <3>11 DEF FirstLoop
  <2> QED BY <2>1, <2>2
<1> QED BY <1>2, <1>3, <1>4, <1>5 DEF IInv, NextLoop, FinalTable

(* StartNext on a complete class map c with k classes *)
LEMMA StartNextStep ==
  ASSUME IInv, NEW c \in [State -> Nat], NEW k \in Nat \ {0}, Dense(c, k), StartNext(c)
  PROVE  IInv'
<1> USE DEF StartNext
<1>1. OldMax' = k - 1 /\ maxClassId(c) = k - 1
  BY MaxOfDense DEF OldMax, maxClassId
<1>2. TypeOK'
  <2>1. newS2C' \in [State -> Nat \cup {-1}]
    BY DEF Unassigned
  <2>2. thisNewClassId' \in Nat
    BY <1>1
  <2>3. s2c' \in [State -> Nat] /\ tblId' \in Nat /\ n' \in 0 .. numStates
    BY NumStatesAssumption DEF IInv, TypeOK
  <2>4. /\ rows' \in [State -> [Label -> State \cup {-1}]]
        /\ initStateIdx' \in InitStates
        /\ pc' \in {"first", "next", "toFsm", "done"}
        /\ thisClass' \in Nat
        /\ refRow' \in State \cup {-1}
        /\ haveNewClasses' \in BOOLEAN
    BY DEF IInv, TypeOK
  <2> QED BY ONLY <2>1, <2>2, <2>3, <2>4 DEF TypeOK
<1>3. TableDense'
  BY <1>1 DEF TableDense, Dense
<1>4. \A i \in State : newS2C'[i] = -1 /\ s2c'[i] \in Nat
  BY DEF Unassigned
<1>5. Progress' /\ Agree' /\ Complete' /\ Reference'
  BY <1>1, <1>4, StateFacts DEF Progress, Agree, Complete, Reference
<1>6. Numbers'
  BY <1>1, <1>4 DEF Numbers
<1>7. pc' = "next"
  OBVIOUS
<1> QED BY <1>2, <1>3, <1>5, <1>6, <1>7 DEF IInv, NextLoop, FirstLoop, FinalTable

LEMMA FirstTableFacts ==
  ASSUME IInv, FirstTableDone
  PROVE  /\ newS2C \in [State -> Nat]
         /\ thisClass \in Nat \ {0}
         /\ Dense(newS2C, thisClass)
         /\ \A i, j \in State : newS2C[i] = newS2C[j] <=> ioEquals(i, j)
<1>1. FirstLoop /\ TypeOK /\ n = numStates /\ pc = "first"
  BY DEF IInv, FirstTableDone
<1>2. \A i \in State : newS2C[i] >= 0
  BY <1>1, StateFacts DEF FirstLoop
<1>3. newS2C \in [State -> Nat]
  BY <1>1, <1>2 DEF TypeOK
<1>4. newS2C[0] \in Nat /\ newS2C[0] < thisClass /\ thisClass \in Nat
  BY <1>1, <1>3, StateFacts DEF FirstLoop, Dense, TypeOK
<1> QED BY <1>1, <1>2, <1>3, <1>4 DEF FirstLoop

LEMMA SkipStep ==
  ASSUME IInv, Skip
  PROVE  IInv'
<1> USE DEF Skip
<1>1. n \in State /\ n \in Nat /\ newS2C \in [State -> Nat \cup {-1}] /\ s2c \in [State -> Nat]
  BY StateFacts, NumStatesAssumption DEF IInv, TypeOK
<1>2. TypeOK'
  BY <1>1, NumStatesAssumption DEF IInv, TypeOK
<1>3. Progress /\ Agree /\ Complete /\ Reference /\ Numbers
  BY DEF IInv, NextLoop
<1>4. Progress'
  BY <1>1, <1>3, SameUnchanged, StateFacts DEF Progress
<1>5. Agree' /\ Complete'
  BY <1>3, SameUnchanged DEF Agree, Complete
<1>6. Reference'
  BY <1>1, <1>3, StateFacts DEF Reference
<1>7. Numbers' /\ TableDense'
  BY <1>3, SameUnchanged DEF Numbers, IInv
<1> QED BY <1>2, <1>4, <1>5, <1>6, <1>7 DEF IInv, NextLoop, FirstLoop, FinalTable

LEMMA RelevantFacts ==
  ASSUME IInv, Relevant
  PROVE  /\ n \in State /\ n \in Nat /\ thisClass \in Nat /\ thisNewClassId \in Nat
         /\ newS2C \in [State -> Nat \cup {-1}] /\ s2c \in [State -> Nat]
         /\ newS2C[n] = -1 /\ s2c[n] = thisClass
         /\ OldMax \in Nat /\ thisClass <= OldMax
         /\ Progress /\ Agree /\ Complete /\ Reference /\ Numbers /\ TypeOK /\ TableDense
<1>1. n \in State /\ n \in Nat /\ thisClass \in Nat /\ thisNewClassId \in Nat
      /\ newS2C \in [State -> Nat \cup {-1}] /\ s2c \in [State -> Nat] /\ TypeOK
  BY StateFacts, NumStatesAssumption DEF IInv, TypeOK, Relevant
<1>2. newS2C[n] = -1 /\ s2c[n] = thisClass
  BY <1>1 DEF Relevant
<1>3. OldMax \in Nat /\ Dense(s2c, OldMax + 1) /\ TableDense
  BY DEF IInv, TableDense
<1>4. thisClass <= OldMax
  BY <1>1, <1>2, <1>3 DEF Dense
<1> QED BY <1>1, <1>2, <1>3, <1>4 DEF IInv, NextLoop, Relevant

LEMMA TakeReferenceStep ==
  ASSUME IInv, TakeReference
  PROVE  IInv'
<1> USE DEF TakeReference
<1>1. Relevant
  OBVIOUS
<1>2. \A i \in State : newS2C'[i] = IF i = n THEN thisClass ELSE newS2C[i]
  BY <1>1, RelevantFacts
<1>3. newS2C' \in [State -> Nat \cup {-1}]
  BY <1>1, RelevantFacts
<1>4. TypeOK'
  BY <1>1, <1>3, RelevantFacts, StateFacts, NumStatesAssumption DEF TypeOK
<1>5. \A i \in State : s2c[i] = thisClass => i >= n /\ newS2C[i] = -1
  BY <1>1, RelevantFacts DEF Reference
<1>6. Progress'
  BY <1>1, <1>2, <1>5, RelevantFacts, SameUnchanged, StateFacts DEF Progress
<1>7. Agree'
  <2> SUFFICES ASSUME NEW i \in State, NEW j \in State, newS2C'[i] >= 0, newS2C'[j] >= 0
               PROVE  newS2C'[i] = newS2C'[j] <=> Same(i, j)
    BY SameUnchanged DEF Agree
  (* no other state with a class was in thisClass *)
  <2>1. \A k \in State : k # n /\ newS2C[k] >= 0 => newS2C[k] # thisClass /\ s2c[k] # thisClass
    BY <1>1, <1>5, RelevantFacts DEF Progress
  <2>2. CASE i = n /\ j = n
    BY <2>2, SameIsEquivalence
  <2>3. CASE i = n /\ j # n
    BY <1>1, <1>2, <2>1, <2>3, RelevantFacts DEF Same
  <2>4. CASE i # n /\ j = n
    BY <1>1, <1>2, <2>1, <2>4, RelevantFacts DEF Same
  <2>5. CASE i # n /\ j # n
    BY <1>1, <1>2, <2>5, RelevantFacts DEF Agree
  <2> QED BY <2>2, <2>3, <2>4, <2>5
<1>8. Complete'
  BY <1>1, <1>2, RelevantFacts, SameUnchanged DEF Complete
<1>9. Reference'
  BY <1>1, <1>2, RelevantFacts, StateFacts DEF Reference
<1>10. Numbers'
  <2>1. \A i \in State : newS2C'[i] < thisNewClassId
    BY <1>1, <1>2, RelevantFacts DEF Numbers
  <2>2. \A j \in State : newS2C[j] >= 0 => newS2C'[j] = newS2C[j]
    BY <1>1, <1>2, RelevantFacts
  <2>3. \A d \in 0 .. thisClass - 1 : \E j \in State : newS2C'[j] = d
    BY <1>1, <2>2, RelevantFacts DEF Numbers
  <2>4. \A d \in OldMax + 1 .. thisNewClassId - 1 : \E j \in State : newS2C'[j] = d
    BY <1>1, <2>2, RelevantFacts DEF Numbers
  <2> QED BY <1>1, <2>1, <2>3, <2>4, RelevantFacts, SameUnchanged DEF Numbers
<1>11. TableDense'
  BY <1>1, RelevantFacts, SameUnchanged
<1> QED BY <1>4, <1>6, <1>7, <1>8, <1>9, <1>10, <1>11 DEF Relevant, IInv, NextLoop, FirstLoop, FinalTable

LEMMA StayInClassStep ==
  ASSUME IInv, StayInClass
  PROVE  IInv'
<1> USE DEF StayInClass
<1>1. Relevant
  OBVIOUS
<1>2. \A i \in State : newS2C'[i] = IF i = n THEN thisClass ELSE newS2C[i]
  BY <1>1, RelevantFacts
<1>3. newS2C' \in [State -> Nat \cup {-1}]
  BY <1>1, RelevantFacts
<1>4. TypeOK'
  BY <1>1, <1>3, RelevantFacts, StateFacts, NumStatesAssumption DEF TypeOK
<1>5. refRow \in State /\ newS2C[refRow] = thisClass /\ Same(refRow, n) /\ newS2C[refRow] >= 0
  BY <1>1, RelevantFacts DEF Reference, Same, TypeOK
<1>6. Progress'
  BY <1>1, <1>2, RelevantFacts, SameUnchanged, StateFacts DEF Progress
<1>7. \A i \in State : newS2C[i] >= 0 => (newS2C[i] = thisClass <=> Same(i, n))
  BY <1>1, <1>5, RelevantFacts, SameIsEquivalence DEF Agree
<1>8. Agree'
  <2> SUFFICES ASSUME NEW i \in State, NEW j \in State, newS2C'[i] >= 0, newS2C'[j] >= 0
               PROVE  newS2C'[i] = newS2C'[j] <=> Same(i, j)
    BY SameUnchanged DEF Agree
  <2>1. CASE i = n /\ j = n
    BY <2>1, SameIsEquivalence
  <2>2. CASE i = n /\ j # n
    BY <1>2, <1>7, <2>2, SameIsEquivalence
  <2>3. CASE i # n /\ j = n
    BY <1>2, <1>7, <2>3, SameIsEquivalence
  <2>4. CASE i # n /\ j # n
    BY <1>1, <1>2, <2>4, RelevantFacts DEF Agree
  <2> QED BY <2>1, <2>2, <2>3, <2>4
<1>9. Complete'
  BY <1>1, <1>2, RelevantFacts, SameUnchanged DEF Complete
<1>10. Reference'
  BY <1>1, <1>2, <1>5, RelevantFacts, StateFacts DEF Reference
<1>11. Numbers'
  <2>1. \A i \in State : newS2C'[i] < thisNewClassId
    BY <1>1, <1>2, RelevantFacts DEF Numbers
  <2>2. \A j \in State : newS2C[j] >= 0 => newS2C'[j] = newS2C[j]
    BY <1>1, <1>2, RelevantFacts
  <2>3. \A d \in 0 .. thisClass - 1 : \E j \in State : newS2C'[j] = d
    BY <1>1, <2>2, RelevantFacts DEF Numbers
  <2>4. \A d \in OldMax + 1 .. thisNewClassId - 1 : \E j \in State : newS2C'[j] = d
    BY <1>1, <2>2, RelevantFacts DEF Numbers
  <2> QED BY <1>1, <2>1, <2>3, <2>4, RelevantFacts, SameUnchanged DEF Numbers
<1>12. TableDense'
  BY <1>1, RelevantFacts, SameUnchanged
<1> QED BY <1>4, <1>6, <1>8, <1>9, <1>10, <1>11, <1>12 DEF Relevant, IInv, NextLoop, FirstLoop, FinalTable

(* The state n and those taken along had no class yet: this is why next()  *)
(* need not look at newS2C(m) before it assigns m.                         *)
LEMMA OpenedFacts ==
  ASSUME IInv, OpenClass
  PROVE  /\ \A m \in State : Same(n, m) => newS2C[m] = -1 /\ m >= n /\ s2c[m] = thisClass
         /\ \A m \in State : newS2C'[m] = IF Same(n, m) THEN thisNewClassId ELSE newS2C[m]
<1> USE DEF OpenClass
<1>1. Relevant
  OBVIOUS
<1>2. refRow \in State /\ s2c[refRow] = thisClass /\ newS2C[refRow] = thisClass
  BY <1>1, RelevantFacts DEF Reference, TypeOK
<1>3. ~Same(refRow, n)
  BY DEF Same
<1>4. ASSUME NEW m \in State, Same(n, m)
      PROVE  newS2C[m] = -1 /\ m >= n /\ s2c[m] = thisClass
  <2>1. s2c[m] = thisClass /\ Same(m, n)
    BY <1>1, <1>4, RelevantFacts, SameIsEquivalence DEF Same
  <2>2. ASSUME newS2C[m] >= 0 PROVE FALSE
    <3>1. CASE newS2C[m] > OldMax
      BY <1>1, <2>1, <3>1, RelevantFacts DEF Complete
    <3>2. CASE newS2C[m] <= OldMax
      <4>1. newS2C[m] = newS2C[refRow] /\ newS2C[refRow] >= 0
        BY <1>1, <1>2, <2>1, <2>2, <3>2, RelevantFacts DEF Progress
      <4>2. Same(refRow, m)
        BY <1>1, <1>2, <2>2, <4>1, RelevantFacts, SameIsEquivalence DEF Agree
      <4> QED BY <1>3, <2>1, <4>2, SameIsEquivalence
    <3> QED BY <1>1, <2>2, <3>1, <3>2, RelevantFacts
  <2>3. newS2C[m] = -1
    BY <1>1, <2>2, RelevantFacts
  <2>4. m >= n
    BY <1>1, <2>1, <2>3, RelevantFacts, StateFacts DEF Progress
  <2> QED BY <2>1, <2>3, <2>4
<1>5. ASSUME NEW m \in State
      PROVE  newS2C'[m] = IF Same(n, m) THEN thisNewClassId ELSE newS2C[m]
  <2>1. newS2C'[m] = IF m = n \/ (m > n /\ s2c[m] = thisClass /\ classEquals(n, m))
                     THEN thisNewClassId ELSE newS2C[m]
    OBVIOUS
  <2>2. Same(n, m) <=> s2c[m] = thisClass /\ classEquals(n, m)
    BY <1>1, RelevantFacts DEF Same
  <2>3. Same(n, n)
    BY SameIsEquivalence
  <2> QED BY <1>1, <1>4, <2>1, <2>2, <2>3, RelevantFacts, StateFacts
<1> QED BY <1>4, <1>5

LEMMA OpenClassStep ==
  ASSUME IInv, OpenClass
  PROVE  IInv'
<1>1. Relevant /\ UNCHANGED <<rows, s2c, pc>>
  BY DEF OpenClass
<1> DEFINE new == thisNewClassId
<1>2. new \in Nat /\ new > OldMax /\ n \in State
  BY <1>1, RelevantFacts DEF Numbers
<1>3. \A m \in State : newS2C'[m] = IF Same(n, m) THEN new ELSE newS2C[m]
  BY OpenedFacts
<1>4. \A m \in State : Same(n, m) => newS2C[m] = -1 /\ m >= n /\ s2c[m] = thisClass
  BY OpenedFacts
<1>5. \A m \in State : newS2C[m] \in Nat \cup {-1} /\ newS2C[m] < new
  BY <1>1, RelevantFacts DEF Numbers
<1>6. newS2C' \in [State -> Nat \cup {-1}]
  BY <1>1, <1>2, RelevantFacts DEF OpenClass
<1>7. TypeOK'
  BY <1>1, <1>6, RelevantFacts, StateFacts, NumStatesAssumption DEF OpenClass, TypeOK
<1>8. Same(n, n)
  BY SameIsEquivalence
<1>9. Progress'
  <2> SUFFICES ASSUME NEW i \in State
               PROVE  /\ s2c[i] < thisClass => newS2C'[i] >= 0
                      /\ s2c[i] = thisClass /\ i < n + 1 => newS2C'[i] >= 0
                      /\ newS2C'[i] >= 0 => s2c[i] <= thisClass
                      /\ newS2C'[i] >= 0 /\ newS2C'[i] <= OldMax => newS2C'[i] = s2c[i]
    BY SameUnchanged, <1>1 DEF Progress, OpenClass
  <2>1. CASE Same(n, i)
    BY <1>1, <1>2, <1>3, <1>4, <2>1, RelevantFacts
  <2>2. CASE ~Same(n, i)
    <3>1. newS2C'[i] = newS2C[i] /\ i # n
      BY <1>3, <1>8, <2>2
    <3> QED BY <1>1, <3>1, RelevantFacts, StateFacts DEF Progress
  <2> QED BY <2>1, <2>2
<1>10. Agree'
  <2> SUFFICES ASSUME NEW i \in State, NEW j \in State, newS2C'[i] >= 0, newS2C'[j] >= 0
               PROVE  newS2C'[i] = newS2C'[j] <=> Same(i, j)
    BY <1>1, SameUnchanged DEF Agree
  <2>1. CASE Same(n, i) /\ Same(n, j)
    BY <1>3, <2>1, SameIsEquivalence
  <2>2. CASE Same(n, i) /\ ~Same(n, j)
    BY <1>2, <1>3, <1>5, <2>2, SameIsEquivalence
  <2>3. CASE ~Same(n, i) /\ Same(n, j)
    <3>1. newS2C'[i] = newS2C[i] /\ newS2C'[j] = new
      BY <1>3, <2>3
    <3>2. newS2C'[i] # newS2C'[j]
      <4>1. newS2C[i] < new /\ newS2C[i] \in Int /\ new \in Int
        BY <1>2, <1>5
      <4> HIDE DEF new
      <4> QED BY <3>1, <4>1
    <3>3. ~Same(i, j)
      BY <2>3, SameIsEquivalence
    <3> QED BY <3>2, <3>3
  <2>4. CASE ~Same(n, i) /\ ~Same(n, j)
    BY <1>1, <1>3, <2>4, RelevantFacts DEF Agree
  <2> QED BY <2>1, <2>2, <2>3, <2>4
<1>11. Complete'
  <2> SUFFICES ASSUME NEW i \in State, NEW j \in State, newS2C'[i] > OldMax, Same(i, j)
               PROVE  newS2C'[j] >= 0
    BY <1>1, SameUnchanged DEF Complete
  <2>1. CASE Same(n, j)
    BY <1>2, <1>3, <2>1
  <2>2. CASE ~Same(n, j)
    <3>1. ~Same(n, i)
      BY <2>2, SameIsEquivalence
    <3> QED BY <1>1, <1>3, <2>2, <3>1, RelevantFacts DEF Complete
  <2> QED BY <2>1, <2>2
<1>12. Reference'
  <2>1. refRow # -1 /\ refRow' = refRow /\ thisClass' = thisClass
    BY DEF OpenClass
  <2>2. refRow \in State /\ s2c[refRow] = thisClass /\ newS2C[refRow] = thisClass
    BY <1>1, <2>1, RelevantFacts DEF Reference, TypeOK
  <2>3. ~Same(n, refRow)
    BY <1>1, <1>4, <2>2, RelevantFacts
  <2> QED BY <1>1, <1>3, <2>1, <2>2, <2>3 DEF Reference
<1>13. Numbers'
  <2>1. /\ OldMax' = OldMax /\ thisClass' = thisClass /\ thisNewClassId' = new + 1
        /\ haveNewClasses'
    BY <1>1, SameUnchanged DEF OpenClass
  <2>2. \A i \in State : newS2C'[i] < new + 1
    BY <1>2, <1>3, <1>5
  <2>3. \A i \in State : newS2C[i] >= 0 => newS2C'[i] = newS2C[i]
    BY <1>3, <1>4
  <2>4. \A d \in 0 .. thisClass - 1 : \E j \in State : newS2C'[j] = d
    BY <1>1, <2>3, RelevantFacts DEF Numbers
  <2>5. ASSUME NEW d \in OldMax + 1 .. new PROVE \E j \in State : newS2C'[j] = d
    <3>1. CASE d = new
      BY <1>2, <1>3, <1>8, <3>1
    <3>2. CASE d \in OldMax + 1 .. new - 1
      BY <1>1, <2>3, <3>2, RelevantFacts DEF Numbers
    <3> QED BY <1>1, <1>2, <3>1, <3>2, RelevantFacts
  <2>6. new + 1 - 1 = new /\ OldMax + 1 <= new + 1 /\ new + 1 > OldMax + 1 /\ thisClass <= OldMax + 1
    BY <1>1, <1>2, RelevantFacts
  <2> HIDE DEF new
  <2>7. \A d \in OldMax' + 1 .. thisNewClassId' - 1 : \E j \in State : newS2C'[j] = d
    <3>1. thisNewClassId' = new + 1 /\ new + 1 - 1 = new
      BY ONLY <2>1, <2>6
    <3>2. thisNewClassId' - 1 = new
      BY <1>2, <3>1
    <3>3. OldMax' = OldMax
      BY ONLY <2>1
    <3> QED BY ONLY <2>5, <3>2, <3>3
  <2>8. \A d \in 0 .. thisClass' - 1 : \E j \in State : newS2C'[j] = d
    BY ONLY <2>1, <2>4
  <2>9. \A i \in State : newS2C'[i] < thisNewClassId'
    BY ONLY <2>1, <2>2
  <2>10. /\ thisClass' <= OldMax' + 1 /\ OldMax' + 1 <= thisNewClassId'
         /\ haveNewClasses' <=> thisNewClassId' > OldMax' + 1
    BY ONLY <2>1, <2>6
  <2> QED BY ONLY <2>7, <2>8, <2>9, <2>10 DEF Numbers
<1>14. TableDense'
  BY <1>1, RelevantFacts, SameUnchanged
<1> QED BY <1>1, <1>7, <1>9, <1>10, <1>11, <1>12, <1>13, <1>14
      DEF Relevant, IInv, NextLoop, FirstLoop, FinalTable

LEMMA NextClassStep ==
  ASSUME IInv, NextClass
  PROVE  IInv'
<1> USE DEF NextClass
<1>1. /\ Progress /\ Agree /\ Complete /\ Reference /\ Numbers /\ TypeOK /\ TableDense
      /\ thisClass \in Nat /\ thisNewClassId \in Nat /\ OldMax \in Nat
      /\ newS2C \in [State -> Nat \cup {-1}] /\ s2c \in [State -> Nat]
  BY DEF IInv, NextLoop, TypeOK, TableDense
<1>2. refRow \in State /\ s2c[refRow] = thisClass /\ newS2C[refRow] = thisClass
  BY <1>1 DEF Reference, TypeOK
<1>3. thisClass <= OldMax
  BY <1>1, <1>2 DEF TableDense, Dense
<1>4. TypeOK'
  BY <1>1, NumStatesAssumption DEF TypeOK
<1>5. Progress'
  BY <1>1, SameUnchanged, StateFacts DEF Progress
<1>6. Agree' /\ Complete'
  BY <1>1, SameUnchanged DEF Agree, Complete
<1>7. Reference'
  BY <1>1, StateFacts DEF Reference, Progress
<1>8. Numbers'
  <2>1. \A d \in 0 .. thisClass : \E j \in State : newS2C[j] = d
    <3> SUFFICES ASSUME NEW d \in 0 .. thisClass PROVE \E j \in State : newS2C[j] = d
      OBVIOUS
    <3>1. CASE d = thisClass
      BY <1>2, <3>1
    <3>2. CASE d \in 0 .. thisClass - 1
      BY <1>1, <3>2 DEF Numbers
    <3> QED BY <1>1, <3>1, <3>2
  <2>2. thisClass + 1 - 1 = thisClass /\ thisClass + 1 <= OldMax + 1
    BY <1>1, <1>3
  <2> QED BY <1>1, <2>1, <2>2, SameUnchanged DEF Numbers
<1>9. TableDense'
  BY <1>1, SameUnchanged
<1> QED BY <1>4, <1>5, <1>6, <1>7, <1>8, <1>9 DEF IInv, NextLoop, FirstLoop, FinalTable

(* the new class map when next() leaves its outer loop *)
LEMMA LoopEndFacts ==
  ASSUME IInv, pc = "next", n = numStates, refRow = -1
  PROVE  /\ newS2C \in [State -> Nat]
         /\ thisNewClassId \in Nat \ {0}
         /\ Dense(newS2C, thisNewClassId)
         /\ \A i, j \in State : newS2C[i] = newS2C[j] <=> Same(i, j)
         /\ ~haveNewClasses => newS2C = s2c
<1>1. /\ Progress /\ Agree /\ Complete /\ Reference /\ Numbers /\ TypeOK /\ TableDense
      /\ thisClass \in Nat /\ thisNewClassId \in Nat /\ OldMax \in Nat
      /\ newS2C \in [State -> Nat \cup {-1}] /\ s2c \in [State -> Nat]
  BY DEF IInv, NextLoop, TypeOK, TableDense
<1>2. \A i \in State : s2c[i] # thisClass
  <2>1. \A i \in State : ~(i >= n)
    BY StateFacts, NumStatesAssumption
  <2> QED BY <1>1, <2>1 DEF Reference
<1>3. thisClass > OldMax
  <2>1. \A d \in 0 .. OldMax : \E j \in State : s2c[j] = d
    BY <1>1 DEF TableDense, Dense
  <2>2. thisClass \notin 0 .. OldMax
    BY <1>2, <2>1
  <2> QED BY <1>1, <2>2
<1>4. \A i \in State : newS2C[i] >= 0
  BY <1>1, <1>3 DEF Progress, TableDense, Dense
<1>5. newS2C \in [State -> Nat]
  BY <1>1, <1>4
<1>6. thisNewClassId \in Nat \ {0}
  BY <1>1 DEF Numbers
<1>7. Dense(newS2C, thisNewClassId)
  <2>1. \A i \in State : newS2C[i] < thisNewClassId
    BY <1>1 DEF Numbers
  <2>2. \A d \in 0 .. thisNewClassId - 1 : \E j \in State : newS2C[j] = d
    <3> SUFFICES ASSUME NEW d \in 0 .. thisNewClassId - 1 PROVE \E j \in State : newS2C[j] = d
      OBVIOUS
    <3>1. CASE d \in 0 .. thisClass - 1
      BY <1>1, <3>1 DEF Numbers
    <3>2. CASE d \in OldMax + 1 .. thisNewClassId - 1
      BY <1>1, <3>2 DEF Numbers
    <3> QED BY <1>1, <1>3, <3>1, <3>2
  <2> QED BY <2>1, <2>2 DEF Dense
<1>8. \A i, j \in State : newS2C[i] = newS2C[j] <=> Same(i, j)
  BY <1>1, <1>4 DEF Agree
<1>9. ASSUME ~haveNewClasses PROVE newS2C = s2c
  <2>1. thisNewClassId = OldMax + 1
    BY <1>1, <1>9 DEF Numbers
  <2>2. \A i \in State : newS2C[i] = s2c[i]
    BY <1>1, <1>4, <2>1 DEF Progress, Numbers
  <2> QED BY <1>1, <1>5, <2>2
<1> QED BY <1>5, <1>6, <1>7, <1>8, <1>9

LEMMA LastTableStep ==
  ASSUME IInv, LastTable
  PROVE  IInv'
<1> USE DEF LastTable, loopVars
<1>1. \A i, j \in State : s2c[i] = s2c[j] => classEquals(i, j)
  BY LoopEndFacts DEF Same
<1>2. TypeOK' /\ TableDense'
  BY SameUnchanged DEF IInv, TypeOK
<1>3. FinalTable'
  BY <1>1, SameUnchanged DEF FinalTable
<1> QED BY <1>2, <1>3 DEF IInv, FirstLoop, NextLoop

(* steps after the last table, and stuttering, leave tables and loops alone *)
LEMMA QuietStep ==
  ASSUME IInv, UNCHANGED <<rows, initStateIdx, s2c, tblId, loopVars>>,
         pc' = pc \/ (pc = "toFsm" /\ pc' = "done")
  PROVE  IInv'
<1> USE DEF loopVars
<1>1. TypeOK' /\ TableDense'
  BY SameUnchanged DEF IInv, TypeOK
<1>2. FirstLoop'
  BY SameUnchanged DEF IInv, FirstLoop, Dense
<1>3. NextLoop'
  <2>1. pc' = "next" => Progress /\ Agree /\ Complete /\ Reference /\ Numbers
    BY DEF IInv, NextLoop
  <2>2. Progress => Progress'
    BY SameUnchanged DEF Progress
  <2>3. Agree /\ Complete => Agree' /\ Complete'
    BY SameUnchanged DEF Agree, Complete
  <2>4. Reference => Reference'
    BY DEF Reference
  <2>5. Numbers => Numbers'
    BY SameUnchanged DEF Numbers
  <2> QED BY <2>1, <2>2, <2>3, <2>4, <2>5 DEF NextLoop
<1>4. FinalTable'
  BY SameUnchanged DEF IInv, FinalTable
<1> QED BY <1>1, <1>2, <1>3, <1>4 DEF IInv

-----------------------------------------------------------------------------
LEMMA NextStep ==
  ASSUME IInv, [Next]_vars
  PROVE  IInv'
<1>1. CASE FirstTableState
  BY <1>1, FirstTableStateStep
<1>2. CASE FirstTableDone
  BY <1>2, FirstTableFacts, StartNextStep DEF FirstTableDone
<1>3. CASE Skip
  BY <1>3, SkipStep
<1>4. CASE TakeReference
  BY <1>4, TakeReferenceStep
<1>5. CASE StayInClass
  BY <1>5, StayInClassStep
<1>6. CASE OpenClass
  BY <1>6, OpenClassStep
<1>7. CASE NextClass
  BY <1>7, NextClassStep
<1>8. CASE NextTable
  BY <1>8, LoopEndFacts, StartNextStep DEF NextTable
<1>9. CASE LastTable
  BY <1>9, LastTableStep
<1>10. CASE ToFsm
  BY <1>10, QuietStep DEF ToFsm
<1>11. CASE Done \/ UNCHANGED vars
  BY <1>11, QuietStep DEF Done, vars
<1> QED BY <1>1, <1>2, <1>3, <1>4, <1>5, <1>6, <1>7, <1>8, <1>9, <1>10, <1>11 DEF Next

THEOREM Inductive == Spec => []IInv
<1> QED BY InitIInv, NextStep, PTL DEF Spec

(* Every variable of the table calculation keeps its type.                 *)
THEOREM TypeCorrect == Spec => []TypeOK
<1>1. IInv => TypeOK
  BY DEF IInv
<1> QED BY <1>1, Inductive, PTL

(* No table has a gap in its class numbers: next() sees all classes, and   *)
(* toFsm finds a row for each.                                             *)
THEOREM NoGaps == Spec => []ClassesContiguous
<1>1. IInv => ClassesContiguous
  <2> SUFFICES ASSUME IInv PROVE {s2c[i] : i \in State} = 0 .. OldMax
    BY DEF ClassesContiguous, OldMax
  <2>1. OldMax \in Nat /\ s2c \in [State -> Nat]
    BY DEF IInv, TypeOK, TableDense
  <2>2. \A i \in State : s2c[i] \in 0 .. OldMax
    BY <2>1 DEF IInv, TableDense, Dense
  <2>3. \A d \in 0 .. OldMax : \E i \in State : s2c[i] = d
    BY <2>1 DEF IInv, TableDense, Dense
  <2> QED BY <2>2, <2>3
<1> QED BY <1>1, Inductive, PTL

-----------------------------------------------------------------------------
(* the classes as the relation that PartitionRefinement refines *)
Eq == {pq \in State \X State : s2c[pq[1]] = s2c[pq[2]]}

LEMMA CompatibleIsEqual ==
  ASSUME TypeOK, NEW i \in State, NEW j \in State
  PROVE  /\ PR!Compatible(i, j, Eq) <=> classEquals(i, j)
         /\ PR!Compatible(i, j, State \X State) <=> ioEquals(i, j)
<1>1. \A k \in State, l \in Label : rows[k][l] # -1 <=> rows[k][l] >= 0
  BY RowFacts, StateFacts
<1>2. PR!Defined(i) = PR!Defined(j) <=> ioEquals(i, j)
  BY <1>1 DEF PR!Defined, ioEquals
<1>3. ASSUME ioEquals(i, j), NEW l \in PR!Defined(i)
      PROVE  /\ rows[i][l] \in State /\ rows[j][l] \in State
             /\ <<rows[i][l], rows[j][l]>> \in Eq <=> s2c[rows[i][l]] = s2c[rows[j][l]]
  <2>1. l \in Label /\ rows[i][l] >= 0 /\ rows[j][l] >= 0
    BY <1>1, <1>3 DEF PR!Defined, ioEquals
  <2>2. rows[i][l] \in State /\ rows[j][l] \in State
    BY <2>1, RowFacts
  <2> QED BY <2>2 DEF Eq
<1>4. \A l \in Label : rows[i][l] >= 0 <=> l \in PR!Defined(i)
  BY <1>1 DEF PR!Defined
<1>5. PR!Compatible(i, j, Eq) <=> classEquals(i, j)
  <2>1. PR!Compatible(i, j, Eq) => ioEquals(i, j) /\ \A l \in PR!Defined(i) : <<rows[i][l], rows[j][l]>> \in Eq
    BY <1>2 DEF PR!Compatible
  <2>2. PR!Compatible(i, j, Eq) => classEquals(i, j)
    BY <1>3, <1>4, <2>1 DEF classEquals
  <2>3. classEquals(i, j) => \A l \in PR!Defined(i) : <<rows[i][l], rows[j][l]>> \in Eq
    BY <1>3, <1>4 DEF classEquals, PR!Defined
  <2>4. classEquals(i, j) => PR!Compatible(i, j, Eq)
    BY <1>2, <2>3 DEF PR!Compatible, classEquals
  <2> QED BY <2>2, <2>4
<1>6. PR!Compatible(i, j, State \X State) <=> ioEquals(i, j)
  BY <1>2, <1>3 DEF PR!Compatible
<1> QED BY <1>5, <1>6

(* A finished table is one refinement; the null pointer of next() ends it.  *)
LEMMA RefinementStep == IInv /\ [Next]_vars => [PR!Next]_(PR!vars)
<1> SUFFICES ASSUME IInv, [Next]_vars PROVE PR!Next \/ UNCHANGED PR!vars
  OBVIOUS
<1>1. TypeOK
  BY DEF IInv
<1>2. CASE FirstTableDone
  <2>1. rows' = rows /\ s2c' = newS2C /\ pc = "first" /\ pc' = "next"
    BY <1>2 DEF FirstTableDone, StartNext
  <2>2. Eq = State \X State
    BY <2>1 DEF IInv, FirstLoop, Eq
  <2>3. Eq' = PR!Refined(Eq)
    BY <1>1, <1>2, <2>1, <2>2, FirstTableFacts, CompatibleIsEqual DEF Eq, PR!Refined
  <2> QED BY <2>1, <2>3 DEF PR!Next, PR!Refine, Eq
<1>3. CASE NextTable
  <2>1. rows' = rows /\ s2c' = newS2C /\ pc = "next" /\ pc' = "next"
    BY <1>3 DEF NextTable, StartNext
  <2>2. \A i, j \in State : newS2C[i] = newS2C[j] <=> Same(i, j)
    BY <1>3, LoopEndFacts DEF NextTable
  <2>3. Eq' = PR!Refined(Eq)
    <3>1. \A pq \in State \X State : pq \in Eq' <=> pq \in PR!Refined(Eq)
      BY <1>1, <2>1, <2>2, CompatibleIsEqual DEF Eq, PR!Refined, Same
    <3>2. Eq' \subseteq State \X State /\ PR!Refined(Eq) \subseteq State \X State
      BY DEF Eq, PR!Refined
    <3> QED BY <3>1, <3>2
  <2> QED BY <2>1, <2>3 DEF PR!Next, PR!Refine, Eq
<1>4. CASE LastTable
  <2>1. UNCHANGED <<rows, s2c>> /\ pc = "next" /\ pc' = "toFsm"
    BY <1>4 DEF LastTable
  <2>2. \A i, j \in State : s2c[i] = s2c[j] => classEquals(i, j)
    BY <1>4, LoopEndFacts DEF LastTable, Same
  <2>3. PR!Refined(Eq) = Eq
    BY <1>1, <2>2, CompatibleIsEqual DEF Eq, PR!Refined
  <2> QED BY <2>1, <2>3 DEF PR!Next, PR!Finish, Eq
<1>5. ASSUME UNCHANGED <<rows, s2c>>, pc' \in {"toFsm", "done"} <=> pc \in {"toFsm", "done"}
      PROVE  UNCHANGED PR!vars
  BY <1>5 DEF PR!vars
<1>6. CASE FirstTableState \/ Skip \/ TakeReference \/ StayInClass \/ OpenClass \/ NextClass
  BY <1>5, <1>6 DEF FirstTableState, Skip, TakeReference, StayInClass, OpenClass, NextClass
<1>7. CASE ToFsm \/ Done \/ UNCHANGED vars
  BY <1>5, <1>7 DEF ToFsm, Done, vars
<1> QED BY <1>2, <1>3, <1>4, <1>6, <1>7 DEF Next

(* The tables implement partition refinement, for every observable FSM.    *)
THEOREM TablesRefinePartition == Spec => RefinesPartition
<1>1. Init => PR!Init
  <2> SUFFICES ASSUME Init PROVE PR!Init
    OBVIOUS
  <2>1. rows \in PR!Machines
    BY RowsAssumption DEF Init, StartTables, PR!Machines
  <2> QED BY <2>1 DEF Init, StartTables, PR!Init
<1> QED BY <1>1, RefinementStep, Inductive, PTL DEF Spec, RefinesPartition, PR!Spec

-----------------------------------------------------------------------------
(***************************************************************************)
(* Partition refinement ends with bisimilarity, whatever the FSM. In its   *)
(* inductive invariant every bisimulation is contained in the relation     *)
(* that is refined: it is at the start, and refining keeps the pairs of a  *)
(* bisimulation. When no refinement is left, the relation is itself a      *)
(* bisimulation.                                                           *)
(***************************************************************************)
BisimulationsKept ==
  \A R \in SUBSET (State \X State) : PR!IsBisimulation(R) => R \subseteq Eq

StableIsFixpoint == pc \in {"toFsm", "done"} => PR!Refined(Eq) = Eq

RefinementInv == PR!TypeOK /\ BisimulationsKept /\ StableIsFixpoint

LEMMA CompatibleMonotone ==
  ASSUME NEW p, NEW q, NEW E, NEW F, E \subseteq F, PR!Compatible(p, q, E)
  PROVE  PR!Compatible(p, q, F)
BY DEF PR!Compatible

LEMMA RefinementStarts == PR!Init => RefinementInv
BY DEF PR!Init, RefinementInv, PR!TypeOK, BisimulationsKept, StableIsFixpoint, Eq

LEMMA RefineStep ==
  ASSUME RefinementInv, PR!Refine
  PROVE  RefinementInv'
<1>1. /\ Eq' = PR!Refined(Eq) /\ rows' = rows
      /\ ~(pc \in {"toFsm", "done"}) /\ ~(pc' \in {"toFsm", "done"})
  BY DEF PR!Refine, Eq
<1>2. PR!TypeOK'
  BY <1>1 DEF RefinementInv, PR!TypeOK, Eq, PR!Refined
<1>3. BisimulationsKept'
  <2> SUFFICES ASSUME NEW R \in SUBSET (State \X State), PR!IsBisimulation(R)'
               PROVE  R \subseteq Eq'
    BY DEF BisimulationsKept
  <2>1. PR!IsBisimulation(R)
    BY <1>1 DEF PR!IsBisimulation, PR!Compatible, PR!Defined
  <2>2. R \subseteq Eq
    BY <2>1 DEF RefinementInv, BisimulationsKept
  <2>3. \A pq \in R : PR!Compatible(pq[1], pq[2], Eq)
    BY <2>1, <2>2, CompatibleMonotone DEF PR!IsBisimulation
  <2> QED BY <1>1, <2>2, <2>3 DEF PR!Refined
<1>4. StableIsFixpoint'
  BY <1>1 DEF StableIsFixpoint
<1> QED BY <1>2, <1>3, <1>4 DEF RefinementInv

(* the end of the refinement and stuttering leave the FSM and Eq alone *)
LEMMA SameRelation ==
  ASSUME RefinementInv, rows' = rows, Eq' = Eq,
         pc' \in {"toFsm", "done"} => PR!Refined(Eq) = Eq
  PROVE  RefinementInv'
<1>1. \A p, q, E : PR!Compatible(p, q, E)' <=> PR!Compatible(p, q, E)
  BY DEF PR!Compatible, PR!Defined
<1>2. PR!TypeOK'
  BY DEF RefinementInv, PR!TypeOK, Eq
<1>3. BisimulationsKept'
  BY <1>1 DEF RefinementInv, BisimulationsKept, PR!IsBisimulation
<1>4. StableIsFixpoint'
  <2> SUFFICES ASSUME pc' \in {"toFsm", "done"} PROVE PR!Refined(Eq)' = Eq'
    BY DEF StableIsFixpoint
  <2>1. PR!Refined(Eq) = Eq
    OBVIOUS
  <2> QED BY <1>1, <2>1 DEF PR!Refined
<1> QED BY <1>2, <1>3, <1>4 DEF RefinementInv

LEMMA RefinementInductive == PR!Spec => []RefinementInv
<1>1. RefinementInv /\ [PR!Next]_(PR!vars) => RefinementInv'
  <2> SUFFICES ASSUME RefinementInv, [PR!Next]_(PR!vars) PROVE RefinementInv'
    OBVIOUS
  <2>1. CASE PR!Refine
    BY <2>1, RefineStep
  <2>2. CASE PR!Finish
    <3>1. rows' = rows /\ Eq' = Eq /\ PR!Refined(Eq) = Eq
      BY <2>2 DEF PR!Finish, Eq
    <3> QED BY <3>1, SameRelation
  <2>3. CASE UNCHANGED PR!vars
    <3>1. rows' = rows /\ Eq' = Eq /\ (pc' \in {"toFsm", "done"}) = (pc \in {"toFsm", "done"})
      BY <2>3 DEF PR!vars, Eq
    <3> QED BY <3>1, SameRelation DEF RefinementInv, StableIsFixpoint
  <2> QED BY <2>1, <2>2, <2>3 DEF PR!Next
<1> QED BY <1>1, RefinementStarts, PTL DEF PR!Spec

(* When the refinement stops, exactly the bisimilar states are still       *)
(* related: it separates neither too few nor too many states, for          *)
(* observable FSMs of every size.                                          *)
THEOREM RefinementEndsInBisimilarity == PR!Spec => []PR!StableIsBisimilarity
<1>1. RefinementInv => PR!StableIsBisimilarity
  <2> SUFFICES ASSUME RefinementInv, pc \in {"toFsm", "done"}, NEW p \in State, NEW q \in State
               PROVE  <<p, q>> \in Eq <=> PR!Bisimilar(p, q)
    BY DEF PR!StableIsBisimilarity, Eq
  <2>1. Eq \in SUBSET (State \X State)
    BY DEF Eq
  <2>2. PR!IsBisimulation(Eq)
    BY DEF RefinementInv, StableIsFixpoint, PR!Refined, PR!IsBisimulation
  <2>3. <<p, q>> \in Eq => PR!Bisimilar(p, q)
    BY <2>1, <2>2 DEF PR!Bisimilar
  <2>4. PR!Bisimilar(p, q) => <<p, q>> \in Eq
    BY DEF PR!Bisimilar, RefinementInv, BisimulationsKept
  <2> QED BY <2>3, <2>4
<1> QED BY <1>1, RefinementInductive, PTL

(* The result of the two refinements: when calcOFSMTables ends, two states *)
(* share a class exactly if they are bisimilar, for every observable FSM.  *)
FinalClassesAreBisimilar ==
  pc \in {"toFsm", "done"} =>
    \A p, q \in State : s2c[p] = s2c[q] <=> PR!Bisimilar(p, q)

(* The classes from which toFsm builds the minimal FSM are the             *)
(* bisimilarity classes.                                                   *)
THEOREM FinalClasses == Spec => []FinalClassesAreBisimilar
<1>1. PR!StableIsBisimilarity => FinalClassesAreBisimilar
  BY DEF PR!StableIsBisimilarity, FinalClassesAreBisimilar
<1> QED BY <1>1, RefinementEndsInBisimilarity, TablesRefinePartition, PTL DEF RefinesPartition

-----------------------------------------------------------------------------
(* Induction on the naturals, as a fact about sets. *)
LEMMA SetInduction ==
  ASSUME NEW A, 0 \in A, \A m \in Nat : m \in A => m + 1 \in A
  PROVE  Nat \subseteq A
<1> DEFINE T == {m \in Nat : m \notin A}
<1> DEFINE R == {ss \in Nat \X Nat : ss[1] < ss[2]}
<1> SUFFICES ASSUME T # {} PROVE FALSE
  OBVIOUS
<1>1. IsWellFoundedOn(R, Nat)
  BY NatLessThanWellFounded DEF OpToRel
<1>2. \E x \in T : \A y \in T : ~(<<y, x>> \in R)
  <2>1. T \subseteq Nat
    OBVIOUS
  <2> HIDE DEF R, T
  <2> QED BY <1>1, <2>1, WFMin
<1>3. PICK x \in T : \A y \in T : ~(y < x)
  BY <1>2
<1>4. x \in Nat /\ x # 0 /\ x - 1 \in Nat
  BY <1>3
<1> QED BY <1>3, <1>4

(***************************************************************************)
(* The pairs of states that two machines reach together from the pair p.   *)
(* m holds the set of labels (or of inputs) and the post-states of both    *)
(* machines.                                                               *)
(***************************************************************************)
Succ(m, X) ==
  {p \in {<<m[2][p[1]][l], m[3][p[2]][l]>> : p \in X, l \in m[1]} : p[1] >= 0 /\ p[2] >= 0}

IsReach(g, m, p, k) ==
  g = [j \in 0 .. k |-> IF j = 0 THEN {p} ELSE g[j - 1] \cup Succ(m, g[j - 1])]

Reach(m, p, k) == (CHOOSE g : IsReach(g, m, p, k))[k]

LEMMA ReachExists ==
  ASSUME NEW m, NEW p, NEW k \in Nat
  PROVE  \E g : IsReach(g, m, p, k)
<1> DEFINE A == {x \in Nat : \E g : IsReach(g, m, p, x)}
<1>1. 0 \in A
  <2> DEFINE g == [j \in 0 .. 0 |-> {p}]
  <2>1. IsReach(g, m, p, 0)
    BY DEF IsReach
  <2> QED BY <2>1
<1>2. ASSUME NEW x \in Nat, x \in A PROVE x + 1 \in A
  <2>1. PICK g : IsReach(g, m, p, x)
    BY <1>2
  <2> DEFINE After(X) == X \cup Succ(m, X)
             h == [j \in 0 .. x + 1 |-> IF j <= x THEN g[j] ELSE After(g[x])]
  <2>2. \A j \in 0 .. x : g[j] = IF j = 0 THEN {p} ELSE After(g[j - 1])
    BY <2>1 DEF IsReach
  <2>3. h = [j \in 0 .. x + 1 |-> IF j = 0 THEN {p} ELSE After(h[j - 1])]
    <3> HIDE DEF After
    <3>1. ASSUME NEW j \in 0 .. x + 1
          PROVE  h[j] = IF j = 0 THEN {p} ELSE After(h[j - 1])
      <4>1. CASE j <= x
        <5>1. j \in 0 .. x /\ h[j] = g[j] /\ (j # 0 => h[j - 1] = g[j - 1])
          BY <4>1
        <5> QED BY <2>2, <5>1
      <4>2. CASE j = x + 1
        BY <4>2
      <4> QED BY <4>1, <4>2
    <3> QED BY <3>1
  <2>4. IsReach(h, m, p, x + 1)
    <3> HIDE DEF h
    <3> QED BY <2>3 DEF IsReach
  <2> QED BY <2>4
<1> HIDE DEF A
<1>3. k \in A
  BY <1>1, <1>2, SetInduction
<1> QED BY <1>3 DEF A

LEMMA IsReachValues ==
  ASSUME NEW m, NEW p, NEW k \in Nat, NEW g, IsReach(g, m, p, k)
  PROVE  /\ g[0] = {p}
         /\ \A j \in 0 .. k - 1 : g[j + 1] = g[j] \cup Succ(m, g[j])
<1>1. g[0] = {p}
  BY DEF IsReach
<1>2. ASSUME NEW j \in 0 .. k - 1 PROVE g[j + 1] = g[j] \cup Succ(m, g[j])
  <2>1. j + 1 \in 0 .. k /\ j + 1 # 0 /\ (j + 1) - 1 = j
    OBVIOUS
  <2> QED BY <2>1 DEF IsReach
<1> QED BY <1>1, <1>2

LEMMA IsReachAgree ==
  ASSUME NEW m, NEW p, NEW k1 \in Nat, NEW k2 \in Nat, k1 <= k2,
         NEW g1, IsReach(g1, m, p, k1), NEW g2, IsReach(g2, m, p, k2)
  PROVE  \A j \in 0 .. k1 : g1[j] = g2[j]
<1>1. g1[0] = {p} /\ \A j \in 0 .. k1 - 1 : g1[j + 1] = g1[j] \cup Succ(m, g1[j])
  BY ONLY k1 \in Nat, IsReach(g1, m, p, k1), IsReachValues
<1>2. g2[0] = {p} /\ \A j \in 0 .. k2 - 1 : g2[j + 1] = g2[j] \cup Succ(m, g2[j])
  BY ONLY k2 \in Nat, IsReach(g2, m, p, k2), IsReachValues
<1> DEFINE A == {x \in Nat : x <= k1 => g1[x] = g2[x]}
<1>3. 0 \in A
  BY <1>1, <1>2
<1>4. ASSUME NEW x \in Nat, x \in A PROVE x + 1 \in A
  <2> SUFFICES ASSUME x + 1 <= k1 PROVE g1[x + 1] = g2[x + 1]
    OBVIOUS
  <2>1. x \in 0 .. k1 - 1 /\ x \in 0 .. k2 - 1 /\ g1[x] = g2[x]
    BY <1>4
  <2> QED BY <1>1, <1>2, <2>1
<1> HIDE DEF A
<1>5. Nat \subseteq A
  BY <1>3, <1>4, SetInduction
<1> QED BY <1>5 DEF A

LEMMA ReachIs ==
  ASSUME NEW m, NEW p, NEW k \in Nat, NEW g, IsReach(g, m, p, k)
  PROVE  Reach(m, p, k) = g[k]
<1> DEFINE f == CHOOSE h : IsReach(h, m, p, k)
<1>1. IsReach(f, m, p, k)
  OBVIOUS
<1>2. Reach(m, p, k) = f[k]
  BY DEF Reach
<1> HIDE DEF f
<1>3. k <= k /\ k \in 0 .. k
  OBVIOUS
<1> QED BY <1>1, <1>2, <1>3, IsReachAgree

LEMMA ReachZero ==
  ASSUME NEW m, NEW p
  PROVE  Reach(m, p, 0) = {p}
<1>1. PICK g : IsReach(g, m, p, 0)
  BY ReachExists
<1> QED BY <1>1, ReachIs, IsReachValues

LEMMA ReachStep ==
  ASSUME NEW m, NEW p, NEW k \in Nat
  PROVE  Reach(m, p, k + 1) = Reach(m, p, k) \cup Succ(m, Reach(m, p, k))
<1>1. PICK x \in Nat : x = k + 1
  OBVIOUS
<1>2. PICK g : IsReach(g, m, p, k)
  BY ReachExists
<1>3. PICK f : IsReach(f, m, p, x)
  BY ReachExists
<1>4. Reach(m, p, k) = g[k] /\ Reach(m, p, x) = f[x]
  BY <1>2, <1>3, ReachIs
<1>5. g[k] = f[k]
  <2>1. k <= x /\ k \in 0 .. k
    BY <1>1
  <2> QED BY <1>2, <1>3, <2>1, IsReachAgree
<1>6. f[k + 1] = f[k] \cup Succ(m, f[k])
  <2>1. f[0] = {p} /\ \A j \in 0 .. x - 1 : f[j + 1] = f[j] \cup Succ(m, f[j])
    BY <1>3, IsReachValues
  <2> QED BY <1>1, <2>1
<1> QED BY <1>1, <1>4, <1>5, <1>6

(* the pairs reached as ReachedPairs collects them *)
LEMMA ReachedPairsIsReach ==
  ASSUME NEW r1, NEW a, NEW r2, NEW b, NEW k
  PROVE  ReachedPairs(r1, a, r2, b, k) = Reach(<<Label, r1, r2>>, <<a, b>>, k)
BY DEF ReachedPairs, Reach, IsReach, Succ


LEMMA SuccOf ==
  ASSUME NEW m, NEW X, NEW s
  PROVE  s \in Succ(m, X) <=>
           \E p \in X : \E l \in m[1] :
             s = <<m[2][p[1]][l], m[3][p[2]][l]>> /\ s[1] >= 0 /\ s[2] >= 0
BY DEF Succ

LEMMA SuccUnion ==
  ASSUME NEW m, NEW X, NEW Y
  PROVE  Succ(m, X \cup Y) = Succ(m, X) \cup Succ(m, Y)
<1> SUFFICES ASSUME NEW s
             PROVE  s \in Succ(m, X \cup Y) <=> s \in Succ(m, X) \/ s \in Succ(m, Y)
  OBVIOUS
<1> QED BY SuccOf

(* What holds of the first pair and is kept by every label holds of all pairs. *)
LEMMA ReachWithin ==
  ASSUME NEW m, NEW p, NEW X, p \in X, Succ(m, X) \subseteq X, NEW k \in Nat
  PROVE  Reach(m, p, k) \subseteq X
<1> DEFINE A == {x \in Nat : Reach(m, p, x) \subseteq X}
<1>1. 0 \in A
  BY ReachZero
<1>2. ASSUME NEW x \in Nat, x \in A PROVE x + 1 \in A
  <2>1. \A s \in Succ(m, Reach(m, p, x)) : s \in Succ(m, X)
    BY <1>2, SuccOf
  <2>2. Reach(m, p, x + 1) = Reach(m, p, x) \cup Succ(m, Reach(m, p, x))
    BY ReachStep
  <2> QED BY <1>2, <2>1, <2>2
<1> HIDE DEF A
<1>3. k \in A
  BY <1>1, <1>2, SetInduction
<1> QED BY <1>3 DEF A

(* What a second pair of machines can do everywhere the first pair gets to. *)
LEMMA ReachContained ==
  ASSUME NEW m1, NEW m2, NEW p, NEW X, p \in X, Succ(m1, X) \subseteq X,
         \A t \in X : Succ(m1, {t}) \subseteq Succ(m2, {t}), NEW k \in Nat
  PROVE  Reach(m1, p, k) \subseteq Reach(m2, p, k)
<1> DEFINE A == {x \in Nat : Reach(m1, p, x) \subseteq Reach(m2, p, x)}
<1>1. 0 \in A
  BY ReachZero
<1>2. ASSUME NEW x \in Nat, x \in A PROVE x + 1 \in A
  <2>1. Reach(m1, p, x) \subseteq X
    BY ReachWithin
  <2>2. ASSUME NEW s \in Succ(m1, Reach(m1, p, x)) PROVE s \in Succ(m2, Reach(m2, p, x))
    <3>1. PICK t \in Reach(m1, p, x) :
            \E l \in m1[1] : s = <<m1[2][t[1]][l], m1[3][t[2]][l]>> /\ s[1] >= 0 /\ s[2] >= 0
      BY SuccOf
    <3>2. s \in Succ(m1, {t}) /\ t \in X /\ t \in Reach(m2, p, x)
      BY <1>2, <2>1, <3>1, SuccOf
    <3>3. s \in Succ(m2, {t})
      BY <3>2
    <3> QED BY <3>2, <3>3, SuccOf
  <2>3. Reach(m1, p, x + 1) = Reach(m1, p, x) \cup Succ(m1, Reach(m1, p, x))
    BY ReachStep
  <2>4. Reach(m2, p, x + 1) = Reach(m2, p, x) \cup Succ(m2, Reach(m2, p, x))
    BY ReachStep
  <2> QED BY <1>2, <2>2, <2>3, <2>4
<1> HIDE DEF A
<1>3. k \in A
  BY <1>1, <1>2, SetInduction
<1> QED BY <1>3 DEF A

LEMMA ReachMonotone ==
  ASSUME NEW m, NEW p, NEW k \in Nat, NEW d \in Nat
  PROVE  Reach(m, p, k) \subseteq Reach(m, p, k + d)
<1> DEFINE A == {x \in Nat : Reach(m, p, k) \subseteq Reach(m, p, k + x)}
<1>1. 0 \in A
  <2>1. k + 0 = k
    OBVIOUS
  <2> QED BY <2>1
<1>2. ASSUME NEW x \in Nat, x \in A PROVE x + 1 \in A
  <2>1. k + x \in Nat /\ k + (x + 1) = (k + x) + 1
    OBVIOUS
  <2>2. Reach(m, p, k + x) \subseteq Reach(m, p, (k + x) + 1)
    BY <2>1, ReachStep
  <2> QED BY <1>2, <2>1, <2>2
<1> HIDE DEF A
<1>3. d \in A
  BY <1>1, <1>2, SetInduction
<1> QED BY <1>3 DEF A

(* A pair is reached in k + 1 labels if it is the first one, or is reached in k labels from *)
(* the pair after the first label.                                                          *)
LEMMA ReachFromFront ==
  ASSUME NEW m, NEW p, NEW k \in Nat
  PROVE  Reach(m, p, k + 1) = {p} \cup UNION {Reach(m, s, k) : s \in Succ(m, {p})}
<1> DEFINE Front(x) == UNION {Reach(m, s, x) : s \in Succ(m, {p})}
           A == {x \in Nat : Reach(m, p, x + 1) = {p} \cup Front(x)}
<1>1. 0 \in A
  <2>1. Reach(m, p, 0 + 1) = {p} \cup Succ(m, {p})
    <3>1. Reach(m, p, 0 + 1) = Reach(m, p, 0) \cup Succ(m, Reach(m, p, 0))
      BY ReachStep
    <3> QED BY <3>1, ReachZero
  <2>2. Front(0) = Succ(m, {p})
    BY ReachZero
  <2> QED BY <2>1, <2>2
<1>2. ASSUME NEW x \in Nat, x \in A PROVE x + 1 \in A
  <2>1. x + 1 \in Nat
    OBVIOUS
  <2>2. Reach(m, p, x + 1) = {p} \cup Front(x)
    BY <1>2
  <2>3. Reach(m, p, (x + 1) + 1) = {p} \cup Front(x) \cup Succ(m, {p}) \cup Succ(m, Front(x))
    <3> HIDE DEF Front
    <3> QED BY <2>1, <2>2, ReachStep, SuccUnion
  <2>4. ASSUME NEW t \in Succ(m, Front(x)) PROVE t \in Front(x + 1)
    <3>1. PICK u \in Front(x) : \E l \in m[1] : t = <<m[2][u[1]][l], m[3][u[2]][l]>> /\ t[1] >= 0 /\ t[2] >= 0
      <4> HIDE DEF Front
      <4> QED BY SuccOf
    <3>2. PICK s \in Succ(m, {p}) : u \in Reach(m, s, x)
      BY <3>1
    <3>3. t \in Succ(m, Reach(m, s, x))
      BY <3>1, <3>2, SuccOf
    <3>4. t \in Reach(m, s, x + 1)
      BY <3>3, ReachStep
    <3> QED BY <3>4
  <2>5. ASSUME NEW s \in Succ(m, {p}), NEW t \in Reach(m, s, x + 1)
        PROVE  t \in Front(x) \cup Succ(m, Front(x))
    <3>1. CASE t \in Reach(m, s, x)
      BY <3>1
    <3>2. CASE t \in Succ(m, Reach(m, s, x))
      <4>1. PICK u \in Reach(m, s, x) : \E l \in m[1] : t = <<m[2][u[1]][l], m[3][u[2]][l]>> /\ t[1] >= 0 /\ t[2] >= 0
        BY <3>2, SuccOf
      <4>2. u \in Front(x)
        OBVIOUS
      <4> HIDE DEF Front
      <4> QED BY <4>1, <4>2, SuccOf
    <3> QED BY <3>1, <3>2, ReachStep
  <2>6. ASSUME NEW s \in Succ(m, {p}) PROVE s \in Front(x + 1)
    <3>1. s \in Reach(m, s, 0) /\ 0 + (x + 1) = x + 1
      BY ReachZero
    <3>2. s \in Reach(m, s, x + 1)
      BY <2>1, <3>1, ReachMonotone
    <3> QED BY <3>2
  <2>7. ASSUME NEW t \in Front(x) PROVE t \in Front(x + 1)
    <3>1. PICK s \in Succ(m, {p}) : t \in Reach(m, s, x)
      OBVIOUS
    <3>2. t \in Reach(m, s, x + 1)
      BY <3>1, ReachStep
    <3> QED BY <3>2
  <2>8. Front(x + 1) \subseteq Front(x) \cup Succ(m, Front(x))
    BY <2>5
  <2>9. {p} \cup Front(x) \cup Succ(m, {p}) \cup Succ(m, Front(x)) = {p} \cup Front(x + 1)
    <3> HIDE DEF Front
    <3> QED BY <2>4, <2>6, <2>7, <2>8
  <2> QED BY <2>1, <2>3, <2>9
<1> HIDE DEF A
<1>3. k \in A
  BY <1>1, <1>2, SetInduction
<1> QED BY <1>3 DEF A


-----------------------------------------------------------------------------
(* what SameLanguage says, by the number of labels *)
SameLabels(r1, a, r2, b) == \A l \in Label : r1[a][l] >= 0 <=> r2[b][l] >= 0

LEMMA LanguageIs ==
  ASSUME NEW r1, NEW a, NEW r2, NEW b, NEW k \in Nat
  PROVE  SameLanguage(r1, a, r2, b, k + 1) <=>
           \A p \in Reach(<<Label, r1, r2>>, <<a, b>>, k) : SameLabels(r1, p[1], r2, p[2])
<1>1. (k + 1) - 1 = k
  OBVIOUS
<1> QED BY <1>1, ReachedPairsIsReach DEF SameLanguage, SameLabels

LEMMA LanguageOne ==
  ASSUME NEW r1, NEW a, NEW r2, NEW b
  PROVE  SameLanguage(r1, a, r2, b, 1) <=> SameLabels(r1, a, r2, b)
<1>1. Reach(<<Label, r1, r2>>, <<a, b>>, 0) = {<<a, b>>}
  BY ReachZero
<1>2. SameLanguage(r1, a, r2, b, 0 + 1) <=>
        \A p \in Reach(<<Label, r1, r2>>, <<a, b>>, 0) : SameLabels(r1, p[1], r2, p[2])
  BY LanguageIs
<1> QED BY <1>1, <1>2

LEMMA LanguageStep ==
  ASSUME NEW r1, NEW a, NEW r2, NEW b, NEW k \in Nat \ {0}
  PROVE  SameLanguage(r1, a, r2, b, k + 1) <=>
           /\ SameLabels(r1, a, r2, b)
           /\ \A l \in Label :
                r1[a][l] >= 0 /\ r2[b][l] >= 0 => SameLanguage(r1, r1[a][l], r2, r2[b][l], k)
<1> DEFINE m == <<Label, r1, r2>>
           p == <<a, b>>
           Ok(X) == \A t \in X : SameLabels(r1, t[1], r2, t[2])
<1>1. PICK x \in Nat : k = x + 1
  <2>1. k - 1 \in Nat /\ k = (k - 1) + 1
    OBVIOUS
  <2> QED BY <2>1
<1>2. Reach(m, p, k) = {p} \cup UNION {Reach(m, s, x) : s \in Succ(m, {p})}
  BY <1>1, ReachFromFront
<1>3. SameLanguage(r1, a, r2, b, k + 1) <=> Ok(Reach(m, p, k))
  BY LanguageIs
<1>4. Ok(Reach(m, p, k)) <=> SameLabels(r1, a, r2, b) /\ \A s \in Succ(m, {p}) : Ok(Reach(m, s, x))
  <2>1. SameLabels(r1, p[1], r2, p[2]) <=> SameLabels(r1, a, r2, b)
    OBVIOUS
  <2>2. ASSUME Ok(Reach(m, p, k))
        PROVE  SameLabels(r1, a, r2, b) /\ \A s \in Succ(m, {p}) : Ok(Reach(m, s, x))
    <3>1. p \in Reach(m, p, k) /\ \A s \in Succ(m, {p}) : Reach(m, s, x) \subseteq Reach(m, p, k)
      <4> HIDE DEF m, p
      <4> QED BY <1>2
    <3> HIDE DEF m, p
    <3> QED BY <2>1, <2>2, <3>1
  <2>3. ASSUME SameLabels(r1, a, r2, b), \A s \in Succ(m, {p}) : Ok(Reach(m, s, x))
        PROVE  Ok(Reach(m, p, k))
    <3> SUFFICES ASSUME NEW t \in Reach(m, p, k) PROVE SameLabels(r1, t[1], r2, t[2])
      OBVIOUS
    <3>1. t = p \/ \E s \in Succ(m, {p}) : t \in Reach(m, s, x)
      <4> HIDE DEF m, p
      <4> QED BY <1>2
    <3>2. ASSUME NEW s \in Succ(m, {p}), t \in Reach(m, s, x) PROVE SameLabels(r1, t[1], r2, t[2])
      <4>1. Ok(Reach(m, s, x))
        BY <2>3
      <4> HIDE DEF m, p
      <4> QED BY <3>2, <4>1
    <3> QED BY <2>1, <2>3, <3>1, <3>2
  <2> QED BY <2>2, <2>3
<1>5. \A s \in Succ(m, {p}) : Ok(Reach(m, s, x)) <=> SameLanguage(r1, s[1], r2, s[2], k)
  <2> SUFFICES ASSUME NEW s \in Succ(m, {p})
               PROVE  Ok(Reach(m, s, x)) <=> SameLanguage(r1, s[1], r2, s[2], k)
    OBVIOUS
  <2>1. s = <<s[1], s[2]>>
    BY SuccOf
  <2>2. SameLanguage(r1, s[1], r2, s[2], x + 1) <=> Ok(Reach(m, <<s[1], s[2]>>, x))
    BY LanguageIs
  <2> HIDE DEF m, Ok
  <2> QED BY <1>1, <2>1, <2>2
<1>6. Succ(m, {p}) = {s \in {<<r1[a][l], r2[b][l]>> : l \in Label} : s[1] >= 0 /\ s[2] >= 0}
  BY DEF Succ
<1>7. (\A s \in Succ(m, {p}) : SameLanguage(r1, s[1], r2, s[2], k)) <=>
        \A l \in Label : r1[a][l] >= 0 /\ r2[b][l] >= 0 => SameLanguage(r1, r1[a][l], r2, r2[b][l], k)
  <2>1. ASSUME \A s \in Succ(m, {p}) : SameLanguage(r1, s[1], r2, s[2], k),
               NEW l \in Label, r1[a][l] >= 0, r2[b][l] >= 0
        PROVE  SameLanguage(r1, r1[a][l], r2, r2[b][l], k)
    <3> DEFINE s == <<r1[a][l], r2[b][l]>>
    <3>1. s \in Succ(m, {p})
      BY <1>6, <2>1
    <3>2. SameLanguage(r1, s[1], r2, s[2], k)
      <4> HIDE DEF m, s
      <4> QED BY <2>1, <3>1
    <3> QED BY <3>2
  <2>2. ASSUME \A l \in Label : r1[a][l] >= 0 /\ r2[b][l] >= 0 => SameLanguage(r1, r1[a][l], r2, r2[b][l], k),
               NEW s \in Succ(m, {p})
        PROVE  SameLanguage(r1, s[1], r2, s[2], k)
    <3>1. PICK l \in Label : s = <<r1[a][l], r2[b][l]>> /\ s[1] >= 0 /\ s[2] >= 0
      BY <1>6
    <3>2. s[1] = r1[a][l] /\ s[2] = r2[b][l]
      BY <3>1
    <3>3. SameLanguage(r1, r1[a][l], r2, r2[b][l], k)
      BY <2>2, <3>1, <3>2
    <3> QED BY <3>2, <3>3
  <2> QED BY <2>1, <2>2
<1> HIDE DEF m, Ok
<1> QED BY <1>3, <1>4, <1>5, <1>7

LEMMA LanguageMonotone ==
  ASSUME NEW r1, NEW a, NEW r2, NEW b, NEW k \in Nat \ {0}, NEW j \in Nat, k <= j,
         SameLanguage(r1, a, r2, b, j)
  PROVE  SameLanguage(r1, a, r2, b, k)
<1> DEFINE m == <<Label, r1, r2>>
           p == <<a, b>>
<1>1. PICK x \in Nat : k = x + 1
  <2>1. k - 1 \in Nat /\ k = (k - 1) + 1
    OBVIOUS
  <2> QED BY <2>1
<1>2. PICK d \in Nat : j = (x + d) + 1
  <2>1. j - k \in Nat /\ j = (x + (j - k)) + 1
    BY <1>1
  <2> QED BY <2>1
<1>3. x + d \in Nat
  OBVIOUS
<1>4. Reach(m, p, x) \subseteq Reach(m, p, x + d)
  BY ReachMonotone
<1>5. SameLanguage(r1, a, r2, b, x + 1) <=> \A t \in Reach(m, p, x) : SameLabels(r1, t[1], r2, t[2])
  BY LanguageIs
<1>6. SameLanguage(r1, a, r2, b, (x + d) + 1) <=> \A t \in Reach(m, p, x + d) : SameLabels(r1, t[1], r2, t[2])
  BY <1>3, LanguageIs
<1> HIDE DEF m
<1> QED BY <1>1, <1>2, <1>4, <1>5, <1>6

-----------------------------------------------------------------------------
(* a state's number in the table tells which other states have the same     *)
(* traces of tblId labels                                                   *)
TableLanguage ==
  pc # "first" =>
    /\ tblId \in Nat \ {0}
    /\ \A p, q \in State : s2c[p] = s2c[q] <=> SameLanguage(rows, p, rows, q, tblId)

(* every table but the first one has a class more than its predecessor      *)
TableGrows ==
  /\ pc = "first" => tblId = 0
  /\ OldMax # 0 => tblId <= OldMax
  /\ tblId >= 2 =>
       \E p, q \in State : SameLanguage(rows, p, rows, q, tblId - 1) /\ s2c[p] # s2c[q]

(* state 0 is the first one of its class in all tables                      *)
ZeroFirst ==
  /\ s2c[0] = 0
  /\ newS2C[0] \in {-1, 0}
  /\ newS2C[0] = -1 /\ pc \in {"first", "next"} => n = 0 /\ thisClass = 0 /\ refRow = -1

(* what toFsm has written stays                                             *)
MinimalRows ==
  pc = "done" =>
    minRows = [c \in 0 .. maxClassId(s2c) |->
                [l \in Label |-> LET t == rows[Representative(c)][l]
                                 IN  IF t >= 0 THEN s2c[t] ELSE -1]]

LanguageInv == TableLanguage /\ TableGrows /\ ZeroFirst /\ MinimalRows

LEMMA InitLanguageInv == Init => LanguageInv
<1> SUFFICES ASSUME Init PROVE LanguageInv
  OBVIOUS
<1>1. OldMax = 0
  <2>1. s2c \in [State -> Nat] /\ Dense(s2c, 1)
    BY StateFacts DEF Init, StartTables, Dense
  <2> QED BY <2>1, MaxOfDense DEF OldMax
<1>2. ZeroFirst
  BY StateFacts DEF Init, StartTables, ZeroFirst, Unassigned
<1> QED BY <1>1, <1>2 DEF Init, StartTables, LanguageInv, TableLanguage, TableGrows, MinimalRows

LEMMA ZeroFirstStep ==
  ASSUME IInv, ZeroFirst, [Next]_vars
  PROVE  ZeroFirst'
<1>0. 0 \in State /\ numStates > 0 /\ newS2C \in [State -> Nat \cup {-1}] /\ thisClass \in Nat
      /\ (pc = "next" => thisNewClassId \in Nat \ {0}) /\ n \in Nat
  BY StateFacts, NumStatesAssumption DEF IInv, NextLoop, Numbers, TypeOK, TableDense
<1>1. CASE FirstTableState
  BY <1>0, <1>1 DEF FirstTableState, ZeroFirst
<1>2. CASE FirstTableDone
  BY <1>0, <1>2, NumStatesAssumption DEF FirstTableDone, StartNext, ZeroFirst, Unassigned
<1>3. CASE Skip
  BY <1>0, <1>3 DEF Skip, ZeroFirst
<1>4. CASE TakeReference
  BY <1>0, <1>4 DEF TakeReference, Relevant, ZeroFirst
<1>5. CASE StayInClass
  <2>1. newS2C[0] = 0
    BY <1>5 DEF StayInClass, Relevant, ZeroFirst
  <2>2. n # 0
    BY <1>5, <2>1 DEF StayInClass, Relevant
  <2> QED BY <1>0, <1>5, <2>1, <2>2 DEF StayInClass, ZeroFirst
<1>6. CASE OpenClass
  <2>1. newS2C[0] = 0
    BY <1>6 DEF OpenClass, Relevant, ZeroFirst
  <2>2. n # 0
    BY <1>6, <2>1 DEF OpenClass, Relevant
  <2> QED BY <1>0, <1>6, <2>1, <2>2 DEF OpenClass, ZeroFirst
<1>7. CASE NextClass
  BY <1>0, <1>7 DEF NextClass, ZeroFirst
<1>8. CASE NextTable
  BY <1>0, <1>8, NumStatesAssumption DEF NextTable, StartNext, ZeroFirst, Unassigned
<1>9. CASE LastTable
  BY <1>9 DEF LastTable, ZeroFirst, loopVars
<1>10. CASE ToFsm
  BY <1>10 DEF ToFsm, ZeroFirst, loopVars
<1>11. CASE Done \/ UNCHANGED vars
  BY <1>11 DEF Done, vars, ZeroFirst, loopVars
<1> QED BY <1>1, <1>2, <1>3, <1>4, <1>5, <1>6, <1>7, <1>8, <1>9, <1>10, <1>11 DEF Next

(* the first table: states with the same labels *)
LEMMA FirstTableLanguage ==
  ASSUME IInv, LanguageInv, FirstTableDone
  PROVE  TableLanguage' /\ TableGrows'
<1> USE DEF FirstTableDone, StartNext
<1>1. tblId' = 1 /\ s2c' = newS2C /\ rows' = rows /\ pc' = "next"
  BY DEF LanguageInv, TableGrows
<1>2. \A p, q \in State : newS2C[p] = newS2C[q] <=> SameLanguage(rows, p, rows, q, 1)
  <2> SUFFICES ASSUME NEW p \in State, NEW q \in State
               PROVE  newS2C[p] = newS2C[q] <=> SameLanguage(rows, p, rows, q, 1)
    OBVIOUS
  <2>1. newS2C[p] = newS2C[q] <=> ioEquals(p, q)
    BY FirstTableFacts
  <2>2. SameLanguage(rows, p, rows, q, 1) <=> SameLabels(rows, p, rows, q)
    BY LanguageOne
  <2> QED BY <2>1, <2>2 DEF ioEquals, SameLabels
<1>3. TableLanguage'
  <2>1. \A p, q \in State : s2c'[p] = s2c'[q] <=> SameLanguage(rows', p, rows', q, tblId')
    BY <1>1, <1>2
  <2>2. tblId' \in Nat \ {0}
    BY <1>1
  <2> QED BY ONLY <2>1, <2>2 DEF TableLanguage
<1>4. OldMax' \in Nat
  <2>1. IInv'
    BY FirstTableFacts, StartNextStep
  <2> QED BY ONLY <2>1 DEF IInv, TableDense
<1> QED BY <1>1, <1>3, <1>4 DEF TableGrows

(* comparing the classes of the post-states adds one label to the traces *)
LEMMA ClassEqualsLanguage ==
  ASSUME TypeOK, TableLanguage, pc # "first", NEW p \in State, NEW q \in State
  PROVE  classEquals(p, q) <=> SameLanguage(rows, p, rows, q, tblId + 1)
<1>1. tblId \in Nat \ {0} /\ \A u, v \in State : s2c[u] = s2c[v] <=> SameLanguage(rows, u, rows, v, tblId)
  BY DEF TableLanguage
<1>2. SameLanguage(rows, p, rows, q, tblId + 1) <=>
        /\ SameLabels(rows, p, rows, q)
        /\ \A l \in Label :
             rows[p][l] >= 0 /\ rows[q][l] >= 0 => SameLanguage(rows, rows[p][l], rows, rows[q][l], tblId)
  BY <1>1, LanguageStep
<1>3. \A l \in Label : /\ rows[p][l] >= 0 => rows[p][l] \in State
                       /\ rows[q][l] >= 0 => rows[q][l] \in State
  BY RowFacts
<1> QED BY <1>1, <1>2, <1>3 DEF classEquals, ioEquals, SameLabels

LEMMA NextTableLanguage ==
  ASSUME IInv, LanguageInv, NextTable
  PROVE  TableLanguage' /\ TableGrows'
<1> USE DEF NextTable, StartNext
<1>0. TypeOK /\ pc = "next" /\ TableLanguage /\ TableGrows
  BY DEF IInv, LanguageInv
<1>1. tblId' = tblId + 1 /\ s2c' = newS2C /\ rows' = rows /\ pc' = "next" /\ tblId \in Nat \ {0}
  BY <1>0 DEF TableLanguage
<1>2. ASSUME NEW p \in State, NEW q \in State
      PROVE  newS2C[p] = newS2C[q] <=> SameLanguage(rows, p, rows, q, tblId + 1)
  <2>1. newS2C[p] = newS2C[q] <=> s2c[p] = s2c[q] /\ classEquals(p, q)
    BY LoopEndFacts DEF Same
  <2>2. classEquals(p, q) <=> SameLanguage(rows, p, rows, q, tblId + 1)
    BY <1>0, ClassEqualsLanguage
  <2>3. SameLanguage(rows, p, rows, q, tblId + 1) => SameLanguage(rows, p, rows, q, tblId)
    <3>1. tblId + 1 \in Nat /\ tblId <= tblId + 1
      BY <1>1
    <3> QED BY <1>1, <3>1, LanguageMonotone
  <2>4. SameLanguage(rows, p, rows, q, tblId) => s2c[p] = s2c[q]
    BY <1>0 DEF TableLanguage
  <2> QED BY <2>1, <2>2, <2>3, <2>4
<1>3. TableLanguage'
  <2>1. \A p, q \in State : s2c'[p] = s2c'[q] <=> SameLanguage(rows', p, rows', q, tblId')
    BY <1>1, <1>2
  <2>2. tblId' \in Nat \ {0}
    BY <1>1
  <2> QED BY ONLY <2>1, <2>2 DEF TableLanguage
(* a class opened in this round and the class it comes from *)
<1>4. OldMax \in Nat /\ thisClass \in Nat /\ thisNewClassId \in Nat
      /\ newS2C \in [State -> Nat \cup {-1}] /\ s2c \in [State -> Nat]
      /\ Progress /\ Reference /\ Numbers /\ Dense(s2c, OldMax + 1)
  BY DEF IInv, NextLoop, TypeOK, TableDense
<1>5. thisClass > OldMax
  <2>1. \A j \in State : s2c[j] # thisClass
    <3>1. \A j \in State : ~(j >= n)
      BY StateFacts, NumStatesAssumption
    <3> QED BY <1>4, <3>1 DEF Reference
  <2>2. thisClass \notin 0 .. OldMax
    BY <1>4, <2>1 DEF Dense
  <2> QED BY <1>4, <2>2
<1>6. PICK q \in State : newS2C[q] = OldMax + 1
  <2>1. OldMax + 1 \in OldMax + 1 .. thisNewClassId - 1
    BY <1>4 DEF Numbers
  <2> QED BY <1>4, <2>1 DEF Numbers
<1>7. PICK p \in State : newS2C[p] = s2c[q]
  <2>1. s2c[q] \in 0 .. thisClass - 1
    BY <1>4, <1>5 DEF Dense
  <2> QED BY <1>4, <2>1 DEF Numbers
<1>8. s2c[p] = s2c[q] /\ newS2C[p] # newS2C[q] /\ SameLanguage(rows, p, rows, q, tblId)
  <2>1. s2c[q] \in Nat /\ s2c[q] <= OldMax
    BY <1>4 DEF Dense
  <2>2. newS2C[p] = s2c[p]
    BY <1>4, <1>7, <2>1 DEF Progress
  <2>3. s2c[p] = s2c[q] /\ newS2C[p] # newS2C[q]
    BY <1>4, <1>6, <1>7, <2>1, <2>2
  <2> QED BY <1>0, <2>3 DEF TableLanguage
<1>9. OldMax # 0
  <2> SUFFICES ASSUME OldMax = 0 PROVE FALSE
    OBVIOUS
  <2>1. \A j \in State : s2c[j] = 0
    BY <1>4 DEF Dense
  <2>2. ioEquals(p, q)
    <3>1. 1 \in Nat \ {0} /\ tblId \in Nat /\ 1 <= tblId
      BY <1>1
    <3>2. SameLanguage(rows, p, rows, q, 1)
      BY <1>8, <3>1, LanguageMonotone
    <3> QED BY <3>2, LanguageOne DEF SameLabels, ioEquals
  <2>3. classEquals(p, q)
    <3>1. \A l \in Label : rows[p][l] >= 0 => rows[p][l] \in State /\ rows[q][l] \in State
      BY <1>0, <2>2, RowFacts DEF ioEquals
    <3> QED BY <2>1, <2>2, <3>1 DEF classEquals
  <2>4. newS2C[p] = newS2C[q]
    BY <1>8, <2>3, LoopEndFacts DEF Same
  <2> QED BY <1>8, <2>4
<1>10. OldMax' = thisNewClassId - 1
  <2>1. maxClassId(newS2C) = thisNewClassId - 1
    BY LoopEndFacts, MaxOfDense
  <2> QED BY <1>1, <2>1 DEF OldMax, maxClassId
<1>11. TableGrows'
  <2>1. tblId' <= OldMax'
    BY <1>0, <1>1, <1>4, <1>9, <1>10 DEF Numbers, TableGrows
  <2>2. \E u, v \in State : SameLanguage(rows', u, rows', v, tblId' - 1) /\ s2c'[u] # s2c'[v]
    <3>1. tblId' - 1 = tblId
      BY <1>1
    <3> QED BY <1>1, <1>8, <3>1
  <2> QED BY <1>1, <2>1, <2>2 DEF TableGrows
<1> QED BY <1>3, <1>11

(* the loops do not touch what LanguageInv is about, but for newS2C *)
LEMMA LanguageUnchanged ==
  ASSUME LanguageInv, UNCHANGED <<rows, s2c, tblId>>, pc' = "first" <=> pc = "first"
  PROVE  TableLanguage' /\ TableGrows'
<1>1. OldMax' = OldMax
  BY SameUnchanged
<1>2. TableLanguage'
  BY DEF LanguageInv, TableLanguage
<1>3. TableGrows'
  BY <1>1 DEF LanguageInv, TableGrows
<1> QED BY <1>2, <1>3

LEMMA LanguageInvStep ==
  ASSUME IInv, LanguageInv, [Next]_vars
  PROVE  LanguageInv'
<1>1. ZeroFirst'
  BY ZeroFirstStep DEF LanguageInv
<1>2. TableLanguage' /\ TableGrows'
  <2>1. CASE FirstTableDone
    BY <2>1, FirstTableLanguage
  <2>2. CASE NextTable
    BY <2>2, NextTableLanguage
  <2>3. CASE FirstTableState \/ Skip \/ TakeReference \/ StayInClass \/ OpenClass \/ NextClass
    BY <2>3, LanguageUnchanged
       DEF FirstTableState, Skip, TakeReference, StayInClass, OpenClass, Relevant, NextClass
  <2>4. CASE LastTable \/ ToFsm \/ Done \/ UNCHANGED vars
    BY <2>4, LanguageUnchanged DEF LastTable, ToFsm, Done, vars
  <2> QED BY <2>1, <2>2, <2>3, <2>4 DEF Next
<1>3. MinimalRows'
  <2>1. CASE pc = "done"
    <3>1. UNCHANGED vars
      BY <2>1 DEF Next, FirstTableState, FirstTableDone, Skip, TakeReference, StayInClass, OpenClass,
                  Relevant, NextClass, NextTable, LastTable, ToFsm, Done
    <3> QED BY <2>1, <3>1 DEF LanguageInv, MinimalRows, vars, Representative, maxClassId
  <2>2. CASE ToFsm
    BY <2>2 DEF ToFsm, MinimalRows, Representative, maxClassId
  <2>3. CASE pc # "done" /\ ~ToFsm
    <3>1. pc' # "done"
      BY <2>3 DEF Next, FirstTableState, FirstTableDone, StartNext, Skip, TakeReference, StayInClass,
                  OpenClass, NextClass, NextTable, LastTable, Done, vars
    <3> QED BY <3>1 DEF MinimalRows
  <2> QED BY <2>1, <2>2, <2>3
<1> QED BY <1>1, <1>2, <1>3 DEF LanguageInv

(* The smallest number of a nonempty set *)
LEMMA LeastOf ==
  ASSUME NEW T, T \subseteq Nat, T # {}
  PROVE  \E x \in T : \A y \in T : x <= y
<1> DEFINE R == {ss \in Nat \X Nat : ss[1] < ss[2]}
<1>1. IsWellFoundedOn(R, Nat)
  BY NatLessThanWellFounded DEF OpToRel
<1>2. \E x \in T : \A y \in T : ~(<<y, x>> \in R)
  <2> HIDE DEF R
  <2> QED BY <1>1, WFMin
<1>3. PICK x \in T : \A y \in T : ~(y < x)
  BY <1>2
<1>4. x \in Nat /\ \A y \in T : y \in Nat
  OBVIOUS
<1> QED BY <1>3, <1>4

(* the reference row of a class is one of its rows *)
LEMMA RepresentativeOfClass ==
  ASSUME NEW u \in State
  PROVE  Representative(s2c[u]) \in State /\ s2c[Representative(s2c[u])] = s2c[u]
<1> DEFINE T == {i \in State : s2c[i] = s2c[u]}
<1>1. T \subseteq Nat /\ T # {}
  BY StateFacts
<1>2. \E x \in T : \A y \in T : x <= y
  <2> HIDE DEF T
  <2> QED BY <1>1, LeastOf
<1>3. \E i \in State : s2c[i] = s2c[u] /\ \A j \in State : s2c[j] = s2c[u] => i <= j
  BY <1>2
<1> QED BY <1>3 DEF Representative

(* Since all rows of a class lead to the same classes, the transitions of   *)
(* the minimal FSM can be read off any of them.                             *)
LEMMA MinimalRowOf ==
  ASSUME IInv, MinimalRows, pc = "done"
  PROVE  \A u \in State, l \in Label :
           minRows[s2c[u]][l] = IF rows[u][l] >= 0 THEN s2c[rows[u][l]] ELSE -1
<1> SUFFICES ASSUME NEW u \in State, NEW l \in Label
             PROVE  minRows[s2c[u]][l] = IF rows[u][l] >= 0 THEN s2c[rows[u][l]] ELSE -1
  OBVIOUS
<1> DEFINE r == Representative(s2c[u])
<1>1. r \in State /\ s2c[r] = s2c[u]
  BY RepresentativeOfClass
<1>2. classEquals(r, u)
  BY <1>1 DEF IInv, FinalTable
<1>3. s2c[u] \in 0 .. maxClassId(s2c)
  <2>1. OldMax \in Nat /\ s2c[u] < OldMax + 1 /\ s2c[u] \in Nat
    BY DEF IInv, TypeOK, TableDense, Dense
  <2> QED BY <2>1 DEF OldMax
<1>4. minRows[s2c[u]][l] = IF rows[r][l] >= 0 THEN s2c[rows[r][l]] ELSE -1
  BY <1>3 DEF MinimalRows
<1> HIDE DEF r
<1> QED BY <1>2, <1>4 DEF classEquals, ioEquals

(* There are no more classes than states. *)
LEMMA ClassesAtMostStates ==
  ASSUME IInv
  PROVE  OldMax <= numStates - 1
<1>1. OldMax \in Nat /\ s2c \in [State -> Nat] /\ Dense(s2c, OldMax + 1)
  BY DEF IInv, TypeOK, TableDense
<1>2. s2c \in Surjection(State, 0 .. OldMax)
  <2>1. \A q \in State : s2c[q] \in 0 .. OldMax
    BY <1>1 DEF Dense
  <2>2. \A d \in 0 .. OldMax : \E q \in State : s2c[q] = d
    BY <1>1 DEF Dense
  <2>3. s2c \in [State -> 0 .. OldMax]
    BY <1>1, <2>1
  <2> QED BY <2>2, <2>3 DEF Surjection
<1>3. IsFiniteSet(State) /\ Cardinality(State) = numStates
  <2>1. 0 \in Int /\ numStates - 1 \in Int /\ numStates > 0
    BY NumStatesAssumption
  <2>2. IsFiniteSet(0 .. numStates - 1)
        /\ Cardinality(0 .. numStates - 1) = IF 0 > numStates - 1 THEN 0 ELSE (numStates - 1) - 0 + 1
    BY <2>1, FS_Interval
  <2> QED BY <2>1, <2>2, NumStatesAssumption DEF State
<1>4. Cardinality(0 .. OldMax) = OldMax + 1
  <2>1. 0 \in Int /\ OldMax \in Int
    BY <1>1
  <2>2. IsFiniteSet(0 .. OldMax)
        /\ Cardinality(0 .. OldMax) = IF 0 > OldMax THEN 0 ELSE OldMax - 0 + 1
    BY <2>1, FS_Interval
  <2> QED BY <1>1, <2>2
<1>5. Cardinality(0 .. OldMax) <= Cardinality(State)
  BY <1>2, <1>3, FS_Surjection
<1> QED BY <1>1, <1>3, <1>4, <1>5, NumStatesAssumption

(* Every state of the FSM has the traces of its class in the minimal FSM. *)
LEMMA ClassHasLanguage ==
  ASSUME IInv, MinimalRows, pc = "done", NEW u \in State, NEW k \in Nat
  PROVE  SameLanguage(rows, u, minRows, s2c[u], k + 1)
<1> DEFINE m == <<Label, rows, minRows>>
           X == {<<v, s2c[v]>> : v \in State}
<1>1. \A v \in State, l \in Label :
        minRows[s2c[v]][l] = IF rows[v][l] >= 0 THEN s2c[rows[v][l]] ELSE -1
  BY MinimalRowOf
<1>2. \A v \in State : s2c[v] \in Nat
  BY DEF IInv, TypeOK
<1>3. \A v \in State, l \in Label : rows[v][l] >= 0 => rows[v][l] \in State
  BY RowFacts DEF IInv
<1>4. Succ(m, X) \subseteq X
  <2> SUFFICES ASSUME NEW s \in Succ(m, X) PROVE s \in X
    OBVIOUS
  <2>1. PICK t \in X : \E l \in Label : s = <<rows[t[1]][l], minRows[t[2]][l]>> /\ s[1] >= 0 /\ s[2] >= 0
    BY SuccOf
  <2>2. PICK v \in State : t = <<v, s2c[v]>>
    OBVIOUS
  <2>3. PICK l \in Label : s = <<rows[v][l], minRows[s2c[v]][l]>> /\ rows[v][l] >= 0
    BY <2>1, <2>2
  <2>4. rows[v][l] \in State /\ s = <<rows[v][l], s2c[rows[v][l]]>>
    BY <1>1, <1>3, <2>3
  <2> QED BY <2>4
<1>5. Reach(m, <<u, s2c[u]>>, k) \subseteq X
  <2>1. <<u, s2c[u]>> \in X
    OBVIOUS
  <2> HIDE DEF m, X
  <2> QED BY <1>4, <2>1, ReachWithin
<1>6. \A v \in State : SameLabels(rows, v, minRows, s2c[v])
  <2> SUFFICES ASSUME NEW v \in State, NEW l \in Label
               PROVE  rows[v][l] >= 0 <=> minRows[s2c[v]][l] >= 0
    BY DEF SameLabels
  <2>1. CASE rows[v][l] >= 0
    BY <1>1, <1>2, <1>3, <2>1
  <2>2. CASE ~(rows[v][l] >= 0)
    BY <1>1, <2>2
  <2> QED BY <2>1, <2>2
<1>7. \A t \in Reach(m, <<u, s2c[u]>>, k) : SameLabels(rows, t[1], minRows, t[2])
  <2> SUFFICES ASSUME NEW t \in Reach(m, <<u, s2c[u]>>, k) PROVE SameLabels(rows, t[1], minRows, t[2])
    OBVIOUS
  <2>1. t \in X
    <3> HIDE DEF m, X
    <3> QED BY <1>5
  <2>2. PICK v \in State : t = <<v, s2c[v]>>
    BY <2>1
  <2> QED BY <1>6, <2>2
<1> QED BY <1>7, LanguageIs

(* ... and so classes have the same traces if their states have. *)
LEMMA ClassesAndStates ==
  ASSUME IInv, MinimalRows, pc = "done", NEW k \in Nat
  PROVE  \A p, q \in State :
           SameLanguage(rows, p, rows, q, k + 1) <=> SameLanguage(minRows, s2c[p], minRows, s2c[q], k + 1)
<1> DEFINE Ok(x) == \A p, q \in State :
             SameLanguage(rows, p, rows, q, x + 1) <=> SameLanguage(minRows, s2c[p], minRows, s2c[q], x + 1)
           A == {x \in Nat : Ok(x)}
<1>1. \A v \in State, l \in Label :
        minRows[s2c[v]][l] = IF rows[v][l] >= 0 THEN s2c[rows[v][l]] ELSE -1
  BY MinimalRowOf
<1>2. \A v \in State : s2c[v] \in Nat
  BY DEF IInv, TypeOK
<1>3. \A v \in State, l \in Label : rows[v][l] >= 0 => rows[v][l] \in State
  BY RowFacts DEF IInv
<1>4. \A v \in State, l \in Label : rows[v][l] >= 0 <=> minRows[s2c[v]][l] >= 0
  <2> SUFFICES ASSUME NEW v \in State, NEW l \in Label
               PROVE  rows[v][l] >= 0 <=> minRows[s2c[v]][l] >= 0
    OBVIOUS
  <2>1. CASE rows[v][l] >= 0
    BY <1>1, <1>2, <1>3, <2>1
  <2>2. CASE ~(rows[v][l] >= 0)
    BY <1>1, <2>2
  <2> QED BY <2>1, <2>2
<1>5. \A p, q \in State : SameLabels(rows, p, rows, q) <=> SameLabels(minRows, s2c[p], minRows, s2c[q])
  BY <1>4 DEF SameLabels
<1>6. 0 \in A
  <2> SUFFICES ASSUME NEW p \in State, NEW q \in State
               PROVE  SameLanguage(rows, p, rows, q, 1) <=> SameLanguage(minRows, s2c[p], minRows, s2c[q], 1)
    OBVIOUS
  <2>1. SameLanguage(rows, p, rows, q, 1) <=> SameLabels(rows, p, rows, q)
    BY LanguageOne
  <2>2. SameLanguage(minRows, s2c[p], minRows, s2c[q], 1) <=> SameLabels(minRows, s2c[p], minRows, s2c[q])
    BY LanguageOne
  <2> QED BY <1>5, <2>1, <2>2
<1>7. ASSUME NEW x \in Nat, x \in A PROVE x + 1 \in A
  <2>1. PICK y \in Nat \ {0} : y = x + 1
    OBVIOUS
  <2>2. \A p, q \in State :
          SameLanguage(rows, p, rows, q, y) <=> SameLanguage(minRows, s2c[p], minRows, s2c[q], y)
    BY <1>7, <2>1
  <2> SUFFICES ASSUME NEW p \in State, NEW q \in State
               PROVE  SameLanguage(rows, p, rows, q, y + 1) <=> SameLanguage(minRows, s2c[p], minRows, s2c[q], y + 1)
    BY <2>1
  <2>3. SameLanguage(rows, p, rows, q, y + 1) <=>
          /\ SameLabels(rows, p, rows, q)
          /\ \A l \in Label :
               rows[p][l] >= 0 /\ rows[q][l] >= 0 => SameLanguage(rows, rows[p][l], rows, rows[q][l], y)
    BY LanguageStep
  <2>4. SameLanguage(minRows, s2c[p], minRows, s2c[q], y + 1) <=>
          /\ SameLabels(minRows, s2c[p], minRows, s2c[q])
          /\ \A l \in Label :
               minRows[s2c[p]][l] >= 0 /\ minRows[s2c[q]][l] >= 0 =>
                 SameLanguage(minRows, minRows[s2c[p]][l], minRows, minRows[s2c[q]][l], y)
    BY LanguageStep
  <2>5. ASSUME NEW l \in Label, rows[p][l] >= 0, rows[q][l] >= 0
        PROVE  SameLanguage(rows, rows[p][l], rows, rows[q][l], y) <=>
                 SameLanguage(minRows, minRows[s2c[p]][l], minRows, minRows[s2c[q]][l], y)
    <3>1. rows[p][l] \in State /\ rows[q][l] \in State
      BY <1>3, <2>5
    <3>2. minRows[s2c[p]][l] = s2c[rows[p][l]] /\ minRows[s2c[q]][l] = s2c[rows[q][l]]
      BY <1>1, <2>5
    <3> QED BY <2>2, <3>1, <3>2
  <2> QED BY <1>4, <1>5, <2>3, <2>4, <2>5
<1>8. k \in A
  <2> HIDE DEF A
  <2> QED BY <1>6, <1>7, SetInduction
<1> QED BY <1>8

(* Different classes differ in traces of numStates - 1 labels. *)
LEMMA ClassesDiffer ==
  ASSUME IInv, LanguageInv, pc = "done", NEW p \in State, NEW q \in State, s2c[p] # s2c[q],
         NEW k \in Nat, numStates - 1 <= k
  PROVE  ~SameLanguage(minRows, s2c[p], minRows, s2c[q], k)
<1> SUFFICES ASSUME SameLanguage(minRows, s2c[p], minRows, s2c[q], k) PROVE FALSE
  OBVIOUS
<1>1. OldMax \in Nat /\ OldMax # 0
  <2>1. OldMax \in Nat /\ Dense(s2c, OldMax + 1) /\ s2c[p] \in Nat /\ s2c[q] \in Nat
    BY DEF IInv, TypeOK, TableDense
  <2> QED BY <2>1 DEF Dense
<1>2. tblId \in Nat \ {0} /\ tblId <= k
  <2>1. tblId \in Nat \ {0} /\ tblId <= OldMax
    BY <1>1 DEF LanguageInv, TableLanguage, TableGrows
  <2>2. OldMax <= numStates - 1
    BY ClassesAtMostStates
  <2> QED BY <1>1, <2>1, <2>2, NumStatesAssumption
<1>3. PICK x \in Nat : k = x + 1
  <2>1. k - 1 \in Nat /\ k = (k - 1) + 1
    BY <1>2
  <2> QED BY <2>1
<1>4. SameLanguage(rows, p, rows, q, x + 1) <=> SameLanguage(minRows, s2c[p], minRows, s2c[q], x + 1)
  BY ClassesAndStates DEF LanguageInv
<1>5. SameLanguage(rows, p, rows, q, k)
  BY <1>3, <1>4
<1>6. SameLanguage(rows, p, rows, q, tblId)
  BY <1>2, <1>5, LanguageMonotone
<1> QED BY <1>6 DEF LanguageInv, TableLanguage

(* States that share a class of the last table have the same traces of any length. *)
LEMMA FinalClassLanguage ==
  ASSUME IInv, pc \in {"toFsm", "done"}, NEW p \in State, NEW q \in State, s2c[p] = s2c[q], NEW k \in Nat
  PROVE  SameLanguage(rows, p, rows, q, k + 1)
<1> DEFINE m == <<Label, rows, rows>>
           X == {t \in State \X State : s2c[t[1]] = s2c[t[2]]}
<1>1. \A v \in State, l \in Label : rows[v][l] >= 0 => rows[v][l] \in State
  BY RowFacts DEF IInv
<1>2. \A u, v \in State : s2c[u] = s2c[v] => classEquals(u, v)
  BY DEF IInv, FinalTable
<1>3. Succ(m, X) \subseteq X
  <2> SUFFICES ASSUME NEW s \in Succ(m, X) PROVE s \in X
    OBVIOUS
  <2>1. PICK t \in X : \E l \in Label : s = <<rows[t[1]][l], rows[t[2]][l]>> /\ s[1] >= 0 /\ s[2] >= 0
    BY SuccOf
  <2>2. PICK l \in Label : s = <<rows[t[1]][l], rows[t[2]][l]>> /\ rows[t[1]][l] >= 0 /\ rows[t[2]][l] >= 0
    BY <2>1
  <2>3. s[1] \in State /\ s[2] \in State /\ s[1] = rows[t[1]][l] /\ s[2] = rows[t[2]][l]
    BY <1>1, <2>2
  <2>4. s2c[s[1]] = s2c[s[2]]
    BY <1>2, <2>2, <2>3 DEF classEquals
  <2> QED BY <2>2, <2>3, <2>4
<1>4. Reach(m, <<p, q>>, k) \subseteq X
  <2>1. <<p, q>> \in X
    OBVIOUS
  <2> HIDE DEF m, X
  <2> QED BY <1>3, <2>1, ReachWithin
<1>5. \A t \in Reach(m, <<p, q>>, k) : SameLabels(rows, t[1], rows, t[2])
  <2> SUFFICES ASSUME NEW t \in Reach(m, <<p, q>>, k) PROVE SameLabels(rows, t[1], rows, t[2])
    OBVIOUS
  <2>1. t \in X
    <3> HIDE DEF m, X
    <3> QED BY <1>4
  <2> QED BY <1>2, <2>1 DEF classEquals, ioEquals, SameLabels
<1> QED BY <1>5, LanguageIs

THEOREM LanguageInductive == Spec => []LanguageInv
<1> QED BY InitIInv, NextStep, InitLanguageInv, LanguageInvStep, PTL DEF Spec

(* The minimal FSM that toFsm reads off the last table has the traces of    *)
(* the original one, if the FSM starts in state 0.                          *)
LEMMA EquivalentInv ==
  ASSUME IInv, LanguageInv, initStateIdx = 0
  PROVE  MinimisedIsEquivalent
<1> SUFFICES ASSUME pc = "done" PROVE SameLanguage(rows, 0, minRows, 0, 2 * numStates - 1)
  BY DEF MinimisedIsEquivalent, MinInitStateIdx
<1>1. PICK k \in Nat : 2 * numStates - 1 = k + 1
  <2>1. 2 * numStates - 2 \in Nat /\ 2 * numStates - 1 = (2 * numStates - 2) + 1
    BY NumStatesAssumption
  <2> QED BY <2>1
<1>2. SameLanguage(rows, 0, minRows, s2c[0], k + 1)
  BY ClassHasLanguage, StateFacts DEF LanguageInv
<1> QED BY <1>1, <1>2 DEF LanguageInv, ZeroFirst

LEMMA MinimalInv ==
  ASSUME IInv, LanguageInv
  PROVE  MinimisedIsMinimal
<1> SUFFICES ASSUME pc = "done", NEW c \in DOMAIN minRows, NEW d \in DOMAIN minRows, c # d
             PROVE  ~SameLanguage(minRows, c, minRows, d, numStates)
  BY DEF MinimisedIsMinimal
<1>1. DOMAIN minRows = 0 .. OldMax
  BY DEF LanguageInv, MinimalRows, OldMax
<1>2. PICK p \in State, q \in State : s2c[p] = c /\ s2c[q] = d
  <2>1. OldMax \in Nat /\ \A x \in 0 .. OldMax : \E j \in State : s2c[j] = x
    BY DEF IInv, TableDense, Dense
  <2> QED BY <1>1, <2>1
<1>3. numStates \in Nat /\ numStates - 1 <= numStates
  BY NumStatesAssumption
<1>4. ~SameLanguage(minRows, s2c[p], minRows, s2c[q], numStates)
  BY <1>2, <1>3, ClassesDiffer
<1> QED BY <1>2, <1>4

(* both invariants, as they are used of other tables *)
LEMMA InvStep == IInv /\ LanguageInv /\ [Next]_vars => IInv' /\ LanguageInv'
BY NextStep, LanguageInvStep

(* Fsm::minimiseObservableFSM yields a minimal FSM, with the traces of the  *)
(* original one if that starts in state 0, for every observable FSM.        *)
THEOREM MinimalFsm ==
  Spec => [](MinimisedIsMinimal /\ (initStateIdx = 0 => MinimisedIsEquivalent))
<1>1. IInv /\ LanguageInv => MinimisedIsMinimal /\ (initStateIdx = 0 => MinimisedIsEquivalent)
  BY EquivalentInv, MinimalInv
<1> QED BY <1>1, Inductive, LanguageInductive, PTL
=============================================================================
