----------------------------- MODULE Enumerator -----------------------------
(***************************************************************************)
(* FsmEnumerator: hasNext steps through all tables of targets, -1 for      *)
(* none, as through the numerals of a counter, until one describes a       *)
(* machine to be delivered.                                                *)
(***************************************************************************)
EXTENDS Integers, Sequences, FiniteSets, SequencesExt

CONSTANTS Sizes   \* records maxInput, maxOutput, maxState, generateSmallerFsms

ASSUME SizesAssumption ==
  \A s \in Sizes : s.maxInput \in Nat /\ s.maxOutput \in Nat /\ s.maxState \in Nat

VARIABLES
  size,           \* the arguments of the constructor
  currentTable,   \* currentTable, entries in the order of updateTable
  delivered,      \* the tables of the machines returned so far
  stateNames,     \* number of state names left in the shared presentation layer
  answer          \* of hasNext: "yes", "no", or "skipped" within its loop

enumVars == <<size, currentTable, delivered, stateNames, answer>>

TableEntries == (size.maxState + 1) * (size.maxInput + 1) * (size.maxOutput + 1)
AllStates == 0 .. size.maxState

(* the table before the first one *)
EnumInit ==
  /\ size \in Sizes
  /\ currentTable = [i \in 1 .. TableEntries |-> IF i = TableEntries THEN -2 ELSE -1]
  /\ delivered = {} /\ answer = "yes"
  /\ stateNames = size.maxState + 1

(* Faulty variant: what follows the entry keeps its targets. *)
FaultyUpdateTable(table) ==
  LET i == Max({j \in DOMAIN table : table[j] < size.maxState})
  IN  [table EXCEPT ![i] = table[i] + 1]

(* updateTable, if an entry can be re-targeted *)
UpdatePossible(table) == \E j \in DOMAIN table : table[j] < size.maxState
UpdateTable(table) ==
  LET i == Max({j \in DOMAIN table : table[j] < size.maxState})
  IN  [j \in DOMAIN table |-> IF j < i THEN table[j] ELSE IF j = i THEN table[i] + 1 ELSE -1]

(* the entries of a state, and the states reached from the initial one *)
Successors(table, q) ==
  LET width == TableEntries \div (size.maxState + 1)
  IN  {table[i] : i \in width * q + 1 .. width * (q + 1)} \ {-1}
ReachableIn(table) ==
  LET f[k \in 0 .. size.maxState] == IF k = 0 THEN {0} ELSE f[k - 1] \cup UNION {Successors(table, q) : q \in f[k - 1]}
  IN  f[size.maxState]

(* one turn of the loop in hasNext; getNext returns what it stopped at.     *)
(* removeUnreachableNodes takes names from the layer that all machines      *)
(* share.                                                                   *)
HasNext ==
  /\ answer # "no"
  /\ UpdatePossible(currentTable)
  /\ currentTable' = UpdateTable(currentTable)
  /\ LET unreachable == AllStates \ ReachableIn(currentTable')
     IN  IF size.generateSmallerFsms \/ unreachable = {}
         THEN /\ delivered' = delivered \cup {currentTable'} /\ answer' = "yes"
              /\ UNCHANGED stateNames
         ELSE /\ answer' = "skipped"
              /\ stateNames' = stateNames - Cardinality({q \in unreachable : q < stateNames})
              /\ UNCHANGED delivered
  /\ UNCHANGED size

HasNoNext ==
  /\ answer # "no" /\ ~UpdatePossible(currentTable)
  /\ answer' = "no"
  /\ UNCHANGED <<size, currentTable, delivered, stateNames>>

EnumNext == HasNext \/ HasNoNext

EnumSpec == EnumInit /\ [][EnumNext]_enumVars

-----------------------------------------------------------------------------
(***************************************************************************)
(* FsmEnumerator.h: "all FSMs with exactly (maxState+1) reachable states   *)
(* are generated", or all machines whatever their states: when hasNext     *)
(* answers no, each has been delivered, and none twice.                    *)
(***************************************************************************)
EnumeratesEachOnce ==
  [][ /\ answer' = "yes" => currentTable' \notin delivered
      /\ answer' = "no" =>
           delivered = {t \in [1 .. TableEntries -> AllStates \cup {-1}] :
                          size.generateSmallerFsms \/ ReachableIn(t) = AllStates}
    ]_enumVars
=============================================================================
