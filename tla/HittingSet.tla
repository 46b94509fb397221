----------------------------- MODULE HittingSet -----------------------------
(***************************************************************************)
(* HittingSet and HsTreeNode: the search for a smallest hitting set.       *)
(*                                                                         *)
(* The search expands a node of the search tree by leaving out one element *)
(* after the other, and goes depth first into every result that still hits *)
(* all sets.  The best candidate is kept in a static member of HsTreeNode, *)
(* which all HittingSet objects share: the constructor of one object       *)
(* resets what another one has found.  The iteration order of              *)
(* unordered_set is left open.                                             *)
(***************************************************************************)
EXTENDS Integers, Sequences, FiniteSets, MinHittingSets

CONSTANTS
  Element,      \* what the sets are made of
  SetSystems,   \* the systems of sets a client asks about
  Object,       \* HittingSet objects
  Overlapping   \* may an object be constructed while another waits for its call?

ASSUME ElementAssumption == IsFiniteSet(Element)
ASSUME SetSystemsAssumption == SetSystems \subseteq SUBSET SUBSET Element
ASSUME OverlappingAssumption == Overlapping \in BOOLEAN

VARIABLES
  s,           \* HittingSet::s, for each object
  phase,       \* of each object: "none", "constructed", "searching", "done"
  hSmallest,   \* HsTreeNode::hSmallest
  stack,       \* activations of expandNode: the node's set, and what is still to leave out
  result       \* what calcMinCardHittingSet returned to each object

hsVars == <<s, phase, hSmallest, stack, result>>

(* HittingSet::h never changes after construction *)
h(o) == UNION s[o]

HSInit ==
  /\ s = [o \in Object |-> {}]
  /\ phase = [o \in Object |-> "none"]
  /\ hSmallest = {}
  /\ stack = << >>
  /\ result = [o \in Object |-> {}]

Construct(o) ==
  /\ phase[o] = "none"
  /\ \A p \in Object : phase[p] # "searching"
  /\ Overlapping \/ \A p \in Object : phase[p] # "constructed"
  /\ \E zs \in SetSystems :
       /\ s' = [s EXCEPT ![o] = zs]
       /\ hSmallest' = UNION zs
  /\ phase' = [phase EXCEPT ![o] = "constructed"]
  /\ UNCHANGED <<stack, result>>

Frame(y) == [x |-> y, todo |-> y]

(* calcMinCardHittingSet: the root of the search tree is h itself *)
Calculate(o) ==
  /\ phase[o] = "constructed"
  /\ \A p \in Object : phase[p] # "searching"
  /\ phase' = [phase EXCEPT ![o] = "searching"]
  /\ stack' = << Frame(h(o)) >>
  /\ UNCHANGED <<s, hSmallest, result>>

(* Faulty variant: the last hitting set is remembered. *)
FaultyRemember(y) == hSmallest' = y

(* isHittingSet, which remembers the smallest hitting set seen *)
Remember(y) == hSmallest' = IF Cardinality(y) < Cardinality(hSmallest) THEN y ELSE hSmallest

(* expandNode: leave out one element of the innermost node *)
LeaveOut(o, a) ==
  LET f == stack[1]
      xNew == f.x \ {a}
      rest == << [f EXCEPT !.todo = f.todo \ {a}] >> \o Tail(stack)
  IN  /\ phase[o] = "searching"
      /\ stack # << >>
      /\ a \in f.todo
      /\ IF xNew # {} /\ Hits(xNew, s[o])
         THEN Remember(xNew) /\ stack' = <<Frame(xNew)>> \o rest
         ELSE UNCHANGED hSmallest /\ stack' = rest
      /\ UNCHANGED <<s, phase, result>>

(* Faulty variant: the frame stays on the stack. *)
FaultyReturn(o) ==
  /\ phase[o] = "searching"
  /\ stack # << >>
  /\ stack[1].todo = {}
  /\ UNCHANGED hsVars

(* return from expandNode *)
Return(o) ==
  /\ phase[o] = "searching"
  /\ stack # << >>
  /\ stack[1].todo = {}
  /\ stack' = Tail(stack)
  /\ UNCHANGED <<s, phase, hSmallest, result>>

(* return from calcMinCardHittingSet *)
Answer(o) ==
  /\ phase[o] = "searching"
  /\ stack = << >>
  /\ phase' = [phase EXCEPT ![o] = "done"]
  /\ result' = [result EXCEPT ![o] = hSmallest]
  /\ UNCHANGED <<s, hSmallest, stack>>

HSNext ==
  \E o \in Object :
    \/ Construct(o) \/ Calculate(o)
    \/ \E a \in Element : LeaveOut(o, a)
    \/ Return(o) \/ Answer(o)

HSSpec == HSInit /\ [][HSNext]_hsVars

Search(o) == (\E a \in Element : LeaveOut(o, a)) \/ Return(o) \/ Answer(o)

(* calcMinCardHittingSet is one call that is left running. *)
HSFairSpec == HSSpec /\ \A o \in Object : WF_hsVars(Search(o))

-----------------------------------------------------------------------------
HSTypeOK ==
  /\ s \in [Object -> SUBSET SUBSET Element]
  /\ phase \in [Object -> {"none", "constructed", "searching", "done"}]
  /\ hSmallest \subseteq Element
  /\ stack \in Seq([x : SUBSET Element, todo : SUBSET Element])
  /\ result \in [Object -> SUBSET Element]

(***************************************************************************)
(* calcMinCardHittingSet returns a smallest hitting set of the system the  *)
(* object was constructed with, whatever the search left out on the way.   *)
(* (HittingSet.h: "Calculate the smallest hitting set for the set system   *)
(* specified when instantiating the object.")                              *)
(***************************************************************************)
ResultIsSmallest ==
  \A o \in Object : phase[o] = "done" => result[o] \in MinHittingSets(s[o])

(* A search that has begun returns to its caller. *)
SearchEnds == \A o \in Object : phase[o] = "searching" ~> phase[o] = "done"
=============================================================================
