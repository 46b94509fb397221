------------------------ MODULE PartitionRefinement ------------------------
(***************************************************************************)
(* What the table algorithms of the library promise, without class         *)
(* numbers, rows or loops: an equivalence on the states of an observable   *)
(* FSM is refined until no transition separates two equivalent states.     *)
(* OFSMTables and PkTables are shown to implement this specification.      *)
(*                                                                         *)
(* A label is an input/output pair x/y; an observable FSM has at most one  *)
(* post-state for every state and label.                                   *)
(***************************************************************************)
EXTENDS Integers

CONSTANTS State, Label, None  \* None stands for "no post-state" and is no state

VARIABLES
  post,    \* the FSM: post[q][l] is the post-state of q under l, or None
  eq,      \* the pairs of states not separated yet
  stable   \* no further table was needed

vars == <<post, eq, stable>>

Machines == [State -> [Label -> State \cup {None}]]

Defined(q) == {l \in Label : post[q][l] # None}

(* no label separates p from q, the states in E being taken for equal *)
Compatible(p, q, E) ==
  /\ Defined(p) = Defined(q)
  /\ \A l \in Defined(p) : <<post[p][l], post[q][l]>> \in E

Refined(E) == {pq \in E : Compatible(pq[1], pq[2], E)}

Init ==
  /\ post \in Machines
  /\ eq = State \X State
  /\ stable = FALSE

Refine ==
  /\ ~stable
  /\ eq' = Refined(eq)
  /\ UNCHANGED <<post, stable>>

Finish ==
  /\ ~stable
  /\ Refined(eq) = eq
  /\ stable' = TRUE
  /\ UNCHANGED <<post, eq>>

Next == Refine \/ Finish

Spec == Init /\ [][Next]_vars

-----------------------------------------------------------------------------
TypeOK ==
  /\ post \in Machines
  /\ eq \subseteq State \X State
  /\ stable \in BOOLEAN

(* R relates states that offer the same labels and stay related under them *)
IsBisimulation(R) == \A pq \in R : Compatible(pq[1], pq[2], R)

Bisimilar(p, q) == \E R \in SUBSET (State \X State) : IsBisimulation(R) /\ <<p, q>> \in R

(***************************************************************************)
(* When refinement stops, the states still related are exactly the         *)
(* bisimilar ones, which for observable FSMs are those with the same I/O   *)
(* language: calcOFSMTables and calcPkTables separate neither too few nor  *)
(* too many states. (Proved in OFSMTables_proofs.)                         *)
(***************************************************************************)
StableIsBisimilarity ==
  stable => \A p, q \in State : <<p, q>> \in eq <=> Bisimilar(p, q)
=============================================================================
