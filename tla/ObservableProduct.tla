------------------------- MODULE ObservableProduct -------------------------
(***************************************************************************)
(* What a client does with two FSMs that need not be observable: it        *)
(* intersects them as they are, or makes the first one observable and then *)
(* intersects (Fsm::transformToObservableFSM, Fsm::intersect), and asks    *)
(* for a strong semi-reduction.                                            *)
(***************************************************************************)
EXTENDS ObservableFsm, Intersection

CONSTANT Calls   \* <<first stage, the first FSM, the other FSM>>

ASSUME CallsAssumption == Calls \subseteq {"transform", "intersect"} \X Fsms \X Fsms2

VARIABLE stage   \* "transform", "intersect"

interVars == <<f1, f2, nodeList, fsmInterNodes, reachTrace, visited, nSource, todo, trans>>
allVars == <<stage, obsVars, interVars>>

PInit ==
  /\ \E c \in Calls : stage = c[1] /\ fsm = c[2] /\ f2 = c[3]
  /\ f1 = fsm
  /\ ObsInit
  /\ Init

Transform == stage = "transform" /\ ObsNext /\ UNCHANGED <<stage, interVars>>

(* the new FSM calls intersect; its initial state is the first node made *)
CallIntersect ==
  /\ stage = "transform" /\ ObsFinished
  /\ stage' = "intersect"
  /\ f1' = [trans |-> obsTrans, init |-> 1]
  /\ nodeList' = << <<1, f2.init>> >>
  /\ UNCHANGED <<obsVars, f2, fsmInterNodes, reachTrace, visited, nSource, todo, trans>>

Intersect == stage = "intersect" /\ Next /\ UNCHANGED <<stage, obsVars>>

Done == stage = "intersect" /\ Finished /\ UNCHANGED allVars

PNext == Transform \/ CallIntersect \/ Intersect \/ Done

(* Each call is left running, and the second one follows the first. *)
PSpec == PInit /\ [][PNext]_allVars /\ WF_allVars(PNext)

-----------------------------------------------------------------------------
(***************************************************************************)
(* Both calculations end, although each finds its nodes again and again.   *)
(***************************************************************************)
Terminates == <>(stage = "intersect" /\ Finished)
=============================================================================
