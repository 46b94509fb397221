-------------------------- MODULE ReductionTesting --------------------------
(***************************************************************************)
(* One specification machine on its way through the two methods that test  *)
(* for reduction: the states are analysed once, then either adaptive state *)
(* counting tests an implementation, or a suite for strong semi-reduction  *)
(* is generated and executed.                                              *)
(***************************************************************************)
EXTENDS StrongReduction

CONSTANT Specifications   \* observable FSMs, every state reachable

ASSUME SpecificationsAssumption == Specifications \subseteq [State -> [IO -> State \cup {-1}]]

vars == <<rows, rVars, cVars, sVars>>

Init == rows \in Specifications /\ RInit /\ CInit /\ SInit

Analyse == RNext /\ UNCHANGED <<cVars, sVars>>
(* the tool adaptive state counting is called from makes its model complete *)
Count == sPhase = "idle" /\ IsComplete(rows) /\ CNext /\ UNCHANGED sVars
Generate == cPhase = "idle" /\ SCalc /\ UNCHANGED <<rows, rVars, cVars>>
ExecuteSuite == cPhase = "idle" /\ Execute /\ UNCHANGED <<rows, rVars>>

Next == Analyse \/ Count \/ Generate \/ ExecuteSuite

Ended == cPhase \in {"pass", "fail"} \/ sPhase \in {"pass", "fail", "undefined"}
Stop == Ended /\ UNCHANGED vars

(* All of it is one sequential program: until it has ended it goes on.  This *)
(* is WF_vars(Next) as long as Next is enabled until then, which the run     *)
(* checks (no deadlock), without TLC having to evaluate ENABLED Next.        *)
Progress == <>[]~Ended => []<><<Next>>_vars

Spec == Init /\ [][Next \/ Stop]_vars /\ Progress

(* The methods end: the levels, the search for d-reaching sequences, the    *)
(* rounds over the graph and the extension of traces all come to an end.    *)
TestsTerminate == <>Ended
=============================================================================
