---------------------------- MODULE MCSafeMethods ----------------------------
(* Deterministic three-state machines with three outputs, of which the     *)
(* abstraction cannot tell 1 from 2.                                       *)
EXTENDS SafeMethods

MCMethods == Safe
MCSafeH == {"SafeH"}
MCAbstractions == {[y \in Output |-> IF y = 2 THEN 1 ELSE y]}
MCIdentity == {Identity}

Machine(to, out) ==
  [q \in State |-> [l \in Label |-> IF l[2] = out[l[1]][q + 1] THEN to[l[1]][q + 1] ELSE -1]]
Both(zero, one) == [x \in Input |-> IF x = 0 THEN zero ELSE one]

(* input 0 leads from state 0 to 1, input 1 from state 1 to 2 *)
MCRows ==
  {Machine(Both(to, <<0, 2, 0>>), Both(out, ones)) :
     to \in {<<1, t, u>> : t \in {0, 2}, u \in {0, 1}}, out \in {<<0, y, z>> : y, z \in Output}, ones \in {<<0, 0, 0>>, <<0, 2, 1>>}}

(* outputs depend on the state only *)
MCPlain == {Machine(Both(<<1, 1, 2>>, <<2, 2, 0>>), Both(<<0, 1, 1>>, <<0, 1, 1>>))}

MCSpec == SafeInit /\ [][SafeNext]_safeVars
=============================================================================
