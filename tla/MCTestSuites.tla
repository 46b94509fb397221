---------------------------- MODULE MCTestSuites ----------------------------
(***************************************************************************)
(* Three-state FSMs for TestSuites.  The sets alone are calculated for all *)
(* machines of MCRows; suites for one additional state are generated and   *)
(* executed for a few machines, suites for none also for many              *)
(* deterministic ones.  All states are reachable from state 0, as          *)
(* minimise() makes sure, except in MCUnreachable.                         *)
(***************************************************************************)
EXTENDS SPYHMethod

AllReachable(r) ==
  LET Succ(S) == S \cup ({r[q][l] : q \in S, l \in Label} \ {-1})
  IN  Succ(Succ({0})) = State

(* all observable FSMs with output 0 only, so deterministic ones *)
MCPartial ==
  {r \in {[q \in State |-> [l \in Label |-> IF l[2] = 0 THEN f[q][l[1]] ELSE -1]] :
             f \in [State -> [Input -> State \cup {-1}]]} : AllReachable(r)}

(* two inputs, two outputs: input 0 may be answered with both, input 1 is *)
(* answered with output 0.  Renaming outputs, the first state whose        *)
(* answers to input 0 differ goes further with output 0.                   *)
MCZero == {f \in [Output -> State \cup {-1}] : \E y \in Output : f[y] >= 0}

MCRenamed(a) ==
  \A q \in State : (\A p \in 0 .. q - 1 : a[p][0] = a[p][1]) => a[q][0] >= a[q][1]

MCComplete ==
  {r \in {[q \in State |-> [l \in Label |-> IF l[1] = 0 THEN a[q][l[2]]
                                            ELSE IF l[2] = 0 THEN b[q] ELSE -1]] :
             a \in {f \in [State -> MCZero] : MCRenamed(f)}, b \in [State -> State]} : AllReachable(r)}

MCRows == MCPartial \cup MCComplete

MCMethods == {"W", "Wp", "HSI", "T", "H", "SPYH", "none"}
MCSPYH == {"SPYH"}

(* deterministic machines that return from state 2 with input 1, up to     *)
(* renaming of states and of the outputs for input 0                       *)
MCDeterministic(r) ==
  /\ r[2][<<1, 0>>] = 0
  /\ r[0][<<0, 1>>] = -1
  /\ r[0][<<0, 0>>] # 2
  /\ r[0][<<0, 0>>] = 0 => r[0][<<1, 0>>] = 1
  /\ \A q \in State : r[q][<<1, 0>>] >= 0 /\ (r[q][<<0, 0>>] = -1 <=> r[q][<<0, 1>>] # -1)

Machine(zero, one) ==
  [q \in State |-> [l \in Label |-> IF l[1] = 0 THEN zero[q + 1][l[2] + 1]
                                    ELSE IF l[2] = 0 THEN one[q + 1] ELSE -1]]

MCLong == Machine(<< <<-1, 1>>, <<0, -1>>, <<1, -1>> >>, <<2, 0, 1>>)  \* a trace of length 3

MCFew ==
  {MCLong,
   Machine(<< <<1, -1>>, <<2, -1>>, <<-1, 0>> >>, <<0, 0, 0>>),  \* a cycle
   Machine(<< <<1, 2>>, <<0, -1>>, <<-1, 0>> >>, <<0, 0, 0>>)}   \* nondeterministic in 0

MCTwoNondeterministic == {Machine(<< <<1, 0>>, <<2, 1>>, <<-1, 0>> >>, <<0, 0, 0>>)}

(* states 0 and 1 converge under input 0 *)
MCConverging ==
  {[q \in State |-> [l \in Label |->
      CASE q = 2 -> (IF l = <<0, 1>> THEN 1 ELSE IF l = <<1, 1>> THEN 2 ELSE -1)
        [] q # 2 /\ l[2] = 0 -> (IF q = 1 /\ l[1] = 1 THEN 0 ELSE 2)
        [] OTHER -> -1]]}

(* FSMs that were not minimised first *)
MCUnreachable ==
  {Machine(<< <<1, -1>>, <<-1, 0>>, <<0, 1>> >>, <<0, 0, 0>>),
   Machine(<< <<0, -1>>, <<-1, 2>>, <<1, 0>> >>, <<0, 0, 0>>)}

MCAllRows == MCRows \cup MCFew \cup MCConverging \cup MCUnreachable

MCInit ==
  /\ SPYHInit
  /\ \/ method = "none" /\ numAddStates = 0 /\ rows \notin MCConverging
     \/ method \notin {"none", "SPYH"} /\ rows \in MCFew
     \/ /\ method \notin {"none", "SPYH"} /\ numAddStates = 0
        /\ MCDeterministic(rows) \/ rows \in MCTwoNondeterministic
     \/ method = "SPYH" /\ numAddStates = 0 /\ rows \in MCFew \cup MCConverging
     \/ method = "SPYH" /\ numAddStates = 1 /\ rows = MCLong

MCSpec == MCInit /\ [][SPYHNext]_spyhVars
=============================================================================
