--------------------------- MODULE MCMinimisation ---------------------------
(***************************************************************************)
(* Deterministic machines with four states: input 0 leads anywhere with    *)
(* output 0 or is undefined, input 1 is a self-loop with either output.    *)
(* With four states the list of tables grows to its longest, one table per *)
(* state.                                                                  *)
(***************************************************************************)
EXTENDS Minimisation, TLC

MCInput == {0, 1}
MCOutput == {0, 1}
MCLabel == (MCInput \X MCOutput) \ {<<0, 1>>}

MCDfsms ==
  {[io  |-> [q \in State |-> (0 :> IF f[q][1] < 0 THEN -1 ELSE 0) @@ (1 :> f[q][2])],
    i2p |-> [q \in State |-> (0 :> f[q][1]) @@ (1 :> q)]] :
     f \in [State -> (State \cup {-1}) \X MCOutput]}

MCRows == {RowsOf(d.io, d.i2p) : d \in MCDfsms}
=============================================================================
