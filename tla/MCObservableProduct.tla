------------------------ MODULE MCObservableProduct ------------------------
(***************************************************************************)
(* FSMs with three states, two labels and up to four transitions, made     *)
(* observable and intersected with an FSM that does everything; and pairs  *)
(* of FSMs with two states, three labels and up to three transitions each. *)
(***************************************************************************)
EXTENDS ObservableProduct

MCState1 == 0 .. 7
MCLabelSeq == << <<0, 0>>, <<0, 1>>, <<1, 0>>, <<1, 1>> >>
MCLabel == {<<0, 0>>, <<0, 1>>, <<1, 0>>, <<1, 1>>}

MCLarge ==
  LET Triple == State \X {<<0, 0>>, <<1, 0>>} \X State
  IN  {[trans |-> {t1, t2, t3, t4}, init |-> 0] :
         t1 \in Triple, t2 \in Triple, t3 \in Triple, t4 \in Triple}

MCSmall ==
  LET Triple == {0, 1} \X {<<0, 0>>, <<0, 1>>, <<1, 0>>} \X {0, 1}
  IN  {[trans |-> {t1, t2, t3}, init |-> 0] : t1 \in Triple, t2 \in Triple, t3 \in Triple}

MCUniversal == [trans |-> {<<0, l, 0>> : l \in Label}, init |-> 0]

MCFsms == MCLarge \cup MCSmall
MCFsms2 == MCSmall \cup {MCUniversal}

MCCalls ==
  ({"transform"} \X MCLarge \X {MCUniversal}) \cup ({"intersect"} \X MCSmall \X MCSmall)
=============================================================================
