----------------------------- MODULE FsmTraces -----------------------------
(***************************************************************************)
(* FSMs as sets of transitions <<source, label, target>>, and the states   *)
(* that a word of labels leads to.                                         *)
(***************************************************************************)
EXTENDS Integers, Sequences

CONSTANTS
  Label,      \* pairs of an input and an output
  TraceBound  \* length of the traces that properties compare

ASSUME TraceBoundAssumption == TraceBound \in Nat

FsmRecord(S) == [trans : SUBSET (S \X Label \X S), init : S]

Follow(trans, S, word) ==
  LET after[i \in 0 .. Len(word)] ==
        IF i = 0 THEN S
        ELSE {t[3] : t \in {u \in trans : u[1] \in after[i - 1] /\ u[2] = word[i]}}
  IN  after[Len(word)]
=============================================================================
