------------------------- MODULE MCReductionTesting -------------------------
EXTENDS ReductionTesting

MCm == 2

(* a machine from its table: per state, per input, the target of each output *)
FromTable(tab) == [q \in 0 .. Len(tab) - 1 |-> [l \in IO |-> tab[q + 1][l[1] + 1][l[2] + 1]]]

(* Complete machines: all pairs r-distinguishable and all states d-reachable;  *)
(* a state not d-reachable; states d-reachable only by sets of states; a pair  *)
(* not r-distinguishable; one that only one of its common outputs would tell   *)
(* apart; no pair r-distinguishable.  Then machines that leave inputs          *)
(* undefined, the last of them without any in one state.                       *)
MCSpecifications == {FromTable(tab) : tab \in {
  << <<<<-1,2>>,<<1,-1>>>>, <<<<1,-1>>,<<2,2>>>>, <<<<1,2>>,<<0,-1>>>> >>,
  << <<<<-1,1>>,<<1,2>>>>, <<<<1,-1>>,<<2,0>>>>, <<<<0,2>>,<<-1,1>>>> >>,
  << <<<<-1,0>>,<<2,1>>>>, <<<<2,-1>>,<<2,-1>>>>, <<<<-1,1>>,<<-1,2>>>> >>,
  << <<<<0,-1>>,<<1,2>>>>, <<<<1,-1>>,<<2,-1>>>>, <<<<0,-1>>,<<-1,2>>>> >>,
  << <<<<0,2>>,<<1,-1>>>>, <<<<0,0>>,<<1,-1>>>>, <<<<0,-1>>,<<-1,1>>>> >>,
  << <<<<0,2>>,<<1,2>>>>, <<<<1,-1>>,<<2,0>>>>, <<<<1,1>>,<<0,-1>>>> >>,
  << <<<<1,-1>>,<<1,-1>>>>, <<<<2,-1>>,<<0,-1>>>>, <<<<0,2>>,<<1,-1>>>> >>,
  << <<<<1,-1>>,<<1,0>>>>, <<<<-1,0>>,<<1,2>>>>, <<<<2,1>>,<<-1,-1>>>> >>,
  << <<<<1,-1>>,<<0,2>>>>, <<<<-1,2>>,<<-1,-1>>>>, <<<<2,0>>,<<0,-1>>>> >>,
  << <<<<-1,1>>,<<1,-1>>>>, <<<<1,2>>,<<-1,-1>>>>, <<<<2,-1>>,<<-1,-1>>>> >>,
  << <<<<-1,-1>>,<<1,-1>>>>, <<<<1,-1>>,<<-1,2>>>>, <<<<0,0>>,<<-1,-1>>>> >>,
  << <<<<0,1>>,<<-1,2>>>>, <<<<1,-1>>,<<-1,-1>>>>, <<<<-1,2>>,<<-1,-1>>>> >>,
  << <<<<1,1>>,<<-1,2>>>>, <<<<1,-1>>,<<-1,-1>>>>, <<<<-1,-1>>,<<-1,-1>>>> >>}}

(* deterministic machines with two states, those where input 0 has a choice of *)
(* outputs, and those where it is undefined, in one of the states              *)
Cell == {c \in [Out -> -1 .. 1] : \E y \in Out : c[y] >= 0}
DetCell == {c \in Cell : \E y \in Out : c[y] < 0}
None == [y \in Out |-> -1]
FromCells(cells) == [q \in 0 .. 1 |-> [l \in IO |-> cells[<<q, l[1]>>][l[2]]]]
Deterministic == [(0 .. 1) \X In -> DetCell]
MCImplementations ==
  {FromCells(c) : c \in Deterministic}
  \cup {FromCells([c EXCEPT ![<<q, 0>>] = v]) : c \in Deterministic, q \in 0 .. 1, v \in {None, [y \in Out |-> y]}}
=============================================================================
