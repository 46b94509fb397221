--------------------------- MODULE StateCounting ---------------------------
(***************************************************************************)
(* Fsm::adaptiveStateCounting: the implementation iut is tested for being  *)
(* a reduction of the specification rows, with at most m states assumed.   *)
(* Sets of input traces are applied, each followed by the adaptive test    *)
(* cases; a trace is extended until the responses seen after its prefixes  *)
(* show that a longer one must visit a state of iut twice.                 *)
(*                                                                         *)
(* The empty trace of the code, <<FsmLabel::EPSILON>>, is << >> here.      *)
(* observedTraces, iterations and the log are results nothing reads back   *)
(* and are left out.                                                       *)
(***************************************************************************)
EXTENDS RDistinguishability

CONSTANTS
  m,                \* states the implementation is assumed to have at most
  Implementations   \* observable FSMs to be tested

ASSUME ImplementationsAssumption ==
  /\ m \in Nat
  /\ \A fsm \in Implementations : \E k \in 1 .. m : fsm \in [0 .. k - 1 -> [IO -> -1 .. k - 1]]

VARIABLES
  iut,        \* the implementation: iut[q][<<x, y>>] is the post-state or -1
  cPhase,     \* "idle", "apply", "expand", "pass", "fail"
  omega,      \* the adaptive test cases
  t, tC,      \* input traces applied so far; those not yet terminated
  bOmegaT,    \* the sets of responses seen after the traces of t
  failTrace   \* I/O trace reported with the verdict "fail"

cVars == <<iut, cPhase, omega, t, tC, bOmegaT, failTrace>>

-----------------------------------------------------------------------------
(* Fsm::getAdaptiveRCharacterisationSet.  A tree contained in another one    *)
(* may be dropped; whether the code sees that it is contained depends on the *)
(* input stored in leaves, which AdaptiveTreeNode() leaves uninitialised.    *)
AllTests == {sigma[p] : p \in DOMAIN sigma} \ {EmptyTree}
Covered(tree, trees) == \E other \in trees : tree \subseteq other
AdaptiveRCharacterisationSets ==
  {o \in SUBSET AllTests : \A tree \in AllTests : Covered(tree, o)}

(* I/O traces fsm may show for the input trace xs *)
Responses(fsm, xs) ==
  FoldLeft(LAMBDA ios, x : {io \in {Append(i, <<x, y>>) : i \in ios, y \in Out} : After(fsm, 0, io) >= 0},
           {<< >>}, xs)

(* Fsm::bOmega *)
AdaptiveTraces(fsm, q) == UNION {PossibleIOTraces(fsm, q, tree) : tree \in omega}
bOmegaOf(io) ==
  LET q == After(iut, 0, io) IN IF q < 0 THEN {} ELSE AdaptiveTraces(iut, q)
bOmega(traces) ==
  IF omega = {} THEN {} ELSE {bOmegaOf(io) : io \in UNION {Responses(iut, xs) : xs \in traces}}

(* VPrimeLazy: the ways to choose a response of iut for every trace of the  *)
(* state cover, numbered 1 .. length; number n is read with mixed radices   *)
Inputs(io) == [i \in DOMAIN io |-> io[i][1]]
allPossibleTraces ==
  LET cover == SetToSeq(detStateCover)
  IN  [i \in DOMAIN cover |-> SetToSeq(Responses(iut, cover[i]))]

Radix(all, i) ==
  FoldLeft(LAMBDA f, j : f * Len(all[j]), 1, [j \in 1 .. Len(all) - i |-> i + j])
length(all) == Radix(all, 0)
getVDoublePrime(all, n) == {all[i][((n \div Radix(all, i)) % Len(all[i])) + 1] : i \in DOMAIN all}
VPrime == LET all == allPossibleTraces IN {getVDoublePrime(all, n) : n \in 1 .. length(all)}

(* Fsm::r, rPlus and lowerBound *)
Visits(q, base, io) ==
  {SubSeq(io, 1, k) : k \in {k \in Len(base) + 1 .. Len(io) : After(rows, 0, SubSeq(io, 1, k)) = q}}
VisitsPlus(q, base, io, vDoublePrime) ==
  Visits(q, base, io) \cup {v \in vDoublePrime : q \in dReachableStates /\ Inputs(v) = dReachTrace[q]}
lowerBound(base, io, states, vDoublePrime) ==
  MapThenSumSet(LAMBDA q : Cardinality(Visits(q, base, io)), states)
  + Cardinality(states \cap dReachableStates)
  + Cardinality(bOmegaT \ {bOmegaOf(v) : v \in UNION {VisitsPlus(q, base, io, vDoublePrime) : q \in states}})

(* a response is long enough if one set of r-distinguishable states, with one *)
(* choice of V'' that has the response's prefix, exceeds the bound            *)
MaxPrefixInV(xs) ==
  CHOOSE v \in detStateCover : IsPrefix(v, xs) /\ \A u \in detStateCover : IsPrefix(u, xs) => Len(u) <= Len(v)
(* Faulty variant: the bound need only be met. *)
FaultyMeetsCriteria(io, vPrime, maximalSets) ==
  LET base == SubSeq(io, 1, Len(MaxPrefixInV(Inputs(io))))
  IN  \E vDoublePrime \in vPrime, states \in maximalSets :
        base \in vDoublePrime /\ lowerBound(base, io, states, vDoublePrime) >= m

MeetsCriteria(io, vPrime, maximalSets) ==
  LET base == SubSeq(io, 1, Len(MaxPrefixInV(Inputs(io))))
  IN  \E vDoublePrime \in vPrime, states \in maximalSets :
        base \in vDoublePrime /\ lowerBound(base, io, states, vDoublePrime) > m

-----------------------------------------------------------------------------
CInit ==
  /\ cPhase = "idle" /\ iut = << >>
  /\ omega = {} /\ t = {} /\ tC = {} /\ bOmegaT = {}
  /\ failTrace = NoTrace

(* T starts with the state cover, and what follows it is recorded *)
StartCounting ==
  /\ cPhase = "idle" /\ rPhase = "done"
  /\ UNCHANGED <<rows, rVars, failTrace>>
  /\ iut' \in {i \in Implementations : IsComplete(i)}
  /\ omega' \in AdaptiveRCharacterisationSets
  /\ t' = detStateCover /\ tC' = detStateCover
  /\ bOmegaT' = bOmega(detStateCover)'
  /\ cPhase' = "apply"

(* Each trace of tC is applied to both machines, every response of iut must be *)
(* one of the specification, and so must what follows in the adaptive tests.   *)
(* Which failure is met first depends on the order of the containers.          *)
Failures(xs) ==
  UNION {IF After(rows, 0, io) < 0 THEN {io}
         ELSE {io \o w : w \in AdaptiveTraces(iut, After(iut, 0, io)) \ AdaptiveTraces(rows, After(rows, 0, io))} :
         io \in Responses(iut, xs)}

ApplyTraces ==
  /\ cPhase = "apply"
  /\ LET failures == UNION {Failures(xs) : xs \in tC}
     IN  IF failures = {} THEN cPhase' = "expand" /\ UNCHANGED failTrace
         ELSE cPhase' = "fail" /\ failTrace' \in failures
  /\ UNCHANGED <<rows, rVars, iut, omega, t, tC, bOmegaT>>

(* traces with a response that is not long enough are extended by every input *)
Expand ==
  /\ cPhase = "expand"
  /\ LET vPrime == VPrime
         maximalSets == MaximalSets
         newTC == {xs \in tC : \E io \in Responses(iut, xs) : ~MeetsCriteria(io, vPrime, maximalSets)}
         expanded == {Append(xs, x) : xs \in newTC, x \in In}
     IN  /\ t' = t \cup expanded
         /\ tC' = expanded \ t
         /\ bOmegaT' = bOmegaT \cup bOmega(expanded \ t)
         /\ cPhase' = IF expanded \subseteq t THEN "pass" ELSE "apply"
  /\ UNCHANGED <<rows, rVars, iut, omega, failTrace>>

CNext == StartCounting \/ ApplyTraces \/ Expand

-----------------------------------------------------------------------------
(* iut is a reduction of the specification: no response of a pair of states *)
(* they reach together is one of iut only                                   *)
IsReduction == \A s \in ReachedPairs(iut), l \in IO : iut[s[2]][l] >= 0 => rows[s[1]][l] >= 0

(* The verdict of adaptive state counting is right for every implementation *)
(* with at most m states, and a failure comes with a trace that shows it.   *)
(* The bounds it rests on range over V', which has every choice of          *)
(* responses, although its enumeration starts with number 1 and never asks  *)
(* for number 0.                                                            *)
CountingVerdict ==
  /\ cPhase = "pass" => IsReduction
  /\ cPhase = "fail" => After(iut, 0, failTrace) >= 0 /\ After(rows, 0, failTrace) < 0
  /\ cPhase = "apply" =>
       LET responses == UNION {Responses(iut, xs) : xs \in detStateCover}
           choices == {{f[xs] : xs \in detStateCover} :
                         f \in {f \in [detStateCover -> responses] : \A xs \in detStateCover : Inputs(f[xs]) = xs}}
       IN  VPrime = choices /\ Cardinality(choices) = length(allPossibleTraces)
=============================================================================
