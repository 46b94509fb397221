---------------------------- MODULE SafeMethods ----------------------------
(***************************************************************************)
(* The safe variants of the W, Wp and H methods of the test generator      *)
(* (safeWMethod, safeWpMethod and safeHMethod).  They take a second        *)
(* machine, an abstraction of the reference machine that shows only what   *)
(* of an output matters for safety, and aim at suites that are smaller but *)
(* let no implementation pass whose abstract outputs are wrong.            *)
(*                                                                         *)
(* The abstraction has the states of the reference machine, and its        *)
(* outputs are abstraction[y].                                             *)
(***************************************************************************)
EXTENDS HMethod

CONSTANTS Abstractions   \* the functions looked at

ASSUME AbstractionsAssumption == Abstractions \subseteq [Output -> Output]

VARIABLES
  abstraction,   \* dfsmAbstraction
  deques         \* safeHMethod: the pairs of A, B and C still to be looked at

safeVars == <<hVars, abstraction, deques>>

Safe == {"SafeW", "SafeWp", "SafeH"}

-----------------------------------------------------------------------------
Identity == [y \in Output |-> y]
OutputOf(q, x) == CHOOSE y \in Output : rows[q][<<x, y>>] >= 0
Next1(q, x) == StateAfter(q, <<x>>)

(* calcPkTables for the machine with outputs f[y] *)
PkTables(f) ==
  LET P[k \in 0 .. numStates] ==
        IF k = 0 THEN State \X State
        ELSE LET E == P[k - 1]
             IN  {pq \in E : \A x \in Input : /\ f[OutputOf(pq[1], x)] = f[OutputOf(pq[2], x)]
                                              /\ <<Next1(pq[1], x), Next1(pq[2], x)>> \in E}
  IN  P

SameClass(f, p, q) == <<p, q>> \in PkTables(f)[numStates]

(* the states of the minimised machine, in any order *)
Classes(f) == SetToSeqs({q \in State : \A p \in State : SameClass(f, p, q) => q <= p})

Shown(f, q, itrc) ==
  [i \in DOMAIN itrc |-> f[OutputOf(StateAfter(q, SubSeq(itrc, 1, i - 1)), itrc[i])]]
Apart(f, p, q, itrc) == Shown(f, p, itrc) # Shown(f, q, itrc)

(* FsmNode::calcDistinguishingTrace on P_k-tables: the tables l - 1, ..., 0 *)
GillTrace(f, p, q) ==
  LET P == PkTables(f)
      l == Min({k \in 1 .. numStates : <<p, q>> \notin P[k]})
      Separating(c, k) == {x \in Input : IF k = 0 THEN Apart(f, c.p, c.q, <<x>>)
                                         ELSE <<Next1(c.p, x), Next1(c.q, x)>> \notin P[k]}
      Take(c, k) ==
        LET x == Min(Separating(c, k))
        IN  [p |-> Next1(c.p, x), q |-> Next1(c.q, x), itrc |-> Append(c.itrc, x)]
      c[i \in 0 .. l] == IF i = 0 THEN [p |-> p, q |-> q, itrc |-> << >>] ELSE Take(c[i - 1], l - i)
  IN  c[l].itrc

(* Dfsm::getCharacterisationSet of the minimised machine *)
CharacterisationSetOf(f, order) ==
  LET pairs == IndexPairs(Len(order))
      WithPair(t, p, q) ==
        IF \E itrc \in t : Apart(f, p, q, itrc) THEN t ELSE AddToRoot(t, GillTrace(f, p, q))
      set[k \in 0 .. Len(pairs)] ==
        IF k = 0 THEN {<< >>} ELSE WithPair(set[k - 1], order[pairs[k][1]], order[pairs[k][2]])
  IN  set[Len(pairs)]
CharacterisationSets(f) == {CharacterisationSetOf(f, order) : order \in Classes(f)}

(* calcStateIdentificationSets, for the state of the minimised machine *)
IdentifyingSets(f, set, q) ==
  MinHittingSets({{t \in set : Apart(f, q, p, t)} : p \in {r \in State : ~SameClass(f, q, r)}})

-----------------------------------------------------------------------------
(* safeWMethod.  Faulty variant: as many inputs as there are additional states. *)
FaultySafeWSuite(reference, safe) ==
  Add(scov, reference) \cup Add(scov, safe) \cup Add(Add(scov, InputEnum(1, numAddStates)), safe)

SafeWSuite(reference, safe) ==
  Add(scov, reference) \cup Add(scov, safe) \cup Add(Add(scov, InputEnum(1, numAddStates + 1)), safe)

(* safeWpMethod *)
SafeWpSuite(reference, safe, sets) ==
  Add(scov, reference) \cup Add(scov, safe)
  \cup (IF numAddStates > 0 THEN Add(Add(scov, InputEnum(1, numAddStates)), safe) ELSE {})
  \cup AppendSets(Add(scov, InputEnum(numAddStates + 1, numAddStates + 1)), sets)

-----------------------------------------------------------------------------
(* safeHMethod.  A segmented trace is one of the state cover, followed by  *)
(* the first "prefix" inputs of a segment.  "target" is the node that the  *)
(* segment holds: setPrefix leaves it where the whole segment leads.       *)
Segmented(v, seg) == [v |-> v, seg |-> seg, prefix |-> Len(seg), target |-> StateAfter(0, v \o seg)]
SetPrefix(u, prefix) == [u EXCEPT !.prefix = prefix]
getCopy(u) == u.v \o SubSeq(u.seg, 1, u.prefix)

Vtraces == Map(LAMBDA v : Segmented(v, << >>), iolV)
V_inputEnumTraces ==
  LET all == Map(LAMBDA r : Segmented(r[1], r[2]),
                 Product(iolV, FlattenSeq([k \in 1 .. numAddStates + 1 |-> Betas(k)])))
  IN  SelectSeq(all, LAMBDA u : getCopy(u) \notin scov)

Pair(first, second, by) == [first |-> first, second |-> second, by |-> by]

DequeA == Map(LAMBDA ij : Pair(Vtraces[ij[1]], Vtraces[ij[2]], Identity), IndexPairs(Len(Vtraces)))
DequeB ==
  SelectSeq(Map(LAMBDA vu : Pair(vu[1], vu[2], abstraction), Product(Vtraces, V_inputEnumTraces)),
            LAMBDA p : p.first.target # p.second.target)
DequeC ==
  LET pairs(u) == [i \in 1 .. Len(u.seg) - 1 |-> Pair(SetPrefix(u, Len(u.seg) - i), u, abstraction)]
  IN  SelectSeq(FlattenSeq(Map(pairs, V_inputEnumTraces)),
                LAMBDA p : StateAfter(0, getCopy(p.first)) # p.second.target)

(* Tree::tentativeAddToRoot(SegmentedTrace) walks along whole segments *)
TentativeAdd(T, u, itrc) ==
  LET t == u.v \o u.seg \o itrc
      longest == Max({i \in 0 .. Len(t) : SubSeq(t, 1, i) \in T})
  IN  CASE longest = Len(t) -> 0
        [] longest < Len(t) /\ SubSeq(t, 1, longest) \in Leaves(T) -> 1
        [] OTHER -> 2

insertionCosts(e) == e[1] + e[2] + (IF 2 \in {e[1], e[2]} THEN 1 ELSE 0)

(* calcDistTraces *)
DistTraces(p, q) == SetToSortSeq(ShortestDistTraces(p, q), Before)

(* addSHTraces, for one pair: the tree afterwards.  The search stops when   *)
(* nothing would have to be added.                                          *)
AddSHTraces(T, u, v) ==
  LET Effect(itrc) == <<TentativeAdd(T, u, itrc), TentativeAdd(T, v, itrc)>>
      Better(best, itrc) ==
        IF insertionCosts(Effect(itrc)) < insertionCosts(Effect(best)) THEN itrc ELSE best
      candidates == DistTraces(u.target, v.target)
      best == FoldLeft(Better, Head(candidates), Tail(candidates))
      Added(s, effect) == IF effect > 0 THEN Prefixes(getCopy(s) \o best) ELSE {}
  IN  T \cup Added(u, Effect(best)[1]) \cup Added(v, Effect(best)[2])

-----------------------------------------------------------------------------
(* the methods minimise the reference machine, unreachable states included *)
SafeInit ==
  /\ HInit
  /\ \A q \in State : \E itrc \in InputEnum(0, numStates - 1) : q \in After(itrc)
  /\ Deterministic /\ CompletelySpecified
  /\ abstraction \in Abstractions
  /\ deques = << >>

GenerateSafe ==
  /\ stage = "sets"
  /\ \/ /\ method = "SafeW"
        /\ \E reference \in CharacterisationSets(Identity), safe \in CharacterisationSets(abstraction) :
             tests' = Leaves(SafeWSuite(reference, safe))
     \/ /\ method = "SafeWp" /\ pc = "fast"
        /\ \E safe \in CharacterisationSets(abstraction) :
           \E sets \in {s \in [State -> UNION {IdentifyingSets(abstraction, safe, q) : q \in State}] :
                          \A p, q \in State :
                            /\ s[q] \in IdentifyingSets(abstraction, safe, q)
                            /\ SameClass(abstraction, p, q) => s[p] = s[q]} :
             tests' = Leaves(SafeWpSuite(w, safe, sets))
     \/ /\ method = "SafeH" /\ iTree # {} /\ deques = << >>
        /\ tests' = Leaves(iTree)
  /\ stage' = "test"
  /\ iTree' = {}
  /\ UNCHANGED <<vars, method, numAddStates, coverVars, bound, runVars, open, abstraction, deques>>

BeginSafeH ==
  /\ stage = "sets" /\ method = "SafeH" /\ iTree = {}
  /\ iTree' = {<< >>} \cup UNION {Prefixes(getCopy(V_inputEnumTraces[i])) : i \in DOMAIN V_inputEnumTraces}
  /\ deques' = DequeA \o DequeB \o DequeC
  /\ UNCHANGED <<suiteVars, open, abstraction>>

AddSHPair ==
  /\ deques # << >>
  /\ LET u == Head(deques).first
         v == Head(deques).second
     IN  iTree' = IF SameClass(Head(deques).by, u.target, v.target) THEN iTree
                  ELSE AddSHTraces(iTree, u, v)
  /\ deques' = Tail(deques)
  /\ UNCHANGED <<suiteVars, open, abstraction>>

SafeNext ==
  \/ SuiteNext /\ UNCHANGED <<iTree, open, abstraction, deques>>
  \/ GenerateSafe \/ BeginSafeH \/ AddSHPair

SafeSpec == SafeInit /\ [][SafeNext]_safeVars

-----------------------------------------------------------------------------
(* the states of the two machines after a common input trace *)
InputPairs ==
  LET Successors(p) == {<<Next1(p[1], x), impl[p[2]][x][y]>> : x \in Input, y \in Output}
      f[k \in 0 .. numStates * bound] ==
        IF k = 0 THEN {<<0, 0>>}
        ELSE LET P == f[k - 1] IN P \cup {s \in UNION {Successors(p) : p \in P} : s[2] >= 0}
  IN  f[numStates * bound]

(***************************************************************************)
(* An implementation within the bound on its states that passes the suite  *)
(* of a safe method answers every input trace with outputs that are the    *)
(* right ones after the abstraction, although the suite identifies         *)
(* abstract states only.                                                   *)
(***************************************************************************)
PassedIsSafe ==
  verdict = "pass" /\ method \in Safe =>
    \A p \in InputPairs, x \in Input :
      /\ TR!ImplOutputs(impl, p[2], x) # {}
      /\ \A y \in TR!ImplOutputs(impl, p[2], x) : abstraction[y] = abstraction[OutputOf(p[1], x)]

(***************************************************************************)
(* The comments of safeHMethod: "all pairs <alpha.gamma',alpha.gamma>" of  *)
(* C are handed to addSHTraces, which is to "Add all traces from X-pairs,  *)
(* extended by distinguishing traces".  So when the loops are through, the *)
(* suite tells the traces of each such pair apart that leads to states     *)
(* that differ in the abstraction.                                         *)
(***************************************************************************)
PairsOfCToldApart ==
  method = "SafeH" /\ stage = "sets" /\ iTree # {} /\ deques = << >> =>
    \A a \in scov, g \in InputEnum(1, numAddStates + 1) : \A i \in 1 .. Len(g) - 1 :
      LET u == a \o SubSeq(g, 1, i)
          v == a \o g
      IN  v \notin scov /\ ~SameClass(abstraction, StateAfter(0, u), StateAfter(0, v)) => SuiteTellsApart(u, v)
=============================================================================
