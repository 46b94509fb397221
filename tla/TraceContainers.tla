-------------------------- MODULE TraceContainers --------------------------
(***************************************************************************)
(* The containers test cases are collected in: IOTraceContainer, a set of  *)
(* I/O traces, IOListContainer, a list of traces, and IOTreeContainer, a   *)
(* list of adaptive test cases.                                            *)
(*                                                                         *)
(* A trace is a sequence of symbols, of which FsmLabel::EPSILON stands for *)
(* nothing; an IOTrace has an input and an output trace of the same        *)
(* length.  Most operations look through epsilons, but equality, isSuffix  *)
(* and the number of symbols to take away do not.                          *)
(*                                                                         *)
(* An adaptive test case is a tree whose nodes have the next input and an  *)
(* edge for each output that is followed.  A node without edges is a leaf; *)
(* its input is never initialised, and can be any value.                   *)
(***************************************************************************)
EXTENDS Integers, Sequences, FiniteSets, SequencesExt

CONSTANTS
  NewIOTraces,  \* the traces that are added to a container or put in front
  MaxPut,       \* bound on the traces given to a container
  MaxSymbols    \* bound on their length

VARIABLES
  list,   \* the container
  given   \* the traces given to it, with what was put in front of them since

iotVars == <<list, given>>

EPSILON == -1

removeEpsilon(t) == SelectSeq(t, LAMBDA e : e # EPSILON)
isEmptyTrace(t) == \A i \in DOMAIN t : t[i] = EPSILON

(* Trace::isPrefix: other is a prefix of t; the empty trace is one wherever *)
(* it is allowed, also of itself when a proper one is asked for             *)
isTracePrefix(t, other, proper, allowEmpty) ==
  IF isEmptyTrace(other) THEN allowEmpty
  ELSE /\ ~proper \/ removeEpsilon(t) # removeEpsilon(other)
       /\ IsPrefix(removeEpsilon(other), removeEpsilon(t))
isTraceSuffix(t, other) == IsSuffix(other, t)

(* the rest of t after a prefix, which is an error if there is none; the    *)
(* prefixes, the longest first, of which the empty one is never listed       *)
getTraceSuffix(t, prefix) == SubSeq(removeEpsilon(t), Len(removeEpsilon(prefix)) + 1, Len(removeEpsilon(t)))
getTracePrefixes(t, proper) ==
  LET first == IF proper THEN 1 ELSE 0 IN [i \in 1 .. Len(t) - first |-> SubSeq(t, 1, Len(t) - first + 1 - i)]
removeElements(t, n) == IF n > 0 THEN SubSeq(t, n + 1, Len(t)) ELSE SubSeq(t, 1, Len(t) + n)

-----------------------------------------------------------------------------
(* the same of I/O traces *)
IO(i, o) == [in |-> i, out |-> o]
getEmptyTrace == IO(<<EPSILON>>, <<EPSILON>>)
isPrefix(t, other, proper, allowEmpty) ==
  isTracePrefix(t.in, other.in, proper, allowEmpty) /\ isTracePrefix(t.out, other.out, proper, allowEmpty)
isPrefixOf(t, other) == isPrefix(other, t, FALSE, TRUE)
isSuffix(t, other) == isTraceSuffix(t.in, other.in) /\ isTraceSuffix(t.out, other.out)
getSuffix(t, prefix) ==
  LET rest == IO(getTraceSuffix(t.in, prefix.in), getTraceSuffix(t.out, prefix.out))
  IN  IF rest = IO(<< >>, << >>) THEN getEmptyTrace ELSE rest
getPrefixes(t, proper) ==
  LET ins == getTracePrefixes(t.in, proper) IN [i \in DOMAIN ins |-> IO(ins[i], getTracePrefixes(t.out, proper)[i])]
append(t, other) == IO(t.in \o other.in, t.out \o other.out)
prepend(t, other) == append(other, t)

(* operator<=: shorter ones first, then by inputs, then by outputs, and     *)
(* without the equal one                                                    *)
Before(a, b) == \E i \in DOMAIN a : a[i] < b[i] /\ \A j \in 1 .. i - 1 : a[j] = b[j]
atMost(t, u) ==
  \/ Len(t.in) < Len(u.in)
  \/ Len(t.in) = Len(u.in) /\ (Before(t.in, u.in) \/ (t.in = u.in /\ Before(t.out, u.out)))

-----------------------------------------------------------------------------
IOTracesInit == list = {} /\ given = << >>

(* Faulty variant: what the new trace is a prefix of goes as well. *)
FaultyRemovePrefixes(traces, trc) == {t \in traces : ~isPrefixOf(t, trc) /\ ~isPrefixOf(trc, t)}
removePrefixes(traces, trc) == {t \in traces : ~isPrefixOf(t, trc)}

AddRemovePrefixes ==
  /\ Len(given) < MaxPut
  /\ \E trc \in NewIOTraces :
       /\ list' = removePrefixes(list, trc) \cup {trc}
       /\ given' = Append(given, trc)

(* concatenateToFront changes every trace there *)
ConcatenateToFront ==
  /\ given # << >>
  /\ \E front \in NewIOTraces :
       /\ \A t \in Range(given) : Len(prepend(t, front).in) <= MaxSymbols
       /\ list' = {prepend(t, front) : t \in list}
       /\ given' = [i \in DOMAIN given |-> prepend(given[i], front)]

IOTracesNext == AddRemovePrefixes \/ ConcatenateToFront

-----------------------------------------------------------------------------
(* the pairs a trace stands for *)
Meaning(t) == SelectSeq([i \in DOMAIN t.in |-> <<t.in[i], t.out[i]>>], LAMBDA p : p # <<EPSILON, EPSILON>>)

(* Whatever epsilons there are, prefixes are taken away and suffixes found  *)
(* as if there were none: no behaviour given to a container is lost, none   *)
(* is made up, and none is a prefix of one given later.  What is cut off at *)
(* a prefix is what was appended.                                           *)
IOTracesExact ==
  /\ \A i \in DOMAIN given : \E t \in list : IsPrefix(Meaning(given[i]), Meaning(t))
  /\ list \subseteq Range(given)
  /\ given # << >> => \A t \in list : IsPrefix(Meaning(t), Meaning(Last(given))) => t = Last(given)
  /\ \A t, u \in list :
       /\ isPrefix(u, t, FALSE, TRUE) <=> IsPrefix(Meaning(t), Meaning(u))
       /\ isPrefix(u, t, FALSE, TRUE) => Meaning(append(t, getSuffix(u, t))) = Meaning(u)
       /\ isSuffix(append(t, u), u)
       /\ isSuffix(t, getEmptyTrace) => Meaning(IO(removeElements(t.in, -1), removeElements(t.out, -1))) = Meaning(t)
       /\ Meaning(getSuffix(append(t, u), t)) = Meaning(u)
       /\ t # u => (atMost(t, u) <=> ~atMost(u, t))
  /\ \A t \in list, proper \in BOOLEAN :
       LET prefixes == getPrefixes(t, proper)
       IN  \A k \in 1 .. Len(t.in) : (IO(SubSeq(t.in, 1, k), SubSeq(t.out, 1, k)) \in Range(prefixes)) <=> (k < Len(t.in) \/ ~proper)

-----------------------------------------------------------------------------
CONSTANTS
  NewTraces,  \* the traces that are added
  NewTrees,   \* the adaptive test cases that are added
  MaxAdded    \* bound on what is added to a container

VARIABLES
  iolLst, added,      \* the list of traces, and what was added to it
  trees, addedTrees   \* the list of trees, and what was added to it

tcVars == <<iolLst, added, trees, addedTrees, list, given>>

(* isLastLst and nextLst: traces of one length counted like numbers *)
isLastLst(maxInput, lst) == \A i \in DOMAIN lst : lst[i] >= maxInput

nextLst(maxInput, lst) ==
  IF isLastLst(maxInput, lst) THEN << >>
  ELSE LET last == CHOOSE i \in DOMAIN lst : lst[i] < maxInput /\ \A j \in i + 1 .. Len(lst) : lst[j] = maxInput
       IN  [i \in DOMAIN lst |-> IF i < last THEN lst[i] ELSE IF i = last THEN lst[i] + 1 ELSE 0]

(* the constructor for all traces of some lengths *)
RECURSIVE OfLength(_, _)
OfLength(maxInput, lst) ==
  LET next == nextLst(maxInput, lst) IN IF next = << >> THEN <<lst>> ELSE <<lst>> \o OfLength(maxInput, next)
AllTraces(maxInput, minLength, maxLength) ==
  FlattenSeq([k \in 1 .. maxLength - minLength + 1 |->
                OfLength(maxInput, [i \in 1 .. minLength + k - 1 |-> 0])])

-----------------------------------------------------------------------------
TCInit == iolLst = << >> /\ added = {} /\ trees = << >> /\ addedTrees = {} /\ IOTracesInit

isRealPrefix(t, trc) == Len(t) < Len(trc) /\ IsPrefix(t, trc)
removeRealPrefixes(lists, trc) == SelectSeq(lists, LAMBDA t : ~isRealPrefix(t, trc))

(* a trace is there if it is equal to one of the list; that it begins one   *)
(* is found at its last symbol, which the empty trace does not have         *)
containedIn(lists, trc) == \E i \in DOMAIN lists : trc = lists[i] \/ (trc # << >> /\ IsPrefix(trc, lists[i]))

(* Faulty variant: only prefixes of the new trace are looked for. *)
FaultyAddUniqueRemovePrefixes ==
  /\ Cardinality(added) < MaxAdded
  /\ \E trc \in NewTraces :
       /\ added' = added \cup {trc}
       /\ LET kept == removeRealPrefixes(iolLst, trc)
          IN  iolLst' = IF Contains(kept, trc) THEN kept ELSE Append(kept, trc)
  /\ UNCHANGED <<trees, addedTrees, list, given>>

AddUniqueRemovePrefixes ==
  /\ Cardinality(added) < MaxAdded
  /\ \E trc \in NewTraces :
       /\ added' = added \cup {trc}
       /\ LET kept == removeRealPrefixes(iolLst, trc)
          IN  iolLst' = IF containedIn(kept, trc) THEN kept ELSE Append(kept, trc)
  /\ UNCHANGED <<trees, addedTrees, list, given>>

(* OutputTree::contains: the same input at the root and all output traces  *)
(* that lead to leaves; AdaptiveTreeNode::superTreeOf compares all inputs  *)
isEmpty(t) == t.kids = << >>
RECURSIVE OutputTraces(_)
OutputTraces(t) ==
  IF isEmpty(t) THEN {<< >>}
  ELSE UNION {{<<t.kids[i].io>> \o o : o \in OutputTraces(t.kids[i].to)} : i \in DOMAIN t.kids}
outputsContained(t, u) == t.input = u.input /\ OutputTraces(u) \subseteq OutputTraces(t)

RECURSIVE adaptiveSuperTreeOf(_, _)
adaptiveSuperTreeOf(t, u) ==
  /\ t.input = u.input
  /\ Len(t.kids) >= Len(u.kids)
  /\ \A j \in DOMAIN u.kids : \E i \in DOMAIN t.kids :
       t.kids[i].io = u.kids[j].io /\ adaptiveSuperTreeOf(t.kids[i].to, u.kids[j].to)

contains(t, u) == isEmpty(t) = isEmpty(u) /\ outputsContained(t, u) /\ adaptiveSuperTreeOf(t, u)
AddTreeRemovePrefixes ==
  /\ Cardinality(addedTrees) < MaxAdded
  /\ \E tree \in NewTrees :
       /\ addedTrees' = addedTrees \cup {tree}
       /\ LET kept == SelectSeq(trees, LAMBDA t : ~contains(tree, t))
          IN  trees' = IF \E i \in DOMAIN kept : contains(kept[i], tree) THEN kept ELSE Append(kept, tree)
  /\ UNCHANGED <<iolLst, added, list, given>>

TCNext ==
  \/ AddUniqueRemovePrefixes \/ AddTreeRemovePrefixes
  \/ IOTracesNext /\ UNCHANGED <<iolLst, added, trees, addedTrees>>

-----------------------------------------------------------------------------
Longest(ts) == {t \in ts : \A u \in ts : IsPrefix(t, u) => u = t}
RECURSIVE PartOf(_, _)
PartOf(u, t) ==
  \/ isEmpty(u)
  \/ /\ t.input = u.input
     /\ \A j \in DOMAIN u.kids : \E i \in DOMAIN t.kids :
          t.kids[i].io = u.kids[j].io /\ PartOf(u.kids[j].to, t.kids[i].to)

(* A list of traces has, once each, the longest of the traces added in      *)
(* whatever order, and nothing else but an empty trace that was added after *)
(* all that is there; the constructor lists the traces of some lengths, all *)
(* of them and once each.  Whatever is left out of a container of adaptive  *)
(* test cases or removed from it, each test case that was added is a part   *)
(* of one that is there, and gives an implementation the same inputs after  *)
(* the same outputs.  I/O traces keep what they mean (IOTracesExact).       *)
ContainersExact ==
  /\ Longest(added) \subseteq Range(iolLst) /\ IsInjective(iolLst)
  /\ \A i \in DOMAIN iolLst : /\ iolLst[i] \in added
                              /\ iolLst[i] \in Longest(added) \/ (iolLst[i] = << >> /\ i = Len(iolLst))
  /\ added = {} /\ given = << >> => \A maxInput \in 0 .. 2, min \in 1 .. 2, max \in 1 .. 3 :
       LET all == AllTraces(maxInput, min, max)
       IN  Range(all) = UNION {[1 .. n -> 0 .. maxInput] : n \in min .. max} /\ IsInjective(all)
  /\ \A u \in addedTrees : \E i \in DOMAIN trees : PartOf(u, trees[i])
  /\ IOTracesExact
=============================================================================
