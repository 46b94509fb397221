----------------------------- MODULE TraceSets -----------------------------
(***************************************************************************)
(* What a tree of input traces promises: it stands for a prefix-closed set *)
(* of traces, of which some are marked as deleted.  TraceTrees implements  *)
(* this with nodes, edges and recursive descents.                          *)
(***************************************************************************)
EXTENDS Naturals, Sequences, SequencesExt

CONSTANTS
  Lists,  \* the lists of traces that may be added
  Traces  \* the traces that may be asked for

VARIABLES
  set,    \* the traces of the tree
  marks,  \* those of them marked as deleted
  with    \* the traces of the tree it is combined with

vars == <<set, marks, with>>

Closed(ts) == {<< >>} \cup UNION {Prefixes(t) : t \in ts}
Maximal(ts) == {t \in ts : \A u \in ts : IsPrefix(t, u) => u = t}
Continued(ts, us) == {t \o u : t \in ts, u \in us}

Init == set = {<< >>} /\ marks = {} /\ with = Closed(with)

(* a list of traces is added to the root, to every node, or behind a trace *)
AddToRoot(C) == set' = set \cup Closed(C) /\ UNCHANGED marks
Add(C) == set' = Continued(set, Closed(C)) /\ UNCHANGED marks
AddAfter(t, C) == set' = set \cup (IF t \in set THEN Continued({t}, Closed(C)) ELSE {}) /\ UNCHANGED marks

(* a trace is deleted: it is marked; as long as nothing continues it, it is *)
(* removed, and with it the marked traces that only it continued            *)
DeleteNode(t) ==
  /\ marks \cup {t} = marks' \cup (set \ set')
  /\ set' = {u \in set : \/ u = << >> \/ ~IsPrefix(u, t)
                         \/ \E v \in set : IsPrefix(u, v) /\ ~(IsPrefix(v, t) /\ v \in marks \cup {t})}
  /\ marks' \subseteq set'
DeleteSingleNode(t) ==
  /\ set' = IF t # << >> /\ t \in Maximal(set) THEN set \ {t} ELSE set
  /\ marks' = (marks \cup {t}) \cap set'
RemoveTree == marks' = marks \cup (set \cap with) /\ UNCHANGED set

(* the tree is replaced by one of its subtrees, by what it shares with the  *)
(* other tree, or by the longer traces of those that continue each other    *)
SubTree(t) == set' = {u \in Traces : t \o u \in set} /\ marks' = {}
Intersection == set' = set \cap with /\ marks' = {}
PrefixRelation ==
  LET longer == {t \in Maximal(set) : \E u \in Maximal(with) : IsPrefix(u, t)}
                  \cup {u \in Maximal(with) : \E t \in Maximal(set) : IsPrefix(t, u)}
  IN  set' = Closed(longer) /\ marks' \subseteq marks

Next ==
  /\ UNCHANGED with
  /\ \/ \E C \in Lists : AddToRoot(Range(C)) \/ Add(Range(C)) \/ \E t \in Traces : AddAfter(t, Range(C))
     \/ AddToRoot(with)
     \/ \E t \in set : DeleteNode(t) \/ DeleteSingleNode(t) \/ SubTree(t)
     \/ RemoveTree \/ Intersection \/ PrefixRelation

Spec == Init /\ [][Next]_vars
=============================================================================
