----------------------------- MODULE TraceTrees -----------------------------
(***************************************************************************)
(* Tree, InputTree and TreeNode: trees whose edges are labelled by inputs,  *)
(* the paths of which are input traces.  A node has the edges to its        *)
(* children, in the order they were added, and a mark that says that it is  *)
(* deleted; pointers to parents are replaced by the path that leads to a    *)
(* node.  Edges of a node have different labels.                            *)
(***************************************************************************)
EXTENDS Integers, Sequences, FiniteSets, SequencesExt

CONSTANTS
  Inputs,
  MaxLength,   \* bound on the depth of the tree
  MaxDeleted,  \* bound on the nodes marked as deleted
  Lists,       \* the lists of traces that are added
  Others       \* the trees this tree is combined with

VARIABLES
  root,      \* the tree
  other,     \* the tree handed to binary operations
  undefined  \* a vector was changed while it was iterated over, or a null pointer used

ttVars == <<root, other, undefined>>

Traces == UNION {[1 .. n -> Inputs] : n \in 0 .. MaxLength}
Edge(x, n) == [io |-> x, to |-> n]
NewNode == [kids |-> << >>, deleted |-> FALSE]
NoNode == [kids |-> << >>]

isLeaf(n) == n.kids = << >>
hasEdge(n, x) == \E i \in DOMAIN n.kids : n.kids[i].io = x
Target(n, x) == n.kids[CHOOSE i \in DOMAIN n.kids : n.kids[i].io = x].to
Index(n, x) == IF hasEdge(n, x) THEN CHOOSE i \in DOMAIN n.kids : n.kids[i].io = x ELSE Len(n.kids) + 1

-----------------------------------------------------------------------------
(* TreeNode::add(lstIte, end): existing edges are followed, others created *)
RECURSIVE AddTrace(_, _)

AddTrace(n, lst) ==
  IF lst = << >> THEN n
  ELSE LET x == Head(lst)
           below == IF hasEdge(n, x) THEN Target(n, x) ELSE NewNode
       IN  [n EXCEPT !.kids = [i \in DOMAIN @ \cup {Index(n, x)} |->
                                 IF i = Index(n, x) THEN Edge(x, AddTrace(below, Tail(lst))) ELSE @[i]]]

addToThisNode(n, lists) == FoldLeft(AddTrace, n, lists)

(* Tree::add: the children come first, so that what is appended to a node  *)
(* is not appended to itself                                               *)
RECURSIVE AddToAll(_, _)
(* Faulty variant: the node comes first. *)
FaultyAddToAll(n, lists) ==
  LET m == addToThisNode(n, lists)
  IN  [m EXCEPT !.kids = [i \in DOMAIN @ |-> IF i \in DOMAIN n.kids THEN Edge(@[i].io, AddToAll(@[i].to, lists))
                                             ELSE Edge(@[i].io, addToThisNode(@[i].to, lists))]]

AddToAll(n, lists) ==
  addToThisNode([n EXCEPT !.kids = [i \in DOMAIN @ |-> Edge(@[i].io, AddToAll(@[i].to, lists))]], lists)

RECURSIVE after(_, _)
after(n, lst) ==
  IF lst = << >> THEN n ELSE IF hasEdge(n, Head(lst)) THEN after(Target(n, Head(lst)), Tail(lst)) ELSE NoNode

(* the tree with another node at a path *)
RECURSIVE With(_, _, _)
With(n, path, m) ==
  IF path = << >> THEN m
  ELSE [n EXCEPT !.kids[Index(n, Head(path))].to = With(@, Tail(path), m)]

(* calcLeaves and getPath: the maximal traces, in the order of the edges; *)
(* traverse: all traces, longer ones first                                *)
RECURSIVE getIOLists(_)
getIOLists(n) ==
  IF isLeaf(n) THEN << << >> >>
  ELSE FlattenSeq([i \in DOMAIN n.kids |->
                     LET below == getIOLists(n.kids[i].to) IN [j \in DOMAIN below |-> <<n.kids[i].io>> \o below[j]]])
RECURSIVE getIOListsWithPrefixes(_)
getIOListsWithPrefixes(n) ==
  Append(FlattenSeq([i \in DOMAIN n.kids |->
                       LET below == getIOListsWithPrefixes(n.kids[i].to)
                       IN  [j \in DOMAIN below |-> <<n.kids[i].io>> \o below[j]]]), << >>)

RECURSIVE Paths(_)
Paths(n) == {<< >>} \cup UNION {{<<e.io>> \o p : p \in Paths(e.to)} : e \in Range(n.kids)}
RECURSIVE Deleted(_)
Deleted(n) == (IF n.deleted THEN {<< >>} ELSE {}) \cup UNION {{<<e.io>> \o p : p \in Deleted(e.to)} : e \in Range(n.kids)}

-----------------------------------------------------------------------------
(* TreeNode::remove, deleteNode and deleteSingleNode of the node at a path *)
WithoutNode(n, path) ==
  LET parent == after(n, Front(path))
  IN  With(n, Front(path), [parent EXCEPT !.kids = SelectSeq(@, LAMBDA e : e.io # Last(path))])
Marked(n, path) == With(n, path, [after(n, path) EXCEPT !.deleted = TRUE])

RECURSIVE Dropped(_, _)

Dropped(n, path) ==
  IF path = << >> THEN n
  ELSE LET m == WithoutNode(n, path)
           t == after(m, Front(path))
       IN  IF isLeaf(t) /\ t.deleted THEN Dropped(m, Front(path)) ELSE m

deleteNode(n, path) ==
  IF isLeaf(after(n, path)) THEN Dropped(Marked(n, path), path) ELSE Marked(n, path)
deleteSingleNode(n, path) ==
  IF isLeaf(after(n, path)) /\ path # << >> THEN WithoutNode(n, path) ELSE Marked(n, path)

(* Tree::remove deletes the nodes that the other tree has as well, parents  *)
(* first.  A child that is a leaf is taken out of the vector of edges that  *)
(* is iterated over.                                                        *)
RECURSIVE removed(_, _)
removed(n, o) ==
  [kids |-> [i \in DOMAIN n.kids |->
               LET e == n.kids[i]
               IN  IF hasEdge(o, e.io) THEN Edge(e.io, removed(e.to, Target(o, e.io))) ELSE e],
   deleted |-> TRUE]
SharedLeaf(n, o) == \E p \in Paths(o) \ {<< >>} : after(n, p) # NoNode /\ isLeaf(after(n, p))

(* TreeNode::clone forgets the marks *)
RECURSIVE clone(_)
clone(n) == [NewNode EXCEPT !.kids = [i \in DOMAIN n.kids |-> Edge(n.kids[i].io, clone(n.kids[i].to))]]

RECURSIVE getIntersectionNode(_, _)
getIntersectionNode(n, o) ==
  LET both == SelectSeq(n.kids, LAMBDA e : hasEdge(o, e.io))
  IN  [NewNode EXCEPT !.kids = [i \in DOMAIN both |->
         Edge(both[i].io, getIntersectionNode(both[i].to, Target(o, both[i].io)))]]

inPrefixRelation(a, b) == a # << >> /\ b # << >> /\ (IsPrefix(a, b) \/ IsPrefix(b, a))
getPrefixRelationTree(n, o) ==
  IF isLeaf(n) THEN (IF isLeaf(o) THEN NewNode ELSE o)
  ELSE IF isLeaf(o) THEN n
  ELSE LET related(a) == SelectSeq(getIOLists(o), LAMBDA b : inPrefixRelation(a, b))
           pairs(a) == FlattenSeq([i \in DOMAIN related(a) |-> <<a, related(a)[i]>>])
       IN  addToThisNode(NewNode, FlattenSeq([i \in DOMAIN getIOLists(n) |-> pairs(getIOLists(n)[i])]))

-----------------------------------------------------------------------------
(* what can be asked *)
RECURSIVE superTreeOf(_, _)
(* Faulty variant: labels that are not found are not noticed. *)
FaultySuperTreeOf(n, o) ==
  /\ Len(n.kids) >= Len(o.kids)
  /\ \A i \in DOMAIN o.kids : hasEdge(n, o.kids[i].io) => superTreeOf(Target(n, o.kids[i].io), o.kids[i].to)

superTreeOf(n, o) ==
  /\ Len(n.kids) >= Len(o.kids)
  /\ \A i \in DOMAIN o.kids : hasEdge(n, o.kids[i].io) /\ superTreeOf(Target(n, o.kids[i].io), o.kids[i].to)

RECURSIVE equals(_, _)
equals(n, o) ==
  /\ Len(n.kids) = Len(o.kids) /\ n.deleted = o.deleted
  /\ \A i \in DOMAIN n.kids : hasEdge(o, n.kids[i].io) /\ equals(n.kids[i].to, Target(o, n.kids[i].io))

(* tentativeAddToThisNode: the answer and the node the descent stopped at *)
RECURSIVE tentativeAddToThisNode(_, _)
(* Faulty variant: the whole trace is consumed before the leaf is noticed. *)
FaultyTentativeAddToThisNode(n, lst) ==
  IF lst = << >> THEN [effect |-> 0, node |-> n]
  ELSE IF hasEdge(n, Head(lst)) THEN tentativeAddToThisNode(Target(n, Head(lst)), Tail(lst))
  ELSE [effect |-> IF isLeaf(n) /\ Len(lst) = 1 THEN 1 ELSE 2, node |-> n]

tentativeAddToThisNode(n, lst) ==
  IF lst = << >> THEN [effect |-> 0, node |-> n]
  ELSE IF isLeaf(n) THEN [effect |-> 1, node |-> n]
  ELSE IF hasEdge(n, Head(lst)) THEN tentativeAddToThisNode(Target(n, Head(lst)), Tail(lst))
  ELSE [effect |-> 2, node |-> n]

tentativeAddToRoot(n, lst) == tentativeAddToThisNode(n, lst).effect
(* the variant for a segmented trace goes on where a segment ended *)
tentativeAddSegments(n, segments) ==
  FoldLeft(LAMBDA r, seg : IF r.effect > 0 THEN r ELSE tentativeAddToThisNode(r.node, seg),
           [effect |-> 0, node |-> n], segments).effect

sharedExtensions(n, t, u) == getIntersectionNode(after(n, t), after(n, u))

-----------------------------------------------------------------------------
TTInit == root = NewNode /\ other \in Others /\ undefined = FALSE

Small(n) == \A p \in Paths(n) : Len(p) <= MaxLength
Becomes(n) == Small(n) /\ root' = n /\ UNCHANGED <<other, undefined>>

AddToRoot == \E lists \in Lists : Becomes(addToThisNode(root, lists))
Add == \E lists \in Lists : Becomes(AddToAll(root, lists))
AddAfter ==
  \E lists \in Lists, t \in Traces :
    Becomes(IF after(root, t) = NoNode THEN root ELSE With(root, t, addToThisNode(after(root, t), lists)))
UnionTree == Becomes(addToThisNode(root, getIOLists(other)))

DeleteNode ==
  \E p \in Paths(root) :
    /\ Cardinality(Deleted(root) \cup {p}) <= MaxDeleted
    /\ Becomes(deleteNode(root, p)) \/ Becomes(deleteSingleNode(root, p))
RemoveTree ==
  IF SharedLeaf(root, other) THEN undefined' = TRUE /\ UNCHANGED <<root, other>>
  ELSE Becomes(removed(root, other))

(* after() yields nullptr for a trace the tree does not have, and getSubTree *)
(* calls clone() on what it yields                                           *)
GetSubTree ==
  \E t \in Traces :
    IF after(root, t) = NoNode THEN undefined' = TRUE /\ UNCHANGED <<root, other>>
    ELSE Becomes(clone(after(root, t)))
GetIntersectionTree == Becomes(getIntersectionNode(root, other))
GetPrefixRelationTree == Becomes(getPrefixRelationTree(root, other))

TTNext ==
  /\ ~undefined
  /\ \/ AddToRoot \/ Add \/ AddAfter \/ UnionTree \/ DeleteNode \/ RemoveTree
     \/ GetSubTree \/ GetIntersectionTree \/ GetPrefixRelationTree

-----------------------------------------------------------------------------
(* The descents over nodes implement the operations on sets of traces. *)
Sets == INSTANCE TraceSets WITH set <- Paths(root), marks <- Deleted(root), with <- Paths(other)
RefinesTraceSets == Sets!Spec

(* The number of test cases is the number of leaves.  tentativeAddToRoot    *)
(* foretells what adding a trace does to it, however the trace is cut into  *)
(* segments: 0, nothing changes; 1, a test case gets longer; 2, there is    *)
(* one more.  Adding a path of the prefix relation tree of two trees to     *)
(* either of them never makes one more.                                     *)
Cuts(t) == {<<SubSeq(t, 1, i), SubSeq(t, i + 1, j), SubSeq(t, j + 1, Len(t))>> : i \in 0 .. Len(t), j \in 0 .. Len(t)}
Foretold(n, t) ==
  LET m == AddTrace(n, t)
  IN  IF m = n THEN 0 ELSE IF Len(getIOLists(m)) = Len(getIOLists(n)) THEN 1 ELSE 2
TentativeExact ==
  /\ \A t \in Traces :
       /\ tentativeAddToRoot(root, t) = Foretold(root, t)
       /\ \A c \in {d \in Cuts(t) : FlattenSeq(d) = t} : tentativeAddSegments(root, c) = Foretold(root, t)
  /\ \A t \in Paths(getPrefixRelationTree(root, other)) : Foretold(root, t) < 2 /\ Foretold(other, t) < 2

(* Comparisons of trees compare their traces, whatever the order of edges;  *)
(* what two nodes share is what both continue with.                         *)
ComparisonsExact ==
  /\ superTreeOf(root, other) <=> Paths(other) \subseteq Paths(root)
  /\ equals(root, other) <=> Paths(other) = Paths(root) /\ Deleted(other) = Deleted(root)
  /\ \A t, u \in Paths(root) :
       Paths(sharedExtensions(root, t, u)) = {v \in Traces : t \o v \in Paths(root) /\ u \o v \in Paths(root)}
  /\ Range(getIOListsWithPrefixes(root)) = Paths(root)
  /\ LET lists == getIOLists(root)
     IN  \A i, j \in DOMAIN lists : i # j => ~IsPrefix(lists[i], lists[j])

(* What the operations that change nothing answer about a tree is true. *)
AnswersExact == TentativeExact /\ ComparisonsExact
=============================================================================
