------------------------------ MODULE MCTrees ------------------------------
EXTENDS TraceTrees, TraceContainers, HittingSet

(* trees, containers and hitting sets are checked side by side: a behaviour *)
(* is about one of them                                                     *)
Idle == \A o \in Object : phase[o] = "none"
Empty == added = {} /\ addedTrees = {} /\ given = << >>
OneContainer == IF given = << >> THEN added = {} \/ addedTrees = {} ELSE added = {} /\ addedTrees = {}
AboutTrees == Empty /\ Idle /\ TTNext /\ UNCHANGED <<tcVars, hsVars>>
AboutContainers ==
  /\ root = NewNode /\ ~undefined /\ other = CHOOSE o \in Others : TRUE
  /\ Idle
  /\ TCNext /\ OneContainer' /\ UNCHANGED <<ttVars, hsVars>>
AboutHittingSets ==
  /\ root = NewNode /\ ~undefined /\ other = CHOOSE o \in Others : TRUE
  /\ Empty
  /\ HSNext /\ UNCHANGED <<ttVars, tcVars>>
MCInit == TTInit /\ TCInit /\ HSInit
MCSpec ==
  /\ MCInit
  /\ [][AboutTrees \/ AboutContainers \/ AboutHittingSets]_<<ttVars, tcVars, hsVars>>
  /\ \A o \in Object : WF_hsVars(Search(o))

(* two nonempty sets, all sets of two elements, no set, the empty set *)
MCSetSystems ==
  kSubset(2, SUBSET Element \ {{}}) \cup {kSubset(2, Element), {}, {{}}}

MCLists ==
  {<<t>> : t \in {<<0>>, <<1>>, <<0,1>>, <<1,0>>}} \cup {<< <<1>>, <<0,0>> >>, << <<1,1>>, <<0>>, <<1,0>> >>, << << >> >>}
MCOthers ==
  {addToThisNode(NewNode, l) : l \in {<< << >> >>, << <<0>> >>, << <<1,0>> >>, << <<1>>, <<0,1>> >>, << <<0,0>>, <<1,1>>, <<0,1>> >>}}
MCTraces == Traces
MCNewTraces == UNION {[1 .. n -> {0,1}] : n \in 0 .. 3}

(* I/O traces with and without epsilons *)
MCNewIOTraces ==
  {IO([i \in 1 .. n |-> f[i][1]], [i \in 1 .. n |-> f[i][2]]) :
     <<n, f>> \in UNION {{n} \X [1 .. n -> {<<EPSILON, EPSILON>>, <<0,0>>, <<0,1>>}] : n \in 0 .. 2}}

Leaf(g) == [input |-> g, kids |-> << >>]
Tree(x, kids) == [input |-> x, kids |-> kids]
Both(a, b) == <<Edge(0, a), Edge(1, b)>>
MCNewTrees ==
  {Tree(x, k) : x \in {0,1}, k \in {Both(Leaf(g), Leaf(i)) : g, i \in {0,1}}
     \cup {<<Edge(0, Leaf(0))>>, Both(Leaf(0), Tree(0, Both(Leaf(0), Leaf(0)))), Both(Leaf(0), Tree(1, Both(Leaf(0), Leaf(0)))),
           <<Edge(1, Tree(1, <<Edge(0, Leaf(0))>>)), Edge(0, Leaf(0))>>}}
=============================================================================
