-------------------------- MODULE TestSuites_proofs --------------------------
(***************************************************************************)
(* TestSuites and its basis, for every observable, minimal FSM of any size *)
(* and any number of additional states: the traces that are read off OFSM  *)
(* tables, the characterisation set, the identification sets, the state    *)
(* cover, and the completeness of the suites of the W, the Wp, the HSI and *)
(* the H method.                                                           *)
(*                                                                         *)
(* The modules fold over traces and over the rounds of nested loops.  What *)
(* FoldLeft computes is first proved step by step; inductions on lengths   *)
(* are stated as facts about sets of naturals or of traces.                *)
(***************************************************************************)
EXTENDS HMethod, FiniteSetTheorems, SequenceTheorems, WellFoundedInduction, TLAPS

(***************************************************************************)
(* Induction on the naturals, as facts about sets.                         *)
(***************************************************************************)
LEMMA LeastElement ==
  ASSUME NEW T, T \subseteq Nat, T # {}
  PROVE  \E x \in T : \A y \in T : x <= y
<1> DEFINE R == {ss \in Nat \X Nat : ss[1] < ss[2]}
<1>1. IsWellFoundedOn(R, Nat)
  BY NatLessThanWellFounded DEF OpToRel
<1>2. \E x \in T : \A y \in T : ~(<<y, x>> \in R)
  <2> HIDE DEF R
  <2> QED BY <1>1, WFMin
<1>3. PICK x \in T : \A y \in T : ~(<<y, x>> \in R)
  BY <1>2
<1>4. ASSUME NEW y \in T PROVE x <= y
  <2>1. x \in Nat /\ y \in Nat /\ ~(<<y, x>> \in R)
    BY <1>3
  <2> QED BY <2>1
<1> QED BY <1>4

(* A set that contains 0 and is closed under + 1 contains all naturals. *)
LEMMA SetInduction ==
  ASSUME NEW A, 0 \in A, \A n \in Nat : n \in A => n + 1 \in A
  PROVE  Nat \subseteq A
<1> DEFINE T == {n \in Nat : n \notin A}
<1> SUFFICES ASSUME T # {} PROVE FALSE
  OBVIOUS
<1>1. PICK x \in T : \A y \in T : x <= y
  <2>1. T \subseteq Nat
    OBVIOUS
  <2> HIDE DEF T
  <2> QED BY <2>1, LeastElement
<1>2. x \in Nat /\ x # 0 /\ x - 1 \in Nat /\ (x - 1) + 1 = x
  BY <1>1
<1>3. x - 1 \in A
  BY <1>1, <1>2
<1> QED BY <1>1, <1>2, <1>3

(* The minimum of a set of naturals. *)
LEMMA MinOf ==
  ASSUME NEW T, T \subseteq Nat, T # {}
  PROVE  Min(T) \in T /\ \A y \in T : Min(T) <= y
<1>1. \E x \in T : \A y \in T : x <= y
  BY LeastElement
<1> QED BY <1>1 DEF Min

(* The last index of a sequence, as FoldLeft takes it. *)
LEMMA MaxOfInitial ==
  ASSUME NEW n \in Nat, NEW T, T \subseteq 1 .. n + 1, n + 1 \in T
  PROVE  Max(T) = n + 1
<1>1. \A y \in T : n + 1 >= y
  OBVIOUS
<1>2. Max(T) \in T /\ \A y \in T : Max(T) >= y
  BY <1>1 DEF Max
<1>3. Max(T) >= n + 1 /\ Max(T) \in 1 .. n + 1
  BY <1>2
<1> QED BY <1>3

(***************************************************************************)
(* FoldLeft step by step.  The operators that the folds of the modules     *)
(* repeat are the cases of StepOf; m says which one, and for which FSM.    *)
(***************************************************************************)
PostsOf(r, Q, x) == {r[q][<<x, y>>] : q \in Q, y \in Output} \ {-1}

GrowLeaf(r, leaf, x) ==
  LET ys == {y \in Output : r[leaf[2]][<<x, y>>] >= 0}
  IN  IF ys = {} THEN {leaf}
      ELSE {<<Append(leaf[1], y), r[leaf[2]][<<x, y>>]>> : y \in ys}

MovePair(r, tables, c, t, x) ==
  LET ys == {y \in Output : /\ r[c.q1][<<x, y>>] >= 0
                            /\ r[c.q2][<<x, y>>] >= 0
                            /\ <<r[c.q1][<<x, y>>], r[c.q2][<<x, y>>]>> \notin tables[t]}
      l == <<x, Min(ys)>>
  IN  IF ys = {} THEN c
      ELSE [q1 |-> r[c.q1][l], q2 |-> r[c.q2][l], itrc |-> Append(c.itrc, x)]

(* pairs of states of the reference machine and the implementation *)
PairPosts(r, im, P, x) ==
  UNION {{<<r[p[1]][<<x, y>>], im[p[2]][x][y]>> : y \in {z \in Output : r[p[1]][<<x, z>>] >= 0}} : p \in P}

MorePairs(r, im, P) ==
  {p \in P \cup UNION {{<<r[p[1]][<<x, y>>], im[p[2]][x][y]>> : x \in Input, y \in Output} : p \in P} :
     p[1] >= 0 /\ p[2] >= 0}

(* the post-state of a deterministic machine *)
PostOf(r, q, x) == CHOOSE s \in State : \E y \in Output : r[q][<<x, y>>] = s

(* one round of the loop over P_k-tables *)
PkMove(r, tables, l, c, k) ==
  LET x == Min({i \in Input : <<PostOf(r, c.qi, i), PostOf(r, c.qj, i)>> \notin tables[l - k]})
  IN  [qi |-> PostOf(r, c.qi, x), qj |-> PostOf(r, c.qj, x), itrc |-> Append(c.itrc, x)]

StepOf(m, a, b) ==
  CASE m[1] = "after" -> PostsOf(m[2], a, b)
    [] m[1] = "apply" -> UNION {GrowLeaf(m[2], leaf, b) : leaf \in a}
    [] m[1] = "move" -> MovePair(m[2], m[3], a, b.t, b.x)
    [] m[1] = "pairs" -> PairPosts(m[2], m[3], a, b)
    [] m[1] = "more" -> MorePairs(m[2], m[3], a)
    [] m[1] = "state" -> PostOf(m[2], a, b)
    [] m[1] = "pk" -> PkMove(m[2], m[3], m[4], a, b)

(* what folding t one element after the other yields *)
IsRun(f, m, base, t) ==
  f = [k \in 0 .. Len(t) |-> IF k = 0 THEN base ELSE StepOf(m, f[k - 1], t[k])]

RunOf(m, base, t) == (CHOOSE f : IsRun(f, m, base, t))[Len(t)]

(* the function that the definition of FoldLeft recurs with *)
IsFold(iter, m, base, t) ==
  iter = [s \in SUBSET DOMAIN t |-> IF s = {} THEN base
                                   ELSE StepOf(m, iter[s \ {Max(s)}], t[Max(s)])]

Follows(f, m, base, t, n) ==
  f[0] = base /\ \A k \in 0 .. n - 1 : f[k + 1] = StepOf(m, f[k], t[k + 1])

(* Such a run exists, along every sequence. *)
LEMMA RunExists ==
  ASSUME NEW m, NEW base, NEW X, NEW t \in Seq(X)
  PROVE  \E f : IsRun(f, m, base, t)
<1> DEFINE Is(f, n) == f = [k \in 0 .. n |-> IF k = 0 THEN base ELSE StepOf(m, f[k - 1], t[k])]
           A == {n \in Nat : \E f : Is(f, n)}
<1>1. 0 \in A
  <2> DEFINE f == [k \in 0 .. 0 |-> base]
  <2>1. Is(f, 0)
    OBVIOUS
  <2> QED BY <2>1
<1>2. ASSUME NEW n \in Nat, n \in A PROVE n + 1 \in A
  <2>1. PICK f : Is(f, n)
    BY <1>2
  <2> DEFINE h == [k \in 0 .. n + 1 |-> IF k <= n THEN f[k] ELSE StepOf(m, f[n], t[n + 1])]
  <2>2. \A k \in 0 .. n : f[k] = IF k = 0 THEN base ELSE StepOf(m, f[k - 1], t[k])
    BY <2>1
  <2>3. ASSUME NEW k \in 0 .. n + 1
        PROVE  h[k] = IF k = 0 THEN base ELSE StepOf(m, h[k - 1], t[k])
    <3>1. CASE k <= n
      <4>1. k \in 0 .. n /\ h[k] = f[k] /\ (k # 0 => h[k - 1] = f[k - 1])
        BY <3>1
      <4> QED BY <2>2, <4>1
    <3>2. CASE k = n + 1
      BY <3>2
    <3> QED BY <3>1, <3>2
  <2>4. Is(h, n + 1)
    <3>1. h = [k \in 0 .. n + 1 |-> h[k]]
      OBVIOUS
    <3> HIDE DEF h
    <3> QED BY <2>3, <3>1
  <2> HIDE DEF Is
  <2> QED BY <2>4
<1> HIDE DEF A
<1>3. Len(t) \in A
  BY <1>1, <1>2, SetInduction
<1> QED BY <1>3 DEF A, IsRun

(* A run takes the step of each element, from the base. *)
LEMMA RunFollows ==
  ASSUME NEW m, NEW base, NEW X, NEW t \in Seq(X), NEW f, IsRun(f, m, base, t)
  PROVE  Follows(f, m, base, t, Len(t))
<1>1. f[0] = base
  BY DEF IsRun
<1>2. ASSUME NEW k \in 0 .. Len(t) - 1 PROVE f[k + 1] = StepOf(m, f[k], t[k + 1])
  <2>1. k + 1 \in 0 .. Len(t) /\ k + 1 # 0 /\ (k + 1) - 1 = k
    OBVIOUS
  <2> QED BY <2>1 DEF IsRun
<1> QED BY <1>1, <1>2 DEF Follows

(* what is calculated alike agrees *)
LEMMA SameRun ==
  ASSUME NEW m, NEW base, NEW t, NEW u, NEW f, NEW g, NEW n \in Nat,
         Follows(f, m, base, t, n), Follows(g, m, base, u, n), \A k \in 1 .. n : t[k] = u[k]
  PROVE  f[n] = g[n]
<1> DEFINE A == {k \in Nat : k <= n => f[k] = g[k]}
<1>1. 0 \in A
  BY DEF Follows
<1>2. ASSUME NEW k \in Nat, k \in A PROVE k + 1 \in A
  <2> SUFFICES ASSUME k + 1 <= n PROVE f[k + 1] = g[k + 1]
    OBVIOUS
  <2>1. k \in 0 .. n - 1 /\ k + 1 \in 1 .. n /\ f[k] = g[k]
    BY <1>2
  <2> QED BY <2>1 DEF Follows
<1> HIDE DEF A
<1>3. n \in A
  BY <1>1, <1>2, SetInduction
<1> QED BY <1>3 DEF A

(* Whatever follows the steps ends with what the fold returns. *)
LEMMA RunIs ==
  ASSUME NEW m, NEW base, NEW X, NEW t \in Seq(X), NEW f, Follows(f, m, base, t, Len(t))
  PROVE  f[Len(t)] = RunOf(m, base, t)
<1> DEFINE g == CHOOSE h : IsRun(h, m, base, t)
<1>1. IsRun(g, m, base, t)
  BY RunExists
<1>2. RunOf(m, base, t) = g[Len(t)]
  BY DEF RunOf
<1> HIDE DEF g
<1>3. Follows(g, m, base, t, Len(t))
  BY <1>1, RunFollows
<1>4. Len(t) \in Nat /\ \A k \in 1 .. Len(t) : t[k] = t[k]
  OBVIOUS
<1> QED BY <1>2, <1>3, <1>4, SameRun

(* A fold over no elements returns its base. *)
LEMMA RunOfEmpty ==
  ASSUME NEW m, NEW base
  PROVE  RunOf(m, base, << >>) = base
<1> DEFINE f == [k \in 0 .. 0 |-> base]
<1>1. << >> \in Seq({}) /\ Len(<< >>) = 0
  OBVIOUS
<1>2. f[0] = base
  OBVIOUS
<1> HIDE DEF f
<1>3. Follows(f, m, base, << >>, Len(<< >>))
  BY <1>1, <1>2 DEF Follows
<1>4. f[Len(<< >>)] = RunOf(m, base, << >>)
  BY <1>1, <1>3, RunIs
<1> QED BY <1>1, <1>2, <1>4

(* A fold over one element more takes one step more. *)
LEMMA RunOfAppend ==
  ASSUME NEW m, NEW base, NEW X, NEW t \in Seq(X), NEW x \in X
  PROVE  RunOf(m, base, Append(t, x)) = StepOf(m, RunOf(m, base, t), x)
<1> DEFINE u == Append(t, x)
<1>1. u \in Seq(X) /\ Len(u) = Len(t) + 1 /\ u[Len(t) + 1] = x /\ \A k \in 1 .. Len(t) : u[k] = t[k]
  OBVIOUS
<1> HIDE DEF u
<1>2. PICK f : IsRun(f, m, base, u)
  BY <1>1, RunExists
<1>3. Follows(f, m, base, u, Len(u))
  BY <1>1, <1>2, RunFollows
<1>4. f[Len(u)] = RunOf(m, base, u)
  BY <1>1, <1>3, RunIs
<1>5. Follows(f, m, base, t, Len(t))
  BY <1>1, <1>3 DEF Follows
<1>6. f[Len(t)] = RunOf(m, base, t)
  BY <1>5, RunIs
<1>7. Len(t) \in 0 .. Len(u) - 1
  BY <1>1
<1> QED BY <1>1, <1>3, <1>4, <1>6, <1>7 DEF u, Follows

(* FoldLeft computes the same. *)
LEMMA FoldExists ==
  ASSUME NEW m, NEW base, NEW X, NEW t \in Seq(X)
  PROVE  \E iter : IsFold(iter, m, base, t)
<1> DEFINE Is(f, n) == f = [s \in SUBSET (1 .. n) |-> IF s = {} THEN base
                                   ELSE StepOf(m, f[s \ {Max(s)}], t[Max(s)])]
           A == {n \in Nat : \E f : Is(f, n)}
<1>1. 0 \in A
  <2> DEFINE f == [s \in SUBSET (1 .. 0) |-> base]
  <2>1. Is(f, 0)
    OBVIOUS
  <2> QED BY <2>1
<1>2. ASSUME NEW n \in Nat, n \in A PROVE n + 1 \in A
  <2>1. PICK f : Is(f, n)
    BY <1>2
  <2> DEFINE h == [s \in SUBSET (1 .. n + 1) |->
                     IF n + 1 \in s THEN StepOf(m, f[s \ {n + 1}], t[n + 1]) ELSE f[s]]
             Rec(s, g) == IF s = {} THEN base ELSE StepOf(m, g[s \ {Max(s)}], t[Max(s)])
  <2>2. \A s \in SUBSET (1 .. n) : f[s] = Rec(s, f)
    BY <2>1
  <2>3. \A s \in SUBSET (1 .. n) : s \in SUBSET (1 .. n + 1) /\ h[s] = f[s]
    OBVIOUS
  <2>4. ASSUME NEW s \in SUBSET (1 .. n + 1) PROVE h[s] = Rec(s, h)
    <3>1. CASE n + 1 \in s
      <4>1. Max(s) = n + 1
        BY <3>1, MaxOfInitial
      <4>2. s \ {n + 1} \in SUBSET (1 .. n)
        OBVIOUS
      <4>3. h[s] = StepOf(m, f[s \ {n + 1}], t[n + 1])
        BY <3>1
      <4>4. h[s \ {n + 1}] = f[s \ {n + 1}]
        BY <2>3, <4>2
      <4>5. Rec(s, h) = StepOf(m, h[s \ {n + 1}], t[n + 1])
        BY <3>1, <4>1
      <4> QED BY <4>3, <4>4, <4>5
    <3>2. CASE n + 1 \notin s
      <4>1. s \in SUBSET (1 .. n) /\ s \ {Max(s)} \in SUBSET (1 .. n)
        <5>1. \A e \in s : e \in 1 .. n
          BY <3>2
        <5> QED BY <5>1
      <4>2. h[s] = f[s] /\ h[s \ {Max(s)}] = f[s \ {Max(s)}]
        BY <2>3, <4>1
      <4>3. Rec(s, h) = Rec(s, f)
        BY <4>2
      <4> QED BY <2>2, <4>1, <4>2, <4>3
    <3> QED BY <3>1, <3>2
  <2>5. Is(h, n + 1)
    <3>1. h = [s \in SUBSET (1 .. n + 1) |-> h[s]]
      OBVIOUS
    <3> HIDE DEF h
    <3> QED BY <2>4, <3>1
  <2> HIDE DEF Is
  <2> QED BY <2>5
<1> HIDE DEF A
<1>3. Len(t) \in A /\ DOMAIN t = 1 .. Len(t)
  BY <1>1, <1>2, SetInduction
<1> QED BY <1>3 DEF A, IsFold

(* FoldLeft as the community modules define it, element after element. *)
LEMMA FoldIsRun ==
  ASSUME NEW m, NEW base, NEW X, NEW t \in Seq(X), NEW iter, IsFold(iter, m, base, t)
  PROVE  iter[DOMAIN t] = RunOf(m, base, t)
<1> DEFINE f == [k \in 0 .. Len(t) |-> iter[1 .. k]]
<1>1. f[0] = base
  <2>1. 1 .. 0 = {} /\ {} \in SUBSET DOMAIN t
    OBVIOUS
  <2>2. iter[{}] = base
    BY <2>1 DEF IsFold
  <2> QED BY <2>1, <2>2
<1>2. ASSUME NEW k \in 0 .. Len(t) - 1 PROVE f[k + 1] = StepOf(m, f[k], t[k + 1])
  <2>1. 1 .. k + 1 \in SUBSET DOMAIN t /\ 1 .. k + 1 # {} /\ (1 .. k + 1) \ {k + 1} = 1 .. k
    OBVIOUS
  <2>2. Max(1 .. k + 1) = k + 1
    BY MaxOfInitial
  <2>3. iter[1 .. k + 1] = StepOf(m, iter[1 .. k], t[k + 1])
    BY <2>1, <2>2 DEF IsFold
  <2> QED BY <2>3
<1>3. f[Len(t)] = iter[DOMAIN t]
  OBVIOUS
<1> HIDE DEF f
<1>4. Follows(f, m, base, t, Len(t))
  BY <1>1, <1>2 DEF Follows
<1> QED BY <1>3, <1>4, RunIs

(***************************************************************************)
(* The folds of the modules.                                               *)
(***************************************************************************)
LeavesOf(r, q, itrc) == RunOf(<<"apply", r>>, {<< << >>, q>>}, itrc)

OutputsOf(r, q, itrc) == {leaf[1] : leaf \in LeavesOf(r, q, itrc)}

StatesAfter(r, itrc) == RunOf(<<"after", r>>, {0}, itrc)

(* What the steps of the three folds are. *)
LEMMA StepCases ==
  /\ \A r, a, b : StepOf(<<"after", r>>, a, b) = PostsOf(r, a, b)
  /\ \A r, a, b : StepOf(<<"apply", r>>, a, b) = UNION {GrowLeaf(r, leaf, b) : leaf \in a}
  /\ \A r, tb, a, b : StepOf(<<"move", r, tb>>, a, b) = MovePair(r, tb, a, b.t, b.x)
  /\ \A r, im, a, b : StepOf(<<"pairs", r, im>>, a, b) = PairPosts(r, im, a, b)
  /\ \A r, im, a, b : StepOf(<<"more", r, im>>, a, b) = MorePairs(r, im, a)
  /\ \A r, a, b : StepOf(<<"state", r>>, a, b) = PostOf(r, a, b)
  /\ \A r, tb, l, a, b : StepOf(<<"pk", r, tb, l>>, a, b) = PkMove(r, tb, l, a, b)
BY DEF StepOf

(* FsmNode::apply, one input after the other. *)
LEMMA OutputsAre ==
  ASSUME NEW X, NEW t \in Seq(X), NEW q
  PROVE  Outputs(q, t) = OutputsOf(rows, q, t)
<1> DEFINE m == <<"apply", rows>>
           base == {<< << >>, q>>}
           D == DOMAIN t
           Op(a, b) == UNION {GrowLeaf(rows, leaf, b) : leaf \in a}
           Is(iter) == iter = [s \in SUBSET D |-> IF s = {} THEN base
                                ELSE Op(iter[s \ {Max(s)}], t[Max(s)])]
           it == CHOOSE iter : Is(iter)
<1>1. Outputs(q, t) = {leaf[1] : leaf \in it[D]}
  BY DEF Outputs, FoldLeft, MapThenFoldSet, GrowLeaf
<1>2. \A a, b : StepOf(m, a, b) = Op(a, b)
  BY StepCases
<1> HIDE DEF Op, m, base
<1>3. \A iter : Is(iter) <=> IsFold(iter, m, base, t)
  BY <1>2 DEF IsFold
<1>4. \E iter : Is(iter)
  BY <1>3, FoldExists
<1> HIDE DEF Is
<1>5. Is(it)
  BY <1>4
<1> HIDE DEF it
<1>6. IsFold(it, m, base, t)
  BY <1>3, <1>5
<1>7. it[D] = RunOf(m, base, t)
  BY <1>6, FoldIsRun
<1> QED BY <1>1, <1>7 DEF OutputsOf, LeavesOf, m, base

(* FsmNode::after, one input after the other. *)
LEMMA AfterIs ==
  ASSUME NEW X, NEW t \in Seq(X)
  PROVE  After(t) = StatesAfter(rows, t)
<1> DEFINE m == <<"after", rows>>
           base == {0}
           D == DOMAIN t
           Op(a, b) == PostsOf(rows, a, b)
           Is(iter) == iter = [s \in SUBSET D |-> IF s = {} THEN base
                                ELSE Op(iter[s \ {Max(s)}], t[Max(s)])]
           it == CHOOSE iter : Is(iter)
<1>1. After(t) = it[D]
  BY DEF After, FoldLeft, MapThenFoldSet, PostsOf
<1>2. \A a, b : StepOf(m, a, b) = Op(a, b)
  BY StepCases
<1> HIDE DEF Op, m, base
<1>3. \A iter : Is(iter) <=> IsFold(iter, m, base, t)
  BY <1>2 DEF IsFold
<1>4. \E iter : Is(iter)
  BY <1>3, FoldExists
<1> HIDE DEF Is
<1>5. Is(it)
  BY <1>4
<1> HIDE DEF it
<1>6. IsFold(it, m, base, t)
  BY <1>3, <1>5
<1>7. it[D] = RunOf(m, base, t)
  BY <1>6, FoldIsRun
<1> QED BY <1>1, <1>7 DEF StatesAfter, m, base

(* the loops of calcDistinguishingTrace *)
MovedPair(r, tables, p, q, rounds) ==
  RunOf(<<"move", r, tables>>, [q1 |-> p, q2 |-> q, itrc |-> << >>], rounds)

LastInputs(r, c) ==
  {x \in Input : \E y \in Output : (r[c.q1][<<x, y>>] >= 0) # (r[c.q2][<<x, y>>] >= 0)}

(***************************************************************************)
(* calcDistinguishingTrace: the pair that the loops end with, and the last *)
(* input.                                                                  *)
(***************************************************************************)
LEMMA CalcIs ==
  ASSUME NEW p, NEW q, NEW X, Rounds(FirstSeparating(p, q)) \in Seq(X)
  PROVE  LET c == MovedPair(rows, ofsmTableLst, p, q, Rounds(FirstSeparating(p, q)))
             xs == LastInputs(rows, c)
         IN  calcDistinguishingTrace(p, q) = IF xs = {} THEN c.itrc ELSE Append(c.itrc, Min(xs))
<1> DEFINE m == <<"move", rows, ofsmTableLst>>
           base == [q1 |-> p, q2 |-> q, itrc |-> << >>]
           t == Rounds(FirstSeparating(p, q))
           D == DOMAIN t
           Op(a, b) == MovePair(rows, ofsmTableLst, a, b.t, b.x)
           Is(iter) == iter = [s \in SUBSET D |-> IF s = {} THEN base
                                ELSE Op(iter[s \ {Max(s)}], t[Max(s)])]
           it == CHOOSE iter : Is(iter)
           c == MovedPair(rows, ofsmTableLst, p, q, t)
           xs == LastInputs(rows, c)
           Result(d) == LET zs == LastInputs(rows, d)
                        IN  IF zs = {} THEN d.itrc ELSE Append(d.itrc, Min(zs))
<1>1. calcDistinguishingTrace(p, q) = Result(it[D])
  BY DEF calcDistinguishingTrace, FoldLeft, MapThenFoldSet, TakeInput, MovePair, LastInputs
<1>2. \A a, b : StepOf(m, a, b) = Op(a, b)
  BY StepCases
<1> HIDE DEF Op, m, base, Result, t
<1>3. \A iter : Is(iter) <=> IsFold(iter, m, base, t)
  BY <1>2 DEF IsFold
<1>4. \E iter : Is(iter)
  BY <1>3, FoldExists DEF t
<1> HIDE DEF Is
<1>5. Is(it)
  BY <1>4
<1> HIDE DEF it
<1>6. IsFold(it, m, base, t)
  BY <1>3, <1>5
<1>7. it[D] = RunOf(m, base, t)
  BY <1>6, FoldIsRun DEF t
<1>8. it[D] = c
  BY <1>7 DEF MovedPair, m, base
<1>9. calcDistinguishingTrace(p, q) = Result(c)
  BY <1>1, <1>8
<1> QED BY <1>9 DEF Result, t

(***************************************************************************)
(* A set of traces that contains the empty one and all extensions contains *)
(* all.                                                                    *)
(***************************************************************************)
LEMMA SeqInduction ==
  ASSUME NEW X, NEW A, << >> \in A, \A t \in Seq(X), x \in X : t \in A => Append(t, x) \in A
  PROVE  Seq(X) \subseteq A
<1> DEFINE B == {n \in Nat : \A t \in Seq(X) : Len(t) = n => t \in A}
<1>1. 0 \in B
  <2>1. \A t \in Seq(X) : Len(t) = 0 => t = << >>
    BY EmptySeq
  <2> QED BY <2>1
<1>2. ASSUME NEW n \in Nat, n \in B PROVE n + 1 \in B
  <2> SUFFICES ASSUME NEW t \in Seq(X), Len(t) = n + 1 PROVE t \in A
    OBVIOUS
  <2>1. t # << >>
    BY EmptySeq
  <2>2. PICK s \in Seq(X), x \in X : t = Append(s, x)
    BY <2>1, SequenceEmptyOrAppend
  <2>3. Len(s) = n
    BY <2>2
  <2> QED BY <1>2, <2>2, <2>3
<1> HIDE DEF B
<1>3. Nat \subseteq B
  BY <1>1, <1>2, SetInduction
<1>4. \A t \in Seq(X) : Len(t) \in Nat
  OBVIOUS
<1> QED BY <1>3, <1>4 DEF B

(* Append is injective. *)
LEMMA AppendSame ==
  \A s, t \in Seq(Output), a, b \in Output : Append(s, a) = Append(t, b) => s = t /\ a = b
<1>1. ASSUME NEW S, NEW s \in Seq(S), NEW t \in Seq(S), NEW a \in S, NEW b \in S,
             Append(s, a) = Append(t, b)
      PROVE  s = t /\ a = b
  BY <1>1, AppendInjective
<1> QED BY <1>1

(***************************************************************************)
(* The leaves that FsmNode::apply reaches.                                 *)
(***************************************************************************)
Machines == [State -> [Label -> State \cup {-1}]]

(* States, inputs and outputs are naturals. *)
LEMMA StateFacts ==
  /\ State \subseteq Nat
  /\ 0 \in State
  /\ Input \subseteq Nat /\ Output \subseteq Nat
  /\ 0 \in Input /\ 0 \in Output
BY NumStatesAssumption, AlphabetAssumption DEF State, Input, Output

(* An entry of the machine is a state or -1, and >= 0 says which. *)
LEMMA PostFacts ==
  ASSUME NEW r \in Machines, NEW q \in State, NEW x \in Input, NEW y \in Output
  PROVE  /\ r[q][<<x, y>>] \in State \cup {-1}
         /\ r[q][<<x, y>>] >= 0 <=> r[q][<<x, y>>] \in State
<1>1. <<x, y>> \in Label
  BY DEF Label
<1>2. r[q][<<x, y>>] \in State \cup {-1}
  BY <1>1 DEF Machines
<1>3. \A s \in State : s >= 0
  BY StateFacts
<1>4. -1 \notin State /\ ~(-1 >= 0)
  BY StateFacts
<1> HIDE DEF State, Label
<1>5. CASE r[q][<<x, y>>] = -1
  BY <1>4, <1>5
<1>6. CASE r[q][<<x, y>>] \in State
  BY <1>3, <1>6
<1> QED BY <1>2, <1>5, <1>6

IsLeaf(leaf) == leaf \in Seq(Output) \X State

(* How one leaf grows under an input. *)
LEMMA GrowthOf ==
  ASSUME NEW r \in Machines, NEW ys \in Seq(Output), NEW s \in State, NEW x \in Input
  PROVE  /\ \A g \in GrowLeaf(r, <<ys, s>>, x) :
              \/ g = <<ys, s>> /\ \A y \in Output : r[s][<<x, y>>] \notin State
              \/ \E y \in Output : /\ r[s][<<x, y>>] \in State
                                   /\ g = <<Append(ys, y), r[s][<<x, y>>]>>
         /\ \A y \in Output : r[s][<<x, y>>] \in State =>
              <<Append(ys, y), r[s][<<x, y>>]>> \in GrowLeaf(r, <<ys, s>>, x)
<1> DEFINE ok == {y \in Output : r[s][<<x, y>>] >= 0}
<1>1. ok = {y \in Output : r[s][<<x, y>>] \in State}
  BY PostFacts
<1>2. <<ys, s>>[1] = ys /\ <<ys, s>>[2] = s
  OBVIOUS
<1>3. GrowLeaf(r, <<ys, s>>, x) =
        IF ok = {} THEN {<<ys, s>>} ELSE {<<Append(ys, y), r[s][<<x, y>>]>> : y \in ok}
  BY <1>2 DEF GrowLeaf
<1>4. \A y : y \in ok <=> y \in Output /\ r[s][<<x, y>>] \in State
  BY <1>1
<1> HIDE DEF ok
<1>5. CASE ok = {}
  BY <1>3, <1>4, <1>5
<1>6. CASE ok # {}
  <2>1. GrowLeaf(r, <<ys, s>>, x) = {<<Append(ys, y), r[s][<<x, y>>]>> : y \in ok}
    BY <1>3, <1>6
  <2> QED BY <1>4, <2>1
<1> QED BY <1>5, <1>6

(* Before the first input there is one leaf. *)
LEMMA LeavesEmpty ==
  ASSUME NEW r, NEW q
  PROVE  LeavesOf(r, q, << >>) = {<< << >>, q>>}
BY RunOfEmpty DEF LeavesOf

(* The leaves after one input more. *)
LEMMA LeavesAppend ==
  ASSUME NEW r, NEW q, NEW t \in Seq(Input), NEW x \in Input
  PROVE  LeavesOf(r, q, Append(t, x)) = UNION {GrowLeaf(r, leaf, x) : leaf \in LeavesOf(r, q, t)}
<1> DEFINE m == <<"apply", r>>
           base == {<< << >>, q>>}
<1>1. RunOf(m, base, Append(t, x)) = StepOf(m, RunOf(m, base, t), x)
  BY RunOfAppend
<1> HIDE DEF base
<1>2. \A a, b : StepOf(m, a, b) = UNION {GrowLeaf(r, leaf, b) : leaf \in a}
  BY StepCases
<1> HIDE DEF m
<1> QED BY <1>1, <1>2 DEF LeavesOf, m, base

(* An output trace is no longer than the input trace. *)
LEMMA LeavesTyped ==
  ASSUME NEW r \in Machines, NEW q \in State, NEW t \in Seq(Input)
  PROVE  \A leaf \in LeavesOf(r, q, t) :
           leaf \in Seq(Output) \X State /\ Len(leaf[1]) <= Len(t)
<1> DEFINE P(u) == \A leaf \in LeavesOf(r, q, u) :
                     leaf \in Seq(Output) \X State /\ Len(leaf[1]) <= Len(u)
           A == {u \in Seq(Input) : P(u)}
<1>1. << >> \in A
  <2>1. << >> \in Seq(Output) /\ << >> \in Seq(Input) /\ Len(<< >>) <= Len(<< >>)
    OBVIOUS
  <2>2. LeavesOf(r, q, << >>) = {<< << >>, q>>}
    BY LeavesEmpty
  <2>3. << << >>, q>> \in Seq(Output) \X State /\ << << >>, q>>[1] = << >>
    BY <2>1
  <2>4. P(<< >>)
    BY <2>1, <2>2, <2>3
  <2> QED BY <2>1, <2>4
<1>2. ASSUME NEW u \in Seq(Input), NEW x \in Input, u \in A PROVE Append(u, x) \in A
  <2>1. Append(u, x) \in Seq(Input) /\ Len(Append(u, x)) = Len(u) + 1 /\ Len(u) \in Nat
    OBVIOUS
  <2>2. ASSUME NEW g \in LeavesOf(r, q, Append(u, x))
        PROVE  g \in Seq(Output) \X State /\ Len(g[1]) <= Len(u) + 1
    <3>1. PICK leaf \in LeavesOf(r, q, u) : g \in GrowLeaf(r, leaf, x)
      BY LeavesAppend
    <3>2. leaf \in Seq(Output) \X State /\ Len(leaf[1]) <= Len(u)
      BY <1>2
    <3>3. PICK ys \in Seq(Output), s \in State : leaf = <<ys, s>>
      BY <3>2
    <3>4. Len(ys) <= Len(u) /\ Len(ys) \in Nat
      BY <3>2, <3>3
    <3>5. CASE g = <<ys, s>>
      BY <2>1, <3>4, <3>5
    <3>6. CASE \E y \in Output : r[s][<<x, y>>] \in State /\ g = <<Append(ys, y), r[s][<<x, y>>]>>
      <4>1. PICK y \in Output : r[s][<<x, y>>] \in State /\ g = <<Append(ys, y), r[s][<<x, y>>]>>
        BY <3>6
      <4>2. Append(ys, y) \in Seq(Output) /\ Len(Append(ys, y)) = Len(ys) + 1
        OBVIOUS
      <4>3. g[1] = Append(ys, y) /\ g \in Seq(Output) \X State
        BY <4>1, <4>2
      <4> QED BY <2>1, <3>4, <4>2, <4>3
    <3> QED BY <3>1, <3>3, <3>5, <3>6, GrowthOf
  <2> HIDE DEF A
  <2>3. P(Append(u, x))
    BY <2>1, <2>2
  <2> QED BY <2>1, <2>3 DEF A
<1> HIDE DEF A
<1>3. t \in A
  BY <1>1, <1>2, SeqInduction
<1> QED BY <1>3 DEF A

(* A leaf whose state has a post-state is followed by a longer leaf. *)
LEMMA LeafGrows ==
  ASSUME NEW r \in Machines, NEW q \in State, NEW t \in Seq(Input), NEW x \in Input,
         NEW ys \in Seq(Output), NEW s \in State, <<ys, s>> \in LeavesOf(r, q, t),
         NEW y \in Output, r[s][<<x, y>>] \in State
  PROVE  <<Append(ys, y), r[s][<<x, y>>]>> \in LeavesOf(r, q, Append(t, x))
<1>1. <<Append(ys, y), r[s][<<x, y>>]>> \in GrowLeaf(r, <<ys, s>>, x)
  BY GrowthOf
<1> QED BY <1>1, LeavesAppend

(* A leaf that has answered all inputs comes from one that has. *)
LEMMA LeafFrom ==
  ASSUME NEW r \in Machines, NEW q \in State, NEW t \in Seq(Input), NEW x \in Input,
         NEW g \in LeavesOf(r, q, Append(t, x)), Len(g[1]) = Len(t) + 1
  PROVE  \E ys \in Seq(Output), s \in State, y \in Output :
           /\ <<ys, s>> \in LeavesOf(r, q, t) /\ Len(ys) = Len(t)
           /\ r[s][<<x, y>>] \in State
           /\ g = <<Append(ys, y), r[s][<<x, y>>]>>
<1>0. LeavesOf(r, q, Append(t, x)) = UNION {GrowLeaf(r, leaf, x) : leaf \in LeavesOf(r, q, t)}
  BY LeavesAppend
<1>1. PICK leaf \in LeavesOf(r, q, t) : g \in GrowLeaf(r, leaf, x)
  BY <1>0
<1>2. leaf \in Seq(Output) \X State /\ Len(leaf[1]) <= Len(t)
  BY LeavesTyped
<1>3. PICK ys \in Seq(Output), s \in State : leaf = <<ys, s>>
  BY <1>2
<1>4. Len(ys) <= Len(t) /\ Len(ys) \in Nat /\ Len(t) \in Nat
  BY <1>2, <1>3
<1>5. g # <<ys, s>>
  BY <1>4
<1>6. PICK y \in Output : r[s][<<x, y>>] \in State /\ g = <<Append(ys, y), r[s][<<x, y>>]>>
  BY <1>1, <1>3, <1>5, GrowthOf
<1>7. Len(Append(ys, y)) = Len(ys) + 1
  OBVIOUS
<1>8. Len(ys) = Len(t)
  BY <1>4, <1>6, <1>7
<1> QED BY <1>1, <1>3, <1>6, <1>8

(* The FSM is observable: an answer to all inputs leads to one state. *)
LEMMA LeafUnique ==
  ASSUME NEW r \in Machines, NEW q \in State, NEW t \in Seq(Input)
  PROVE  \A ys, s1, s2 : /\ <<ys, s1>> \in LeavesOf(r, q, t) /\ <<ys, s2>> \in LeavesOf(r, q, t)
                         /\ Len(ys) = Len(t)
                         => s1 = s2
<1> DEFINE P(u) == \A ys, s1, s2 :
                     /\ <<ys, s1>> \in LeavesOf(r, q, u) /\ <<ys, s2>> \in LeavesOf(r, q, u)
                     /\ Len(ys) = Len(u)
                     => s1 = s2
           A == {u \in Seq(Input) : P(u)}
<1>1. << >> \in A
  BY LeavesEmpty
<1>2. ASSUME NEW u \in Seq(Input), NEW x \in Input, u \in A PROVE Append(u, x) \in A
  <2>1. Append(u, x) \in Seq(Input) /\ Len(Append(u, x)) = Len(u) + 1 /\ Len(u) \in Nat
    OBVIOUS
  <2>2. ASSUME NEW ys, NEW s1, NEW s2,
               <<ys, s1>> \in LeavesOf(r, q, Append(u, x)), <<ys, s2>> \in LeavesOf(r, q, Append(u, x)),
               Len(ys) = Len(u) + 1
        PROVE  s1 = s2
    <3>1. PICK vs \in Seq(Output), a \in State, y1 \in Output :
            /\ <<vs, a>> \in LeavesOf(r, q, u) /\ Len(vs) = Len(u)
            /\ <<ys, s1>> = <<Append(vs, y1), r[a][<<x, y1>>]>>
      BY <2>2, LeafFrom
    <3>2. PICK bs \in Seq(Output), b \in State, y2 \in Output :
            /\ <<bs, b>> \in LeavesOf(r, q, u) /\ Len(bs) = Len(u)
            /\ <<ys, s2>> = <<Append(bs, y2), r[b][<<x, y2>>]>>
      BY <2>2, LeafFrom
    <3>3. Append(vs, y1) = Append(bs, y2)
      BY <3>1, <3>2
    <3>4. vs = bs /\ y1 = y2
      <4>1. \A a1, b1 \in Seq(Output), c1, d1 \in Output :
              Append(a1, c1) = Append(b1, d1) => a1 = b1 /\ c1 = d1
        BY AppendSame
      <4>2. vs \in Seq(Output) /\ bs \in Seq(Output) /\ y1 \in Output /\ y2 \in Output
        OBVIOUS
      <4>3. vs = bs
        BY ONLY <3>3, <4>1, <4>2
      <4>4. y1 = y2
        BY ONLY <3>3, <4>1, <4>2
      <4> QED BY <4>3, <4>4
    <3>5. a = b
      <4>1. P(u)
        BY <1>2
      <4> HIDE DEF A
      <4> QED BY <3>1, <3>2, <3>4, <4>1
    <3> QED BY <3>1, <3>2, <3>4, <3>5
  <2> HIDE DEF A
  <2>3. P(Append(u, x))
    BY <2>1, <2>2
  <2> QED BY <2>1, <2>3 DEF A
<1> HIDE DEF A
<1>3. t \in A
  BY <1>1, <1>2, SeqInduction
<1> QED BY <1>3 DEF A

(* In a completely specified FSM all inputs are answered. *)
Complete(r) == \A q \in State, x \in Input : \E y \in Output : r[q][<<x, y>>] >= 0

(* In a completely specified FSM all leaves have the length of the trace. *)
LEMMA LeavesComplete ==
  ASSUME NEW r \in Machines, Complete(r), NEW q \in State, NEW t \in Seq(Input)
  PROVE  \A leaf \in LeavesOf(r, q, t) : Len(leaf[1]) = Len(t)
<1> DEFINE P(u) == \A leaf \in LeavesOf(r, q, u) : Len(leaf[1]) = Len(u)
           A == {u \in Seq(Input) : P(u)}
<1>1. << >> \in A
  BY LeavesEmpty
<1>2. ASSUME NEW u \in Seq(Input), NEW x \in Input, u \in A PROVE Append(u, x) \in A
  <2>1. Append(u, x) \in Seq(Input) /\ Len(Append(u, x)) = Len(u) + 1
    OBVIOUS
  <2>2. ASSUME NEW g \in LeavesOf(r, q, Append(u, x)) PROVE Len(g[1]) = Len(u) + 1
    <3>1. PICK leaf \in LeavesOf(r, q, u) : g \in GrowLeaf(r, leaf, x)
      BY LeavesAppend
    <3>2. PICK ys \in Seq(Output), s \in State : leaf = <<ys, s>>
      BY LeavesTyped
    <3>3. Len(ys) = Len(u)
      BY <1>2, <3>1, <3>2
    <3>4. \E y \in Output : r[s][<<x, y>>] \in State
      BY PostFacts DEF Complete
    <3>5. PICK y \in Output : g = <<Append(ys, y), r[s][<<x, y>>]>>
      <4>1. g \in GrowLeaf(r, <<ys, s>>, x)
        BY <3>1, <3>2
      <4>2. \/ g = <<ys, s>> /\ \A y \in Output : r[s][<<x, y>>] \notin State
            \/ \E y \in Output : /\ r[s][<<x, y>>] \in State
                                 /\ g = <<Append(ys, y), r[s][<<x, y>>]>>
        BY <4>1, GrowthOf
      <4> QED BY <3>4, <4>2
    <3>6. Len(Append(ys, y)) = Len(ys) + 1
      OBVIOUS
    <3> QED BY <3>3, <3>5, <3>6
  <2> HIDE DEF A
  <2>3. P(Append(u, x))
    BY <2>1, <2>2
  <2> QED BY <2>1, <2>3 DEF A
<1> HIDE DEF A
<1>3. t \in A
  BY <1>1, <1>2, SeqInduction
<1> QED BY <1>3 DEF A

(* A longer trace distinguishes what a shorter one does. *)
Differ(r, p, q, t) == OutputsOf(r, p, t) # OutputsOf(r, q, t)

(* The outputs of a trace are those of its extension without the last. *)
LEMMA OutputsOfAppend ==
  ASSUME NEW r \in Machines, Complete(r), NEW q \in State, NEW t \in Seq(Input), NEW x \in Input
  PROVE  OutputsOf(r, q, t) =
           {ys \in Seq(Output) : \E y \in Output : Append(ys, y) \in OutputsOf(r, q, Append(t, x))}
<1> DEFINE O(ys) == \E y \in Output : Append(ys, y) \in OutputsOf(r, q, Append(t, x))
<1>1. ASSUME NEW ys \in OutputsOf(r, q, t) PROVE ys \in Seq(Output) /\ O(ys)
  <2>1. PICK leaf \in LeavesOf(r, q, t) : ys = leaf[1]
    BY DEF OutputsOf
  <2>2. PICK s \in State : leaf = <<ys, s>> /\ ys \in Seq(Output)
    BY <2>1, LeavesTyped
  <2>3. PICK y \in Output : r[s][<<x, y>>] \in State
    BY PostFacts DEF Complete
  <2>4. <<Append(ys, y), r[s][<<x, y>>]>> \in LeavesOf(r, q, Append(t, x))
    BY <2>1, <2>2, <2>3, LeafGrows
  <2> QED BY <2>2, <2>4 DEF OutputsOf
<1>2. ASSUME NEW ys \in Seq(Output), O(ys) PROVE ys \in OutputsOf(r, q, t)
  <2>1. PICK y \in Output : Append(ys, y) \in OutputsOf(r, q, Append(t, x))
    BY <1>2
  <2>2. PICK g \in LeavesOf(r, q, Append(t, x)) : Append(ys, y) = g[1]
    BY <2>1 DEF OutputsOf
  <2>3. Append(t, x) \in Seq(Input) /\ Len(Append(t, x)) = Len(t) + 1
    OBVIOUS
  <2>4. Len(g[1]) = Len(t) + 1
    BY <2>3, LeavesComplete
  <2>5. PICK vs \in Seq(Output), s \in State, z \in Output :
          <<vs, s>> \in LeavesOf(r, q, t) /\ g = <<Append(vs, z), r[s][<<x, z>>]>>
    BY <2>4, LeafFrom
  <2>6. vs = ys
    <3>1. Append(ys, y) = Append(vs, z)
      BY <2>2, <2>5
    <3> QED BY ONLY <3>1, AppendSame, vs \in Seq(Output), ys \in Seq(Output), y \in Output, z \in Output
  <2> QED BY <2>5, <2>6 DEF OutputsOf
<1> QED BY <1>1, <1>2

(* What a trace distinguishes, its extensions do. *)
LEMMA DifferAppend ==
  ASSUME NEW r \in Machines, Complete(r), NEW p \in State, NEW q \in State,
         NEW t \in Seq(Input), NEW x \in Input, Differ(r, p, q, t)
  PROVE  Differ(r, p, q, Append(t, x))
<1>1. OutputsOf(r, p, t) =
        {ys \in Seq(Output) : \E y \in Output : Append(ys, y) \in OutputsOf(r, p, Append(t, x))}
  BY OutputsOfAppend
<1>2. OutputsOf(r, q, t) =
        {ys \in Seq(Output) : \E y \in Output : Append(ys, y) \in OutputsOf(r, q, Append(t, x))}
  BY OutputsOfAppend
<1>3. OutputsOf(r, p, Append(t, x)) = OutputsOf(r, q, Append(t, x)) => OutputsOf(r, p, t) = OutputsOf(r, q, t)
  BY <1>1, <1>2
<1> QED BY <1>3 DEF Differ

(***************************************************************************)
(* The OFSM tables.                                                        *)
(***************************************************************************)
LEMMA TableIs ==
  /\ Table[0] = State \X State
  /\ \A k \in 0 .. numStates - 1 : Table[k + 1] = Refined(Table[k])
<1> DEFINE Is(f, n) == f = [k \in 0 .. n |-> IF k = 0 THEN State \X State ELSE Refined(f[k - 1])]
           A == {n \in Nat : \E f : Is(f, n)}
<1>0. numStates \in Nat \ {0}
  BY NumStatesAssumption
<1>1. 0 \in A
  <2> DEFINE f == [k \in 0 .. 0 |-> State \X State]
  <2>1. Is(f, 0)
    OBVIOUS
  <2> QED BY <2>1
<1>2. ASSUME NEW n \in Nat, n \in A PROVE n + 1 \in A
  <2>1. PICK f : Is(f, n)
    BY <1>2
  <2> DEFINE h == [k \in 0 .. n + 1 |-> IF k <= n THEN f[k] ELSE Refined(f[n])]
  <2>2. \A k \in 0 .. n : f[k] = IF k = 0 THEN State \X State ELSE Refined(f[k - 1])
    BY <2>1
  <2>3. ASSUME NEW k \in 0 .. n + 1
        PROVE  h[k] = IF k = 0 THEN State \X State ELSE Refined(h[k - 1])
    <3>1. CASE k <= n
      <4>1. k \in 0 .. n /\ h[k] = f[k] /\ (k # 0 => h[k - 1] = f[k - 1])
        BY <3>1
      <4> QED BY <2>2, <4>1
    <3>2. CASE k = n + 1
      BY <3>2
    <3> QED BY <3>1, <3>2
  <2>4. Is(h, n + 1)
    <3>1. h = [k \in 0 .. n + 1 |-> h[k]]
      OBVIOUS
    <3> HIDE DEF h
    <3> QED BY <2>3, <3>1
  <2> HIDE DEF Is
  <2> QED BY <2>4
<1> HIDE DEF A
<1>3. numStates \in A
  BY <1>0, <1>1, <1>2, SetInduction
<1>4. \E f : Is(f, numStates)
  BY <1>3 DEF A
<1>5. Is(Table, numStates)
  BY <1>4 DEF Table
<1>6. \A k \in 0 .. numStates : Table[k] = IF k = 0 THEN State \X State ELSE Refined(Table[k - 1])
  BY <1>5
<1>7. Table[0] = State \X State
  BY <1>0, <1>6
<1>8. ASSUME NEW k \in 0 .. numStates - 1 PROVE Table[k + 1] = Refined(Table[k])
  <2>1. k + 1 \in 0 .. numStates /\ k + 1 # 0 /\ (k + 1) - 1 = k
    BY <1>0
  <2> QED BY <1>6, <2>1
<1> QED BY <1>7, <1>8

Identity2 == {<<q, q>> : q \in State}

(* \pre of getCharacterisationSet *)
MinimalRows == rows \in Machines /\ Table[numStates] = Identity2

(* Tables only get smaller. *)
LEMMA TablesDescend ==
  /\ \A k \in 0 .. numStates - 1 : Table[k + 1] \subseteq Table[k]
  /\ \A k \in 1 .. numStates : Table[k] \subseteq Table[1]
<1>0. numStates \in Nat \ {0}
  BY NumStatesAssumption
<1>1. \A k \in 0 .. numStates - 1 : Table[k + 1] \subseteq Table[k]
  BY TableIs DEF Refined
<1> DEFINE A == {n \in Nat : n + 1 <= numStates => Table[n + 1] \subseteq Table[1]}
<1>2. 0 \in A
  OBVIOUS
<1>3. ASSUME NEW n \in Nat, n \in A PROVE n + 1 \in A
  <2> SUFFICES ASSUME (n + 1) + 1 <= numStates PROVE Table[(n + 1) + 1] \subseteq Table[1]
    OBVIOUS
  <2>1. n + 1 \in 0 .. numStates - 1 /\ n + 1 <= numStates
    BY <1>0
  <2>2. Table[n + 1] \subseteq Table[1]
    BY <1>3, <2>1
  <2> QED BY <1>1, <2>1, <2>2
<1> HIDE DEF A
<1>4. Nat \subseteq A
  BY <1>2, <1>3, SetInduction
<1>5. ASSUME NEW k \in 1 .. numStates PROVE Table[k] \subseteq Table[1]
  <2>1. k - 1 \in Nat /\ (k - 1) + 1 = k
    OBVIOUS
  <2> QED BY <1>4, <2>1 DEF A
<1> QED BY <1>1, <1>5

(* No table below the identity separates less, so the last one separates all. *)
LEMMA LastTableIs ==
  ASSUME MinimalRows
  PROVE  LastTable \in 1 .. numStates /\ Table[LastTable] = Identity2
<1>0. numStates \in Nat \ {0}
  BY NumStatesAssumption
<1>1. Refined(Table[numStates]) = Table[numStates]
  <2>1. Table[numStates] = Identity2
    BY DEF MinimalRows
  <2>2. ASSUME NEW s \in State, NEW l \in Label PROVE rows[s][l] >= 0 => <<rows[s][l], rows[s][l]>> \in Identity2
    <3>1. rows[s][l] \in State \cup {-1}
      BY DEF MinimalRows, Machines
    <3>2. CASE rows[s][l] = -1
      <4>1. ~(-1 >= 0)
        OBVIOUS
      <4> QED BY <3>2, <4>1
    <3>3. CASE rows[s][l] \in State
      BY <3>3 DEF Identity2
    <3> QED BY <3>1, <3>2, <3>3
  <2>3. \A pq \in Identity2 : pq[1] = pq[2] /\ pq[1] \in State
    BY DEF Identity2
  <2> QED BY <2>1, <2>2, <2>3 DEF Refined
<1> DEFINE T == {k \in 1 .. numStates : Refined(Table[k]) = Table[k]}
<1>2. PICK k \in T : \A n \in T : k <= n
  <2>1. numStates \in T
    BY <1>0, <1>1
  <2>2. T \subseteq Nat
    BY <1>0
  <2> HIDE DEF T
  <2> QED BY <2>1, <2>2, LeastElement
<1>3. \E n \in 1 .. numStates : /\ Refined(Table[n]) = Table[n]
                                /\ \A m \in 1 .. n - 1 : Refined(Table[m]) # Table[m]
  <2>1. ASSUME NEW m \in 1 .. k - 1 PROVE m \notin T
    BY <1>0, <1>2
  <2>2. \A m \in 1 .. k - 1 : m \in 1 .. numStates
    BY <1>0
  <2> QED BY <1>2, <2>1, <2>2
<1>4. LastTable \in 1 .. numStates /\ Refined(Table[LastTable]) = Table[LastTable]
  BY <1>3 DEF LastTable
<1> DEFINE L == LastTable
           A == {n \in Nat : L + n <= numStates => Table[L + n] = Table[L]}
<1>5. L \in 1 .. numStates /\ Refined(Table[L]) = Table[L]
  BY <1>4
<1> HIDE DEF L
<1>6. 0 \in A
  BY <1>5
<1>7. ASSUME NEW n \in Nat, n \in A PROVE n + 1 \in A
  <2> SUFFICES ASSUME L + (n + 1) <= numStates PROVE Table[L + (n + 1)] = Table[L]
    OBVIOUS
  <2>1. L + n \in 0 .. numStates - 1 /\ L + n <= numStates /\ L + (n + 1) = (L + n) + 1
    BY <1>0, <1>5
  <2>2. Table[L + n] = Table[L]
    BY <1>7, <2>1
  <2>3. Table[(L + n) + 1] = Refined(Table[L + n])
    BY <2>1, TableIs
  <2> QED BY <1>5, <2>1, <2>2, <2>3
<1> HIDE DEF A
<1>8. Nat \subseteq A
  BY <1>6, <1>7, SetInduction
<1>9. numStates - L \in Nat /\ L + (numStates - L) = numStates
  BY <1>0, <1>5
<1>10. Table[numStates] = Table[L]
  <2>1. numStates - L \in A
    BY <1>8, <1>9
  <2>2. L + (numStates - L) <= numStates => Table[L + (numStates - L)] = Table[L]
    BY <2>1 DEF A
  <2> QED BY <1>0, <1>9, <2>2
<1> QED BY <1>5, <1>10 DEF MinimalRows, L

(***************************************************************************)
(* The loops of calcDistinguishingTrace: tables tau = l - 1, ..., 1, and   *)
(* for each of them the inputs in order.  The pair that is looked at is    *)
(* separated by table tau + 1, and from the moment it was moved under      *)
(* table tau also by that one; as long as it was not, no input tried so    *)
(* far leads to a pair that table tau separates.                           *)
(***************************************************************************)
TablesKnown == ofsmTableLst = [k \in 0 .. LastTable |-> Table[k]]

Separates(c, tau, x) ==
  \E y \in Output : /\ rows[c.q1][<<x, y>>] \in State
                    /\ rows[c.q2][<<x, y>>] \in State
                    /\ <<rows[c.q1][<<x, y>>], rows[c.q2][<<x, y>>]>> \notin Table[tau]

BothReached(p, q, c) ==
  /\ c.q1 \in State /\ c.q2 \in State /\ c.itrc \in Seq(Input)
  /\ \E ys \in Seq(Output) : /\ Len(ys) = Len(c.itrc)
                             /\ <<ys, c.q1>> \in LeavesOf(rows, p, c.itrc)
                             /\ <<ys, c.q2>> \in LeavesOf(rows, q, c.itrc)

LoopInv(p, q, c, tau, xi) ==
  /\ BothReached(p, q, c)
  /\ <<c.q1, c.q2>> \notin Table[tau + 1]
  /\ \/ <<c.q1, c.q2>> \notin Table[tau]
     \/ \A x \in Input : x < xi => ~Separates(c, tau, x)

(* One round of the loop keeps the invariant of the search. *)
LEMMA MoveStep ==
  ASSUME MinimalRows, TablesKnown, NEW p \in State, NEW q \in State, NEW c,
         NEW tau \in 1 .. LastTable - 1, NEW x \in Input, LoopInv(p, q, c, tau, x)
  PROVE  LoopInv(p, q, MovePair(rows, ofsmTableLst, c, tau, x), tau, x + 1)
<1> DEFINE d == MovePair(rows, ofsmTableLst, c, tau, x)
           Post(s, y) == rows[s][<<x, y>>]
           ys == {y \in Output : /\ Post(c.q1, y) >= 0
                                 /\ Post(c.q2, y) >= 0
                                 /\ <<Post(c.q1, y), Post(c.q2, y)>> \notin ofsmTableLst[tau]}
<1>0. LastTable \in Nat /\ LastTable <= numStates /\ numStates \in Nat
  BY LastTableIs, NumStatesAssumption
<1>1. ofsmTableLst[tau] = Table[tau]
  BY <1>0 DEF TablesKnown
<1>2. rows \in Machines /\ c.q1 \in State /\ c.q2 \in State
  BY DEF MinimalRows, LoopInv, BothReached
<1>3. \A y \in Output : /\ Post(c.q1, y) >= 0 <=> Post(c.q1, y) \in State
                        /\ Post(c.q2, y) >= 0 <=> Post(c.q2, y) \in State
  BY <1>2, PostFacts
<1>4. \A y : y \in ys <=> /\ y \in Output
                          /\ Post(c.q1, y) \in State /\ Post(c.q2, y) \in State
                          /\ <<Post(c.q1, y), Post(c.q2, y)>> \notin Table[tau]
  BY <1>1, <1>3
<1>5. d = IF ys = {} THEN c
          ELSE [q1 |-> Post(c.q1, Min(ys)), q2 |-> Post(c.q2, Min(ys)), itrc |-> Append(c.itrc, x)]
  BY DEF MovePair
<1> HIDE DEF ys, d
<1>6. CASE ys = {}
  <2>1. d = c
    BY <1>5, <1>6
  <2>2. ~Separates(c, tau, x)
    BY <1>4, <1>6 DEF Separates
  <2>3. \A z \in Input : z < x + 1 => z < x \/ z = x
    BY StateFacts
  <2> QED BY <2>1, <2>2, <2>3 DEF LoopInv, d
<1>7. CASE ys # {}
  <2> DEFINE y == Min(ys)
  <2>1. y \in ys
    <3>1. ys \subseteq Nat
      BY <1>4, StateFacts
    <3> QED BY <1>7, <3>1, MinOf
  <2> HIDE DEF y
  <2>2. /\ y \in Output
        /\ Post(c.q1, y) \in State /\ Post(c.q2, y) \in State
        /\ <<Post(c.q1, y), Post(c.q2, y)>> \notin Table[tau]
    BY <1>4, <2>1
  <2>3. d.q1 = Post(c.q1, y) /\ d.q2 = Post(c.q2, y) /\ d.itrc = Append(c.itrc, x)
    BY <1>5, <1>7 DEF y
  <2>4. <<d.q1, d.q2>> \notin Table[tau]
    BY <2>2, <2>3
  <2>5. <<d.q1, d.q2>> \notin Table[tau + 1]
    BY <1>0, <2>4, TablesDescend
  <2>6. BothReached(p, q, d)
    <3>1. PICK zs \in Seq(Output) : /\ Len(zs) = Len(c.itrc)
                                    /\ <<zs, c.q1>> \in LeavesOf(rows, p, c.itrc)
                                    /\ <<zs, c.q2>> \in LeavesOf(rows, q, c.itrc)
      BY DEF LoopInv, BothReached
    <3>2. c.itrc \in Seq(Input)
      BY DEF LoopInv, BothReached
    <3>3. <<Append(zs, y), Post(c.q1, y)>> \in LeavesOf(rows, p, Append(c.itrc, x))
      BY <1>2, <2>2, <3>1, <3>2, LeafGrows
    <3>4. <<Append(zs, y), Post(c.q2, y)>> \in LeavesOf(rows, q, Append(c.itrc, x))
      BY <1>2, <2>2, <3>1, <3>2, LeafGrows
    <3>5. /\ Append(zs, y) \in Seq(Output) /\ Append(c.itrc, x) \in Seq(Input)
          /\ Len(Append(zs, y)) = Len(Append(c.itrc, x))
      BY <2>2, <3>1, <3>2
    <3> QED BY <2>2, <2>3, <3>3, <3>4, <3>5 DEF BothReached
  <2> QED BY <2>4, <2>5, <2>6 DEF LoopInv, d
<1> QED BY <1>6, <1>7

(* At the end of a round over all inputs, table tau separates the pair. *)
LEMMA NextTable ==
  ASSUME MinimalRows, NEW p \in State, NEW q \in State, NEW c, NEW tau \in 1 .. numStates - 1,
         LoopInv(p, q, c, tau, maxInput + 1)
  PROVE  LoopInv(p, q, c, tau - 1, 0)
<1> DEFINE s1 == c.q1
           s2 == c.q2
<1>0. numStates \in Nat \ {0} /\ (tau - 1) + 1 = tau /\ tau \in 0 .. numStates - 1 /\ tau \in 1 .. numStates
  BY NumStatesAssumption
<1>1. rows \in Machines /\ s1 \in State /\ s2 \in State
  BY DEF MinimalRows, LoopInv, BothReached
<1>2. \A x \in Input : x < maxInput + 1 /\ ~(x < 0)
  BY AlphabetAssumption DEF Input
<1>3. ASSUME <<s1, s2>> \in Table[tau] PROVE FALSE
  <2>1. \A x \in Input : ~Separates(c, tau, x)
    BY <1>2, <1>3 DEF LoopInv
  <2>2. <<s1, s2>> \in Refined(Table[0])
    <3>1. <<s1, s2>> \in Table[1]
      BY <1>0, <1>3, TablesDescend
    <3>2. 0 \in 0 .. numStates - 1 /\ 0 + 1 = 1
      BY <1>0
    <3> QED BY <3>1, <3>2, TableIs
  <2>3. <<s1, s2>> \notin Refined(Table[tau])
    <3>1. Table[tau + 1] = Refined(Table[tau])
      BY <1>0, TableIs
    <3> QED BY <3>1 DEF LoopInv
  <2>4. \A l \in Label : rows[s1][l] >= 0 <=> rows[s2][l] >= 0
    BY <2>2 DEF Refined
  <2>5. PICK l \in Label : rows[s1][l] >= 0 /\ <<rows[s1][l], rows[s2][l]>> \notin Table[tau]
    BY <1>3, <2>3, <2>4 DEF Refined
  <2>6. PICK x \in Input, y \in Output : l = <<x, y>>
    BY DEF Label
  <2>7. rows[s1][<<x, y>>] \in State /\ rows[s2][<<x, y>>] \in State
    BY <1>1, <2>4, <2>5, <2>6, PostFacts
  <2> QED BY <2>1, <2>5, <2>6, <2>7 DEF Separates
<1> QED BY <1>0, <1>2, <1>3 DEF LoopInv

(* The last input makes the difference. *)
LEMMA LastInputDistinguishes ==
  ASSUME MinimalRows, NEW p \in State, NEW q \in State, NEW c, LoopInv(p, q, c, 0, 0)
  PROVE  /\ LastInputs(rows, c) # {}
         /\ Min(LastInputs(rows, c)) \in Input
         /\ Append(c.itrc, Min(LastInputs(rows, c))) \in Seq(Input)
         /\ Differ(rows, p, q, Append(c.itrc, Min(LastInputs(rows, c))))
<1> DEFINE s1 == c.q1
           s2 == c.q2
           xs == LastInputs(rows, c)
           x == Min(xs)
           t == c.itrc
<1>0. numStates \in Nat \ {0} /\ 0 + 1 = 1 /\ 0 \in 0 .. numStates - 1
  BY NumStatesAssumption
<1>1. rows \in Machines /\ s1 \in State /\ s2 \in State /\ t \in Seq(Input)
  BY DEF MinimalRows, LoopInv, BothReached
<1>2. <<s1, s2>> \notin Refined(State \X State)
  <2>1. Table[0 + 1] = Refined(Table[0]) /\ Table[0] = State \X State
    BY <1>0, TableIs
  <2>2. <<s1, s2>> \notin Table[0 + 1]
    BY DEF LoopInv
  <2> QED BY <2>1, <2>2
<1>3. PICK l \in Label : ~(rows[s1][l] >= 0 <=> rows[s2][l] >= 0)
  <2>1. PICK l \in Label : ~(/\ rows[s1][l] >= 0 <=> rows[s2][l] >= 0
                             /\ rows[s1][l] >= 0 => <<rows[s1][l], rows[s2][l]>> \in State \X State)
    BY <1>1, <1>2 DEF Refined
  <2>2. PICK x1 \in Input, y1 \in Output : l = <<x1, y1>>
    BY DEF Label
  <2>3. (rows[s1][l] >= 0 <=> rows[s1][l] \in State) /\ (rows[s2][l] >= 0 <=> rows[s2][l] \in State)
    BY <1>1, <2>2, PostFacts
  <2> QED BY <2>1, <2>3
<1>4. PICK x0 \in Input, y0 \in Output : l = <<x0, y0>>
  BY DEF Label
<1>5. xs \subseteq Input /\ xs # {}
  BY <1>3, <1>4 DEF LastInputs
<1>6. x \in xs
  <2>1. xs \subseteq Nat
    BY <1>5, StateFacts
  <2> HIDE DEF xs
  <2> QED BY <1>5, <2>1, MinOf
<1>7. x \in Input /\ \E y \in Output : (rows[s1][<<x, y>>] >= 0) # (rows[s2][<<x, y>>] >= 0)
  BY <1>6 DEF LastInputs
<1> HIDE DEF x, xs
<1>8. PICK y \in Output : (rows[s1][<<x, y>>] >= 0) # (rows[s2][<<x, y>>] >= 0)
  BY <1>7
<1>9. \/ rows[s1][<<x, y>>] \in State /\ rows[s2][<<x, y>>] \notin State
      \/ rows[s2][<<x, y>>] \in State /\ rows[s1][<<x, y>>] \notin State
  <2>1. (rows[s1][<<x, y>>] >= 0 <=> rows[s1][<<x, y>>] \in State) /\ (rows[s2][<<x, y>>] >= 0 <=> rows[s2][<<x, y>>] \in State)
    BY <1>1, <1>7, PostFacts
  <2> QED BY <1>8, <2>1
<1>10. PICK ys \in Seq(Output) : Len(ys) = Len(t) /\ <<ys, s1>> \in LeavesOf(rows, p, t) /\ <<ys, s2>> \in LeavesOf(rows, q, t)
  BY DEF LoopInv, BothReached
<1> DEFINE u == Append(t, x)
           zs == Append(ys, y)
<1>11. ASSUME NEW a \in State, NEW s \in State, <<ys, s>> \in LeavesOf(rows, a, t), rows[s][<<x, y>>] \in State
       PROVE  zs \in OutputsOf(rows, a, u)
  <2>1. <<zs, rows[s][<<x, y>>]>> \in LeavesOf(rows, a, u)
    BY <1>1, <1>7, <1>11, LeafGrows
  <2> QED BY <2>1 DEF OutputsOf
<1>12. ASSUME NEW a \in State, NEW s \in State, <<ys, s>> \in LeavesOf(rows, a, t), rows[s][<<x, y>>] \notin State
       PROVE  zs \notin OutputsOf(rows, a, u)
  <2> SUFFICES ASSUME zs \in OutputsOf(rows, a, u) PROVE FALSE
    OBVIOUS
  <2>1. PICK g \in LeavesOf(rows, a, u) : g[1] = zs
    BY DEF OutputsOf
  <2>2. Len(g[1]) = Len(t) + 1
    BY <1>10, <2>1
  <2>3. PICK vs \in Seq(Output), b \in State, z \in Output :
          /\ <<vs, b>> \in LeavesOf(rows, a, t) /\ Len(vs) = Len(t)
          /\ rows[b][<<x, z>>] \in State
          /\ g = <<Append(vs, z), rows[b][<<x, z>>]>>
    BY <1>1, <1>7, <2>2, LeafFrom
  <2>4. Append(vs, z) = Append(ys, y)
    BY <2>1, <2>3
  <2>5. vs = ys
    BY <2>4, AppendSame
  <2>6. z = y
    BY <2>4, AppendSame
  <2>7. b = s
    BY <1>1, <1>10, <1>12, <2>3, <2>5, LeafUnique
  <2> QED BY <1>12, <2>3, <2>6, <2>7
<1>13. u \in Seq(Input)
  BY <1>1, <1>7
<1>14. Differ(rows, p, q, u)
  BY <1>1, <1>9, <1>10, <1>11, <1>12 DEF Differ
<1> QED BY <1>5, <1>7, <1>13, <1>14 DEF xs, x

(***************************************************************************)
(* Rounds: the table and the input of each of them.                        *)
(***************************************************************************)
LEMMA DivIs ==
  ASSUME NEW M \in Nat \ {0}, NEW j \in Nat
  PROVE  j \div M \in Nat /\ j % M \in 0 .. M - 1 /\ j = M * (j \div M) + (j % M)
OBVIOUS

(* Products with a natural, one step up. *)
LEMMA TimesStep ==
  ASSUME NEW M \in Nat \ {0}, NEW a \in Int, NEW b \in Int, a < b
  PROVE  M * a + M <= M * b
<1>1. b - a - 1 \in Nat
  OBVIOUS
<1>2. M * (b - a - 1) \in Nat
  BY <1>1
<1>3. M * (b - a - 1) = M * b - M * a - M
  OBVIOUS
<1>4. M * a \in Int /\ M * b \in Int
  OBVIOUS
<1> QED BY ONLY <1>2, <1>3, <1>4, M \in Nat

(* Quotient and remainder are determined by their equation. *)
LEMMA DivUnique ==
  ASSUME NEW M \in Nat \ {0}, NEW a \in Nat, NEW b \in 0 .. M - 1
  PROVE  (M * a + b) \div M = a /\ (M * a + b) % M = b
OBVIOUS

(* counting on: the next input, or the first one of the next table *)
LEMMA DivNext ==
  ASSUME NEW M \in Nat \ {0}, NEW j \in Nat
  PROVE  /\ j % M # M - 1 => (j + 1) \div M = j \div M /\ (j + 1) % M = (j % M) + 1
         /\ j % M = M - 1 => (j + 1) \div M = (j \div M) + 1 /\ (j + 1) % M = 0
<1> DEFINE a == j \div M
           b == j % M
<1>1. a \in Nat /\ b \in 0 .. M - 1 /\ j = M * a + b
  BY DivIs
<1> HIDE DEF a, b
<1>2. ASSUME b # M - 1 PROVE (j + 1) \div M = a /\ (j + 1) % M = b + 1
  <2>1. b + 1 \in 0 .. M - 1 /\ j + 1 = M * a + (b + 1)
    <3>1. M * a \in Nat
      BY <1>1
    <3> QED BY <1>1, <1>2, <3>1
  <2> QED BY <1>1, <2>1, DivUnique
<1>3. ASSUME b = M - 1 PROVE (j + 1) \div M = a + 1 /\ (j + 1) % M = 0
  <2>1. M * (a + 1) = M * a + M
    BY <1>1
  <2>2. j + 1 = M * (a + 1) + 0 /\ 0 \in 0 .. M - 1 /\ a + 1 \in Nat
    <3>1. M * a \in Nat
      BY <1>1
    <3> QED BY <1>1, <1>3, <2>1, <3>1
  <2> DEFINE k == M * (a + 1) + 0
  <2>3. k \div M = a + 1 /\ k % M = 0
    BY <2>2, DivUnique
  <2>4. j + 1 = k
    BY <2>2
  <2> HIDE DEF k
  <2> QED BY <2>3, <2>4
<1> QED BY <1>2, <1>3 DEF a, b

(* Quotients of the positions of the rounds. *)
LEMMA DivBelow ==
  ASSUME NEW M \in Nat \ {0}, NEW n \in Nat, NEW j \in Nat, j < n * M
  PROVE  j \div M < n
<1> DEFINE a == j \div M
<1>1. a \in Nat /\ M * a <= j /\ M * a \in Nat
  <2>1. a \in Nat /\ j % M \in Nat /\ j = M * a + (j % M)
    BY DivIs
  <2>2. M * a \in Nat
    BY <2>1
  <2> HIDE DEF a
  <2> QED BY <2>1, <2>2
<1> HIDE DEF a
<1>2. M * n = n * M /\ M * n \in Nat
  OBVIOUS
<1>3. ASSUME n <= a PROVE FALSE
  <2>1. CASE n = a
    BY <1>1, <1>2, <2>1
  <2>2. CASE n < a
    <3>1. M * n + M <= M * a
      BY <1>1, <2>2, TimesStep
    <3> QED BY ONLY <1>1, <1>2, <3>1, j < n * M, M \in Nat, n \in Nat, j \in Nat
  <2> QED BY <1>1, <1>3, <2>1, <2>2
<1> QED BY <1>1, <1>3 DEF a

(* The rounds: which table and which input each looks at. *)
LEMMA RoundsAre ==
  ASSUME NEW l \in Nat \ {0}
  PROVE  LET N == (l - 1) * (maxInput + 1)
         IN  /\ N \in Nat
             /\ Rounds(l) \in Seq(Int \X Int \cup [t : Int, x : Int])
             /\ Len(Rounds(l)) = N
             /\ \A i \in 0 .. N - 1 :
                  Rounds(l)[i + 1] = [t |-> l - 1 - (i \div (maxInput + 1)), x |-> i % (maxInput + 1)]
<1> DEFINE M == maxInput + 1
           N == (l - 1) * M
           S == Int \X Int \cup [t : Int, x : Int]
<1>1. M \in Nat \ {0} /\ l - 1 \in Nat
  BY AlphabetAssumption
<1> HIDE DEF M
<1>2. N \in Nat
  BY <1>1
<1> HIDE DEF N
<1>3. Rounds(l) = [i \in 1 .. N |-> [t |-> l - 1 - ((i - 1) \div M), x |-> (i - 1) % M]]
  BY DEF Rounds, M, N
<1>4. ASSUME NEW i \in 1 .. N PROVE [t |-> l - 1 - ((i - 1) \div M), x |-> (i - 1) % M] \in S
  <2>1. i - 1 \in Nat
    BY <1>2
  <2>2. (i - 1) \div M \in Int /\ (i - 1) % M \in Int
    BY <1>1, <2>1, DivIs
  <2>3. l - 1 - ((i - 1) \div M) \in Int
    BY <2>2
  <2> QED BY <2>2, <2>3
<1>5. Rounds(l) \in Seq(S) /\ Len(Rounds(l)) = N
  <2> HIDE DEF S
  <2> QED BY <1>2, <1>3, <1>4
<1>6. ASSUME NEW i \in 0 .. N - 1
      PROVE  Rounds(l)[i + 1] = [t |-> l - 1 - (i \div M), x |-> i % M]
  <2>1. i + 1 \in 1 .. N /\ (i + 1) - 1 = i
    BY <1>2
  <2> QED BY <1>3, <2>1
<1> QED BY <1>2, <1>5, <1>6 DEF M, N, S

(***************************************************************************)
(* The trace that calcDistinguishingTrace returns.                         *)
(***************************************************************************)
LEMMA FirstSeparatingIs ==
  ASSUME MinimalRows, TablesKnown, NEW p \in State, NEW q \in State, p # q
  PROVE  FirstSeparating(p, q) \in 1 .. LastTable /\ <<p, q>> \notin Table[FirstSeparating(p, q)]
<1> DEFINE L == LastTable
           ls == {l \in 1 .. L : <<p, q>> \notin ofsmTableLst[l]}
<1>1. L \in Nat \ {0} /\ Table[L] = Identity2
  BY LastTableIs, NumStatesAssumption
<1>2. DOMAIN ofsmTableLst = 0 .. L /\ \A l \in 1 .. L : ofsmTableLst[l] = Table[l]
  BY <1>1 DEF TablesKnown
<1> HIDE DEF L
<1>3. Max(0 .. L) = L
  <2>1. L \in 0 .. L /\ \A y \in 0 .. L : L >= y
    BY <1>1
  <2>2. Max(0 .. L) \in 0 .. L /\ \A y \in 0 .. L : Max(0 .. L) >= y
    BY <2>1 DEF Max
  <2>3. Max(0 .. L) >= L /\ Max(0 .. L) <= L
    BY <2>1, <2>2
  <2> QED BY <1>1, <2>2, <2>3
<1>4. L \in ls
  <2>1. <<p, q>> \notin Identity2
    BY DEF Identity2
  <2> QED BY <1>1, <1>2, <2>1
<1>5. Min(ls) \in ls
  <2>1. ls \subseteq Nat
    OBVIOUS
  <2> HIDE DEF ls
  <2> QED BY <1>4, <2>1, MinOf
<1>6. FirstSeparating(p, q) = Min(ls)
  <2>1. FirstSeparating(p, q) = IF ls = {} THEN L + 1 ELSE Min(ls)
    BY <1>2, <1>3 DEF FirstSeparating
  <2> HIDE DEF ls
  <2> QED BY <1>4, <2>1
<1> QED BY <1>2, <1>5, <1>6 DEF L

(***************************************************************************)
(* The loops over tables and inputs end with a pair that the last input    *)
(* separates.                                                              *)
(***************************************************************************)
LEMMA LoopEnds ==
  ASSUME MinimalRows, TablesKnown, NEW p \in State, NEW q \in State, p # q
  PROVE  LoopInv(p, q, MovedPair(rows, ofsmTableLst, p, q, Rounds(FirstSeparating(p, q))), 0, 0)
<1> DEFINE l == FirstSeparating(p, q)
           M == maxInput + 1
           N == (l - 1) * M
           rs == Rounds(l)
           m == <<"move", rows, ofsmTableLst>>
           base == [q1 |-> p, q2 |-> q, itrc |-> << >>]
<1>1. l \in 1 .. LastTable /\ <<p, q>> \notin Table[l]
  BY FirstSeparatingIs
<1>2. LastTable \in Nat /\ LastTable <= numStates /\ numStates \in Nat
  BY LastTableIs, NumStatesAssumption
<1> HIDE DEF l
<1>3. M \in Nat \ {0} /\ l - 1 \in Nat /\ l \in Nat \ {0}
  BY <1>1, <1>2, AlphabetAssumption
<1>4. /\ N \in Nat
      /\ rs \in Seq(Int \X Int \cup [t : Int, x : Int])
      /\ Len(rs) = N
      /\ \A i \in 0 .. N - 1 : rs[i + 1] = [t |-> l - 1 - (i \div M), x |-> i % M]
  BY <1>3, RoundsAre
<1> HIDE DEF rs, m, base
<1>5. PICK f : IsRun(f, m, base, rs)
  BY <1>4, RunExists
<1>6. Follows(f, m, base, rs, N)
  BY <1>4, <1>5, RunFollows
<1>7. f[N] = RunOf(m, base, rs)
  BY <1>4, <1>6, RunIs
<1> DEFINE Good(i) == LoopInv(p, q, f[i], l - 1 - (i \div M), i % M)
           A == {i \in Nat : i <= N => Good(i)}
<1>8. 0 \in A
  <2>1. 0 \div M = 0 /\ 0 % M = 0
    <3>1. 0 \in 0 .. M - 1 /\ M * 0 + 0 = 0
      BY <1>3
    <3> QED BY <1>3, <3>1, DivUnique
  <2>2. f[0] = base
    BY <1>6 DEF Follows
  <2>3. BothReached(p, q, base)
    <3>1. << >> \in Seq(Output) /\ << >> \in Seq(Input)
      OBVIOUS
    <3>2. <<<< >>, p>> \in LeavesOf(rows, p, << >>) /\ <<<< >>, q>> \in LeavesOf(rows, q, << >>)
      BY LeavesEmpty
    <3>3. base.q1 = p /\ base.q2 = q /\ base.itrc = << >>
      BY DEF base
    <3> QED BY <3>1, <3>2, <3>3 DEF BothReached
  <2>4. LoopInv(p, q, base, l - 1, 0)
    <3>1. (l - 1) + 1 = l /\ \A x \in Input : ~(x < 0)
      BY <1>3, StateFacts
    <3>2. base.q1 = p /\ base.q2 = q
      BY DEF base
    <3> QED BY <1>1, <2>3, <3>1, <3>2 DEF LoopInv
  <2>5. l - 1 - (0 \div M) = l - 1
    BY <1>3, <2>1
  <2>6. Good(0)
    BY <2>1, <2>2, <2>4, <2>5
  <2> QED BY <2>6
<1>9. ASSUME NEW i \in Nat, i \in A PROVE i + 1 \in A
  <2> SUFFICES ASSUME i + 1 <= N PROVE Good(i + 1)
    OBVIOUS
  <2>1. i \in 0 .. N - 1 /\ i <= N /\ i < N
    BY <1>4
  <2> DEFINE a == i \div M
             xi == i % M
             tau == l - 1 - a
  <2>2. a \in Nat /\ xi \in 0 .. M - 1
    BY <1>3, DivIs
  <2>3. a < l - 1
    BY <1>3, <2>1, DivBelow
  <2>4. tau \in 1 .. LastTable - 1 /\ tau \in 1 .. numStates - 1 /\ xi \in Input
    <3>1. l <= LastTable /\ LastTable <= numStates /\ l \in Nat /\ LastTable \in Nat /\ numStates \in Nat
      BY <1>1, <1>2, <1>3
    <3>2. xi \in Input
      <4>1. M - 1 = maxInput
        BY AlphabetAssumption
      <4> HIDE DEF xi, M
      <4> QED BY <2>2, <4>1 DEF Input
    <3> HIDE DEF a, xi, M
    <3>3. 1 <= l - 1 - a /\ l - 1 - a <= LastTable - 1 /\ l - 1 - a <= numStates - 1 /\ l - 1 - a \in Int
      BY <2>2, <2>3, <3>1
    <3> QED BY <3>1, <3>2, <3>3
  <2>5. LoopInv(p, q, f[i], tau, xi)
    BY <1>9, <2>1
  <2>6. f[i + 1] = MovePair(rows, ofsmTableLst, f[i], tau, xi)
    <3>1. f[i + 1] = StepOf(m, f[i], rs[i + 1])
      BY <1>6, <2>1 DEF Follows
    <3>2. rs[i + 1].t = tau /\ rs[i + 1].x = xi
      <4>1. rs[i + 1] = [t |-> tau, x |-> xi]
        BY <1>4, <2>1
      <4> HIDE DEF tau, xi
      <4> QED BY <4>1
    <3>3. StepOf(m, f[i], rs[i + 1]) = MovePair(rows, ofsmTableLst, f[i], rs[i + 1].t, rs[i + 1].x)
      BY StepCases DEF m
    <3> QED BY <3>1, <3>2, <3>3
  <2>7. LoopInv(p, q, f[i + 1], tau, xi + 1)
    <3> HIDE DEF a, xi, tau
    <3> QED BY <2>4, <2>5, <2>6, MoveStep
  <2>8. CASE xi # M - 1
    <3>1. (i + 1) \div M = a /\ (i + 1) % M = xi + 1
      BY <1>3, <2>8, DivNext
    <3> QED BY <2>7, <3>1
  <2>9. CASE xi = M - 1
    <3>1. (i + 1) \div M = a + 1 /\ (i + 1) % M = 0
      BY <1>3, <2>9, DivNext
    <3>2. xi + 1 = maxInput + 1 /\ l - 1 - (a + 1) = tau - 1
      BY <1>3, <2>2, <2>9 DEF M
    <3>3. LoopInv(p, q, f[i + 1], tau, maxInput + 1)
      BY <2>7, <3>2
    <3>4. LoopInv(p, q, f[i + 1], tau - 1, 0)
      <4> HIDE DEF tau
      <4> QED BY <2>4, <3>3, NextTable
    <3> QED BY <3>1, <3>2, <3>4
  <2> QED BY <2>8, <2>9
<1> HIDE DEF A
<1>10. N \in A
  BY <1>4, <1>8, <1>9, SetInduction
<1>11. Good(N)
  BY <1>4, <1>10 DEF A
<1>12. N \div M = l - 1 /\ N % M = 0
  <2>1. N = M * (l - 1) + 0 /\ 0 \in 0 .. M - 1
    BY <1>3
  <2> QED BY <1>3, <2>1, DivUnique
<1>13. LoopInv(p, q, f[N], 0, 0)
  <2>1. l - 1 - (N \div M) = 0
    BY <1>3, <1>12
  <2> QED BY <1>11, <1>12, <2>1
<1> QED BY <1>7, <1>13 DEF MovedPair, rs, m, base, l

(***************************************************************************)
(* The trace that calcDistinguishingTrace reads off the tables             *)
(* distinguishes the states.                                               *)
(***************************************************************************)
LEMMA CalcDistinguishes ==
  ASSUME MinimalRows, TablesKnown, NEW p \in State, NEW q \in State, p # q
  PROVE  /\ calcDistinguishingTrace(p, q) \in Seq(Input)
         /\ Differ(rows, p, q, calcDistinguishingTrace(p, q))
         /\ Distinguished(p, q, calcDistinguishingTrace(p, q))
<1> DEFINE l == FirstSeparating(p, q)
           c == MovedPair(rows, ofsmTableLst, p, q, Rounds(l))
           t == calcDistinguishingTrace(p, q)
           xs == LastInputs(rows, c)
<1>1. l \in Nat \ {0}
  <2>1. l \in 1 .. LastTable
    BY FirstSeparatingIs
  <2>2. LastTable \in Int
    BY LastTableIs, NumStatesAssumption
  <2> HIDE DEF l
  <2> QED BY <2>1, <2>2
<1>2. Rounds(l) \in Seq(Int \X Int \cup [t : Int, x : Int])
  BY <1>1, RoundsAre
<1>3. t = IF xs = {} THEN c.itrc ELSE Append(c.itrc, Min(xs))
  BY <1>2, CalcIs
<1>4. LoopInv(p, q, c, 0, 0)
  BY LoopEnds
<1> HIDE DEF c, t
<1>5. xs # {} /\ Append(c.itrc, Min(xs)) \in Seq(Input) /\ Differ(rows, p, q, Append(c.itrc, Min(xs)))
  BY <1>4, LastInputDistinguishes
<1> HIDE DEF xs
<1>6. t \in Seq(Input) /\ Differ(rows, p, q, t)
  BY <1>3, <1>5
<1>7. Distinguished(p, q, t)
  BY <1>6, OutputsAre DEF Distinguished, Differ
<1> QED BY <1>6, <1>7 DEF t

(***************************************************************************)
(* Prefixes, and the tree of traces w.                                     *)
(***************************************************************************)
LEMMA PrefixIs ==
  ASSUME NEW s \in Seq(Input), NEW t \in Seq(Input)
  PROVE  IsPrefix(s, t) <=> Len(s) <= Len(t) /\ \A i \in 1 .. Len(s) : s[i] = t[i]
<1>1. ASSUME Len(s) <= Len(t)
      PROVE  SubSeq(s, 1, Len(s)) = SubSeq(t, 1, Len(s)) <=> \A i \in 1 .. Len(s) : s[i] = t[i]
  <2> DEFINE a == SubSeq(s, 1, Len(s))
             b == SubSeq(t, 1, Len(s))
  <2>1. /\ a \in Seq(Input) /\ Len(a) = Len(s) /\ \A i \in 1 .. Len(s) : a[i] = s[i]
        /\ b \in Seq(Input) /\ Len(b) = Len(s) /\ \A i \in 1 .. Len(s) : b[i] = t[i]
    BY <1>1
  <2> HIDE DEF a, b
  <2>2. a = b <=> \A i \in 1 .. Len(s) : a[i] = b[i]
    BY <2>1, SeqEqual
  <2> QED BY <2>1, <2>2
<1> QED BY <1>1 DEF IsPrefix

(* Being a prefix is a partial order. *)
LEMMA PrefixOrder ==
  /\ \A s \in Seq(Input) : IsPrefix(s, s)
  /\ \A s, t \in Seq(Input) : IsPrefix(s, t) /\ IsPrefix(t, s) => s = t
  /\ \A s, t, u \in Seq(Input) : IsPrefix(s, t) /\ IsPrefix(t, u) => IsPrefix(s, u)
<1>1. \A s \in Seq(Input) : IsPrefix(s, s)
  BY PrefixIs
<1>2. ASSUME NEW s \in Seq(Input), NEW t \in Seq(Input), IsPrefix(s, t), IsPrefix(t, s) PROVE s = t
  <2>1. Len(s) <= Len(t) /\ Len(t) <= Len(s) /\ \A i \in 1 .. Len(s) : s[i] = t[i]
    BY <1>2, PrefixIs
  <2>2. Len(s) = Len(t)
    BY <2>1
  <2> QED BY <2>1, <2>2, SeqEqual
<1>3. ASSUME NEW s \in Seq(Input), NEW t \in Seq(Input), NEW u \in Seq(Input), IsPrefix(s, t), IsPrefix(t, u)
      PROVE  IsPrefix(s, u)
  <2>1. Len(s) <= Len(t) /\ \A i \in 1 .. Len(s) : s[i] = t[i]
    BY <1>3, PrefixIs
  <2>2. Len(t) <= Len(u) /\ \A i \in 1 .. Len(t) : t[i] = u[i]
    BY <1>3, PrefixIs
  <2>3. Len(s) <= Len(u) /\ \A i \in 1 .. Len(s) : s[i] = u[i]
    BY <2>1, <2>2
  <2> QED BY <2>3, PrefixIs
<1> QED BY <1>1, <1>2, <1>3

(* The prefixes of an extension. *)
LEMMA PrefixOfAppend ==
  ASSUME NEW s \in Seq(Input), NEW t \in Seq(Input), NEW x \in Input, IsPrefix(s, Append(t, x))
  PROVE  s = Append(t, x) \/ IsPrefix(s, t)
<1> DEFINE u == Append(t, x)
<1>1. u \in Seq(Input) /\ Len(u) = Len(t) + 1 /\ \A i \in 1 .. Len(t) : u[i] = t[i]
  OBVIOUS
<1>2. Len(s) <= Len(u) /\ \A i \in 1 .. Len(s) : s[i] = u[i]
  BY <1>1, PrefixIs
<1> HIDE DEF u
<1>3. CASE Len(s) = Len(u)
  BY <1>1, <1>2, <1>3, SeqEqual DEF u
<1>4. CASE Len(s) <= Len(t)
  <2>1. \A i \in 1 .. Len(s) : s[i] = t[i]
    BY <1>1, <1>2, <1>4
  <2> QED BY <1>4, <2>1, PrefixIs
<1> QED BY <1>1, <1>2, <1>3, <1>4

(* What a trace distinguishes, a longer one does. *)
LEMMA DifferPrefix ==
  ASSUME NEW r \in Machines, Complete(r), NEW p \in State, NEW q \in State,
         NEW s \in Seq(Input), NEW t \in Seq(Input), IsPrefix(s, t), Differ(r, p, q, s)
  PROVE  Differ(r, p, q, t)
<1> DEFINE P(u) == IsPrefix(s, u) => Differ(r, p, q, u)
           A == {u \in Seq(Input) : P(u)}
<1>1. << >> \in A
  <2>1. << >> \in Seq(Input)
    OBVIOUS
  <2>2. ASSUME IsPrefix(s, << >>) PROVE s = << >>
    <3>1. Len(s) <= Len(<< >>)
      BY <2>1, <2>2, PrefixIs
    <3> QED BY <3>1, EmptySeq
  <2> QED BY <2>1, <2>2
<1>2. ASSUME NEW u \in Seq(Input), NEW x \in Input, u \in A PROVE Append(u, x) \in A
  <2>1. Append(u, x) \in Seq(Input)
    OBVIOUS
  <2>2. ASSUME IsPrefix(s, Append(u, x)) PROVE Differ(r, p, q, Append(u, x))
    <3>1. CASE s = Append(u, x)
      BY <3>1
    <3>2. CASE IsPrefix(s, u)
      <4>1. Differ(r, p, q, u)
        BY <1>2, <3>2
      <4> QED BY <4>1, DifferAppend
    <3> QED BY <2>2, <3>1, <3>2, PrefixOfAppend
  <2> QED BY <2>1, <2>2
<1> HIDE DEF A
<1>3. t \in A
  BY <1>1, <1>2, SeqInduction
<1> QED BY <1>3 DEF A

Antichain(T) == \A s, t \in T : IsPrefix(s, t) => s = t

(* No trace of the tree is lost but to a longer one. *)
LEMMA AddToRootKeeps ==
  ASSUME NEW T, T \subseteq Seq(Input), Antichain(T), NEW t \in Seq(Input)
  PROVE  /\ AddToRoot(T, t) \subseteq Seq(Input)
         /\ Antichain(AddToRoot(T, t))
         /\ \A s \in T \cup {t} : \E u \in AddToRoot(T, t) : IsPrefix(s, u)
<1> DEFINE W == T \cup {t}
<1>1. W \subseteq Seq(Input)
  OBVIOUS
<1>2. \A u : u \in AddToRoot(T, t) <=> u \in W /\ \A v \in W : IsPrefix(u, v) => u = v
  BY DEF AddToRoot
<1>3. Antichain(AddToRoot(T, t)) /\ AddToRoot(T, t) \subseteq Seq(Input)
  BY <1>1, <1>2 DEF Antichain
<1>4. \E u \in AddToRoot(T, t) : IsPrefix(t, u)
  <2>1. CASE \A v \in W : IsPrefix(t, v) => t = v
    BY <1>2, <2>1, PrefixOrder
  <2>2. CASE \E v \in W : IsPrefix(t, v) /\ t # v
    <3>1. PICK v \in T : IsPrefix(t, v) /\ t # v
      BY <2>2
    <3>2. ASSUME NEW z \in W, IsPrefix(v, z) PROVE v = z
      <4>1. CASE z \in T
        BY <3>2, <4>1 DEF Antichain
      <4>2. CASE z = t
        BY <1>1, <3>1, <3>2, <4>2, PrefixOrder
      <4> QED BY <4>1, <4>2
    <3> QED BY <1>2, <3>1, <3>2
  <2> QED BY <2>1, <2>2
<1>5. ASSUME NEW s \in T PROVE \E u \in AddToRoot(T, t) : IsPrefix(s, u)
  <2>1. CASE \A v \in W : IsPrefix(s, v) => s = v
    BY <1>1, <1>2, <2>1, PrefixOrder
  <2>2. CASE \E v \in W : IsPrefix(s, v) /\ s # v
    <3>1. IsPrefix(s, t)
      BY <2>2 DEF Antichain
    <3>2. PICK u \in AddToRoot(T, t) : IsPrefix(t, u)
      BY <1>4
    <3>3. u \in Seq(Input) /\ s \in Seq(Input)
      BY <1>3
    <3> QED BY <3>1, <3>2, <3>3, PrefixOrder
  <2> QED BY <2>1, <2>2
<1> QED BY <1>3, <1>4, <1>5

(***************************************************************************)
(* The pairs of states that the loop of getCharacterisationSet has passed. *)
(***************************************************************************)
Passed(p, q) == p < left \/ (p = left /\ q < right) \/ pc \notin {"tables", "pairs"}

Separated(p, q, T) == \E t \in T : Differ(rows, p, q, t)

(* what the two phases of the calculation keep *)
Control ==
  /\ pc \in {"tables", "pairs", "sets", "fast", "done"}
  /\ left \in Nat
  /\ right \in Nat
  /\ w \subseteq Seq(Input)
  /\ Antichain(w)
  /\ pc = "tables" => left = 0 /\ right = 1
  /\ pc \in {"tables", "pairs"} =>
       /\ left < right
       /\ right <= numStates
       /\ right = numStates => left = numStates - 1

PassedSeparated ==
  Complete(rows) => \A p, q \in State : p < q /\ Passed(p, q) => Separated(p, q, w)

PairsInv ==
  /\ MinimalRows
  /\ Control
  /\ pc # "tables" => TablesKnown
  /\ PassedSeparated

(* Distinguished, in terms of the folds. *)
LEMMA DistinguishedIs ==
  ASSUME NEW p, NEW q, NEW T, T \subseteq Seq(Input)
  PROVE  /\ \A t \in T : Distinguished(p, q, t) <=> Differ(rows, p, q, t)
         /\ DistinguishedBy(p, q, T) <=> Separated(p, q, T)
<1>1. ASSUME NEW t \in T PROVE Distinguished(p, q, t) <=> Differ(rows, p, q, t)
  <2>1. t \in Seq(Input)
    OBVIOUS
  <2>2. Outputs(p, t) = OutputsOf(rows, p, t) /\ Outputs(q, t) = OutputsOf(rows, q, t)
    BY <2>1, OutputsAre
  <2> QED BY <2>2 DEF Distinguished, Differ
<1> QED BY <1>1 DEF DistinguishedBy, Separated

(* The FSM does not change. *)
LEMMA RowsStay == [Next]_vars => rows' = rows
BY DEF Next, vars, CalcOFSMTables, SkipPair, AddTrace, PairsDone, SelectSet, TryTrace, SetsDone, Done

(* The tables are those of the FSM, and the FSM does not change. *)
LEMMA SameTables ==
  ASSUME rows' = rows
  PROVE  /\ Table' = Table
         /\ LastTable' = LastTable
         /\ MinimalRows => MinimalRows'
         /\ ofsmTableLst' = ofsmTableLst /\ TablesKnown => TablesKnown'
<1>1. Table' = Table
  BY DEF Table, Refined
<1>2. LastTable' = LastTable
  BY <1>1 DEF LastTable, Refined
<1>3. MinimalRows => MinimalRows'
  BY <1>1 DEF MinimalRows
<1>4. ofsmTableLst' = ofsmTableLst /\ TablesKnown => TablesKnown'
  BY <1>1, <1>2 DEF TablesKnown
<1> QED BY <1>1, <1>2, <1>3, <1>4

(* The invariant holds at the start. *)
LEMMA InitPairsInv == Init => PairsInv
<1> SUFFICES ASSUME Init PROVE PairsInv
  OBVIOUS
<1>1. MinimalRows
  BY RowsAssumption DEF Init, MinimalRows, Machines, Identity2
<1>2. Control
  <2>1. << >> \in Seq(Input)
    OBVIOUS
  <2>2. Antichain(w)
    BY DEF Init, Antichain
  <2> QED BY <2>1, <2>2, NumStatesAssumption DEF Init, Control
<1>3. PassedSeparated
  <2>1. \A p, q \in State : p < q => ~Passed(p, q)
    BY NumStatesAssumption DEF Init, Passed, State
  <2> QED BY <2>1 DEF PassedSeparated
<1> QED BY <1>1, <1>2, <1>3 DEF PairsInv, Init

(* which pairs are passed when the loop goes on *)
LEMMA NextPairIs ==
  ASSUME Control, pc = "pairs", right < numStates, NextPair, pc' = pc
  PROVE  /\ left' \in Nat /\ right' \in Nat
         /\ left' < right' /\ right' <= numStates
         /\ right' = numStates => left' = numStates - 1
         /\ \A p, q \in State : p < q /\ Passed(p, q)' => Passed(p, q) \/ (p = left /\ q = right)
         /\ left \in State /\ right \in State /\ left # right
<1> USE NumStatesAssumption DEF Control
<1>1. CASE right + 1 < numStates
  BY <1>1 DEF NextPair, Passed, State
<1>2. CASE ~(right + 1 < numStates)
  BY <1>2 DEF NextPair, Passed, State
<1> QED BY <1>1, <1>2

(* Steps that pass no further pair, or only a separated one. *)
LEMMA PassedUnchanged ==
  ASSUME PassedSeparated, rows' = rows, w' = w,
         \A p, q \in State : p < q /\ Passed(p, q)' => Passed(p, q) \/ Separated(p, q, w)
  PROVE  PassedSeparated'
BY DEF PassedSeparated, Separated

(* Every step keeps it. *)
LEMMA StepPairsInv == PairsInv /\ [Next]_vars => PairsInv'
<1> SUFFICES ASSUME PairsInv, [Next]_vars PROVE PairsInv'
  OBVIOUS
<1> USE NumStatesAssumption
<1>a. rows' = rows
  BY DEF Next, vars, CalcOFSMTables, SkipPair, AddTrace, PairsDone, SelectSet, TryTrace, SetsDone, Done
<1>b. MinimalRows'
  BY <1>a, SameTables DEF PairsInv
<1>1. CASE CalcOFSMTables
  <2> USE <1>1 DEF CalcOFSMTables
  <2>1. TablesKnown'
    BY <1>a, SameTables DEF TablesKnown
  <2>2. Control'
    BY DEF PairsInv, Control, Antichain
  <2>3. PassedSeparated'
    BY <1>a, PassedUnchanged DEF PairsInv, Passed
  <2> QED BY <1>b, <2>1, <2>2, <2>3 DEF PairsInv
<1>2. CASE SkipPair
  <2> USE <1>2 DEF SkipPair
  <2>1. TablesKnown'
    BY <1>a, SameTables DEF PairsInv
  <2>2. Control'
    BY NextPairIs DEF PairsInv, Control, Antichain
  <2>3. PassedSeparated'
    <3>1. Separated(left, right, w)
      BY DistinguishedIs DEF PairsInv, Control
    <3>2. \A p, q \in State : p < q /\ Passed(p, q)' => Passed(p, q) \/ Separated(p, q, w)
      BY <3>1, NextPairIs DEF PairsInv
    <3> QED BY <1>a, <3>2, PassedUnchanged DEF PairsInv
  <2> QED BY <1>b, <2>1, <2>2, <2>3 DEF PairsInv
<1>3. CASE AddTrace
  <2> USE <1>3 DEF AddTrace
  <2> DEFINE t == calcDistinguishingTrace(left, right)
  <2>1. TablesKnown'
    BY <1>a, SameTables DEF PairsInv
  <2>2. left \in State /\ right \in State /\ left # right
    BY NextPairIs DEF PairsInv
  <2>3. t \in Seq(Input) /\ Differ(rows, left, right, t)
    BY <2>2, CalcDistinguishes DEF PairsInv
  <2> HIDE DEF t
  <2>4. /\ w' \subseteq Seq(Input)
        /\ Antichain(w')
        /\ \A s \in w \cup {t} : \E u \in w' : IsPrefix(s, u)
    BY <2>3, AddToRootKeeps DEF PairsInv, Control, t
  <2>5. Control'
    BY <2>4, NextPairIs DEF PairsInv, Control, Antichain
  <2>6. ASSUME Complete(rows), NEW p \in State, NEW q \in State, NEW s \in w \cup {t}, Differ(rows, p, q, s)
        PROVE  Separated(p, q, w)'
    <3>1. PICK u \in w' : IsPrefix(s, u)
      BY <2>4
    <3>2. rows \in Machines /\ s \in Seq(Input) /\ u \in Seq(Input)
      BY <2>3, <2>4 DEF PairsInv, MinimalRows, Control
    <3>3. Differ(rows, p, q, u)
      BY <2>6, <3>1, <3>2, DifferPrefix
    <3> QED BY <1>a, <3>3 DEF Separated
  <2>7. PassedSeparated'
    <3> SUFFICES ASSUME Complete(rows), NEW p \in State, NEW q \in State, p < q, Passed(p, q)'
                 PROVE  Separated(p, q, w)'
      BY <1>a DEF PassedSeparated
    <3>1. Passed(p, q) \/ (p = left /\ q = right)
      BY NextPairIs DEF PairsInv
    <3>2. CASE Passed(p, q)
      <4>1. PICK s \in w : Differ(rows, p, q, s)
        BY <3>2 DEF PairsInv, PassedSeparated, Separated
      <4> QED BY <2>6, <4>1
    <3>3. CASE p = left /\ q = right
      BY <2>3, <2>6, <3>3
    <3> QED BY <3>1, <3>2, <3>3
  <2> QED BY <1>b, <2>1, <2>5, <2>7 DEF PairsInv
<1>4. CASE PairsDone
  <2> USE <1>4 DEF PairsDone
  <2>1. TablesKnown'
    BY <1>a, SameTables DEF PairsInv
  <2>2. Control'
    BY DEF PairsInv, Control, Antichain
  <2>3. \A p, q \in State : p < q => Passed(p, q)
    BY DEF PairsInv, Control, Passed, State
  <2>4. PassedSeparated'
    BY <1>a, <2>3, PassedUnchanged DEF PairsInv
  <2> QED BY <1>b, <2>1, <2>2, <2>4 DEF PairsInv
<1>5. CASE SelectSet \/ TryTrace \/ SetsDone \/ UNCHANGED vars
  <2>1. /\ ofsmTableLst' = ofsmTableLst /\ w' = w /\ right' = right
        /\ pc # "tables" => pc' # "tables"
        /\ pc' # "tables" => pc # "tables"
    BY <1>5 DEF SelectSet, TryTrace, SetsDone, vars
  <2>2. TablesKnown /\ pc # "tables" => TablesKnown'
    BY <1>a, <2>1, SameTables
  <2>3. Control'
    <3>1. Antichain(w)'
      BY <2>1 DEF PairsInv, Control, Antichain
    <3>2. CASE UNCHANGED vars
      BY <3>1, <3>2 DEF PairsInv, Control, vars
    <3>3. CASE SetsDone
      BY <3>1, <3>3 DEF PairsInv, Control, SetsDone
    <3>4. CASE SelectSet
      BY <3>1, <3>4 DEF PairsInv, Control, SelectSet
    <3>5. CASE TryTrace
      <4>1. left' \in Nat
        BY <3>5 DEF PairsInv, Control, TryTrace
      <4> QED BY <3>1, <3>5, <4>1 DEF PairsInv, Control, TryTrace
    <3> QED BY <1>5, <3>2, <3>3, <3>4, <3>5
  <2>4. \A p, q \in State : p < q /\ Passed(p, q)' => Passed(p, q)
    BY <1>5 DEF SelectSet, TryTrace, SetsDone, vars, Passed
  <2>5. PassedSeparated'
    BY <1>a, <2>1, <2>4, PassedUnchanged DEF PairsInv
  <2> QED BY <1>b, <2>1, <2>2, <2>3, <2>5 DEF PairsInv
<1> QED BY <1>1, <1>2, <1>3, <1>4, <1>5 DEF Next, Done

(* It implies the property. *)
LEMMA PairsInvImplies == PairsInv => PairsDistinguished
<1> SUFFICES ASSUME PairsInv PROVE PairsDistinguished
  OBVIOUS
<1>1. TracesDistinguish
  <2> SUFFICES ASSUME pc = "pairs", NEW p \in State, NEW q \in State, p # q
               PROVE  Distinguished(p, q, calcDistinguishingTrace(p, q))
    BY DEF TracesDistinguish
  <2> QED BY CalcDistinguishes DEF PairsInv
<1>2. PassedPairsDistinguished
  <2> SUFFICES ASSUME Complete(rows), NEW p \in State, NEW q \in State, p < q, Passed(p, q)
               PROVE  DistinguishedBy(p, q, w)
    BY DEF PassedPairsDistinguished, Passed, CompletelySpecified, Complete
  <2>1. Separated(p, q, w)
    BY DEF PairsInv, PassedSeparated
  <2> QED BY <2>1, DistinguishedIs DEF PairsInv, Control
<1> QED BY <1>1, <1>2 DEF PairsDistinguished

(***************************************************************************)
(* The trace read off the OFSM tables distinguishes its two states, and a  *)
(* pair that the loop of getCharacterisationSet has passed remains         *)
(* distinguished by the set: for every observable, minimal FSM.            *)
(***************************************************************************)
THEOREM PairsAreDistinguished == Spec => []PairsDistinguished
<1>1. Init => PairsInv
  BY InitPairsInv
<1>2. PairsInv /\ [Next]_vars => PairsInv'
  BY StepPairsInv
<1>3. PairsInv => PairsDistinguished
  BY PairsInvImplies
<1> QED BY <1>1, <1>2, <1>3, PTL DEF Spec

(***************************************************************************)
(* The identification sets.                                                *)
(***************************************************************************)
Identified(p) == \A q \in State \ {p} : Separated(p, q, identification[p])

(* the fast variant: what it has noted, what it has completed, and what it *)
(* knows of state left                                                     *)
NotedSeparated ==
  \A p, q \in State : p # q /\ {p, q} \in distinguish => Separated(p, q, identification[p])

EarlierNoted == \A p, q \in State : p < left /\ p < q => {p, q} \in distinguish

OpenNotSeparated ==
  \A q \in State : left \in State /\ left < q /\ {left, q} \notin distinguish => ~Separated(left, q, w \ todo)

SetsInv ==
  /\ identification \in [State -> SUBSET Seq(Input)]
  /\ pc \in {"tables", "pairs"} => distinguish = {}
  /\ pc \notin {"tables", "pairs"} => left <= numStates /\ todo \subseteq w
  /\ Complete(rows) =>
       /\ pc = "sets" => \A p \in State : p < left => Identified(p)
       /\ pc = "fast" => NotedSeparated /\ EarlierNoted /\ OpenNotSeparated
       /\ pc = "done" => \A p \in State : Identified(p)

(* Distinguishing is symmetric. *)
LEMMA DifferSymmetric == \A r, p, q, t : Differ(r, p, q, t) <=> Differ(r, q, p, t)
BY DEF Differ

(* after the loop over the pairs, w separates all *)
LEMMA AllSeparated ==
  ASSUME PairsInv, Complete(rows), pc \notin {"tables", "pairs"},
         NEW p \in State, NEW q \in State, p # q
  PROVE  Separated(p, q, w)
<1>1. CASE p < q
  BY <1>1 DEF PairsInv, PassedSeparated, Passed
<1>2. CASE q < p
  <2>1. Separated(q, p, w)
    BY <1>2 DEF PairsInv, PassedSeparated, Passed
  <2> QED BY <2>1, DifferSymmetric DEF Separated
<1> QED BY <1>1, <1>2, NumStatesAssumption DEF State

(* What the hitting set calculation may answer. *)
LEMMA HittingSetTyped ==
  ASSUME NEW T, NEW zs, \A z \in zs : z \subseteq T, NEW h \in MinHittingSets(zs)
  PROVE  h \subseteq T /\ ({} \notin zs => Hits(h, zs))
BY DEF MinHittingSets

(* The invariant of the identification sets holds at the start. *)
LEMMA InitSetsInv == Init => SetsInv
BY DEF Init, SetsInv

(* calcStateIdentificationSets: one state. *)
LEMMA SelectSetKeeps ==
  ASSUME PairsInv, SetsInv, SelectSet, rows' = rows
  PROVE  SetsInv'
<1> USE NumStatesAssumption DEF SelectSet
<1> DEFINE zs == {{t \in w : Distinguished(left, j, t)} : j \in State \ {left}}
<1>1. left \in State /\ w \subseteq Seq(Input)
  BY DEF PairsInv, Control, State
<1>2. PICK h \in MinHittingSets(zs) : identification' = [identification EXCEPT ![left] = h]
  OBVIOUS
<1>3. h \subseteq w /\ ({} \notin zs => Hits(h, zs))
  <2>1. \A z \in zs : z \subseteq w
    OBVIOUS
  <2> HIDE DEF zs
  <2> QED BY <2>1, HittingSetTyped
<1>4. /\ identification' \in [State -> SUBSET Seq(Input)]
      /\ identification'[left] = h
      /\ \A p \in State \ {left} : identification'[p] = identification[p]
  BY <1>1, <1>2, <1>3 DEF SetsInv
<1>5. ASSUME Complete(rows), NEW q \in State \ {left} PROVE Separated(left, q, h)
  <2>1. \A j \in State \ {left} : {t \in w : Distinguished(left, j, t)} # {}
    <3> SUFFICES ASSUME NEW j \in State \ {left} PROVE \E t \in w : Distinguished(left, j, t)
      OBVIOUS
    <3>1. Separated(left, j, w)
      BY <1>1, <1>5, AllSeparated
    <3> QED BY <1>1, <3>1, DistinguishedIs DEF DistinguishedBy
  <2>2. Hits(h, zs)
    BY <1>3, <2>1
  <2>3. h \cap {t \in w : Distinguished(left, q, t)} # {}
    BY <2>2 DEF Hits
  <2>4. PICK t \in w : t \in h /\ Distinguished(left, q, t)
    BY <2>3
  <2> QED BY <1>1, <2>4, DistinguishedIs DEF Separated
<1>6. ASSUME Complete(rows), NEW p \in State, p < left' PROVE Identified(p)'
  <2>1. CASE p = left
    <3>1. \A q \in State \ {p} : \E t \in identification'[p] : Differ(rows, p, q, t)
      BY <1>4, <1>5, <1>6, <2>1 DEF Separated
    <3> QED BY <3>1 DEF Identified, Separated
  <2>2. CASE p # left
    <3>1. Identified(p)
      BY <1>1, <1>6, <2>2 DEF SetsInv, State
    <3> QED BY <1>4, <2>2, <3>1 DEF Identified, Separated
  <2> QED BY <2>1, <2>2
<1>7. left' <= numStates /\ todo' \subseteq w' /\ pc' = "sets"
  BY <1>1 DEF SetsInv, State
<1> QED BY <1>4, <1>6, <1>7 DEF SetsInv

(* calcStateIdentificationSetsFast: one state and one trace. *)
LEMMA TryTraceKeeps ==
  ASSUME PairsInv, SetsInv, TryTrace, rows' = rows
  PROVE  SetsInv'
<1> USE NumStatesAssumption
<1> DEFINE others == {j \in State : j > left /\ {left, j} \notin distinguish}
           new(t) == {j \in others : Distinguished(left, j, t)}
<1>1. /\ left \in State /\ w \subseteq Seq(Input) /\ todo \subseteq w /\ pc = "fast" /\ pc' = pc /\ w' = w
      /\ identification \in [State -> SUBSET Seq(Input)]
  BY DEF PairsInv, Control, State, TryTrace, SetsInv
<1>2. PICK t \in todo :
        /\ distinguish' = distinguish \cup {{left, j} : j \in new(t)}
        /\ identification' = [q \in State |->
             IF q \in new(t) \/ (q = left /\ new(t) # {}) THEN identification[q] \cup {t}
             ELSE identification[q]]
        /\ IF new(t) = others \/ todo = {t}
           THEN left' = left + 1 /\ todo' = w
           ELSE left' = left /\ todo' = todo \ {t}
  BY DEF TryTrace
<1> DEFINE nw == new(t)
<1>3. t \in Seq(Input) /\ \A j : j \in nw <=> j \in others /\ Differ(rows, left, j, t)
  BY <1>1, DistinguishedIs
<1>4. \A j : j \in nw => j \in State /\ left < j
  BY <1>1 DEF State
<1> HIDE DEF nw
<1>5. identification' \in [State -> SUBSET Seq(Input)]
  BY <1>1, <1>2, <1>3 DEF nw
<1>6. \A q \in State : identification[q] \subseteq identification'[q]
  BY <1>2
<1>7. left' <= numStates /\ todo' \subseteq w'
  <2>1. left + 1 <= numStates
    BY <1>1 DEF State
  <2> QED BY <1>1, <1>2, <2>1
<1>8. ASSUME Complete(rows) PROVE NotedSeparated'
  <2> SUFFICES ASSUME NEW p \in State, NEW q \in State, p # q, {p, q} \in distinguish'
               PROVE  \E s \in identification'[p] : Differ(rows, p, q, s)
    BY DEF NotedSeparated, Separated
  <2>1. CASE {p, q} \in distinguish
    <3>1. Separated(p, q, identification[p])
      BY <1>1, <1>8, <2>1 DEF SetsInv, NotedSeparated
    <3> QED BY <1>6, <3>1 DEF Separated
  <2>2. CASE {p, q} \notin distinguish
    <3>1. PICK j \in nw : {p, q} = {left, j}
      BY <1>2, <2>2 DEF nw
    <3>2. Differ(rows, left, j, t) /\ Differ(rows, j, left, t)
      BY <1>3, DifferSymmetric
    <3>3. t \in identification'[left] /\ t \in identification'[j]
      BY <1>1, <1>2, <1>4, <3>1 DEF nw
    <3>4. (p = left /\ q = j) \/ (p = j /\ q = left)
      BY <2>2, <3>1
    <3> QED BY <3>2, <3>3, <3>4
  <2> QED BY <2>1, <2>2
<1>9. ASSUME Complete(rows), new(t) = others \/ todo = {t}
      PROVE  \A q \in State : left < q => {left, q} \in distinguish'
  <2> SUFFICES ASSUME NEW q \in State, left < q, {left, q} \notin distinguish' PROVE FALSE
    OBVIOUS
  <2>1. {left, q} \notin distinguish /\ q \notin nw /\ q \in others
    BY <1>1, <1>2 DEF nw
  <2>2. todo = {t}
    BY <1>9, <2>1 DEF nw
  <2>3. ~Separated(left, q, w \ todo) /\ ~Differ(rows, left, q, t)
    BY <1>1, <1>3, <1>9, <2>1 DEF SetsInv, OpenNotSeparated
  <2>4. Separated(left, q, w)
    BY <1>1, <1>9, AllSeparated DEF State
  <2> QED BY <2>2, <2>3, <2>4 DEF Separated
<1>10. ASSUME Complete(rows) PROVE EarlierNoted'
  <2> SUFFICES ASSUME NEW p \in State, NEW q \in State, p < left', p < q PROVE {p, q} \in distinguish'
    BY DEF EarlierNoted
  <2>1. CASE p < left
    BY <1>1, <1>2, <1>10, <2>1 DEF SetsInv, EarlierNoted
  <2>2. CASE ~(p < left)
    <3>1. p = left /\ (new(t) = others \/ todo = {t})
      BY <1>1, <1>2, <2>2 DEF State
    <3> QED BY <1>9, <1>10, <3>1
  <2> QED BY <2>1, <2>2
<1>11. ASSUME Complete(rows) PROVE OpenNotSeparated'
  <2> SUFFICES ASSUME NEW q \in State, left' < q, {left', q} \notin distinguish'
               PROVE  ~\E s \in w \ todo' : Differ(rows, left', q, s)
    BY <1>1 DEF OpenNotSeparated, Separated
  <2>1. CASE new(t) = others \/ todo = {t}
    BY <1>2, <2>1
  <2>2. CASE ~(new(t) = others \/ todo = {t})
    <3>1. left' = left /\ todo' = todo \ {t}
      BY <1>2, <2>2
    <3>2. {left, q} \notin distinguish /\ q \notin nw /\ q \in others
      BY <1>1, <1>2, <3>1 DEF nw, State
    <3>3. ~Separated(left, q, w \ todo) /\ ~Differ(rows, left, q, t)
      BY <1>1, <1>3, <1>11, <3>1, <3>2 DEF SetsInv, OpenNotSeparated
    <3> QED BY <3>1, <3>3 DEF Separated
  <2> QED BY <2>1, <2>2
<1> QED BY <1>1, <1>5, <1>7, <1>8, <1>10, <1>11 DEF SetsInv

(* Either calculation ends with a set for each state. *)
LEMMA SetsDoneKeeps ==
  ASSUME PairsInv, SetsInv, SetsDone, rows' = rows
  PROVE  SetsInv'
<1> USE NumStatesAssumption DEF SetsDone
<1>1. ASSUME Complete(rows), NEW p \in State, NEW q \in State, p # q
      PROVE  Separated(p, q, identification[p])
  <2>1. CASE pc = "sets"
    <3>1. Identified(p)
      BY <1>1, <2>1 DEF SetsInv, State
    <3> QED BY <1>1, <3>1 DEF Identified
  <2>2. CASE pc = "fast"
    <3>1. {p, q} \in distinguish
      <4>1. CASE p < q
        BY <1>1, <2>2, <4>1 DEF SetsInv, EarlierNoted, State
      <4>2. CASE q < p
        <5>1. {q, p} \in distinguish
          BY <1>1, <2>2, <4>2 DEF SetsInv, EarlierNoted, State
        <5>2. {q, p} = {p, q}
          OBVIOUS
        <5> QED BY <5>1, <5>2
      <4> QED BY <1>1, <4>1, <4>2 DEF State
    <3> QED BY <1>1, <2>2, <3>1 DEF SetsInv, NotedSeparated
  <2> QED BY <2>1, <2>2
<1>2. Complete(rows) => \A p \in State : Identified(p)'
  BY <1>1 DEF Identified, Separated
<1> QED BY <1>2 DEF SetsInv

(* Every step keeps the invariant. *)
LEMMA StepSetsInv == PairsInv /\ SetsInv /\ [Next]_vars => SetsInv'
<1> SUFFICES ASSUME PairsInv, SetsInv, [Next]_vars PROVE SetsInv'
  OBVIOUS
<1> USE NumStatesAssumption
<1>a. rows' = rows
  BY DEF Next, vars, CalcOFSMTables, SkipPair, AddTrace, PairsDone, SelectSet, TryTrace, SetsDone, Done
<1>1. CASE CalcOFSMTables \/ SkipPair \/ AddTrace
  BY <1>1 DEF SetsInv, CalcOFSMTables, SkipPair, AddTrace
<1>2. CASE PairsDone
  <2> USE <1>2 DEF PairsDone
  <2>1. pc' = "sets" \/ pc' = "fast"
    OBVIOUS
  <2>2. /\ left' = 0 /\ todo' = w /\ w' = w /\ distinguish' = {}
        /\ identification' = identification /\ identification \in [State -> SUBSET Seq(Input)]
    BY DEF SetsInv
  <2>3. \A p \in State : ~(p < 0)
    BY DEF State
  <2>4. NotedSeparated' /\ EarlierNoted'
    BY <2>2, <2>3 DEF NotedSeparated, EarlierNoted
  <2>5. OpenNotSeparated'
    BY <2>2 DEF OpenNotSeparated, Separated
  <2> QED BY <2>1, <2>2, <2>3, <2>4, <2>5 DEF SetsInv
<1>3. CASE SelectSet
  BY <1>a, <1>3, SelectSetKeeps
<1>4. CASE TryTrace
  BY <1>a, <1>4, TryTraceKeeps
<1>5. CASE SetsDone
  BY <1>a, <1>5, SetsDoneKeeps
<1>6. CASE UNCHANGED vars
  <2> USE <1>6 DEF vars
  <2>1. \A p \in State : Identified(p) => Identified(p)'
    BY DEF Identified, Separated
  <2>2. /\ NotedSeparated => NotedSeparated'
        /\ EarlierNoted => EarlierNoted'
        /\ OpenNotSeparated => OpenNotSeparated'
    BY DEF NotedSeparated, EarlierNoted, OpenNotSeparated, Separated
  <2> QED BY <2>1, <2>2 DEF SetsInv
<1> QED BY <1>1, <1>2, <1>3, <1>4, <1>5, <1>6 DEF Next, Done

(* It implies the property. *)
LEMMA SetsInvImplies == PairsInv /\ SetsInv => SetsIdentify
<1> SUFFICES ASSUME PairsInv, SetsInv, pc = "done", Complete(rows),
                    NEW p \in State, NEW q \in State, p # q
             PROVE  DistinguishedBy(p, q, identification[p])
  BY DEF SetsIdentify, CompletelySpecified, Complete
<1>1. identification[p] \subseteq Seq(Input)
  BY DEF SetsInv
<1>2. Separated(p, q, identification[p])
  BY DEF SetsInv, Identified
<1> QED BY <1>1, <1>2, DistinguishedIs

(***************************************************************************)
(* The identification set of a state of a completely specified FSM         *)
(* distinguishes it from all others, whichever way it was selected.        *)
(***************************************************************************)
THEOREM SetsAreIdentifying == Spec => []SetsIdentify
<1>1. Init => PairsInv /\ SetsInv
  BY InitPairsInv, InitSetsInv
<1>2. PairsInv /\ SetsInv /\ [Next]_vars => PairsInv' /\ SetsInv'
  BY StepPairsInv, StepSetsInv
<1>3. PairsInv /\ SetsInv => SetsIdentify
  BY SetsInvImplies
<1> QED BY <1>1, <1>2, <1>3, PTL DEF Spec

(***************************************************************************)
(* The modules that use the sets take only steps of CharacterisationSet.   *)
(***************************************************************************)
THEOREM SuitesUseTheSets == SuiteSpec => Spec
<1>1. SuiteInit => Init
  BY DEF SuiteInit
<1>2. [SuiteNext]_suiteVars => [Next]_vars
  BY DEF SuiteNext, suiteVars, VisitNode, CoverDone, CalcSets, Generate, Test, Finished, Next
<1> QED BY <1>1, <1>2, PTL DEF SuiteSpec, Spec

(* The H method does so, too. *)
THEOREM HMethodUsesTheSets == HSpec => Spec
<1>1. HInit => Init
  BY DEF HInit, SuiteInit
<1>2. [SuiteNext]_suiteVars => [Next]_vars
  BY DEF SuiteNext, suiteVars, VisitNode, CoverDone, CalcSets, Generate, Test, Finished, Next
<1>3. [HNext]_hVars => [Next]_vars
  BY <1>2 DEF HNext, hVars, BeginH, DistinguishPair, GenerateH, suiteVars
<1> QED BY <1>1, <1>3, PTL DEF HSpec, Spec

(***************************************************************************)
(* The state cover.  A node that waits is grey, the nodes wait in the      *)
(* order of the lengths of their traces, which differ by one at most, and  *)
(* what a black node leads to has been met.                                *)
(***************************************************************************)
Depth(q) == Len(f2t[q])

CoverTypes ==
  /\ rows \in Machines
  /\ color \in [State -> {"white", "grey", "black"}]
  /\ f2t \in [State -> Seq(Input)]
  /\ bfsLst \in Seq(State)
  /\ stage # "cover" => bfsLst = << >>

Waits(q) == \E i \in 1 .. Len(bfsLst) : bfsLst[i] = q

WaitingAreGrey == \A q \in State : color[q] = "grey" <=> Waits(q)

WaitOnce == \A i, j \in 1 .. Len(bfsLst) : bfsLst[i] = bfsLst[j] => i = j

TracesLead == \A q \in State : color[q] # "white" => q \in StatesAfter(rows, f2t[q])

Levels ==
  \A i, j \in 1 .. Len(bfsLst) :
    /\ i <= j => Depth(bfsLst[i]) <= Depth(bfsLst[j])
    /\ Depth(bfsLst[j]) <= Depth(bfsLst[1]) + 1

VisitedFirst ==
  \A p \in State : color[p] = "black" => \A i \in 1 .. Len(bfsLst) : Depth(p) <= Depth(bfsLst[i])

LeadsTo(p, q) == \E x \in Input, y \in Output : rows[p][<<x, y>>] = q

SuccessorsMet ==
  \A p, q \in State : color[p] = "black" /\ LeadsTo(p, q) =>
    color[q] # "white" /\ Depth(q) <= Depth(p) + 1

RootMet == color[0] # "white" /\ f2t[0] = << >>

CoverInv ==
  /\ CoverTypes /\ WaitingAreGrey /\ WaitOnce /\ TracesLead
  /\ Levels /\ VisitedFirst /\ SuccessorsMet /\ RootMet

(* A set put in some order. *)
LEMMA OrderOfSet ==
  ASSUME NEW S \in SUBSET State, NEW s \in SetToSeqs(S)
  PROVE  /\ s \in Seq(State)
         /\ \A i, j \in 1 .. Len(s) : s[i] = s[j] => i = j
         /\ \A q : q \in S <=> \E i \in 1 .. Len(s) : s[i] = q
<1> DEFINE n == Cardinality(S)
<1>1. IsFiniteSet(S) /\ n \in Nat
  <2>1. IsFiniteSet(State)
    BY NumStatesAssumption, FS_Interval DEF State
  <2>2. IsFiniteSet(S)
    BY <2>1, FS_Subset
  <2> QED BY <2>2, FS_CardinalityType
<1>2. s \in [1 .. n -> S] /\ \A i, j \in 1 .. n : i # j => s[i] # s[j]
  BY DEF SetToSeqs
<1> HIDE DEF n
<1>3. s \in Seq(State) /\ Len(s) = n
  BY <1>1, <1>2
<1>4. s \in Injection(1 .. n, S)
  BY <1>2 DEF Injection, IsInjective
<1>5. Cardinality(1 .. n) = Cardinality(S)
  <2>1. Cardinality(1 .. n) = IF 1 > n THEN 0 ELSE n - 1 + 1
    BY <1>1, FS_Interval
  <2>2. Cardinality(1 .. n) = n
    BY <1>1, <2>1
  <2> QED BY <2>2 DEF n
<1>6. s \in Surjection(1 .. n, S)
  BY <1>1, <1>4, <1>5, FS_Injection
<1>7. \A q \in S : \E i \in 1 .. n : s[i] = q
  BY <1>6 DEF Surjection
<1> QED BY <1>2, <1>3, <1>7

(* The queue after a node was taken and others were appended. *)
LEMMA QueueIs ==
  ASSUME NEW b \in Seq(State), b # << >>, NEW s \in Seq(State)
  PROVE  /\ Head(b) \in State /\ Head(b) = b[1] /\ 1 \in 1 .. Len(b)
         /\ Tail(b) \o s \in Seq(State)
         /\ Len(Tail(b) \o s) = Len(b) - 1 + Len(s)
         /\ \A i \in 1 .. Len(b) - 1 : (Tail(b) \o s)[i] = b[i + 1]
         /\ \A i \in 1 .. Len(s) : (Tail(b) \o s)[Len(b) - 1 + i] = s[i]
<1>1. /\ Len(b) \in Nat \ {0} /\ Head(b) = b[1] /\ b[1] \in State
      /\ Tail(b) \in Seq(State) /\ Len(Tail(b)) = Len(b) - 1
      /\ \A i \in 1 .. Len(b) - 1 : Tail(b)[i] = b[i + 1]
  <2>1. Len(b) \in Nat \ {0}
    BY EmptySeq
  <2> QED BY <2>1, HeadTailProperties
<1> DEFINE a == Tail(b)
<1> HIDE DEF a
<1>2. /\ a \o s \in Seq(State) /\ Len(a \o s) = Len(a) + Len(s)
      /\ \A i \in 1 .. Len(a) : (a \o s)[i] = a[i]
      /\ \A i \in 1 .. Len(s) : (a \o s)[Len(a) + i] = s[i]
  <2>1. a \in Seq(State)
    BY <1>1 DEF a
  <2> QED BY <2>1
<1> QED BY <1>1, <1>2 DEF a

(* The states after one input more. *)
LEMMA StatesAfterAppend ==
  ASSUME NEW r, NEW t \in Seq(Input), NEW x \in Input
  PROVE  StatesAfter(r, Append(t, x)) = PostsOf(r, StatesAfter(r, t), x)
BY RunOfAppend, StepCases DEF StatesAfter

(* They are states. *)
LEMMA StatesAfterTyped ==
  ASSUME NEW r \in Machines, NEW t \in Seq(Input)
  PROVE  StatesAfter(r, t) \subseteq State
<1> DEFINE A == {u \in Seq(Input) : StatesAfter(r, u) \subseteq State}
<1>1. << >> \in A
  <2>1. << >> \in Seq(Input)
    OBVIOUS
  <2>2. StatesAfter(r, << >>) = {0}
    BY RunOfEmpty DEF StatesAfter
  <2> QED BY <2>1, <2>2, StateFacts
<1>2. ASSUME NEW u \in Seq(Input), NEW x \in Input, u \in A PROVE Append(u, x) \in A
  <2>1. Append(u, x) \in Seq(Input)
    OBVIOUS
  <2>2. StatesAfter(r, Append(u, x)) = PostsOf(r, StatesAfter(r, u), x)
    BY StatesAfterAppend
  <2>3. StatesAfter(r, u) \subseteq State
    BY <1>2
  <2>4. \A q \in StatesAfter(r, u), y \in Output : r[q][<<x, y>>] \in State \cup {-1}
    BY <2>3, PostFacts
  <2> HIDE DEF State
  <2>5. ASSUME NEW p \in PostsOf(r, StatesAfter(r, u), x) PROVE p \in State
    <3>1. p \notin {-1}
      BY DEF PostsOf
    <3>2. \E q \in StatesAfter(r, u), y \in Output : p = r[q][<<x, y>>]
      BY ONLY p \in PostsOf(r, StatesAfter(r, u), x) DEF PostsOf
    <3> QED BY <2>4, <3>1, <3>2
  <2> QED BY <2>1, <2>2, <2>5
<1> HIDE DEF A
<1>3. t \in A
  BY <1>1, <1>2, SeqInduction
<1> QED BY <1>3 DEF A

(* When no node waits any more, the traces of the cover are the shortest. *)
LEMMA NoneIsNearer ==
  ASSUME CoverInv, bfsLst = << >>, NEW t \in Seq(Input), NEW q \in StatesAfter(rows, t)
  PROVE  q \in State /\ color[q] = "black" /\ Depth(q) <= Len(t)
<1> DEFINE Near(u) == \A p \in StatesAfter(rows, u) :
                        p \in State /\ color[p] = "black" /\ Depth(p) <= Len(u)
           A == {u \in Seq(Input) : Near(u)}
<1>0. rows \in Machines /\ \A p \in State : color[p] # "white" => color[p] = "black"
  <2>1. \A p \in State : ~Waits(p)
    BY DEF Waits
  <2> QED BY <2>1 DEF CoverInv, CoverTypes, WaitingAreGrey
<1>d. \A p \in State : Depth(p) \in Nat
  BY DEF CoverInv, CoverTypes, Depth
<1>1. << >> \in A
  <2>1. << >> \in Seq(Input) /\ Len(<< >>) = 0
    OBVIOUS
  <2>2. StatesAfter(rows, << >>) = {0}
    BY RunOfEmpty DEF StatesAfter
  <2>3. 0 \in State /\ color[0] = "black" /\ Depth(0) <= 0
    BY <1>0, <2>1, StateFacts DEF CoverInv, RootMet, Depth
  <2> QED BY <2>1, <2>2, <2>3
<1>2. ASSUME NEW u \in Seq(Input), NEW x \in Input, u \in A PROVE Append(u, x) \in A
  <2>1. Append(u, x) \in Seq(Input) /\ Len(Append(u, x)) = Len(u) + 1 /\ Len(u) \in Nat
    OBVIOUS
  <2>2. ASSUME NEW p \in StatesAfter(rows, Append(u, x))
        PROVE  p \in State /\ color[p] = "black" /\ Depth(p) <= Len(Append(u, x))
    <3>1. PICK o \in StatesAfter(rows, u), y \in Output : p = rows[o][<<x, y>>]
      BY StatesAfterAppend DEF PostsOf
    <3>2. o \in State /\ color[o] = "black" /\ Depth(o) <= Len(u)
      BY <1>2
    <3>3. p \in State
      BY <1>0, <2>1, StatesAfterTyped
    <3>4. color[p] # "white" /\ Depth(p) <= Depth(o) + 1
      BY <3>1, <3>2, <3>3 DEF CoverInv, SuccessorsMet, LeadsTo
    <3> HIDE DEF Depth
    <3>5. Depth(p) <= Len(u) + 1
      BY <1>d, <2>1, <3>2, <3>3, <3>4
    <3> QED BY <1>0, <2>1, <3>3, <3>4, <3>5
  <2> QED BY <2>1, <2>2
<1> HIDE DEF A
<1>3. t \in A
  BY <1>1, <1>2, SeqInduction
<1> QED BY <1>3 DEF A

(* The invariant holds when getStateCover starts. *)
LEMMA InitCoverInv == SuiteInit => CoverInv
<1> SUFFICES ASSUME SuiteInit PROVE CoverInv
  OBVIOUS
<1> USE StateFacts DEF SuiteInit
<1>1. << >> \in Seq(Input) /\ Len(<< >>) = 0
  OBVIOUS
<1>2. CoverTypes
  BY <1>1, RowsAssumption DEF CoverTypes, Init, Machines
<1>3. Len(bfsLst) = 1 /\ bfsLst[1] = 0
  OBVIOUS
<1>4. WaitingAreGrey /\ WaitOnce
  BY <1>3 DEF WaitingAreGrey, WaitOnce, Waits
<1>5. TracesLead
  <2>1. StatesAfter(rows, << >>) = {0}
    BY RunOfEmpty DEF StatesAfter
  <2> QED BY <2>1 DEF TracesLead
<1>6. Levels /\ VisitedFirst /\ SuccessorsMet /\ RootMet
  BY <1>1, <1>3 DEF Levels, VisitedFirst, SuccessorsMet, RootMet, Depth
<1> QED BY <1>2, <1>4, <1>5, <1>6 DEF CoverInv

(* what taking node h from the queue does, with s the order of its white successors *)
Taken(h, s) ==
  LET via == [q \in State |-> {x \in Input : \E y \in Output : rows[h][<<x, y>>] = q}]
      new == {q \in State : color[q] = "white" /\ via[q] # {}}
  IN  /\ s \in SetToSeqs(new)
      /\ bfsLst' = Tail(bfsLst) \o s
      /\ color' = [q \in State |-> CASE q = h -> "black"
                                     [] q \in new -> "grey"
                                     [] OTHER -> color[q]]
      /\ f2t' = [q \in State |-> IF q \in new THEN Append(f2t[h], Min(via[q])) ELSE f2t[q]]

(* VisitNode takes the head of the queue. *)
LEMMA VisitTakes ==
  ASSUME VisitNode
  PROVE  /\ bfsLst # << >> /\ stage = "cover"
         /\ rows' = rows /\ stage' = stage
         /\ \E s : Taken(Head(bfsLst), s)
BY DEF VisitNode, Taken, vars

(* the same, said of each state *)
Fresh(h) == {q \in State : color[q] = "white" /\ LeadsTo(h, q)}

(* the trace of q is that of h and one input *)
OneMore(h, q) == \E x \in Input : f2t'[q] = Append(f2t[h], x)

(* What it does to each state. *)
LEMMA TakenIs ==
  ASSUME CoverInv, bfsLst # << >>, NEW s, NEW h, h = Head(bfsLst), Taken(h, s)
  PROVE  /\ h \in State /\ h = bfsLst[1] /\ color[h] = "grey"
         /\ s \in Seq(State)
         /\ \A i, j \in 1 .. Len(s) : s[i] = s[j] => i = j
         /\ \A q : q \in Fresh(h) <=> \E i \in 1 .. Len(s) : s[i] = q
         /\ color' \in [State -> {"white", "grey", "black"}]
         /\ f2t' \in [State -> Seq(Input)]
         /\ color'[h] = "black"
         /\ \A q \in Fresh(h) : color'[q] = "grey" /\ Len(f2t'[q]) = Len(f2t[h]) + 1
         /\ \A q \in State \ (Fresh(h) \cup {h}) : color'[q] = color[q]
         /\ \A q \in State \ Fresh(h) : f2t'[q] = f2t[q]
         /\ \A q \in Fresh(h) : q \in StatesAfter(rows, f2t'[q])
         /\ \A q \in Fresh(h) : OneMore(h, q)
<1> DEFINE via == [q \in State |-> {x \in Input : \E y \in Output : rows[h][<<x, y>>] = q}]
           new == {q \in State : color[q] = "white" /\ via[q] # {}}
<1>1. h \in State /\ h = bfsLst[1] /\ 1 \in 1 .. Len(bfsLst)
  <2>1. bfsLst \in Seq(State) /\ << >> \in Seq(State)
    BY DEF CoverInv, CoverTypes
  <2> QED BY <2>1, QueueIs
<1>2. color[h] = "grey"
  BY <1>1 DEF CoverInv, WaitingAreGrey, Waits
<1>t. /\ rows \in Machines
      /\ color \in [State -> {"white", "grey", "black"}]
      /\ f2t \in [State -> Seq(Input)]
  BY DEF CoverInv, CoverTypes
<1>3. /\ s \in SetToSeqs(new)
      /\ color' = [q \in State |-> CASE q = h -> "black"
                                     [] q \in new -> "grey"
                                     [] OTHER -> color[q]]
      /\ f2t' = [q \in State |-> IF q \in new THEN Append(f2t[h], Min(via[q])) ELSE f2t[q]]
  BY DEF Taken
<1>4. new = Fresh(h)
  BY DEF LeadsTo, Fresh
<1>5. \A q \in new : /\ Min(via[q]) \in Input
                     /\ \E y \in Output : rows[h][<<Min(via[q]), y>>] = q
  <2> SUFFICES ASSUME NEW q \in new
               PROVE  Min(via[q]) \in {x \in Input : \E y \in Output : rows[h][<<x, y>>] = q}
    OBVIOUS
  <2> DEFINE T == {x \in Input : \E y \in Output : rows[h][<<x, y>>] = q}
  <2>1. via[q] = T /\ T # {} /\ T \subseteq Nat
    BY StateFacts
  <2> HIDE DEF T, via, new
  <2>2. Min(T) \in T
    BY <2>1, MinOf
  <2> QED BY <2>1, <2>2 DEF T
<1>6. \A q \in new : q \in StatesAfter(rows, Append(f2t[h], Min(via[q])))
  <2> SUFFICES ASSUME NEW q \in new PROVE q \in StatesAfter(rows, Append(f2t[h], Min(via[q])))
    OBVIOUS
  <2> DEFINE x == Min(via[q])
  <2>1. x \in Input /\ \E y \in Output : rows[h][<<x, y>>] = q
    BY <1>5
  <2>q. q \in State
    OBVIOUS
  <2> HIDE DEF x, new, via
  <2>2. h \in StatesAfter(rows, f2t[h])
    BY <1>1, <1>2 DEF CoverInv, TracesLead
  <2>3. q \notin {-1}
    BY <2>q, StateFacts
  <2>4. StatesAfter(rows, Append(f2t[h], x)) = PostsOf(rows, StatesAfter(rows, f2t[h]), x)
    BY <1>1, <1>t, <2>1, StatesAfterAppend
  <2>5. q \in PostsOf(rows, StatesAfter(rows, f2t[h]), x)
    BY ONLY <2>1, <2>2, <2>3 DEF PostsOf
  <2> QED BY <2>4, <2>5 DEF x
<1>7. new \in SUBSET State
  OBVIOUS
<1>8. \A q \in new : /\ Append(f2t[h], Min(via[q])) \in Seq(Input)
                     /\ Len(Append(f2t[h], Min(via[q]))) = Len(f2t[h]) + 1
  <2> SUFFICES ASSUME NEW q \in new
               PROVE  /\ Append(f2t[h], Min(via[q])) \in Seq(Input)
                      /\ Len(Append(f2t[h], Min(via[q]))) = Len(f2t[h]) + 1
    OBVIOUS
  <2> DEFINE x == Min(via[q])
             t == f2t[h]
  <2>1. x \in Input /\ t \in Seq(Input)
    BY <1>1, <1>t, <1>5
  <2> HIDE DEF x, t
  <2>2. Append(t, x) \in Seq(Input) /\ Len(Append(t, x)) = Len(t) + 1
    BY <2>1
  <2> QED BY <2>2 DEF x, t
<1>9. h \notin new
  BY <1>2
<1>10. /\ s \in Seq(State)
       /\ \A i, j \in 1 .. Len(s) : s[i] = s[j] => i = j
       /\ \A q : q \in new <=> \E i \in 1 .. Len(s) : s[i] = q
  <2> HIDE DEF new
  <2> QED BY <1>3, <1>7, OrderOfSet
<1>11. color' \in [State -> {"white", "grey", "black"}] /\ f2t' \in [State -> Seq(Input)]
  <2> HIDE DEF via, new
  <2>1. color' \in [State -> {"white", "grey", "black"}]
    BY <1>3, <1>t
  <2>2. f2t' \in [State -> Seq(Input)]
    BY <1>3, <1>t, <1>8
  <2> QED BY <2>1, <2>2
<1>12. /\ color'[h] = "black"
       /\ \A q \in new : color'[q] = "grey" /\ f2t'[q] = Append(f2t[h], Min(via[q]))
       /\ \A q \in State \ (new \cup {h}) : color'[q] = color[q]
       /\ \A q \in State \ new : f2t'[q] = f2t[q]
  <2> HIDE DEF via, new
  <2> QED BY <1>1, <1>3, <1>7, <1>9
<1>13. \A q \in new : Len(f2t'[q]) = Len(f2t[h]) + 1 /\ q \in StatesAfter(rows, f2t'[q])
  <2> HIDE DEF via, new
  <2> QED BY <1>6, <1>8, <1>12
<1>14. \A q \in new : OneMore(h, q)
  <2> HIDE DEF via, new
  <2> QED BY <1>5, <1>12 DEF OneMore
<1> HIDE DEF via, new
<1> QED BY <1>1, <1>2, <1>4, <1>10, <1>11, <1>12, <1>13, <1>14

(* Taking a node keeps the invariant, one conjunct after the other. *)
LEMMA TakeKeeps ==
  ASSUME CoverInv, bfsLst # << >>, stage = "cover", rows' = rows, stage' = stage,
         NEW s, Taken(Head(bfsLst), s)
  PROVE  CoverInv'
<1> DEFINE h == Head(bfsLst)
           b == bfsLst
           c == bfsLst'
           m == Len(b) - 1
           d == Len(f2t[h])
           fresh == Fresh(h)
<1>1. /\ h \in State /\ h = bfsLst[1] /\ color[h] = "grey"
      /\ s \in Seq(State)
      /\ \A i, j \in 1 .. Len(s) : s[i] = s[j] => i = j
      /\ \A q : q \in fresh <=> \E i \in 1 .. Len(s) : s[i] = q
      /\ color' \in [State -> {"white", "grey", "black"}]
      /\ f2t' \in [State -> Seq(Input)]
      /\ color'[h] = "black"
      /\ \A q \in fresh : color'[q] = "grey" /\ Len(f2t'[q]) = Len(f2t[h]) + 1
      /\ \A q \in State \ (fresh \cup {h}) : color'[q] = color[q]
      /\ \A q \in State \ fresh : f2t'[q] = f2t[q]
      /\ \A q \in fresh : q \in StatesAfter(rows, f2t'[q])
  BY TakenIs
<1>t. /\ rows \in Machines
      /\ color \in [State -> {"white", "grey", "black"}]
      /\ f2t \in [State -> Seq(Input)]
      /\ b \in Seq(State)
  BY DEF CoverInv, CoverTypes
<1>f. \A q : q \in fresh <=> q \in State /\ color[q] = "white" /\ LeadsTo(h, q)
  BY DEF Fresh
<1>2. /\ c \in Seq(State) /\ Len(c) = m + Len(s) /\ m \in Nat /\ Len(s) \in Nat
      /\ \A i \in 1 .. m : c[i] = b[i + 1]
      /\ \A i \in 1 .. Len(s) : c[m + i] = s[i]
  <2>1. c = Tail(b) \o s
    BY DEF Taken
  <2>2. Len(b) \in Nat \ {0}
    BY <1>t, EmptySeq
  <2> HIDE DEF c
  <2> QED BY <1>1, <1>t, <2>1, <2>2, QueueIs
<1>3. \A k \in 1 .. Len(c) : (k \in 1 .. m /\ c[k] = b[k + 1] /\ k + 1 \in 1 .. Len(b))
                             \/ (k - m \in 1 .. Len(s) /\ c[k] = s[k - m] /\ k > m)
  <2> SUFFICES ASSUME NEW k \in 1 .. Len(c)
               PROVE  (k \in 1 .. m /\ c[k] = b[k + 1] /\ k + 1 \in 1 .. Len(b))
                      \/ (k - m \in 1 .. Len(s) /\ c[k] = s[k - m] /\ k > m)
    OBVIOUS
  <2>1. Len(b) \in Nat
    BY <1>t
  <2> HIDE DEF c, b
  <2>2. CASE k <= m
    BY <1>2, <2>1, <2>2
  <2>3. CASE k > m
    <3>1. k - m \in 1 .. Len(s) /\ m + (k - m) = k
      BY <1>2, <2>1, <2>3
    <3> QED BY <1>2, <2>3, <3>1
  <2> HIDE DEF m
  <2> QED BY <1>2, <2>2, <2>3
<1>4. 1 \in 1 .. Len(b) /\ \A i \in 1 .. Len(b) : b[i] \in State /\ b[i] \notin fresh /\ color[b[i]] = "grey"
  <2>1. Len(b) \in Nat \ {0} /\ \A i \in 1 .. Len(b) : b[i] \in State
    BY <1>t, EmptySeq
  <2>2. \A i \in 1 .. Len(b) : color[b[i]] = "grey"
    BY <2>1 DEF CoverInv, WaitingAreGrey, Waits
  <2> HIDE DEF fresh, h
  <2> QED BY <1>f, <2>1, <2>2
<1>5. \A i \in 1 .. Len(s) : s[i] \in fresh /\ s[i] \in State
  BY <1>1
<1>n. \A q \in State : Len(f2t[q]) \in Nat /\ Len(f2t'[q]) \in Nat
  BY <1>1, <1>t
<1>w. WaitingAreGrey /\ WaitOnce /\ TracesLead /\ Levels /\ VisitedFirst /\ SuccessorsMet /\ RootMet
  BY DEF CoverInv
<1> HIDE DEF h, fresh, m, b, c
<1>6. CoverTypes'
  BY <1>1, <1>2, <1>t DEF CoverTypes, c
<1>7. WaitOnce'
  <2> SUFFICES ASSUME NEW i \in 1 .. Len(c), NEW j \in 1 .. Len(c), c[i] = c[j] PROVE i = j
    BY DEF WaitOnce, c
  <2>1. CASE i <= m /\ j <= m
    <3>1. c[i] = b[i + 1] /\ c[j] = b[j + 1] /\ i + 1 \in 1 .. Len(b) /\ j + 1 \in 1 .. Len(b)
      BY <1>2, <1>3, <2>1
    <3>2. i + 1 = j + 1
      BY <1>w, <3>1 DEF WaitOnce, b
    <3> QED BY <3>2
  <2>2. CASE i > m /\ j > m
    <3>1. c[i] = s[i - m] /\ c[j] = s[j - m] /\ i - m \in 1 .. Len(s) /\ j - m \in 1 .. Len(s)
      BY <1>2, <1>3, <2>2
    <3>2. i - m = j - m
      <4>1. \A k, l \in 1 .. Len(s) : s[k] = s[l] => k = l
        BY <1>1
      <4>2. s[i - m] = s[j - m]
        BY <3>1
      <4> QED BY ONLY <3>1, <4>1, <4>2
    <3>3. i \in Int /\ j \in Int /\ m \in Int
      BY <1>2
    <3> QED BY ONLY <3>2, <3>3
  <2>3. CASE i <= m /\ j > m
    <3>1. c[i] = b[i + 1] /\ i + 1 \in 1 .. Len(b) /\ c[j] = s[j - m] /\ j - m \in 1 .. Len(s)
      BY <1>2, <1>3, <2>3
    <3> QED BY <1>4, <1>5, <3>1
  <2>4. CASE i > m /\ j <= m
    <3>1. c[j] = b[j + 1] /\ j + 1 \in 1 .. Len(b) /\ c[i] = s[i - m] /\ i - m \in 1 .. Len(s)
      BY <1>2, <1>3, <2>4
    <3> QED BY <1>4, <1>5, <3>1
  <2>5. (i <= m \/ i > m) /\ (j <= m \/ j > m)
    BY <1>2
  <2> QED BY <2>1, <2>2, <2>3, <2>4, <2>5
<1>8. WaitingAreGrey'
  <2> SUFFICES ASSUME NEW q \in State
               PROVE  color'[q] = "grey" <=> \E i \in 1 .. Len(c) : c[i] = q
    BY DEF WaitingAreGrey, Waits, c
  <2>1. CASE q \in fresh
    <3>1. PICK i \in 1 .. Len(s) : s[i] = q
      BY <1>1, <2>1
    <3>2. m + i \in 1 .. Len(c) /\ c[m + i] = q
      BY <1>2, <3>1
    <3> QED BY <1>1, <2>1, <3>2
  <2>2. CASE q = h
    <3> SUFFICES ASSUME NEW i \in 1 .. Len(c), c[i] = h PROVE FALSE
      BY <1>1, <2>2
    <3>1. h = b[1] /\ h \notin fresh
      BY <1>1, <1>4 DEF b
    <3>2. CASE i <= m
      <4>1. c[i] = b[i + 1] /\ i + 1 \in 1 .. Len(b) /\ i + 1 # 1
        BY <1>2, <1>3, <3>2
      <4> QED BY <1>4, <1>w, <3>1, <4>1 DEF WaitOnce, b
    <3>3. CASE i > m
      <4>1. c[i] = s[i - m] /\ i - m \in 1 .. Len(s)
        BY <1>2, <1>3, <3>3
      <4> QED BY <1>5, <3>1, <4>1
    <3> QED BY <1>2, <3>2, <3>3
  <2>3. CASE q \notin fresh /\ q # h
    <3>1. color'[q] = color[q]
      BY <1>1, <2>3
    <3>2. color[q] = "grey" <=> \E i \in 1 .. Len(b) : b[i] = q
      BY <1>w DEF WaitingAreGrey, Waits, b
    <3>3. ASSUME NEW i \in 1 .. Len(b), b[i] = q PROVE \E k \in 1 .. Len(c) : c[k] = q
      <4>1. i # 1
        BY <1>1, <2>3, <3>3 DEF b
      <4>2. i - 1 \in 1 .. m /\ (i - 1) + 1 = i
        BY <4>1, <1>t DEF m
      <4>3. i - 1 \in 1 .. Len(c) /\ c[i - 1] = b[(i - 1) + 1]
        BY <1>2, <4>2
      <4> QED BY <3>3, <4>2, <4>3
    <3>4. ASSUME NEW k \in 1 .. Len(c), c[k] = q PROVE \E i \in 1 .. Len(b) : b[i] = q
      <4>1. ~(k - m \in 1 .. Len(s) /\ c[k] = s[k - m])
        BY <1>5, <2>3, <3>4
      <4> QED BY <1>3, <3>4, <4>1
    <3> QED BY <3>1, <3>2, <3>3, <3>4
  <2> QED BY <2>1, <2>2, <2>3
<1>9. TracesLead'
  <2> SUFFICES ASSUME NEW q \in State, color'[q] # "white" PROVE q \in StatesAfter(rows, f2t'[q])
    BY DEF TracesLead
  <2>1. CASE q \in fresh
    BY <1>1, <2>1
  <2>2. CASE q \notin fresh
    <3>1. f2t'[q] = f2t[q] /\ color[q] # "white"
      BY <1>1, <2>2
    <3> QED BY <1>w, <3>1 DEF TracesLead
  <2> QED BY <2>1, <2>2
<1>10. /\ \A i \in 1 .. Len(b) : Len(f2t'[b[i]]) = Len(f2t[b[i]])
       /\ \A i, j \in 1 .. Len(b) : i <= j => Len(f2t[b[i]]) <= Len(f2t[b[j]])
       /\ \A i \in 1 .. Len(b) : d <= Len(f2t[b[i]]) /\ Len(f2t[b[i]]) <= d + 1
  <2>1. \A i \in 1 .. Len(b) : Len(f2t'[b[i]]) = Len(f2t[b[i]])
    BY <1>1, <1>4
  <2>2. \A i, j \in 1 .. Len(b) : /\ i <= j => Len(f2t[b[i]]) <= Len(f2t[b[j]])
                                  /\ Len(f2t[b[j]]) <= Len(f2t[b[1]]) + 1
    BY <1>w DEF Levels, Depth, b
  <2>3. d = Len(f2t[b[1]])
    BY <1>1 DEF b
  <2> QED BY <1>4, <2>1, <2>2, <2>3
<1>d. d \in Nat
  BY <1>1, <1>n
<1>11. \A k \in 1 .. Len(c) : d <= Len(f2t'[c[k]]) /\ Len(f2t'[c[k]]) <= d + 1
  <2> SUFFICES ASSUME NEW k \in 1 .. Len(c) PROVE d <= Len(f2t'[c[k]]) /\ Len(f2t'[c[k]]) <= d + 1
    OBVIOUS
  <2>1. CASE k \in 1 .. m /\ c[k] = b[k + 1] /\ k + 1 \in 1 .. Len(b)
    BY <1>10, <2>1
  <2>2. CASE k - m \in 1 .. Len(s) /\ c[k] = s[k - m]
    <3>1. Len(f2t'[c[k]]) = d + 1
      BY <1>1, <1>5, <2>2
    <3> QED BY <1>d, <3>1
  <2> QED BY <1>3, <2>1, <2>2
<1>12. Levels'
  <2> SUFFICES ASSUME NEW i \in 1 .. Len(c), NEW j \in 1 .. Len(c)
               PROVE  /\ i <= j => Len(f2t'[c[i]]) <= Len(f2t'[c[j]])
                      /\ Len(f2t'[c[j]]) <= Len(f2t'[c[1]]) + 1
    BY DEF Levels, Depth, c
  <2>0. 1 \in 1 .. Len(c) /\ c[i] \in State /\ c[j] \in State /\ c[1] \in State
    BY <1>2
  <2>1. Len(f2t'[c[j]]) <= Len(f2t'[c[1]]) + 1
    BY <1>11, <1>d, <1>n, <2>0
  <2>2. CASE j > m
    <3>1. c[j] = s[j - m] /\ j - m \in 1 .. Len(s)
      BY <1>2, <1>3, <2>2
    <3>2. Len(f2t'[c[j]]) = d + 1
      BY <1>1, <1>5, <3>1
    <3> QED BY <1>11, <2>1, <3>2
  <2>3. CASE j <= m /\ i <= j
    <3>1. /\ c[i] = b[i + 1] /\ i + 1 \in 1 .. Len(b)
          /\ c[j] = b[j + 1] /\ j + 1 \in 1 .. Len(b) /\ i + 1 <= j + 1
      BY <1>2, <1>3, <2>3
    <3> QED BY <1>10, <2>1, <3>1
  <2>4. j <= m \/ j > m
    BY <1>2
  <2> QED BY <2>1, <2>2, <2>3, <2>4
<1>13. VisitedFirst'
  <2> SUFFICES ASSUME NEW p \in State, color'[p] = "black", NEW k \in 1 .. Len(c)
               PROVE  Len(f2t'[p]) <= Len(f2t'[c[k]])
    BY DEF VisitedFirst, Depth, c
  <2>1. p \notin fresh /\ f2t'[p] = f2t[p]
    BY <1>1
  <2>2. Len(f2t[p]) <= d
    <3>1. CASE p = h
      BY <1>d, <3>1
    <3>2. CASE p # h
      <4>1. color[p] = "black"
        BY <1>1, <2>1, <3>2
      <4> QED BY <1>1, <1>4, <1>w, <4>1 DEF VisitedFirst, Depth, b
    <3> QED BY <3>1, <3>2
  <2>3. c[k] \in State
    BY <1>2
  <2> HIDE DEF d
  <2> QED BY <1>11, <1>d, <1>n, <2>1, <2>2, <2>3
<1>14. SuccessorsMet'
  <2> SUFFICES ASSUME NEW p \in State, NEW q \in State, color'[p] = "black", LeadsTo(p, q)
               PROVE  color'[q] # "white" /\ Len(f2t'[q]) <= Len(f2t'[p]) + 1
    BY DEF SuccessorsMet, Depth, LeadsTo
  <2>1. p \notin fresh /\ f2t'[p] = f2t[p]
    BY <1>1
  <2>2. CASE p # h
    <3>1. color[p] = "black"
      BY <1>1, <2>1, <2>2
    <3>2. color[q] # "white" /\ Len(f2t[q]) <= Len(f2t[p]) + 1
      BY <1>w, <3>1 DEF SuccessorsMet, Depth
    <3>3. q \notin fresh
      BY <1>f, <3>2
    <3> QED BY <1>1, <2>1, <3>2, <3>3
  <2>3. CASE p = h
    <3>1. CASE q \in fresh
      <4>1. color'[q] = "grey" /\ Len(f2t'[q]) = d + 1
        BY <1>1, <3>1
      <4>2. Len(f2t'[p]) = d
        BY <2>1, <2>3
      <4> QED BY <1>d, <4>1, <4>2
    <3>2. CASE q \notin fresh
      <4>1. color[q] # "white"
        BY <1>f, <2>3, <3>2
      <4>2. color'[q] # "white" /\ f2t'[q] = f2t[q]
        BY <1>1, <3>2, <4>1
      <4>3. Len(f2t[q]) <= d + 1
        <5>1. CASE color[q] = "grey"
          <6>1. \E i \in 1 .. Len(b) : b[i] = q
            BY <1>w, <5>1 DEF WaitingAreGrey, Waits, b
          <6> QED BY <1>10, <6>1
        <5>2. CASE color[q] = "black"
          <6>1. Len(f2t[q]) <= d
            BY <1>1, <1>4, <1>w, <5>2 DEF VisitedFirst, Depth, b
          <6> HIDE DEF d
          <6> QED BY <1>d, <1>n, <6>1
        <5> QED BY <1>t, <4>1, <5>1, <5>2
      <4> QED BY <2>1, <2>3, <4>2, <4>3
    <3> QED BY <3>1, <3>2
  <2> QED BY <2>2, <2>3
<1>15. RootMet'
  <2>1. 0 \in State /\ 0 \notin fresh
    BY <1>f, <1>w, StateFacts DEF RootMet
  <2>2. color'[0] # "white" /\ f2t'[0] = f2t[0]
    BY <1>1, <1>w, <2>1 DEF RootMet
  <2> QED BY <1>w, <2>2 DEF RootMet
<1> QED BY <1>6, <1>7, <1>8, <1>9, <1>12, <1>13, <1>14, <1>15 DEF CoverInv

(* what the steps are for the state cover *)
CoverStep ==
  \/ VisitNode \/ CoverDone
  \/ /\ UNCHANGED <<rows, bfsLst, color, f2t>>
     /\ stage' = stage \/ (stage # "cover" /\ stage' # "cover")

(* So does every other step. *)
LEMMA StepCoverInv ==
  ASSUME CoverInv, CoverStep
  PROVE  CoverInv'
<1>1. CASE VisitNode
  <2>1. /\ bfsLst # << >> /\ stage = "cover" /\ rows' = rows /\ stage' = stage
        /\ \E s : Taken(Head(bfsLst), s)
    BY <1>1, VisitTakes
  <2> QED BY <2>1, TakeKeeps
<1>2. CASE ~VisitNode
  <2>1. /\ rows' = rows /\ bfsLst' = bfsLst /\ color' = color /\ f2t' = f2t
        /\ stage' # "cover" => bfsLst = << >>
    BY <1>2 DEF CoverStep, CoverDone, vars, coverVars, CoverInv, CoverTypes
  <2>2. CoverTypes'
    BY <2>1 DEF CoverInv, CoverTypes
  <2>3. WaitingAreGrey' /\ WaitOnce' /\ TracesLead'
    BY <2>1 DEF CoverInv, WaitingAreGrey, WaitOnce, TracesLead, Waits
  <2>4. Levels' /\ VisitedFirst' /\ SuccessorsMet' /\ RootMet'
    BY <2>1 DEF CoverInv, Levels, VisitedFirst, SuccessorsMet, RootMet, Depth, LeadsTo
  <2> QED BY <2>2, <2>3, <2>4 DEF CoverInv
<1> QED BY <1>1, <1>2

(* It implies the property. *)
LEMMA CoverInvImplies == CoverInv => CoverIsShortest
<1> SUFFICES ASSUME CoverInv, stage = "sets", NEW q \in State
             PROVE  IF color[q] = "black"
                    THEN /\ q \in After(f2t[q])
                         /\ \A t \in InputEnum(0, Len(f2t[q]) - 1) : q \notin After(t)
                    ELSE \A t \in InputEnum(0, numStates) : q \notin After(t)
  BY DEF CoverIsShortest
<1>1. bfsLst = << >> /\ f2t[q] \in Seq(Input)
  BY DEF CoverInv, CoverTypes
<1>2. \A t \in Seq(Input) : After(t) = StatesAfter(rows, t)
  BY AfterIs
<1>3. \A n \in Int : \A t \in InputEnum(0, n) : t \in Seq(Input) /\ Len(t) <= n
  BY DEF InputEnum
<1>4. CASE color[q] = "black"
  <2>1. q \in After(f2t[q])
    BY <1>1, <1>2, <1>4 DEF CoverInv, TracesLead
  <2>2. ASSUME NEW t \in InputEnum(0, Len(f2t[q]) - 1) PROVE q \notin After(t)
    <3>1. Len(f2t[q]) \in Nat
      BY <1>1
    <3>2. t \in Seq(Input) /\ Len(t) <= Len(f2t[q]) - 1 /\ Len(t) \in Nat
      BY <1>3, <3>1
    <3>3. ~(Len(f2t[q]) <= Len(t))
      BY <3>1, <3>2
    <3> QED BY <1>1, <1>2, <3>2, <3>3, NoneIsNearer DEF Depth
  <2> QED BY <1>4, <2>1, <2>2
<1>5. CASE color[q] # "black"
  <2>1. ASSUME NEW t \in InputEnum(0, numStates) PROVE q \notin After(t)
    <3>1. t \in Seq(Input)
      BY <1>3, NumStatesAssumption
    <3> QED BY <1>1, <1>2, <1>5, <3>1, NoneIsNearer
  <2> QED BY <1>5, <2>1
<1> QED BY <1>4, <1>5

(* The steps of TestSuites, for the state cover. *)
LEMMA SuiteCoverSteps == [SuiteNext]_suiteVars => CoverStep
<1> SUFFICES ASSUME [SuiteNext]_suiteVars PROVE CoverStep
  OBVIOUS
<1>1. CASE VisitNode \/ CoverDone
  BY <1>1 DEF CoverStep
<1>2. CASE CalcSets
  <2>1. rows' = rows
    BY <1>2 DEF CalcSets, CalcOFSMTables, SkipPair, AddTrace, PairsDone, SelectSet, TryTrace, SetsDone
  <2>2. stage' = stage /\ UNCHANGED coverVars
    BY <1>2 DEF CalcSets
  <2> QED BY <2>1, <2>2 DEF CoverStep, coverVars
<1>3. CASE Generate
  BY <1>3 DEF CoverStep, Generate, vars, coverVars
<1>4. CASE Test
  BY <1>4 DEF CoverStep, Test, vars, coverVars
<1>5. CASE Finished \/ UNCHANGED suiteVars
  BY <1>5 DEF CoverStep, Finished, suiteVars, vars, coverVars
<1> QED BY <1>1, <1>2, <1>3, <1>4, <1>5 DEF SuiteNext

(* The steps of the H method, for the state cover. *)
LEMMA HCoverSteps == [HNext]_hVars => CoverStep
<1>1. GenerateH => CoverStep
  BY DEF CoverStep, GenerateH, vars, coverVars
<1>2. BeginH \/ DistinguishPair \/ UNCHANGED hVars => [SuiteNext]_suiteVars
  BY DEF BeginH, DistinguishPair, hVars
<1> QED BY <1>1, <1>2, SuiteCoverSteps DEF HNext

(***************************************************************************)
(* getStateCover: the cover has a trace to every state that can be         *)
(* reached, no shorter trace leads there, and no trace leads to the other  *)
(* states.                                                                 *)
(***************************************************************************)
THEOREM StateCoverIsShortest == SuiteSpec => []CoverIsShortest
<1>1. SuiteInit => CoverInv
  BY InitCoverInv
<1>2. CoverInv /\ [SuiteNext]_suiteVars => CoverInv'
  BY SuiteCoverSteps, StepCoverInv
<1>3. CoverInv => CoverIsShortest
  BY CoverInvImplies
<1> QED BY <1>1, <1>2, <1>3, PTL DEF SuiteSpec

(* The cover that the H method starts from is the same. *)
THEOREM StateCoverOfHMethod == HSpec => []CoverIsShortest
<1>1. HInit => CoverInv
  BY InitCoverInv DEF HInit
<1>2. CoverInv /\ [HNext]_hVars => CoverInv'
  BY HCoverSteps, StepCoverInv
<1>3. CoverInv => CoverIsShortest
  BY CoverInvImplies
<1> QED BY <1>1, <1>2, <1>3, PTL DEF HSpec

(***************************************************************************)
(* Traces put together.                                                    *)
(***************************************************************************)
LEMMA ConcatAppend ==
  ASSUME NEW u \in Seq(Input), NEW s \in Seq(Input), NEW x \in Input
  PROVE  /\ u \o s \in Seq(Input)
         /\ u \o Append(s, x) = Append(u \o s, x)
         /\ u \o << >> = u
         /\ << >> \o u = u
<1> DEFINE a == u \o Append(s, x)
           b == Append(u \o s, x)
<1>0. << >> \in Seq(Input) /\ Len(<< >>) = 0
  OBVIOUS
<1>1. u \o s \in Seq(Input) /\ Append(s, x) \in Seq(Input) /\ a \in Seq(Input) /\ b \in Seq(Input)
  OBVIOUS
<1>2. Len(a) = Len(u) + Len(s) + 1 /\ Len(b) = Len(u) + Len(s) + 1
  OBVIOUS
<1>3. \A i \in 1 .. Len(u) + Len(s) + 1 : a[i] = b[i]
  <2> SUFFICES ASSUME NEW i \in 1 .. Len(u) + Len(s) + 1 PROVE a[i] = b[i]
    OBVIOUS
  <2>1. CASE i <= Len(u)
    BY <2>1
  <2>2. CASE i > Len(u) /\ i <= Len(u) + Len(s)
    BY <2>2
  <2>3. CASE i = Len(u) + Len(s) + 1
    BY <2>3
  <2> QED BY <2>1, <2>2, <2>3
<1> HIDE DEF a, b
<1>4. a = b
  BY <1>1, <1>2, <1>3, SeqEqual
<1>5. u \o << >> = u /\ << >> \o u = u
  BY ConcatEmptySeq
<1> QED BY <1>1, <1>4, <1>5 DEF a, b

(* The prefixes of two traces put together. *)
LEMMA PrefixOfConcat ==
  ASSUME NEW u \in Seq(Input), NEW s \in Seq(Input)
  PROVE  /\ IsPrefix(u, u \o s)
         /\ \A t \in Seq(Input) : IsPrefix(t, s) => IsPrefix(u \o t, u \o s)
<1>1. IsPrefix(u, u \o s)
  <2>1. u \o s \in Seq(Input) /\ Len(u) <= Len(u \o s) /\ \A i \in 1 .. Len(u) : u[i] = (u \o s)[i]
    OBVIOUS
  <2> QED BY <2>1, PrefixIs
<1>2. ASSUME NEW t \in Seq(Input), IsPrefix(t, s) PROVE IsPrefix(u \o t, u \o s)
  <2> DEFINE a == u \o t
             b == u \o s
  <2>1. Len(t) <= Len(s) /\ \A i \in 1 .. Len(t) : t[i] = s[i]
    BY <1>2, PrefixIs
  <2>2. /\ a \in Seq(Input) /\ b \in Seq(Input)
        /\ Len(a) = Len(u) + Len(t) /\ Len(b) = Len(u) + Len(s)
        /\ Len(u) \in Nat /\ Len(t) \in Nat /\ Len(s) \in Nat
    OBVIOUS
  <2>3. ASSUME NEW i \in 1 .. Len(u) + Len(t) PROVE a[i] = b[i]
    <3>1. CASE i <= Len(u)
      <4>1. a[i] = u[i]
        BY <3>1
      <4>2. b[i] = u[i]
        BY <2>1, <3>1
      <4> QED BY <4>1, <4>2
    <3>2. CASE i > Len(u)
      <4>1. i - Len(u) \in 1 .. Len(t) /\ i - Len(u) \in 1 .. Len(s)
        BY <2>1, <3>2
      <4>2. a[i] = t[i - Len(u)]
        BY <3>2, <4>1
      <4>3. b[i] = s[i - Len(u)]
        BY <2>1, <3>2, <4>1
      <4>4. t[i - Len(u)] = s[i - Len(u)]
        BY <2>1, <4>1
      <4> QED BY <4>2, <4>3, <4>4
    <3> HIDE DEF a, b
    <3> QED BY <2>2, <3>1, <3>2
  <2> HIDE DEF a, b
  <2>4. Len(a) <= Len(b) /\ \A i \in 1 .. Len(a) : a[i] = b[i]
    BY <2>1, <2>2, <2>3
  <2> QED BY <2>2, <2>4, PrefixIs DEF a, b
<1> QED BY <1>1, <1>2

-----------------------------------------------------------------------------
(***************************************************************************)
(* The pairs of states that a test leads to, and what it means that an     *)
(* implementation im passes a trace: whatever was answered before, both    *)
(* answer the next input with the same outputs.                            *)
(***************************************************************************)
ImplMachines == [TR!ImplState -> [Input -> TR!ImplRow]]
(* pairs of a state of the reference machine and one of the implementation *)
Pairs == State \X TR!ImplState

(* the pairs that trace t leads to from those of P *)
PairsFrom(r, im, P, t) == RunOf(<<"pairs", r, im>>, P, t)

(* all pairs answer x with the same outputs, and with one at least *)
Agreeing(r, im, P, x) ==
  \A p \in P :
    /\ \E y \in Output : r[p[1]][<<x, y>>] >= 0
    /\ \A y \in Output : r[p[1]][<<x, y>>] >= 0 <=> im[p[2]][x][y] >= 0

(* every prefix of t is answered alike *)
Passes(r, im, P, t) ==
  \A u \in Seq(Input), x \in Input : IsPrefix(Append(u, x), t) => Agreeing(r, im, PairsFrom(r, im, P, u), x)

(* No input, no step. *)
LEMMA PairsFromEmpty == \A r, im, P : PairsFrom(r, im, P, << >>) = P
BY RunOfEmpty DEF PairsFrom

(* The pairs after one input more. *)
LEMMA PairsFromAppend ==
  ASSUME NEW r, NEW im, NEW P, NEW t \in Seq(Input), NEW x \in Input
  PROVE  PairsFrom(r, im, P, Append(t, x)) = PairPosts(r, im, PairsFrom(r, im, P, t), x)
BY RunOfAppend, StepCases DEF PairsFrom

(* the same, for one pair *)
LEMMA PairPostsAre ==
  ASSUME NEW r, NEW im, NEW P, NEW x, NEW p
  PROVE  p \in PairPosts(r, im, P, x) <=>
           \E o \in P, y \in Output : r[o[1]][<<x, y>>] >= 0 /\ p = <<r[o[1]][<<x, y>>], im[o[2]][x][y]>>
BY DEF PairPosts

(* The pairs after two traces, one after the other. *)
LEMMA PairsFromConcat ==
  ASSUME NEW r, NEW im, NEW P, NEW u \in Seq(Input), NEW s \in Seq(Input)
  PROVE  PairsFrom(r, im, P, u \o s) = PairsFrom(r, im, PairsFrom(r, im, P, u), s)
<1> DEFINE A == {t \in Seq(Input) : PairsFrom(r, im, P, u \o t) = PairsFrom(r, im, PairsFrom(r, im, P, u), t)}
<1>1. << >> \in A
  <2>1. << >> \in Seq(Input) /\ u \o << >> = u
    BY ConcatEmptySeq
  <2> QED BY <2>1, PairsFromEmpty
<1>2. ASSUME NEW t \in Seq(Input), NEW x \in Input, t \in A PROVE Append(t, x) \in A
  <2>1. u \o t \in Seq(Input) /\ u \o Append(t, x) = Append(u \o t, x) /\ Append(t, x) \in Seq(Input)
    BY ConcatAppend
  <2>2. ASSUME NEW v \in Seq(Input)
        PROVE  PairsFrom(r, im, P, Append(v, x)) = PairPosts(r, im, PairsFrom(r, im, P, v), x)
    BY PairsFromAppend
  <2>3. PairsFrom(r, im, PairsFrom(r, im, P, u), Append(t, x))
          = PairPosts(r, im, PairsFrom(r, im, PairsFrom(r, im, P, u), t), x)
    BY PairsFromAppend
  <2> QED BY <1>2, <2>1, <2>2, <2>3
<1> HIDE DEF A
<1>3. s \in A
  BY <1>1, <1>2, SeqInduction
<1> QED BY <1>3 DEF A

(* The empty trace is passed. *)
LEMMA PassesEmpty == \A r, im, P : Passes(r, im, P, << >>)
<1>1. \A u \in Seq(Input), x \in Input : ~IsPrefix(Append(u, x), << >>)
  <2> SUFFICES ASSUME NEW u \in Seq(Input), NEW x \in Input, IsPrefix(Append(u, x), << >>) PROVE FALSE
    OBVIOUS
  <2>1. Append(u, x) \in Seq(Input) /\ Len(Append(u, x)) = Len(u) + 1 /\ << >> \in Seq(Input) /\ Len(<< >>) = 0
        /\ Len(u) \in Nat
    OBVIOUS
  <2>2. Len(Append(u, x)) <= Len(<< >>)
    BY <2>1, PrefixIs
  <2> QED BY <2>1, <2>2
<1> QED BY <1>1 DEF Passes

(* One input more is passed if it is answered alike. *)
LEMMA PassesAppend ==
  ASSUME NEW r, NEW im, NEW P, NEW t \in Seq(Input), NEW x \in Input
  PROVE  Passes(r, im, P, Append(t, x)) <=>
           Passes(r, im, P, t) /\ Agreeing(r, im, PairsFrom(r, im, P, t), x)
<1>0. Append(t, x) \in Seq(Input) /\ IsPrefix(t, Append(t, x)) /\ IsPrefix(Append(t, x), Append(t, x))
  <2> DEFINE a == Append(t, x)
  <2>1. a \in Seq(Input) /\ Len(t) <= Len(a) /\ \A i \in 1 .. Len(t) : t[i] = a[i]
    OBVIOUS
  <2> HIDE DEF a
  <2>2. IsPrefix(t, a) /\ IsPrefix(a, a)
    BY <2>1, PrefixIs
  <2> QED BY <2>1, <2>2 DEF a
<1>1. ASSUME Passes(r, im, P, Append(t, x)) PROVE Passes(r, im, P, t)
  <2> SUFFICES ASSUME NEW u \in Seq(Input), NEW z \in Input, IsPrefix(Append(u, z), t)
               PROVE  Agreeing(r, im, PairsFrom(r, im, P, u), z)
    BY DEF Passes
  <2>1. Append(u, z) \in Seq(Input)
    OBVIOUS
  <2>2. IsPrefix(Append(u, z), Append(t, x))
    BY <1>0, <2>1, PrefixOrder
  <2> QED BY <1>1, <2>2 DEF Passes
<1>2. ASSUME Passes(r, im, P, Append(t, x)) PROVE Agreeing(r, im, PairsFrom(r, im, P, t), x)
  BY <1>0, <1>2 DEF Passes
<1>3. ASSUME Passes(r, im, P, t), Agreeing(r, im, PairsFrom(r, im, P, t), x)
      PROVE  Passes(r, im, P, Append(t, x))
  <2> SUFFICES ASSUME NEW u \in Seq(Input), NEW z \in Input, IsPrefix(Append(u, z), Append(t, x))
               PROVE  Agreeing(r, im, PairsFrom(r, im, P, u), z)
    BY DEF Passes
  <2>1. Append(u, z) \in Seq(Input)
    OBVIOUS
  <2>2. CASE Append(u, z) = Append(t, x)
    <3>1. u = t
      BY <2>2, AppendInjective
    <3>2. z = x
      BY <2>2, AppendInjective
    <3> QED BY <1>3, <3>1, <3>2
  <2>3. CASE IsPrefix(Append(u, z), t)
    BY <1>3, <2>3 DEF Passes
  <2> QED BY <2>1, <2>2, <2>3, PrefixOfAppend
<1> QED BY <1>1, <1>2, <1>3

(* What passes a trace passes its prefixes. *)
LEMMA PassesPrefix ==
  ASSUME NEW r, NEW im, NEW P, NEW s \in Seq(Input), NEW t \in Seq(Input), IsPrefix(s, t), Passes(r, im, P, t)
  PROVE  Passes(r, im, P, s)
<1> SUFFICES ASSUME NEW u \in Seq(Input), NEW z \in Input, IsPrefix(Append(u, z), s)
             PROVE  Agreeing(r, im, PairsFrom(r, im, P, u), z)
  BY DEF Passes
<1>1. Append(u, z) \in Seq(Input)
  OBVIOUS
<1>2. IsPrefix(Append(u, z), t)
  BY <1>1, PrefixOrder
<1> QED BY <1>2 DEF Passes

(* Traces put together are passed one after the other. *)
LEMMA PassesConcat ==
  ASSUME NEW r, NEW im, NEW P, NEW u \in Seq(Input), NEW s \in Seq(Input), Passes(r, im, P, u \o s)
  PROVE  Passes(r, im, P, u) /\ Passes(r, im, PairsFrom(r, im, P, u), s)
<1>0. u \o s \in Seq(Input)
  OBVIOUS
<1>1. Passes(r, im, P, u)
  BY <1>0, PrefixOfConcat, PassesPrefix
<1>2. Passes(r, im, PairsFrom(r, im, P, u), s)
  <2> SUFFICES ASSUME NEW v \in Seq(Input), NEW z \in Input, IsPrefix(Append(v, z), s)
               PROVE  Agreeing(r, im, PairsFrom(r, im, PairsFrom(r, im, P, u), v), z)
    BY DEF Passes
  <2>1. Append(v, z) \in Seq(Input) /\ u \o v \in Seq(Input)
    OBVIOUS
  <2>2. IsPrefix(u \o Append(v, z), u \o s)
    BY <2>1, PrefixOfConcat
  <2>3. IsPrefix(Append(u \o v, z), u \o s)
    BY <2>2, ConcatAppend
  <2>4. Agreeing(r, im, PairsFrom(r, im, P, u \o v), z)
    BY <2>1, <2>3 DEF Passes
  <2> QED BY <2>4, PairsFromConcat
<1> QED BY <1>1, <1>2

(* The states of an implementation are naturals. *)
LEMMA ImplFacts ==
  /\ TR!ImplState \subseteq Nat
  /\ 0 \in TR!ImplState
BY NumStatesAssumption, MaxAddStatesAssumption DEF TR!ImplState

(* An entry of the implementation is a state or -1. *)
LEMMA ImplPosts ==
  ASSUME NEW im \in ImplMachines, NEW i \in TR!ImplState, NEW x \in Input, NEW y \in Output
  PROVE  /\ im[i][x][y] \in TR!ImplState \cup {-1}
         /\ im[i][x][y] >= 0 <=> im[i][x][y] \in TR!ImplState
<1>1. im[i][x] \in [Output -> TR!ImplState \cup {-1}]
  BY DEF ImplMachines, TR!ImplRow, TR!Out, Output
<1>2. im[i][x][y] \in TR!ImplState \cup {-1}
  BY <1>1
<1>3. \A s \in TR!ImplState : s >= 0
  BY ImplFacts
<1>4. -1 \notin TR!ImplState /\ ~(-1 >= 0)
  BY ImplFacts
<1>5. CASE im[i][x][y] = -1
  BY <1>4, <1>5
<1>6. CASE im[i][x][y] \in TR!ImplState
  BY <1>3, <1>6
<1> QED BY <1>2, <1>5, <1>6

(* Facts about PairsFrom(t) are proved along t. *)
LEMMA PostsTyped ==
  ASSUME NEW r \in Machines, NEW im \in ImplMachines, NEW S, S \subseteq TR!ImplState,
         \A i \in S, x \in Input, y \in Output : im[i][x][y] \in S \cup {-1},
         NEW Q \in SUBSET (State \X S), NEW x \in Input, Agreeing(r, im, Q, x)
  PROVE  PairPosts(r, im, Q, x) \subseteq State \X S
<1> SUFFICES ASSUME NEW p \in PairPosts(r, im, Q, x) PROVE p \in State \X S
  OBVIOUS
<1>1. PICK o \in Q, y \in Output : r[o[1]][<<x, y>>] >= 0 /\ p = <<r[o[1]][<<x, y>>], im[o[2]][x][y]>>
  BY PairPostsAre
<1>2. o[1] \in State /\ o[2] \in S /\ o[2] \in TR!ImplState
  OBVIOUS
<1>3. r[o[1]][<<x, y>>] \in State
  BY <1>1, <1>2, PostFacts
<1>4. im[o[2]][x][y] >= 0
  BY <1>1 DEF Agreeing
<1>5. im[o[2]][x][y] \in TR!ImplState
  BY <1>2, <1>4, ImplPosts
<1>6. im[o[2]][x][y] \in S
  <2>1. -1 \notin TR!ImplState
    BY ImplFacts
  <2>2. im[o[2]][x][y] \in S \cup {-1}
    BY <1>2
  <2> QED BY <1>5, <2>1, <2>2
<1> QED BY <1>1, <1>3, <1>6

(***************************************************************************)
(* Passed traces lead to pairs with states of a set that the               *)
(* implementation does not leave.                                          *)
(***************************************************************************)
LEMMA PairsTyped ==
  ASSUME NEW r \in Machines, NEW im \in ImplMachines, NEW S, S \subseteq TR!ImplState,
         \A i \in S, x \in Input, y \in Output : im[i][x][y] \in S \cup {-1},
         NEW P \in SUBSET (State \X S), NEW t \in Seq(Input), Passes(r, im, P, t)
  PROVE  PairsFrom(r, im, P, t) \subseteq State \X S
<1> DEFINE A == {u \in Seq(Input) : Passes(r, im, P, u) => PairsFrom(r, im, P, u) \subseteq State \X S}
<1>1. << >> \in A
  <2>1. << >> \in Seq(Input)
    OBVIOUS
  <2> QED BY <2>1, PairsFromEmpty
<1>2. ASSUME NEW u \in Seq(Input), NEW x \in Input, u \in A PROVE Append(u, x) \in A
  <2>1. Append(u, x) \in Seq(Input)
    OBVIOUS
  <2>2. ASSUME Passes(r, im, P, Append(u, x)) PROVE PairsFrom(r, im, P, Append(u, x)) \subseteq State \X S
    <3>1. Passes(r, im, P, u) /\ Agreeing(r, im, PairsFrom(r, im, P, u), x)
      BY <2>2, PassesAppend
    <3>2. PairsFrom(r, im, P, u) \subseteq State \X S
      BY <1>2, <3>1
    <3>3. PairPosts(r, im, PairsFrom(r, im, P, u), x) \subseteq State \X S
      BY <3>1, <3>2, PostsTyped
    <3> QED BY <3>3, PairsFromAppend
  <2> QED BY <2>1, <2>2
<1> HIDE DEF A
<1>3. t \in A
  BY <1>1, <1>2, SeqInduction
<1> QED BY <1>3 DEF A

(* So they lead to pairs of states. *)
LEMMA PairsArePairs ==
  ASSUME NEW r \in Machines, NEW im \in ImplMachines,
         NEW P \in SUBSET Pairs, NEW t \in Seq(Input), Passes(r, im, P, t)
  PROVE  PairsFrom(r, im, P, t) \subseteq Pairs
<1>1. \A i \in TR!ImplState, x \in Input, y \in Output : im[i][x][y] \in TR!ImplState \cup {-1}
  BY ImplPosts
<1> QED BY <1>1, PairsTyped DEF Pairs

(* An implementation of which more has been seen passes what it has passed. *)
Extends(im, im2) ==
  \A i \in TR!ImplState, x \in Input : (\E y \in Output : im[i][x][y] >= 0) => im2[i][x] = im[i][x]

(***************************************************************************)
(* What an implementation does in the states of the pairs is all that the  *)
(* next pairs depend on, ...                                               *)
(***************************************************************************)
LEMMA FewerPosts ==
  ASSUME NEW r, NEW im, NEW im2, NEW Q, NEW x, \A o \in Q : im2[o[2]][x] = im[o[2]][x]
  PROVE  PairPosts(r, im, Q, x) \subseteq PairPosts(r, im2, Q, x)
<1> SUFFICES ASSUME NEW p \in PairPosts(r, im, Q, x) PROVE p \in PairPosts(r, im2, Q, x)
  OBVIOUS
<1>1. PICK o \in Q, y \in Output : r[o[1]][<<x, y>>] >= 0 /\ p = <<r[o[1]][<<x, y>>], im[o[2]][x][y]>>
  BY PairPostsAre
<1>2. p = <<r[o[1]][<<x, y>>], im2[o[2]][x][y]>>
  BY <1>1
<1> QED BY <1>1, <1>2, PairPostsAre

(* ... in both directions. *)
LEMMA SamePosts ==
  ASSUME NEW r, NEW im, NEW im2, NEW Q, NEW x, \A o \in Q : im2[o[2]][x] = im[o[2]][x]
  PROVE  PairPosts(r, im2, Q, x) = PairPosts(r, im, Q, x)
<1>1. PairPosts(r, im, Q, x) \subseteq PairPosts(r, im2, Q, x)
  BY FewerPosts
<1>2. PairPosts(r, im2, Q, x) \subseteq PairPosts(r, im, Q, x)
  BY FewerPosts
<1> QED BY <1>1, <1>2

(* More transitions elsewhere change neither the pairs nor the verdict. *)
LEMMA ExtendsKeeps ==
  ASSUME NEW r \in Machines, NEW im \in ImplMachines, NEW im2 \in ImplMachines, Extends(im, im2),
         NEW P \in SUBSET Pairs, NEW t \in Seq(Input), Passes(r, im, P, t)
  PROVE  PairsFrom(r, im2, P, t) = PairsFrom(r, im, P, t) /\ Passes(r, im2, P, t)
<1> DEFINE A == {u \in Seq(Input) : Passes(r, im, P, u) =>
                   PairsFrom(r, im2, P, u) = PairsFrom(r, im, P, u) /\ Passes(r, im2, P, u)}
<1>1. << >> \in A
  <2>1. << >> \in Seq(Input)
    OBVIOUS
  <2> QED BY <2>1, PairsFromEmpty, PassesEmpty
<1>2. ASSUME NEW u \in Seq(Input), NEW x \in Input, u \in A PROVE Append(u, x) \in A
  <2>1. Append(u, x) \in Seq(Input)
    OBVIOUS
  <2>2. ASSUME Passes(r, im, P, Append(u, x))
        PROVE  /\ PairsFrom(r, im2, P, Append(u, x)) = PairsFrom(r, im, P, Append(u, x))
               /\ Passes(r, im2, P, Append(u, x))
    <3> DEFINE Q == PairsFrom(r, im, P, u)
    <3>1. Passes(r, im, P, u) /\ Agreeing(r, im, Q, x)
      BY <2>2, PassesAppend
    <3>2. PairsFrom(r, im2, P, u) = Q /\ Passes(r, im2, P, u)
      BY <1>2, <3>1
    <3>3. Q \subseteq Pairs
      BY <3>1, PairsArePairs
    <3>a. PairsFrom(r, im, P, Append(u, x)) = PairPosts(r, im, Q, x)
      BY PairsFromAppend
    <3>b. PairsFrom(r, im2, P, Append(u, x)) = PairPosts(r, im2, Q, x)
      BY <3>2, PairsFromAppend
    <3> HIDE DEF Q
    <3>4. \A p \in Q : im2[p[2]][x] = im[p[2]][x]
      <4> SUFFICES ASSUME NEW p \in Q PROVE im2[p[2]][x] = im[p[2]][x]
        OBVIOUS
      <4>1. p[2] \in TR!ImplState
        BY <3>3 DEF Pairs
      <4>2. \E y \in Output : im[p[2]][x][y] >= 0
        BY <3>1 DEF Agreeing
      <4> QED BY <4>1, <4>2 DEF Extends
    <3>5. PairPosts(r, im2, Q, x) = PairPosts(r, im, Q, x)
      BY <3>4, SamePosts
    <3>6. Agreeing(r, im2, Q, x)
      BY <3>1, <3>4 DEF Agreeing
    <3>7. Passes(r, im2, P, Append(u, x))
      BY <3>2, <3>6, PassesAppend
    <3> QED BY <3>a, <3>b, <3>5, <3>7
  <2> QED BY <2>1, <2>2
<1> HIDE DEF A
<1>3. t \in A
  BY <1>1, <1>2, SeqInduction
<1> QED BY <1>3 DEF A

(* From fewer pairs one gets to fewer pairs. *)
LEMMA FewerPairs ==
  ASSUME NEW r, NEW im, NEW P, NEW Q \in SUBSET P, NEW t \in Seq(Input)
  PROVE  PairsFrom(r, im, Q, t) \subseteq PairsFrom(r, im, P, t)
<1> DEFINE A == {u \in Seq(Input) : PairsFrom(r, im, Q, u) \subseteq PairsFrom(r, im, P, u)}
<1>1. << >> \in A
  <2>1. << >> \in Seq(Input)
    OBVIOUS
  <2> QED BY <2>1, PairsFromEmpty
<1>2. ASSUME NEW u \in Seq(Input), NEW x \in Input, u \in A PROVE Append(u, x) \in A
  <2>1. Append(u, x) \in Seq(Input)
    OBVIOUS
  <2>2. PairsFrom(r, im, Q, u) \subseteq PairsFrom(r, im, P, u)
    BY <1>2
  <2>3. PairPosts(r, im, PairsFrom(r, im, Q, u), x) \subseteq PairPosts(r, im, PairsFrom(r, im, P, u), x)
    BY <2>2 DEF PairPosts
  <2>4. PairsFrom(r, im, Q, Append(u, x)) = PairPosts(r, im, PairsFrom(r, im, Q, u), x)
    BY PairsFromAppend
  <2>5. PairsFrom(r, im, P, Append(u, x)) = PairPosts(r, im, PairsFrom(r, im, P, u), x)
    BY PairsFromAppend
  <2> QED BY <2>1, <2>3, <2>4, <2>5
<1> HIDE DEF A
<1>3. t \in A
  BY <1>1, <1>2, SeqInduction
<1> QED BY <1>3 DEF A

(* Fewer pairs pass what more pairs pass. *)
LEMMA FewerPass ==
  ASSUME NEW r, NEW im, NEW P, NEW Q \in SUBSET P, NEW t \in Seq(Input), Passes(r, im, P, t)
  PROVE  Passes(r, im, Q, t)
<1> SUFFICES ASSUME NEW u \in Seq(Input), NEW x \in Input, IsPrefix(Append(u, x), t)
             PROVE  Agreeing(r, im, PairsFrom(r, im, Q, u), x)
  BY DEF Passes
<1>1. PairsFrom(r, im, Q, u) \subseteq PairsFrom(r, im, P, u)
  BY FewerPairs
<1>2. Agreeing(r, im, PairsFrom(r, im, P, u), x)
  BY DEF Passes
<1> QED BY <1>1, <1>2 DEF Agreeing

(***************************************************************************)
(* What passing a trace says of the states behind a pair.                  *)
(***************************************************************************)
LEMMA PairPostOf ==
  ASSUME NEW r, NEW im, NEW P, NEW x, NEW y \in Output, NEW s, NEW j,
         <<s, j>> \in P, r[s][<<x, y>>] >= 0
  PROVE  <<r[s][<<x, y>>], im[j][x][y]>> \in PairPosts(r, im, P, x)
<1> DEFINE o == <<s, j>>
<1>1. o \in P /\ o[1] = s /\ o[2] = j
  OBVIOUS
<1>2. r[o[1]][<<x, y>>] >= 0 /\ <<r[s][<<x, y>>], im[j][x][y]>> = <<r[o[1]][<<x, y>>], im[o[2]][x][y]>>
  OBVIOUS
<1> HIDE DEF o
<1> QED BY <1>1, <1>2, PairPostsAre

(* p is where x leads from a state of Q, if it leads anywhere *)
IsPost(r, Q, x, p) == \E o \in Q, y \in Output : p = r[o][<<x, y>>]

(* Post-states are entries of the machine. *)
LEMMA PostsComeFrom ==
  ASSUME NEW r, NEW Q, NEW x, NEW p \in PostsOf(r, Q, x)
  PROVE  IsPost(r, Q, x, p)
BY DEF PostsOf, IsPost

(***************************************************************************)
(* A state of the implementation and a state of the reference machine that *)
(* pass a trace have the same leaves under it.                             *)
(***************************************************************************)
LEMMA CommonLeaves ==
  ASSUME NEW r \in Machines, Complete(r), NEW im \in ImplMachines,
         NEW p \in State, NEW q \in State, NEW i \in TR!ImplState, NEW t \in Seq(Input),
         Passes(r, im, {<<p, i>>}, t), Passes(r, im, {<<q, i>>}, t),
         NEW leaf \in LeavesOf(r, p, t)
  PROVE  \E s \in State, j \in TR!ImplState :
           /\ <<leaf[1], s>> \in LeavesOf(r, q, t)
           /\ <<leaf[2], j>> \in PairsFrom(r, im, {<<p, i>>}, t)
           /\ <<s, j>> \in PairsFrom(r, im, {<<q, i>>}, t)
<1> DEFINE From(a, u) == PairsFrom(r, im, {<<a, i>>}, u)
           Common(lf, u) == \E s \in State, j \in TR!ImplState :
                              /\ <<lf[1], s>> \in LeavesOf(r, q, u)
                              /\ <<lf[2], j>> \in From(p, u) /\ <<s, j>> \in From(q, u)
           A == {u \in Seq(Input) : Passes(r, im, {<<p, i>>}, u) /\ Passes(r, im, {<<q, i>>}, u) =>
                   \A lf \in LeavesOf(r, p, u) : Common(lf, u)}
<1>1. << >> \in A
  <2>1. << >> \in Seq(Input)
    OBVIOUS
  <2>2. From(p, << >>) = {<<p, i>>} /\ From(q, << >>) = {<<q, i>>}
    BY PairsFromEmpty
  <2>3. LeavesOf(r, p, << >>) = {<< << >>, p>>} /\ LeavesOf(r, q, << >>) = {<< << >>, q>>}
    BY LeavesEmpty
  <2> HIDE DEF From
  <2>4. ASSUME NEW lf \in LeavesOf(r, p, << >>) PROVE Common(lf, << >>)
    <3>1. lf[1] = << >> /\ lf[2] = p
      BY <2>3
    <3> QED BY <2>2, <2>3, <3>1
  <2> QED BY <2>1, <2>4
<1>2. ASSUME NEW u \in Seq(Input), NEW x \in Input, u \in A PROVE Append(u, x) \in A
  <2>1. Append(u, x) \in Seq(Input)
    OBVIOUS
  <2>2. ASSUME Passes(r, im, {<<p, i>>}, Append(u, x)), Passes(r, im, {<<q, i>>}, Append(u, x)),
               NEW lf \in LeavesOf(r, p, Append(u, x))
        PROVE  Common(lf, Append(u, x))
    <3>p. Passes(r, im, {<<p, i>>}, u) /\ Agreeing(r, im, From(p, u), x)
      BY <2>2, PassesAppend
    <3>q. Passes(r, im, {<<q, i>>}, u) /\ Agreeing(r, im, From(q, u), x)
      BY <2>2, PassesAppend
    <3>1. /\ Passes(r, im, {<<p, i>>}, u) /\ Agreeing(r, im, From(p, u), x)
          /\ Passes(r, im, {<<q, i>>}, u) /\ Agreeing(r, im, From(q, u), x)
      BY <3>p, <3>q
    <3>2. Len(lf[1]) = Len(u) + 1
      <4> DEFINE a == Append(u, x)
      <4>1. Len(a) = Len(u) + 1
        OBVIOUS
      <4>2. a \in Seq(Input) /\ lf \in LeavesOf(r, p, a)
        BY <2>1, <2>2
      <4> HIDE DEF a
      <4>3. Len(lf[1]) = Len(a)
        BY <4>2, LeavesComplete
      <4> QED BY <4>1, <4>3
    <3>3. PICK ys \in Seq(Output), s \in State, y \in Output :
            /\ <<ys, s>> \in LeavesOf(r, p, u)
            /\ r[s][<<x, y>>] \in State
            /\ lf = <<Append(ys, y), r[s][<<x, y>>]>>
      <4> HIDE DEF A, Common, From
      <4> QED BY <2>2, <3>2, LeafFrom
    <3>4. PICK z \in State, j \in TR!ImplState :
            <<ys, z>> \in LeavesOf(r, q, u) /\ <<s, j>> \in From(p, u) /\ <<z, j>> \in From(q, u)
      BY <1>2, <3>1, <3>3
    <3>5. r[s][<<x, y>>] >= 0
      BY <3>3, PostFacts
    <3>6. im[j][x][y] >= 0
      BY <3>1, <3>4, <3>5 DEF Agreeing
    <3>7. r[z][<<x, y>>] >= 0
      BY <3>1, <3>4, <3>6 DEF Agreeing
    <3>8. r[z][<<x, y>>] \in State /\ im[j][x][y] \in TR!ImplState
      BY <3>6, <3>7, PostFacts, ImplPosts
    <3>9. <<Append(ys, y), r[z][<<x, y>>]>> \in LeavesOf(r, q, Append(u, x))
      BY <3>4, <3>8, LeafGrows
    <3>a. From(p, Append(u, x)) = PairPosts(r, im, From(p, u), x)
      BY PairsFromAppend
    <3>b. From(q, Append(u, x)) = PairPosts(r, im, From(q, u), x)
      BY PairsFromAppend
    <3> HIDE DEF From
    <3>c. <<r[s][<<x, y>>], im[j][x][y]>> \in From(p, Append(u, x))
      BY <3>4, <3>5, <3>a, PairPostOf
    <3>d. <<r[z][<<x, y>>], im[j][x][y]>> \in From(q, Append(u, x))
      BY <3>4, <3>7, <3>b, PairPostOf
    <3>e. lf[1] = Append(ys, y) /\ lf[2] = r[s][<<x, y>>]
      BY <3>3
    <3> QED BY <3>8, <3>9, <3>c, <3>d, <3>e
  <2> HIDE DEF Common
  <2> QED BY <2>1, <2>2
<1> HIDE DEF A, Common
<1>3. t \in A
  BY <1>1, <1>2, SeqInduction
<1>4. Common(leaf, t)
  BY <1>3 DEF A
<1> QED BY <1>4 DEF Common

(***************************************************************************)
(* Two states of the reference machine that pass a trace with one state of *)
(* the implementation answer it alike.                                     *)
(***************************************************************************)
LEMMA SameOutputs ==
  ASSUME NEW r \in Machines, Complete(r), NEW im \in ImplMachines,
         NEW p \in State, NEW q \in State, NEW i \in TR!ImplState, NEW t \in Seq(Input),
         Passes(r, im, {<<p, i>>}, t), Passes(r, im, {<<q, i>>}, t)
  PROVE  ~Differ(r, p, q, t)
<1>1. OutputsOf(r, p, t) \subseteq OutputsOf(r, q, t)
  <2> SUFFICES ASSUME NEW leaf \in LeavesOf(r, p, t) PROVE leaf[1] \in OutputsOf(r, q, t)
    BY DEF OutputsOf
  <2>1. PICK s \in State : <<leaf[1], s>> \in LeavesOf(r, q, t)
    BY CommonLeaves
  <2> DEFINE g == <<leaf[1], s>>
  <2>2. g \in LeavesOf(r, q, t) /\ g[1] = leaf[1]
    BY <2>1
  <2> HIDE DEF g
  <2> QED BY <2>2 DEF OutputsOf
<1>2. OutputsOf(r, q, t) \subseteq OutputsOf(r, p, t)
  <2> SUFFICES ASSUME NEW leaf \in LeavesOf(r, q, t) PROVE leaf[1] \in OutputsOf(r, p, t)
    BY DEF OutputsOf
  <2>1. PICK s \in State : <<leaf[1], s>> \in LeavesOf(r, p, t)
    BY CommonLeaves
  <2> DEFINE g == <<leaf[1], s>>
  <2>2. g \in LeavesOf(r, p, t) /\ g[1] = leaf[1]
    BY <2>1
  <2> HIDE DEF g
  <2> QED BY <2>2 DEF OutputsOf
<1> QED BY <1>1, <1>2 DEF Differ

(* Two pairs with the same state of the implementation, both of which pass *)
(* a trace that distinguishes the others, are the same.                    *)
LEMMA PairPasses ==
  ASSUME NEW r, NEW im, NEW P, NEW u \in Seq(Input), NEW t \in Seq(Input),
         Passes(r, im, P, u \o t), NEW p \in PairsFrom(r, im, P, u)
  PROVE  Passes(r, im, {p}, t)
<1>1. Passes(r, im, PairsFrom(r, im, P, u), t)
  BY PassesConcat
<1>2. {p} \in SUBSET PairsFrom(r, im, P, u)
  OBVIOUS
<1> QED BY <1>1, <1>2, FewerPass

(* both machines in their initial states *)
Start == {<<0, 0>>}

(* Every state that a passed trace leads to is part of a pair, ...         *)
LEMMA StateHasPair ==
  ASSUME NEW r \in Machines, NEW im \in ImplMachines, NEW t \in Seq(Input),
         Passes(r, im, Start, t), NEW q \in StatesAfter(r, t)
  PROVE  \E i \in TR!ImplState : <<q, i>> \in PairsFrom(r, im, Start, t)
<1> DEFINE A == {u \in Seq(Input) : Passes(r, im, Start, u) =>
                   \A s \in StatesAfter(r, u) : \E i \in TR!ImplState : <<s, i>> \in PairsFrom(r, im, Start, u)}
<1>1. << >> \in A
  <2>1. << >> \in Seq(Input) /\ 0 \in TR!ImplState
    BY ImplFacts
  <2>2. StatesAfter(r, << >>) = {0}
    BY RunOfEmpty DEF StatesAfter
  <2>3. PairsFrom(r, im, Start, << >>) = Start
    BY PairsFromEmpty
  <2> QED BY <2>1, <2>2, <2>3 DEF Start
<1>2. ASSUME NEW u \in Seq(Input), NEW x \in Input, u \in A PROVE Append(u, x) \in A
  <2>1. Append(u, x) \in Seq(Input)
    OBVIOUS
  <2>2. ASSUME Passes(r, im, Start, Append(u, x)), NEW s \in StatesAfter(r, Append(u, x))
        PROVE  \E i \in TR!ImplState : <<s, i>> \in PairsFrom(r, im, Start, Append(u, x))
    <3>1. Passes(r, im, Start, u) /\ Agreeing(r, im, PairsFrom(r, im, Start, u), x)
      BY <2>2, PassesAppend
    <3>2. s \in PostsOf(r, StatesAfter(r, u), x)
      BY <2>2, StatesAfterAppend
    <3>0. IsPost(r, StatesAfter(r, u), x, s)
      BY <3>2, PostsComeFrom
    <3>3. PICK o \in StatesAfter(r, u), y \in Output : s = r[o][<<x, y>>]
      BY ONLY <3>0 DEF IsPost
    <3>4. o \in State /\ s \in State
      BY <2>1, StatesAfterTyped
    <3>5. s >= 0
      BY <3>3, <3>4, PostFacts
    <3>6. PICK j \in TR!ImplState : <<o, j>> \in PairsFrom(r, im, Start, u)
      BY <1>2, <3>1
    <3>7. im[j][x][y] >= 0
      BY <3>1, <3>3, <3>5, <3>6 DEF Agreeing
    <3>8. im[j][x][y] \in TR!ImplState
      BY <3>7, ImplPosts
    <3>9. <<s, im[j][x][y]>> \in PairPosts(r, im, PairsFrom(r, im, Start, u), x)
      BY <3>3, <3>5, <3>6, PairPostOf
    <3>a. PairsFrom(r, im, Start, Append(u, x)) = PairPosts(r, im, PairsFrom(r, im, Start, u), x)
      BY PairsFromAppend
    <3> QED BY <3>8, <3>9, <3>a
  <2> QED BY <2>1, <2>2
<1> HIDE DEF A
<1>3. t \in A
  BY <1>1, <1>2, SeqInduction
<1> QED BY <1>3 DEF A

(* ... and no others are.                                                  *)
LEMMA PairHasState ==
  ASSUME NEW r \in Machines, NEW im, NEW t \in Seq(Input),
         NEW p \in PairsFrom(r, im, Start, t)
  PROVE  p[1] \in StatesAfter(r, t)
<1> DEFINE A == {u \in Seq(Input) : \A o \in PairsFrom(r, im, Start, u) : o[1] \in StatesAfter(r, u)}
<1>1. << >> \in A
  <2>1. << >> \in Seq(Input)
    OBVIOUS
  <2>2. StatesAfter(r, << >>) = {0}
    BY RunOfEmpty DEF StatesAfter
  <2>3. PairsFrom(r, im, Start, << >>) = Start
    BY PairsFromEmpty
  <2> QED BY <2>1, <2>2, <2>3 DEF Start
<1>2. ASSUME NEW u \in Seq(Input), NEW x \in Input, u \in A PROVE Append(u, x) \in A
  <2>1. Append(u, x) \in Seq(Input)
    OBVIOUS
  <2>2. ASSUME NEW s \in PairsFrom(r, im, Start, Append(u, x)) PROVE s[1] \in StatesAfter(r, Append(u, x))
    <3>1. s \in PairPosts(r, im, PairsFrom(r, im, Start, u), x)
      BY PairsFromAppend
    <3>2. PICK o \in PairsFrom(r, im, Start, u), y \in Output :
            r[o[1]][<<x, y>>] >= 0 /\ s = <<r[o[1]][<<x, y>>], im[o[2]][x][y]>>
      BY <3>1, PairPostsAre
    <3>3. o[1] \in StatesAfter(r, u) /\ o[1] \in State
      BY <1>2, StatesAfterTyped
    <3>4. r[o[1]][<<x, y>>] # -1
      BY <3>2, ~(-1 >= 0)
    <3>5. r[o[1]][<<x, y>>] \in PostsOf(r, StatesAfter(r, u), x)
      BY <3>3, <3>4 DEF PostsOf
    <3>6. s[1] = r[o[1]][<<x, y>>]
      BY <3>2
    <3> QED BY <3>5, <3>6, StatesAfterAppend
  <2> QED BY <2>1, <2>2
<1> HIDE DEF A
<1>3. t \in A
  BY <1>1, <1>2, SeqInduction
<1> QED BY <1>3 DEF A

(***************************************************************************)
(* The traces of a cover with up to k inputs behind them, and the pairs of *)
(* states that they lead to.                                               *)
(***************************************************************************)
Ext(V, k) == {u \in Seq(Input) : \E v \in V, b \in Seq(Input) : Len(b) <= k /\ u = v \o b}

(* the pairs that these traces lead to *)
ReachedBy(r, im, V, k) == UNION {PairsFrom(r, im, Start, u) : u \in Ext(V, k)}

(* Such traces, with one input more, too. *)
LEMMA ExtFacts ==
  ASSUME NEW V \in SUBSET Seq(Input), NEW k \in Nat
  PROVE  /\ Ext(V, k) \subseteq Seq(Input)
         /\ V \subseteq Ext(V, k)
         /\ \A j \in Nat : j <= k => Ext(V, j) \subseteq Ext(V, k)
         /\ \A u \in Ext(V, k), x \in Input : Append(u, x) \in Ext(V, k + 1)
<1>1. Ext(V, k) \subseteq Seq(Input)
  BY DEF Ext
<1>2. ASSUME NEW v \in V PROVE v \in Ext(V, k)
  <2> DEFINE e == << >>
  <2>1. e \in Seq(Input) /\ Len(e) <= k
    OBVIOUS
  <2>2. v \in Seq(Input) /\ v = v \o e
    BY ConcatEmptySeq
  <2> HIDE DEF e
  <2> QED BY <2>1, <2>2 DEF Ext
<1>3. ASSUME NEW j \in Nat, j <= k PROVE Ext(V, j) \subseteq Ext(V, k)
  <2>1. \A b \in Seq(Input) : Len(b) <= j => Len(b) <= k
    BY <1>3
  <2> QED BY <2>1 DEF Ext
<1>4. ASSUME NEW u \in Ext(V, k), NEW x \in Input PROVE Append(u, x) \in Ext(V, k + 1)
  <2>1. PICK v \in V, b \in Seq(Input) : Len(b) <= k /\ u = v \o b
    BY DEF Ext
  <2>2. v \o Append(b, x) = Append(u, x)
    BY <2>1, ConcatAppend
  <2>3. Append(b, x) \in Seq(Input) /\ Len(Append(b, x)) <= k + 1 /\ u \in Seq(Input)
    BY <1>1, <2>1
  <2>4. Append(u, x) \in Seq(Input)
    BY <2>3
  <2> QED BY <2>2, <2>3, <2>4 DEF Ext
<1> QED BY <1>1, <1>2, <1>3, <1>4

(***************************************************************************)
(* What a suite has to apply: the cover with m + 1 inputs behind it; W     *)
(* behind the cover with m inputs; and behind the last of these inputs a   *)
(* trace of W for each state that differs from the one reached.  The       *)
(* implementation has passed all that and has m states more at most.       *)
(***************************************************************************)
Sufficient(r, im, V, W, m) ==
  /\ V \in SUBSET Seq(Input) /\ W \in SUBSET Seq(Input) /\ << >> \in V
  /\ \A q \in State : \E v \in V : q \in StatesAfter(r, v)
  /\ \A u \in Ext(V, m + 1) : Passes(r, im, Start, u)
  /\ \A u \in Ext(V, m), t \in W : Passes(r, im, Start, u \o t)
  /\ \A u \in Ext(V, m + 1) : \A q \in StatesAfter(r, u), p \in State :
       p # q => \E t \in W : Differ(r, q, p, t) /\ Passes(r, im, Start, u \o t)
  /\ Cardinality(TR!Seen(im)) <= numStates + m

(* nothing else is behind the pairs of R *)
Closed(r, im, R) ==
  \A x \in Input : Agreeing(r, im, R, x) /\ PairPosts(r, im, R, x) \subseteq R

(* states that have been seen *)
LEMMA SeenFacts ==
  ASSUME NEW im \in ImplMachines
  PROVE  /\ TR!Seen(im) \subseteq TR!ImplState
         /\ 0 \in TR!Seen(im)
         /\ \A i \in TR!Seen(im), x \in Input, y \in Output : im[i][x][y] \in TR!Seen(im) \cup {-1}
         /\ IsFiniteSet(TR!Seen(im)) /\ Cardinality(TR!Seen(im)) \in Nat
<1>1. TR!Seen(im) \subseteq TR!ImplState
  <2> SUFFICES ASSUME NEW s \in TR!Seen(im) PROVE s \in TR!ImplState
    OBVIOUS
  <2>1. s = 0 \/ (s # -1 /\ \E i \in TR!ImplState, x \in Input, y \in Output : s = im[i][x][y])
    BY DEF TR!Seen, TR!In, TR!Out, Input, Output
  <2> QED BY <2>1, ImplFacts, ImplPosts
<1>2. 0 \in TR!Seen(im)
  BY DEF TR!Seen
<1>3. ASSUME NEW i \in TR!Seen(im), NEW x \in Input, NEW y \in Output
      PROVE  im[i][x][y] \in TR!Seen(im) \cup {-1}
  <2>1. i \in TR!ImplState
    BY <1>1
  <2> QED BY <2>1 DEF TR!Seen, TR!In, TR!Out, Input, Output
<1>4. IsFiniteSet(TR!ImplState)
  BY NumStatesAssumption, MaxAddStatesAssumption, FS_Interval DEF TR!ImplState
<1>5. IsFiniteSet(TR!Seen(im)) /\ Cardinality(TR!Seen(im)) \in Nat
  BY <1>1, <1>4, FS_Subset, FS_CardinalityType
<1> QED BY <1>1, <1>2, <1>3, <1>5

(* the pairs reached are pairs of states that have been seen *)
LEMMA ReachedTyped ==
  ASSUME NEW r \in Machines, NEW im \in ImplMachines, NEW u \in Seq(Input), Passes(r, im, Start, u)
  PROVE  PairsFrom(r, im, Start, u) \subseteq State \X TR!Seen(im)
<1>1. Start \in SUBSET (State \X TR!Seen(im))
  BY SeenFacts, StateFacts DEF Start
<1> QED BY <1>1, SeenFacts, PairsTyped

(***************************************************************************)
(* Why that is enough.  A state of the implementation in a pair reached by *)
(* the cover with m inputs behind it belongs to one state of the reference *)
(* machine only, since all of W was applied.                               *)
(***************************************************************************)
LEMMA ReachedIs ==
  ASSUME NEW r, NEW im, NEW V, NEW k, NEW p
  PROVE  p \in ReachedBy(r, im, V, k) <=> \E u \in Ext(V, k) : p \in PairsFrom(r, im, Start, u)
BY DEF ReachedBy

(* So a state of the implementation is paired with one state. *)
LEMMA OneStateEach ==
  ASSUME NEW r \in Machines, Complete(r), NEW im \in ImplMachines, NEW V, NEW W, NEW m \in Nat,
         Sufficient(r, im, V, W, m),
         NEW p \in ReachedBy(r, im, V, m), NEW q \in ReachedBy(r, im, V, m + 1), p[2] = q[2]
  PROVE  p = q
<1>1. PICK u \in Ext(V, m) : p \in PairsFrom(r, im, Start, u)
  BY ReachedIs
<1>2. PICK v \in Ext(V, m + 1) : q \in PairsFrom(r, im, Start, v)
  BY ReachedIs
<1>3. V \in SUBSET Seq(Input) /\ m + 1 \in Nat /\ m <= m + 1
  BY DEF Sufficient
<1>4. u \in Seq(Input) /\ u \in Ext(V, m + 1) /\ v \in Seq(Input)
  BY <1>3, ExtFacts
<1>5. Passes(r, im, Start, u) /\ Passes(r, im, Start, v)
  BY <1>4 DEF Sufficient
<1>6. p \in State \X TR!Seen(im) /\ q \in State \X TR!Seen(im)
  BY <1>1, <1>2, <1>4, <1>5, ReachedTyped
<1>7. p[2] \in TR!ImplState /\ p[1] \in State /\ q[1] \in State
  BY <1>6, SeenFacts
<1>8. q[1] \in StatesAfter(r, v)
  BY <1>2, <1>4, PairHasState
<1>9. p[1] = q[1]
  <2> SUFFICES ASSUME p[1] # q[1] PROVE FALSE
    OBVIOUS
  <2>1. PICK t \in W : Differ(r, q[1], p[1], t) /\ Passes(r, im, Start, v \o t)
    BY <1>7, <1>8 DEF Sufficient
  <2>2. t \in Seq(Input) /\ Passes(r, im, Start, u \o t)
    BY DEF Sufficient
  <2>3. Passes(r, im, {p}, t)
    BY <1>1, <1>4, <2>2, PairPasses
  <2>4. Passes(r, im, {q}, t)
    BY <1>2, <1>4, <2>1, <2>2, PairPasses
  <2>5. p = <<p[1], p[2]>> /\ q = <<q[1], p[2]>>
    BY <1>6
  <2>6. Passes(r, im, {<<p[1], p[2]>>}, t) /\ Passes(r, im, {<<q[1], p[2]>>}, t)
    BY <2>3, <2>4, <2>5
  <2>7. ~Differ(r, q[1], p[1], t)
    BY <1>7, <2>2, <2>6, SameOutputs
  <2> QED BY <2>1, <2>7
<1> QED BY <1>6, <1>9

(* the states of the implementation that are reached *)
ImplReached(r, im, V, k) == {p[2] : p \in ReachedBy(r, im, V, k)}

(* More inputs reach no less. *)
LEMMA ReachedGrows ==
  ASSUME NEW r, NEW im, NEW V \in SUBSET Seq(Input), NEW j \in Nat, NEW k \in Nat, j <= k
  PROVE  ReachedBy(r, im, V, j) \subseteq ReachedBy(r, im, V, k)
<1>1. Ext(V, j) \subseteq Ext(V, k)
  BY ExtFacts
<1> QED BY <1>1 DEF ReachedBy

(***************************************************************************)
(* What is reached has been seen, and so there is no more of it than       *)
(* numStates + m.                                                          *)
(***************************************************************************)
LEMMA ImplReachedTyped ==
  ASSUME NEW r \in Machines, NEW im \in ImplMachines, NEW V, NEW W, NEW m \in Nat,
         Sufficient(r, im, V, W, m), NEW k \in 0 .. m + 1
  PROVE  /\ ReachedBy(r, im, V, k) \subseteq State \X TR!Seen(im)
         /\ ImplReached(r, im, V, k) \subseteq TR!Seen(im)
         /\ IsFiniteSet(ImplReached(r, im, V, k))
         /\ Cardinality(ImplReached(r, im, V, k)) \in Nat
         /\ Cardinality(ImplReached(r, im, V, k)) <= numStates + m
<1>1. V \in SUBSET Seq(Input) /\ m + 1 \in Nat /\ k \in Nat /\ k <= m + 1
  BY DEF Sufficient
<1>2. ReachedBy(r, im, V, k) \subseteq State \X TR!Seen(im)
  <2> SUFFICES ASSUME NEW p \in ReachedBy(r, im, V, k) PROVE p \in State \X TR!Seen(im)
    OBVIOUS
  <2>1. PICK u \in Ext(V, k) : p \in PairsFrom(r, im, Start, u)
    BY ReachedIs
  <2>2. u \in Ext(V, m + 1) /\ u \in Seq(Input)
    BY <1>1, ExtFacts
  <2>3. Passes(r, im, Start, u)
    BY <2>2 DEF Sufficient
  <2> QED BY <2>1, <2>2, <2>3, ReachedTyped
<1>3. ImplReached(r, im, V, k) \subseteq TR!Seen(im)
  BY <1>2 DEF ImplReached
<1>4. /\ IsFiniteSet(ImplReached(r, im, V, k))
      /\ Cardinality(ImplReached(r, im, V, k)) <= Cardinality(TR!Seen(im))
  BY <1>3, SeenFacts, FS_Subset
<1>5. Cardinality(ImplReached(r, im, V, k)) \in Nat
  BY <1>4, FS_CardinalityType
<1>6. Cardinality(TR!Seen(im)) <= numStates + m /\ Cardinality(TR!Seen(im)) \in Nat
  BY SeenFacts DEF Sufficient
<1> QED BY <1>2, <1>3, <1>4, <1>5, <1>6, NumStatesAssumption

(* the cover alone reaches at least as many states as the reference machine has *)
LEMMA CoverReachesAll ==
  ASSUME NEW r \in Machines, Complete(r), NEW im \in ImplMachines, NEW V, NEW W, NEW m \in Nat,
         Sufficient(r, im, V, W, m)
  PROVE  Cardinality(ImplReached(r, im, V, 0)) >= numStates
<1>0. V \in SUBSET Seq(Input) /\ m + 1 \in Nat /\ 0 \in 0 .. m + 1 /\ 0 <= m /\ 0 \in Nat /\ 0 <= m + 1
  BY DEF Sufficient
<1> DEFINE I == ImplReached(r, im, V, 0)
           R == ReachedBy(r, im, V, 0)
           f == [i \in I |-> CHOOSE q \in State : <<q, i>> \in R]
<1>1. \A q \in State : \E i \in I : <<q, i>> \in R
  <2> SUFFICES ASSUME NEW q \in State PROVE \E i \in I : <<q, i>> \in R
    OBVIOUS
  <2>1. PICK v \in V : q \in StatesAfter(r, v)
    BY DEF Sufficient
  <2>2. v \in Seq(Input) /\ v \in Ext(V, 0) /\ v \in Ext(V, m + 1)
    BY <1>0, ExtFacts
  <2>3. Passes(r, im, Start, v)
    BY <2>2 DEF Sufficient
  <2>4. PICK i \in TR!ImplState : <<q, i>> \in PairsFrom(r, im, Start, v)
    BY <2>1, <2>2, <2>3, StateHasPair
  <2> DEFINE p == <<q, i>>
  <2>5. p \in R /\ p[2] = i
    BY <2>2, <2>4, ReachedIs
  <2> HIDE DEF p
  <2>6. i \in I
    BY <2>5 DEF ImplReached
  <2> QED BY <2>5, <2>6 DEF p
<1>2. \A i \in I : \E q \in State : <<q, i>> \in R
  <2> SUFFICES ASSUME NEW i \in I PROVE \E q \in State : <<q, i>> \in R
    OBVIOUS
  <2>1. PICK p \in R : i = p[2]
    BY DEF ImplReached
  <2>2. p \in State \X TR!Seen(im)
    BY <1>0, ImplReachedTyped
  <2> QED BY <2>1, <2>2
<1>3. \A q1, q2 \in State, i \in I : <<q1, i>> \in R /\ <<q2, i>> \in R => q1 = q2
  <2> SUFFICES ASSUME NEW q1 \in State, NEW q2 \in State, NEW i \in I, <<q1, i>> \in R, <<q2, i>> \in R
               PROVE  q1 = q2
    OBVIOUS
  <2>1. <<q1, i>> \in ReachedBy(r, im, V, m) /\ <<q2, i>> \in ReachedBy(r, im, V, m + 1)
    BY <1>0, ReachedGrows
  <2>2. <<q1, i>> = <<q2, i>>
    <3> DEFINE a == <<q1, i>>
               b == <<q2, i>>
    <3>1. a \in ReachedBy(r, im, V, m) /\ b \in ReachedBy(r, im, V, m + 1) /\ a[2] = b[2]
      BY <2>1
    <3> HIDE DEF a, b
    <3>2. a = b
      BY <3>1, OneStateEach
    <3> QED BY <3>2 DEF a, b
  <2> QED BY <2>2
<1> HIDE DEF I, R
<1>4. f \in [I -> State]
  BY <1>2
<1>5. \A q \in State : \E i \in I : f[i] = q
  <2> SUFFICES ASSUME NEW q \in State PROVE \E i \in I : f[i] = q
    OBVIOUS
  <2>1. PICK i \in I : <<q, i>> \in R
    BY <1>1
  <2>2. f[i] \in State /\ <<f[i], i>> \in R
    BY <1>2
  <2>3. f[i] = q
    BY <1>3, <2>1, <2>2
  <2> QED BY <2>3
<1> HIDE DEF f
<1>6. f \in Surjection(I, State)
  BY <1>4, <1>5 DEF Surjection
<1>7. IsFiniteSet(I) /\ Cardinality(I) \in Nat
  BY <1>0, ImplReachedTyped DEF I
<1>8. Cardinality(State) <= Cardinality(I)
  BY <1>6, <1>7, FS_Surjection
<1>9. Cardinality(State) = numStates
  BY NumStatesAssumption, FS_Interval DEF State
<1> QED BY <1>7, <1>8, <1>9, NumStatesAssumption DEF I

(***************************************************************************)
(* With each further input more states of the implementation are reached,  *)
(* until no more are: at the latest behind m inputs.                       *)
(***************************************************************************)
LEMMA NoMoreReached ==
  ASSUME NEW r \in Machines, Complete(r), NEW im \in ImplMachines, NEW V, NEW W, NEW m \in Nat,
         Sufficient(r, im, V, W, m)
  PROVE  \E j \in 0 .. m : ImplReached(r, im, V, j + 1) = ImplReached(r, im, V, j)
<1> DEFINE I(k) == ImplReached(r, im, V, k)
           A == {k \in Nat : k <= m + 1 => Cardinality(I(k)) >= numStates + k}
<1>0. numStates \in Nat /\ V \in SUBSET Seq(Input)
  BY NumStatesAssumption DEF Sufficient
<1> SUFFICES ASSUME \A j \in 0 .. m : I(j + 1) # I(j) PROVE FALSE
  OBVIOUS
<1>1. 0 \in A
  BY CoverReachesAll, <1>0
<1>2. ASSUME NEW k \in Nat, k \in A PROVE k + 1 \in A
  <2> SUFFICES ASSUME k + 1 <= m + 1 PROVE Cardinality(I(k + 1)) >= numStates + (k + 1)
    OBVIOUS
  <2>0. k \in 0 .. m + 1 /\ k + 1 \in 0 .. m + 1 /\ k \in 0 .. m /\ k <= k + 1 /\ k + 1 \in Nat
    OBVIOUS
  <2>1. I(k) \subseteq I(k + 1)
    <3>1. ReachedBy(r, im, V, k) \subseteq ReachedBy(r, im, V, k + 1)
      BY <1>0, <2>0, ReachedGrows
    <3> QED BY <3>1 DEF ImplReached
  <2>2. I(k + 1) # I(k)
    BY <2>0
  <2>3. IsFiniteSet(I(k + 1)) /\ Cardinality(I(k + 1)) \in Nat /\ Cardinality(I(k)) \in Nat
    BY <2>0, ImplReachedTyped
  <2>4. Cardinality(I(k)) >= numStates + k
    BY <1>2, <2>0
  <2> HIDE DEF I
  <2>5. Cardinality(I(k)) <= Cardinality(I(k + 1)) /\ Cardinality(I(k)) # Cardinality(I(k + 1))
    BY <2>1, <2>2, <2>3, FS_Subset
  <2> QED BY <1>0, <2>3, <2>4, <2>5
<1> HIDE DEF A
<1>3. m + 1 \in A
  <2>1. Nat \subseteq A
    BY <1>1, <1>2, SetInduction
  <2> QED BY <2>1
<1>4. Cardinality(I(m + 1)) >= numStates + (m + 1)
  BY <1>3 DEF A
<1>5. Cardinality(I(m + 1)) <= numStates + m /\ Cardinality(I(m + 1)) \in Nat
  <2>1. m + 1 \in 0 .. m + 1
    OBVIOUS
  <2> QED BY <2>1, ImplReachedTyped
<1> HIDE DEF I
<1> QED BY <1>0, <1>4, <1>5

(* Then the pairs are the same, too, and nothing new is behind them. *)
LEMMA ReachedClosed ==
  ASSUME NEW r \in Machines, Complete(r), NEW im \in ImplMachines, NEW V, NEW W, NEW m \in Nat,
         Sufficient(r, im, V, W, m)
  PROVE  \E R \in SUBSET Pairs : Start \subseteq R /\ Closed(r, im, R)
<1>0. V \in SUBSET Seq(Input) /\ << >> \in V
  BY DEF Sufficient
<1>1. PICK j \in 0 .. m : ImplReached(r, im, V, j + 1) = ImplReached(r, im, V, j)
  BY NoMoreReached
<1>2. /\ j \in Nat /\ j + 1 \in Nat /\ j <= j + 1 /\ j <= m /\ j + 1 <= m + 1 /\ m + 1 \in Nat
      /\ j \in 0 .. m + 1
  OBVIOUS
<1> DEFINE R == ReachedBy(r, im, V, j)
           R2 == ReachedBy(r, im, V, j + 1)
<1>3. R2 \subseteq R
  <2> SUFFICES ASSUME NEW q \in R2 PROVE q \in R
    OBVIOUS
  <2>1. q[2] \in ImplReached(r, im, V, j + 1)
    BY DEF ImplReached
  <2>2. PICK p \in R : q[2] = p[2]
    BY <1>1, <2>1 DEF ImplReached
  <2>3. p \in ReachedBy(r, im, V, m) /\ q \in ReachedBy(r, im, V, m + 1)
    BY <1>0, <1>2, ReachedGrows
  <2> HIDE DEF R, R2
  <2>4. p = q
    BY <2>2, <2>3, OneStateEach
  <2> QED BY <2>2, <2>4
<1>4. Start \subseteq R
  <2>1. << >> \in Ext(V, j) /\ PairsFrom(r, im, Start, << >>) = Start
    BY <1>0, <1>2, ExtFacts, PairsFromEmpty
  <2> QED BY <2>1 DEF ReachedBy
<1>5. R \subseteq Pairs
  <2>1. R \subseteq State \X TR!Seen(im)
    BY <1>2, ImplReachedTyped
  <2> QED BY <2>1, SeenFacts DEF Pairs
<1>6. ASSUME NEW x \in Input PROVE Agreeing(r, im, R, x)
  <2> SUFFICES ASSUME NEW p \in R
               PROVE  /\ \E y \in Output : r[p[1]][<<x, y>>] >= 0
                      /\ \A y \in Output : r[p[1]][<<x, y>>] >= 0 <=> im[p[2]][x][y] >= 0
    BY DEF Agreeing
  <2>1. PICK u \in Ext(V, j) : p \in PairsFrom(r, im, Start, u)
    BY ReachedIs
  <2>2. u \in Ext(V, m) /\ u \in Seq(Input) /\ Append(u, x) \in Ext(V, m + 1)
    BY <1>0, <1>2, ExtFacts
  <2>3. Passes(r, im, Start, Append(u, x))
    BY <2>2 DEF Sufficient
  <2>4. Agreeing(r, im, PairsFrom(r, im, Start, u), x)
    BY <2>2, <2>3, PassesAppend
  <2> QED BY <2>1, <2>4 DEF Agreeing
<1>7. ASSUME NEW x \in Input PROVE PairPosts(r, im, R, x) \subseteq R
  <2> SUFFICES ASSUME NEW q \in PairPosts(r, im, R, x) PROVE q \in R2
    BY <1>3
  <2>1. PICK o \in R, y \in Output : r[o[1]][<<x, y>>] >= 0 /\ q = <<r[o[1]][<<x, y>>], im[o[2]][x][y]>>
    BY PairPostsAre
  <2>2. PICK u \in Ext(V, j) : o \in PairsFrom(r, im, Start, u)
    BY ReachedIs
  <2>3. u \in Seq(Input) /\ Append(u, x) \in Ext(V, j + 1)
    BY <1>0, <1>2, ExtFacts
  <2>4. q \in PairPosts(r, im, PairsFrom(r, im, Start, u), x)
    BY <2>1, <2>2, PairPostsAre
  <2>5. q \in PairsFrom(r, im, Start, Append(u, x))
    BY <2>3, <2>4, PairsFromAppend
  <2> QED BY <2>3, <2>5, ReachedIs
<1> HIDE DEF R
<1> QED BY <1>4, <1>5, <1>6, <1>7 DEF Closed

(***************************************************************************)
(* The pairs that TestRun goes through.                                    *)
(***************************************************************************)
MoreSteps == numStates * (numStates + maxAddStates)

(* TestRun counts its steps; these are the sets of pairs it goes through. *)
LEMMA ReachedPairsAre ==
  \E f : /\ f[0] = Start
         /\ \A k \in Nat : f[k + 1] = MorePairs(rows, impl, f[k])
         /\ TR!ReachedPairs = f[MoreSteps]
<1> DEFINE Rec(k, a) == IF k = 0 THEN Start ELSE MorePairs(rows, impl, a)
           Is(f) == f = [k \in Nat |-> Rec(k, f[k - 1])]
           g == CHOOSE f : Is(f)
<1>1. TR!ReachedPairs = g[MoreSteps]
  BY DEF TR!ReachedPairs, MorePairs, Start, MoreSteps, TR!In, TR!Out, Input, Output
<1>2. \E f : Is(f)
  <2> DEFINE c(k) == [i \in 1 .. k |-> 0]
             m == <<"more", rows, impl>>
             h == [k \in Nat |-> RunOf(m, Start, c(k))]
  <2>1. h[0] = Start
    <3>1. c(0) = << >>
      OBVIOUS
    <3>2. RunOf(m, Start, << >>) = Start
      BY RunOfEmpty
    <3> HIDE DEF c
    <3> QED BY <3>1, <3>2
  <2>2. ASSUME NEW k \in Nat PROVE h[k + 1] = MorePairs(rows, impl, h[k])
    <3>1. c(k) \in Seq(Nat) /\ c(k + 1) = Append(c(k), 0) /\ 0 \in Nat
      OBVIOUS
    <3>0. h[k] = RunOf(m, Start, c(k)) /\ h[k + 1] = RunOf(m, Start, c(k + 1))
      OBVIOUS
    <3> HIDE DEF c, h
    <3>2. RunOf(m, Start, Append(c(k), 0)) = StepOf(m, RunOf(m, Start, c(k)), 0)
      BY <3>1, RunOfAppend
    <3>3. StepOf(m, RunOf(m, Start, c(k)), 0) = MorePairs(rows, impl, RunOf(m, Start, c(k)))
      BY StepCases
    <3> HIDE DEF m
    <3> QED BY <3>0, <3>1, <3>2, <3>3
  <2>3. h = [k \in Nat |-> h[k]]
    OBVIOUS
  <2> HIDE DEF h
  <2>4. ASSUME NEW k \in Nat PROVE h[k] = Rec(k, h[k - 1])
    <3>1. CASE k = 0
      BY <2>1, <3>1
    <3>2. CASE k # 0
      <4>1. k - 1 \in Nat /\ (k - 1) + 1 = k
        BY <3>2
      <4>2. h[(k - 1) + 1] = MorePairs(rows, impl, h[k - 1])
        BY <2>2, <4>1
      <4> QED BY <3>2, <4>1, <4>2
    <3> QED BY <3>1, <3>2
  <2> HIDE DEF Rec
  <2>5. Is(h)
    BY <2>3, <2>4
  <2> QED BY <2>5
<1> HIDE DEF Is
<1>3. Is(g)
  BY <1>2
<1> HIDE DEF g
<1>4. \A k \in Nat : g[k] = Rec(k, g[k - 1])
  BY <1>3 DEF Is
<1>5. g[0] = Start
  BY <1>4
<1>6. ASSUME NEW k \in Nat PROVE g[k + 1] = MorePairs(rows, impl, g[k])
  <2>1. k + 1 \in Nat /\ k + 1 # 0 /\ (k + 1) - 1 = k
    OBVIOUS
  <2> HIDE DEF Rec
  <2>2. g[k + 1] = Rec(k + 1, g[k])
    BY <1>4, <2>1
  <2> QED BY <2>1, <2>2 DEF Rec
<1> QED BY <1>1, <1>5, <1>6

(* The number of steps is a natural. *)
LEMMA MoreStepsTyped == MoreSteps \in Nat
<1>1. numStates \in Nat /\ maxAddStates \in Nat
  BY NumStatesAssumption, MaxAddStatesAssumption
<1> QED BY <1>1 DEF MoreSteps

(* one of the pairs that MorePairs adds *)
IsMore(r, im, P, p) ==
  \E o \in P, x \in Input, y \in Output : p = <<r[o[1]][<<x, y>>], im[o[2]][x][y]>> /\ p[1] >= 0

(* Where a pair of the next set comes from. *)
LEMMA MorePairsAre ==
  ASSUME NEW r, NEW im, NEW P, NEW p \in MorePairs(r, im, P)
  PROVE  p \in P \/ IsMore(r, im, P, p)
<1> DEFINE S(o) == {<<r[o[1]][<<x, y>>], im[o[2]][x][y]>> : x \in Input, y \in Output}
           U == P \cup UNION {S(o) : o \in P}
<1>0. MorePairs(r, im, P) = {o \in U : o[1] >= 0 /\ o[2] >= 0}
  BY DEF MorePairs
<1>1. ASSUME NEW o \in P, p \in S(o)
      PROVE  \E x \in Input, y \in Output : p = <<r[o[1]][<<x, y>>], im[o[2]][x][y]>>
  BY <1>1
<1> HIDE DEF S
<1>2. p \in P \/ \E o \in P : p \in S(o)
  BY <1>0
<1>3. p[1] >= 0
  BY <1>0
<1> QED BY <1>1, <1>2, <1>3 DEF IsMore

(* A closed set of pairs has them all. *)
LEMMA ReachedInClosed ==
  ASSUME NEW R, Start \subseteq R, Closed(rows, impl, R)
  PROVE  TR!ReachedPairs \subseteq R
<1>1. PICK f : /\ f[0] = Start
               /\ \A k \in Nat : f[k + 1] = MorePairs(rows, impl, f[k])
               /\ TR!ReachedPairs = f[MoreSteps]
  BY ReachedPairsAre
<1> DEFINE A == {k \in Nat : f[k] \subseteq R}
<1>2. 0 \in A
  BY <1>1
<1>3. ASSUME NEW k \in Nat, k \in A PROVE k + 1 \in A
  <2> SUFFICES ASSUME NEW p \in MorePairs(rows, impl, f[k]) PROVE p \in R
    BY <1>1
  <2>1. f[k] \subseteq R
    BY <1>3
  <2>2. CASE p \in f[k]
    BY <2>1, <2>2
  <2>3. CASE IsMore(rows, impl, f[k], p)
    <3>1. PICK o \in f[k], x \in Input, y \in Output :
            p = <<rows[o[1]][<<x, y>>], impl[o[2]][x][y]>> /\ p[1] >= 0
      BY ONLY <2>3 DEF IsMore
    <3>2. rows[o[1]][<<x, y>>] >= 0 /\ o \in R
      BY <2>1, <3>1
    <3>3. p \in PairPosts(rows, impl, R, x)
      BY <3>1, <3>2, PairPostsAre
    <3> QED BY <3>3 DEF Closed
  <2> QED BY <2>2, <2>3, MorePairsAre
<1> HIDE DEF A
<1>4. MoreSteps \in A
  BY <1>2, <1>3, SetInduction, MoreStepsTyped
<1> QED BY <1>1, <1>4 DEF A

(* The same outputs, as TestRun has them. *)
LEMMA AgreeingIsSame ==
  ASSUME NEW P, NEW x \in Input, Agreeing(rows, impl, P, x), NEW p \in P
  PROVE  TR!SpecOutputs(p[1], x) = TR!ImplOutputs(impl, p[2], x)
BY DEF Agreeing, TR!SpecOutputs, TR!ImplOutputs, TR!Out, Output

(* Passing what is sufficient means to be I/O-equivalent. *)
LEMMA SufficientIsComplete ==
  ASSUME rows \in Machines, Complete(rows), impl \in ImplMachines,
         NEW V, NEW W, NEW m \in Nat, Sufficient(rows, impl, V, W, m)
  PROVE  TR!Equivalent
<1>1. PICK R \in SUBSET Pairs : Start \subseteq R /\ Closed(rows, impl, R)
  BY ReachedClosed
<1>2. TR!ReachedPairs \subseteq R
  BY <1>1, ReachedInClosed
<1>3. ASSUME NEW p \in TR!ReachedPairs, NEW x \in TR!In
      PROVE  TR!SpecOutputs(p[1], x) = TR!ImplOutputs(impl, p[2], x)
  <2>1. x \in Input /\ p \in R
    BY <1>2 DEF TR!In, Input
  <2>2. Agreeing(rows, impl, R, x)
    BY <1>1, <2>1 DEF Closed
  <2> QED BY <2>1, <2>2, AgreeingIsSame
<1> QED BY <1>3 DEF TR!Equivalent

(***************************************************************************)
(* Trees of traces.                                                        *)
(***************************************************************************)
PrefixClosed(V) == \A s \in V, u \in Seq(Input) : IsPrefix(u, s) => u \in V

(* the traces of T are not longer than some bound *)
Bounded(T) == \E b \in Nat : \A t \in T : Len(t) <= b

(* The prefixes of a trace. *)
LEMMA PrefixesAre ==
  ASSUME NEW s \in Seq(Input)
  PROVE  /\ s \in Prefixes(s)
         /\ \A u \in Prefixes(s) : u \in Seq(Input) /\ IsPrefix(u, s)
<1>1. SubSeq(s, 1, Len(s)) = s /\ Len(s) \in 0 .. Len(s)
  <2> DEFINE a == SubSeq(s, 1, Len(s))
  <2>1. a \in Seq(Input) /\ Len(a) = Len(s) /\ \A i \in 1 .. Len(s) : a[i] = s[i]
    OBVIOUS
  <2> HIDE DEF a
  <2>2. a = s
    BY <2>1, SeqEqual
  <2> QED BY <2>2 DEF a
<1>2. s \in Prefixes(s)
  BY <1>1 DEF Prefixes
<1>3. ASSUME NEW l \in 0 .. Len(s)
      PROVE  SubSeq(s, 1, l) \in Seq(Input) /\ IsPrefix(SubSeq(s, 1, l), s)
  <2> DEFINE a == SubSeq(s, 1, l)
  <2>1. a \in Seq(Input) /\ Len(a) = l /\ \A i \in 1 .. l : a[i] = s[i]
    OBVIOUS
  <2> HIDE DEF a
  <2>2. IsPrefix(a, s)
    BY <2>1, PrefixIs
  <2> QED BY <2>1, <2>2 DEF a
<1> QED BY <1>2, <1>3 DEF Prefixes

(* A trace is a prefix of its extensions. *)
LEMMA AppendExtends ==
  ASSUME NEW t \in Seq(Input), NEW x \in Input
  PROVE  /\ Append(t, x) \in Seq(Input)
         /\ IsPrefix(t, Append(t, x))
         /\ Len(Append(t, x)) = Len(t) + 1
<1> DEFINE a == Append(t, x)
<1>1. a \in Seq(Input) /\ Len(a) = Len(t) + 1 /\ Len(t) <= Len(a) /\ \A i \in 1 .. Len(t) : t[i] = a[i]
  OBVIOUS
<1> HIDE DEF a
<1>2. IsPrefix(t, a)
  BY <1>1, PrefixIs
<1> QED BY <1>1, <1>2 DEF a

(* a prefix of two traces put together *)
LEMMA PrefixSplit ==
  ASSUME NEW v \in Seq(Input), NEW b \in Seq(Input), NEW u \in Seq(Input), IsPrefix(u, v \o b)
  PROVE  IsPrefix(u, v) \/ \E c \in Seq(Input) : IsPrefix(c, b) /\ u = v \o c
<1> DEFINE Split(d) == IsPrefix(u, v) \/ \E c \in Seq(Input) : IsPrefix(c, d) /\ u = v \o c
           A == {d \in Seq(Input) : IsPrefix(u, v \o d) => Split(d)}
<1>1. << >> \in A
  <2>1. << >> \in Seq(Input) /\ v \o << >> = v
    BY ConcatAppend
  <2> QED BY <2>1
<1>2. ASSUME NEW d \in Seq(Input), NEW x \in Input, d \in A PROVE Append(d, x) \in A
  <2>1. Append(d, x) \in Seq(Input) /\ v \o d \in Seq(Input) /\ v \o Append(d, x) = Append(v \o d, x)
    BY ConcatAppend
  <2>2. ASSUME IsPrefix(u, v \o Append(d, x)) PROVE Split(Append(d, x))
    <3>1. u = Append(v \o d, x) \/ IsPrefix(u, v \o d)
      <4> DEFINE e == v \o d
      <4>1. e \in Seq(Input) /\ IsPrefix(u, Append(e, x))
        BY <2>1, <2>2
      <4> HIDE DEF e
      <4>2. u = Append(e, x) \/ IsPrefix(u, e)
        BY <4>1, PrefixOfAppend
      <4> QED BY <4>2 DEF e
    <3>2. CASE u = Append(v \o d, x)
      <4>1. IsPrefix(Append(d, x), Append(d, x))
        BY <2>1, PrefixOrder
      <4> QED BY <2>1, <3>2, <4>1
    <3>3. CASE IsPrefix(u, v)
      BY <3>3
    <3>4. CASE IsPrefix(u, v \o d) /\ ~IsPrefix(u, v)
      <4>1. PICK c \in Seq(Input) : IsPrefix(c, d) /\ u = v \o c
        BY <1>2, <3>4
      <4>2. IsPrefix(c, Append(d, x))
        <5>1. IsPrefix(d, Append(d, x))
          BY AppendExtends
        <5> QED BY <2>1, <4>1, <5>1, PrefixOrder
      <4> QED BY <4>1, <4>2
    <3> QED BY <3>1, <3>2, <3>3, <3>4
  <2> QED BY <2>1, <2>2
<1> HIDE DEF A, Split
<1>3. b \in A
  BY <1>1, <1>2, SeqInduction
<1> QED BY <1>3 DEF A, Split

(* Behind a tree there is a tree. *)
LEMMA ExtClosed ==
  ASSUME NEW V \in SUBSET Seq(Input), PrefixClosed(V), NEW k \in Nat
  PROVE  PrefixClosed(Ext(V, k))
<1> SUFFICES ASSUME NEW s \in Ext(V, k), NEW u \in Seq(Input), IsPrefix(u, s) PROVE u \in Ext(V, k)
  BY DEF PrefixClosed
<1>1. PICK v \in V, b \in Seq(Input) : Len(b) <= k /\ s = v \o b
  BY DEF Ext
<1>2. CASE IsPrefix(u, v)
  <2>1. u \in V
    BY <1>2 DEF PrefixClosed
  <2> QED BY <2>1, ExtFacts
<1>3. CASE \E c \in Seq(Input) : IsPrefix(c, b) /\ u = v \o c
  <2>1. PICK c \in Seq(Input) : IsPrefix(c, b) /\ u = v \o c
    BY <1>3
  <2>2. Len(c) <= Len(b) /\ Len(c) \in Nat /\ Len(b) \in Nat
    BY <2>1, PrefixIs
  <2>3. Len(c) <= k
    BY <1>1, <2>2
  <2> QED BY <2>1, <2>3 DEF Ext
<1> QED BY <1>1, <1>2, <1>3, PrefixSplit

(* without the last input one is in the set for less *)
LEMMA ExtWithoutLast ==
  ASSUME NEW V \in SUBSET Seq(Input), PrefixClosed(V), NEW k \in Nat,
         NEW u \in Seq(Input), NEW x \in Input, Append(u, x) \in Ext(V, k + 1)
  PROVE  u \in Ext(V, k)
<1>1. PICK v \in V, b \in Seq(Input) : Len(b) <= k + 1 /\ Append(u, x) = v \o b
  BY DEF Ext
<1>2. CASE b = << >>
  <2>1. Append(u, x) = v
    BY <1>1, <1>2, ConcatAppend
  <2>2. IsPrefix(u, Append(u, x))
    BY AppendExtends
  <2>3. u \in V
    BY <2>1, <2>2 DEF PrefixClosed
  <2> QED BY <2>3, ExtFacts
<1>3. CASE b # << >>
  <2>1. PICK c \in Seq(Input), z \in Input : b = Append(c, z)
    BY <1>3, SequenceEmptyOrAppend
  <2>2. v \o c \in Seq(Input) /\ v \o b = Append(v \o c, z)
    BY <2>1, ConcatAppend
  <2>3. Append(u, x) = Append(v \o c, z)
    BY <1>1, <2>2
  <2>4. u = v \o c
    <3> DEFINE e == v \o c
    <3>1. e \in Seq(Input) /\ Append(u, x) = Append(e, z)
      BY <2>2, <2>3
    <3> HIDE DEF e
    <3>2. u = e
      BY <3>1, AppendInjective
    <3> QED BY <3>2 DEF e
  <2>5. Len(c) <= k
    BY <1>1, <2>1
  <2> QED BY <2>4, <2>5 DEF Ext
<1> QED BY <1>2, <1>3

(* Inputs behind inputs. *)
LEMMA ExtOfExt ==
  ASSUME NEW V \in SUBSET Seq(Input), NEW j \in Nat, NEW k \in Nat
  PROVE  Ext(Ext(V, j), k) \subseteq Ext(V, j + k)
<1> SUFFICES ASSUME NEW u \in Ext(Ext(V, j), k) PROVE u \in Ext(V, j + k)
  OBVIOUS
<1>1. PICK t \in Ext(V, j), c \in Seq(Input) : Len(c) <= k /\ u = t \o c
  BY DEF Ext
<1>2. PICK v \in V, b \in Seq(Input) : Len(b) <= j /\ t = v \o b
  BY DEF Ext
<1>3. v \in Seq(Input) /\ u \in Seq(Input)
  BY DEF Ext
<1>4. (v \o b) \o c = v \o (b \o c)
  BY <1>3, ConcatAssociative
<1>5. b \o c \in Seq(Input) /\ Len(b \o c) = Len(b) + Len(c) /\ Len(b) \in Nat /\ Len(c) \in Nat
  OBVIOUS
<1>6. Len(b \o c) <= j + k
  BY <1>1, <1>2, <1>5
<1>7. u = v \o (b \o c)
  BY <1>1, <1>2, <1>4
<1> QED BY <1>3, <1>5, <1>6, <1>7 DEF Ext

(* The first input behind the cover, and the others. *)
LEMMA ExtByFirst ==
  ASSUME NEW V \in SUBSET Seq(Input), NEW k \in Nat
  PROVE  Ext(V, k + 1) \subseteq Ext(Ext(V, 1), k)
<1> DEFINE E == Ext(V, 1)
           A == {n \in Nat : Ext(V, n + 1) \subseteq Ext(E, n)}
<1>0. E \in SUBSET Seq(Input)
  BY ExtFacts
<1>1. 0 \in A
  <2>1. E \subseteq Ext(E, 0)
    BY <1>0, ExtFacts
  <2> QED BY <2>1
<1>2. ASSUME NEW n \in Nat, n \in A PROVE n + 1 \in A
  <2> SUFFICES ASSUME NEW u \in Ext(V, (n + 1) + 1) PROVE u \in Ext(E, n + 1)
    OBVIOUS
  <2>1. PICK v \in V, b \in Seq(Input) : Len(b) <= (n + 1) + 1 /\ u = v \o b
    BY DEF Ext
  <2>2. CASE b = << >>
    <3>1. u = v
      BY <2>1, <2>2, ConcatAppend
    <3>2. u \in E
      BY <3>1, ExtFacts
    <3> QED BY <1>0, <3>2, ExtFacts
  <2>3. CASE b # << >>
    <3>1. PICK c \in Seq(Input), z \in Input : b = Append(c, z)
      BY <2>3, SequenceEmptyOrAppend
    <3>2. v \o c \in Seq(Input) /\ u = Append(v \o c, z) /\ Len(c) <= n + 1
      BY <2>1, <3>1, ConcatAppend
    <3>3. v \o c \in Ext(V, n + 1)
      BY <3>2 DEF Ext
    <3>4. v \o c \in Ext(E, n)
      BY <1>2, <3>3
    <3> HIDE DEF E
    <3> QED BY <1>0, <3>2, <3>4, ExtFacts
  <2> QED BY <2>2, <2>3
<1> HIDE DEF A, E
<1>3. k \in A
  BY <1>1, <1>2, SetInduction
<1> QED BY <1>3 DEF A, E

(***************************************************************************)
(* Traces added to a tree.                                                 *)
(***************************************************************************)
LEMMA AddAfterIs ==
  ASSUME NEW t \in Seq(Input), NEW S \in SUBSET Seq(Input)
  PROVE  /\ \A s \in S : t \o s \in AddAfter(t, S)
         /\ \A u \in AddAfter(t, S) : u \in Seq(Input) /\ \E s \in S : IsPrefix(u, t \o s)
<1>1. \A s \in S : t \o s \in Seq(Input)
  OBVIOUS
<1>2. \A s \in S : t \o s \in Prefixes(t \o s)
  BY <1>1, PrefixesAre
<1>3. \A s \in S : \A u \in Prefixes(t \o s) : u \in Seq(Input) /\ IsPrefix(u, t \o s)
  <2> SUFFICES ASSUME NEW s \in S PROVE \A u \in Prefixes(t \o s) : u \in Seq(Input) /\ IsPrefix(u, t \o s)
    OBVIOUS
  <2> DEFINE a == t \o s
  <2>1. a \in Seq(Input)
    BY <1>1
  <2> HIDE DEF a
  <2>2. \A u \in Prefixes(a) : u \in Seq(Input) /\ IsPrefix(u, a)
    BY <2>1, PrefixesAre
  <2> QED BY <2>2 DEF a
<1> QED BY <1>2, <1>3 DEF AddAfter

(* What Tree::add adds. *)
LEMMA AddIs ==
  ASSUME NEW T \in SUBSET Seq(Input), NEW S \in SUBSET Seq(Input)
  PROVE  /\ Add(T, S) \subseteq Seq(Input)
         /\ T \subseteq Add(T, S)
         /\ \A t \in T, s \in S : t \o s \in Add(T, S)
         /\ \A u \in Add(T, S) : u \in T \/ \E t \in T, s \in S : IsPrefix(u, t \o s)
<1>1. ASSUME NEW u \in Add(T, S)
      PROVE  u \in Seq(Input) /\ (u \in T \/ \E t \in T, s \in S : IsPrefix(u, t \o s))
  <2>1. CASE u \in T
    BY <2>1
  <2>2. CASE \E t \in T : u \in AddAfter(t, S)
    <3>1. PICK t \in T : u \in AddAfter(t, S)
      BY <2>2
    <3>2. u \in Seq(Input) /\ \E s \in S : IsPrefix(u, t \o s)
      BY <3>1, AddAfterIs
    <3> QED BY <3>2
  <2> QED BY <2>1, <2>2 DEF Add
<1>2. ASSUME NEW t \in T, NEW s \in S PROVE t \o s \in Add(T, S)
  <2>1. t \o s \in AddAfter(t, S)
    BY AddAfterIs
  <2> QED BY <2>1 DEF Add
<1>3. T \subseteq Add(T, S)
  BY DEF Add
<1> QED BY <1>1, <1>2, <1>3

(* what the loop over the leaves adds *)
Behind(T, F) == T \cup UNION {AddAfter(t, F[t]) : t \in Leaves(T)}

(* It is a tree with the traces behind the leaves. *)
LEMMA BehindIs ==
  ASSUME NEW T \in SUBSET Seq(Input), NEW F \in [Leaves(T) -> SUBSET Seq(Input)]
  PROVE  /\ Behind(T, F) \subseteq Seq(Input)
         /\ T \subseteq Behind(T, F)
         /\ \A t \in Leaves(T) : \A s \in F[t] : t \o s \in Behind(T, F)
         /\ \A u \in Behind(T, F) : u \in T \/ \E t \in Leaves(T) : \E s \in F[t] : IsPrefix(u, t \o s)
<1>0. \A t \in Leaves(T) : t \in Seq(Input) /\ F[t] \in SUBSET Seq(Input)
  BY DEF Leaves
<1>1. ASSUME NEW u \in Behind(T, F)
      PROVE  u \in Seq(Input) /\ (u \in T \/ \E t \in Leaves(T) : \E s \in F[t] : IsPrefix(u, t \o s))
  <2>1. CASE u \in T
    BY <2>1
  <2>2. CASE \E t \in Leaves(T) : u \in AddAfter(t, F[t])
    <3>1. PICK t \in Leaves(T) : u \in AddAfter(t, F[t])
      BY <2>2
    <3>2. u \in Seq(Input) /\ \E s \in F[t] : IsPrefix(u, t \o s)
      BY <1>0, <3>1, AddAfterIs
    <3> QED BY <3>2
  <2> QED BY <2>1, <2>2 DEF Behind
<1>2. ASSUME NEW t \in Leaves(T), NEW s \in F[t] PROVE t \o s \in Behind(T, F)
  <2>1. t \o s \in AddAfter(t, F[t])
    BY <1>0, AddAfterIs
  <2> QED BY <2>1 DEF Behind
<1>3. T \subseteq Behind(T, F)
  BY DEF Behind
<1> QED BY <1>1, <1>2, <1>3

(* Prefixes of short traces are short. *)
LEMMA ConcatShort ==
  ASSUME NEW t \in Seq(Input), NEW s \in Seq(Input), NEW u \in Seq(Input), IsPrefix(u, t \o s),
         NEW a \in Nat, NEW b \in Nat, Len(t) <= a, Len(s) <= b
  PROVE  Len(u) <= a + b
<1>1. t \o s \in Seq(Input) /\ Len(t \o s) = Len(t) + Len(s) /\ Len(u) \in Nat /\ Len(s) \in Nat /\ Len(t) \in Nat
  OBVIOUS
<1> DEFINE c == t \o s
<1>2. c \in Seq(Input) /\ IsPrefix(u, c) /\ Len(c) = Len(t) + Len(s)
  BY <1>1
<1> HIDE DEF c
<1>3. Len(u) <= Len(c)
  BY <1>2, PrefixIs
<1> QED BY <1>1, <1>2, <1>3

(* A finite tree stays finite. *)
LEMMA AddBounded ==
  ASSUME NEW T \in SUBSET Seq(Input), NEW S \in SUBSET Seq(Input), Bounded(T), Bounded(S)
  PROVE  Bounded(Add(T, S))
<1>1. PICK a \in Nat : \A t \in T : Len(t) <= a
  BY DEF Bounded
<1>2. PICK b \in Nat : \A s \in S : Len(s) <= b
  BY DEF Bounded
<1>3. ASSUME NEW u \in Add(T, S) PROVE Len(u) <= a + b
  <2>0. u \in Seq(Input)
    BY AddIs
  <2>1. CASE u \in T
    <3>1. Len(u) <= a /\ Len(u) \in Nat
      BY <1>1, <2>0, <2>1
    <3> QED BY <3>1
  <2>2. CASE \E t \in T, s \in S : IsPrefix(u, t \o s)
    <3>1. PICK t \in T, s \in S : IsPrefix(u, t \o s)
      BY <2>2
    <3>2. Len(t) <= a /\ Len(s) <= b /\ t \in Seq(Input) /\ s \in Seq(Input)
      BY <1>1, <1>2
    <3> QED BY <2>0, <3>1, <3>2, ConcatShort
  <2> QED BY <2>1, <2>2, AddIs
<1>4. a + b \in Nat
  OBVIOUS
<1> QED BY <1>3, <1>4 DEF Bounded

(* So it does when traces are added behind its leaves. *)
LEMMA BehindBounded ==
  ASSUME NEW T \in SUBSET Seq(Input), NEW S \in SUBSET Seq(Input), NEW F \in [Leaves(T) -> SUBSET S],
         Bounded(T), Bounded(S)
  PROVE  Bounded(Behind(T, F))
<1>0. F \in [Leaves(T) -> SUBSET Seq(Input)]
  OBVIOUS
<1>1. PICK a \in Nat : \A t \in T : Len(t) <= a
  BY DEF Bounded
<1>2. PICK b \in Nat : \A s \in S : Len(s) <= b
  BY DEF Bounded
<1>3. ASSUME NEW u \in Behind(T, F) PROVE Len(u) <= a + b
  <2>0. u \in Seq(Input)
    BY <1>0, BehindIs
  <2>1. CASE u \in T
    <3>1. Len(u) <= a /\ Len(u) \in Nat
      BY <1>1, <2>0, <2>1
    <3> QED BY <3>1
  <2>2. CASE \E t \in Leaves(T) : \E s \in F[t] : IsPrefix(u, t \o s)
    <3>1. PICK t \in Leaves(T) : \E s \in F[t] : IsPrefix(u, t \o s)
      BY <2>2
    <3>2. PICK s \in F[t] : IsPrefix(u, t \o s)
      BY <3>1
    <3>3. t \in T /\ s \in S
      BY DEF Leaves
    <3>4. Len(t) <= a /\ Len(s) <= b /\ t \in Seq(Input) /\ s \in Seq(Input)
      BY <1>1, <1>2, <3>3
    <3> QED BY <2>0, <3>2, <3>4, ConcatShort
  <2> QED BY <1>0, <2>1, <2>2, BehindIs
<1>4. a + b \in Nat
  OBVIOUS
<1> QED BY <1>3, <1>4 DEF Bounded

(* The test cases are the leaves; every trace of the tree is part of one. *)
LEMMA LeafAbove ==
  ASSUME NEW T \in SUBSET Seq(Input), Bounded(T), NEW u \in T
  PROVE  \E t \in Leaves(T) : IsPrefix(u, t)
<1>1. PICK b \in Nat : \A t \in T : Len(t) <= b
  BY DEF Bounded
<1> DEFINE Over == {t \in T : IsPrefix(u, t)}
           N == {b - Len(t) : t \in Over}
<1>2. u \in Over
  BY PrefixOrder
<1>3. N \subseteq Nat /\ N # {}
  <2>1. \A t \in Over : b - Len(t) \in Nat
    <3> SUFFICES ASSUME NEW t \in Over PROVE b - Len(t) \in Nat
      OBVIOUS
    <3>1. Len(t) \in Nat /\ Len(t) <= b
      BY <1>1
    <3> QED BY <3>1
  <2> QED BY <1>2, <2>1
<1>4. PICK n \in N : \A k \in N : n <= k
  <2> HIDE DEF N
  <2> QED BY <1>3, LeastElement
<1>5. PICK t \in Over : n = b - Len(t)
  OBVIOUS
<1>6. t \in Seq(Input) /\ t \in T /\ IsPrefix(u, t)
  OBVIOUS
<1>7. ASSUME NEW x \in Input, Append(t, x) \in T PROVE FALSE
  <2> DEFINE a == Append(t, x)
  <2>1. a \in Seq(Input) /\ a \in T /\ Len(a) = Len(t) + 1 /\ Len(t) \in Nat /\ IsPrefix(t, a)
    BY <1>6, <1>7, AppendExtends
  <2> HIDE DEF a
  <2>3. IsPrefix(u, a)
    BY <1>6, <2>1, PrefixOrder
  <2>4. b - Len(a) \in N
    BY <2>1, <2>3
  <2>5. b - Len(t) <= b - Len(a)
    BY <1>4, <1>5, <2>4
  <2> HIDE DEF N
  <2> QED BY <2>1, <2>5
<1>8. t \in Leaves(T)
  BY <1>6, <1>7 DEF Leaves
<1> QED BY <1>6, <1>8

(* Passing the leaves means to pass the tree. *)
LEMMA LeavesPassed ==
  ASSUME NEW r, NEW im, NEW T \in SUBSET Seq(Input), Bounded(T),
         \A t \in Leaves(T) : Passes(r, im, Start, t), NEW u \in T
  PROVE  Passes(r, im, Start, u)
<1>1. PICK t \in Leaves(T) : IsPrefix(u, t)
  BY LeafAbove
<1>2. t \in Seq(Input) /\ u \in Seq(Input) /\ Passes(r, im, Start, t)
  BY DEF Leaves
<1> QED BY <1>1, <1>2, PassesPrefix

(***************************************************************************)
(* The trees that the methods build.                                       *)
(***************************************************************************)
LEMMA EnumIs ==
  ASSUME NEW j \in Nat, NEW k \in Nat
  PROVE  /\ InputEnum(j, k) = {b \in Seq(Input) : j <= Len(b) /\ Len(b) <= k}
         /\ InputEnum(j, k) \subseteq Seq(Input)
         /\ Bounded(InputEnum(j, k))
<1>1. ASSUME NEW b \in InputEnum(j, k) PROVE b \in Seq(Input) /\ j <= Len(b) /\ Len(b) <= k
  <2>1. PICK n \in j .. k : b \in [1 .. n -> Input]
    BY DEF InputEnum
  <2>2. n \in Nat
    OBVIOUS
  <2>3. b \in Seq(Input) /\ Len(b) = n
    BY <2>1, <2>2
  <2> QED BY <2>1, <2>3
<1>2. ASSUME NEW b \in Seq(Input), j <= Len(b), Len(b) <= k PROVE b \in InputEnum(j, k)
  <2>1. Len(b) \in j .. k /\ b \in [1 .. Len(b) -> Input]
    BY <1>2
  <2> QED BY <2>1 DEF InputEnum
<1> QED BY <1>1, <1>2 DEF Bounded

(* Adding all traces of up to k inputs. *)
LEMMA AddEnum ==
  ASSUME NEW V \in SUBSET Seq(Input), PrefixClosed(V), NEW k \in Nat
  PROVE  Add(V, InputEnum(1, k)) = Ext(V, k)
<1>0. InputEnum(1, k) \in SUBSET Seq(Input)
  BY EnumIs
<1>1. ASSUME NEW u \in Ext(V, k) PROVE u \in Add(V, InputEnum(1, k))
  <2>1. PICK v \in V, b \in Seq(Input) : Len(b) <= k /\ u = v \o b
    BY DEF Ext
  <2>2. CASE b = << >>
    <3>1. u = v
      BY <2>1, <2>2, ConcatAppend
    <3> QED BY <1>0, <3>1, AddIs
  <2>3. CASE b # << >>
    <3>1. 1 <= Len(b)
      <4>1. Len(b) \in Nat /\ Len(b) # 0
        BY <2>3, EmptySeq
      <4> QED BY <4>1
    <3>2. b \in InputEnum(1, k)
      BY <2>1, <3>1, EnumIs
    <3> QED BY <1>0, <2>1, <3>2, AddIs
  <2> QED BY <2>2, <2>3
<1>2. ASSUME NEW u \in Add(V, InputEnum(1, k)) PROVE u \in Ext(V, k)
  <2>0. u \in Seq(Input)
    BY <1>0, AddIs
  <2>1. CASE u \in V
    BY <2>1, ExtFacts
  <2>2. CASE \E v \in V, b \in InputEnum(1, k) : IsPrefix(u, v \o b)
    <3>1. PICK v \in V, b \in InputEnum(1, k) : IsPrefix(u, v \o b)
      BY <2>2
    <3>2. b \in Seq(Input) /\ Len(b) <= k /\ v \o b \in Seq(Input)
      BY EnumIs
    <3>3. v \o b \in Ext(V, k)
      BY <3>2 DEF Ext
    <3>4. PrefixClosed(Ext(V, k))
      BY ExtClosed
    <3> QED BY <2>0, <3>1, <3>3, <3>4 DEF PrefixClosed
  <2> QED BY <1>0, <2>1, <2>2, AddIs
<1> QED BY <1>1, <1>2

(* That is finite, too. *)
LEMMA ExtBounded ==
  ASSUME NEW V \in SUBSET Seq(Input), Bounded(V), PrefixClosed(V), NEW k \in Nat
  PROVE  Bounded(Ext(V, k))
<1>1. InputEnum(1, k) \in SUBSET Seq(Input) /\ Bounded(InputEnum(1, k))
  BY EnumIs
<1>2. Bounded(Add(V, InputEnum(1, k)))
  BY <1>1, AddBounded
<1> QED BY <1>2, AddEnum

(***************************************************************************)
(* The suites of the W, the Wp and the HSI method are sufficient.          *)
(***************************************************************************)
GoodCover(r, V) ==
  /\ V \in SUBSET Seq(Input) /\ << >> \in V
  /\ PrefixClosed(V) /\ Bounded(V)
  /\ \A q \in State : \E v \in V : q \in StatesAfter(r, v)

(* W tells all states from each other *)
GoodSet(r, W) ==
  /\ W \in SUBSET Seq(Input) /\ Bounded(W)
  /\ \A p, q \in State : p # q => \E t \in W : Differ(r, p, q, t)

(* what is appended to the leaves tells the states they lead to from all others *)
GoodBehind(r, E, W, F) ==
  /\ F \in [Leaves(E) -> SUBSET W]
  /\ \A t \in Leaves(E) : \A q \in StatesAfter(r, t), p \in State :
       p # q => \E s \in F[t] : Differ(r, q, p, s)

(* the traces of T are passed *)
AllPass(r, im, T) == \A t \in T : Passes(r, im, Start, t)

(* the implementation has no more than m additional states *)
SmallEnough(im, m) == Cardinality(TR!Seen(im)) <= numStates + m

(* It is enough to look at the longest traces behind the cover. *)
LEMMA SufficientIf ==
  ASSUME NEW r \in Machines, NEW im, NEW V, NEW W, NEW m \in Nat, GoodCover(r, V), GoodSet(r, W),
         AllPass(r, im, Ext(V, m + 1)), SmallEnough(im, m),
         \A u \in Ext(V, m), t \in W : Passes(r, im, Start, u \o t),
         \A u \in Ext(V, m + 1) \ Ext(V, m) : \A q \in StatesAfter(r, u), p \in State :
           p # q => \E t \in W : Differ(r, q, p, t) /\ Passes(r, im, Start, u \o t)
  PROVE  Sufficient(r, im, V, W, m)
<1>1. ASSUME NEW u \in Ext(V, m + 1), NEW q \in StatesAfter(r, u), NEW p \in State, p # q
      PROVE  \E t \in W : Differ(r, q, p, t) /\ Passes(r, im, Start, u \o t)
  <2>1. CASE u \in Ext(V, m)
    <3>1. V \in SUBSET Seq(Input) /\ u \in Seq(Input)
      BY DEF GoodCover, Ext
    <3>2. q \in State
      BY <3>1, StatesAfterTyped
    <3>3. PICK t \in W : Differ(r, q, p, t)
      BY <1>1, <3>2 DEF GoodSet
    <3> QED BY <2>1, <3>3
  <2>2. CASE u \notin Ext(V, m)
    BY <1>1, <2>2
  <2> QED BY <2>1, <2>2
<1>2. \A u \in Ext(V, m + 1) : Passes(r, im, Start, u)
  BY DEF AllPass
<1>3. /\ V \in SUBSET Seq(Input) /\ W \in SUBSET Seq(Input) /\ << >> \in V
      /\ \A q \in State : \E v \in V : q \in StatesAfter(r, v)
  BY DEF GoodCover, GoodSet
<1>4. Cardinality(TR!Seen(im)) <= numStates + m
  BY DEF SmallEnough
<1> QED BY <1>1, <1>2, <1>3, <1>4 DEF Sufficient

(* The W method appends the characterisation set everywhere. *)
LEMMA WSufficient ==
  ASSUME NEW r \in Machines, NEW im, NEW V, NEW W, NEW m \in Nat, GoodCover(r, V), GoodSet(r, W),
         NEW T, T = Add(Ext(V, m + 1), W), AllPass(r, im, Leaves(T)), SmallEnough(im, m)
  PROVE  Sufficient(r, im, V, W, m)
<1>0. /\ V \in SUBSET Seq(Input) /\ PrefixClosed(V) /\ Bounded(V) /\ W \in SUBSET Seq(Input) /\ Bounded(W)
      /\ m + 1 \in Nat /\ m <= m + 1
  BY DEF GoodCover, GoodSet
<1>1. Ext(V, m + 1) \in SUBSET Seq(Input) /\ Bounded(Ext(V, m + 1)) /\ Ext(V, m) \subseteq Ext(V, m + 1)
  BY <1>0, ExtFacts, ExtBounded
<1>2. T \in SUBSET Seq(Input) /\ Bounded(T)
  BY <1>0, <1>1, AddIs, AddBounded
<1>3. \A u \in T : Passes(r, im, Start, u)
  BY <1>2, LeavesPassed DEF AllPass
<1>4. Ext(V, m + 1) \subseteq T /\ \A u \in Ext(V, m + 1), t \in W : u \o t \in T
  BY <1>0, <1>1, AddIs
<1>5. AllPass(r, im, Ext(V, m + 1))
  BY <1>3, <1>4 DEF AllPass
<1>6. \A u \in Ext(V, m), t \in W : Passes(r, im, Start, u \o t)
  BY <1>1, <1>3, <1>4
<1>7. ASSUME NEW u \in Ext(V, m + 1) \ Ext(V, m), NEW q \in StatesAfter(r, u), NEW p \in State, p # q
      PROVE  \E t \in W : Differ(r, q, p, t) /\ Passes(r, im, Start, u \o t)
  <2>1. q \in State
    BY <1>1, StatesAfterTyped
  <2>2. PICK t \in W : Differ(r, q, p, t)
    BY <1>7, <2>1 DEF GoodSet
  <2> QED BY <1>3, <1>4, <2>2
<1> QED BY <1>5, <1>6, <1>7, SufficientIf

(* a trace with the most inputs behind the cover is a leaf *)
LEMMA LongestAreLeaves ==
  ASSUME NEW V \in SUBSET Seq(Input), PrefixClosed(V), NEW m \in Nat,
         NEW E \in SUBSET Ext(V, m + 1), NEW u \in E, u \notin Ext(V, m)
  PROVE  u \in Leaves(E)
<1>1. m + 1 \in Nat /\ u \in Ext(V, m + 1)
  OBVIOUS
<1>2. u \in Seq(Input)
  BY <1>1, ExtFacts
<1>3. \A x \in Input : Append(u, x) \notin E
  BY <1>2, ExtWithoutLast
<1> QED BY <1>3 DEF Leaves

(* What was appended to the leaves is passed. *)
LEMMA BehindPasses ==
  ASSUME NEW r, NEW im, NEW E \in SUBSET Seq(Input), NEW W \in SUBSET Seq(Input),
         Bounded(E), Bounded(W), NEW F, GoodBehind(r, E, W, F),
         AllPass(r, im, Behind(E, F)),
         NEW u \in Leaves(E), NEW q \in StatesAfter(r, u), NEW p \in State, p # q
  PROVE  \E t \in W : Differ(r, q, p, t) /\ Passes(r, im, Start, u \o t)
<1>1. F \in [Leaves(E) -> SUBSET Seq(Input)] /\ F[u] \subseteq W
  BY DEF GoodBehind
<1>2. PICK s \in F[u] : Differ(r, q, p, s)
  BY DEF GoodBehind
<1>3. u \o s \in Behind(E, F)
  BY <1>1, BehindIs
<1>4. Passes(r, im, Start, u \o s)
  BY <1>3 DEF AllPass
<1> QED BY <1>1, <1>2, <1>4

(***************************************************************************)
(* The Wp method does so behind the cover and m inputs, and appends        *)
(* identification sets to the last input.                                  *)
(***************************************************************************)
LEMMA WpSufficient ==
  ASSUME NEW r \in Machines, NEW im, NEW V, NEW W, NEW m \in Nat, GoodCover(r, V), GoodSet(r, W),
         NEW E \in SUBSET Ext(V, m + 1), Ext(V, m + 1) \subseteq E \cup Ext(V, m),
         NEW F, GoodBehind(r, E, W, F),
         NEW T, T = Add(Ext(V, m), W) \cup Behind(E, F), AllPass(r, im, Leaves(T)), SmallEnough(im, m)
  PROVE  Sufficient(r, im, V, W, m)
<1>0. /\ V \in SUBSET Seq(Input) /\ PrefixClosed(V) /\ Bounded(V) /\ W \in SUBSET Seq(Input) /\ Bounded(W)
      /\ m + 1 \in Nat /\ m <= m + 1
  BY DEF GoodCover, GoodSet
<1>1. /\ Ext(V, m) \in SUBSET Seq(Input) /\ Bounded(Ext(V, m))
      /\ Ext(V, m + 1) \in SUBSET Seq(Input) /\ Bounded(Ext(V, m + 1))
  BY <1>0, ExtFacts, ExtBounded
<1>2. E \in SUBSET Seq(Input) /\ Bounded(E)
  BY <1>1 DEF Bounded
<1>3. F \in [Leaves(E) -> SUBSET W] /\ F \in [Leaves(E) -> SUBSET Seq(Input)]
  BY <1>0 DEF GoodBehind
<1> DEFINE A == Add(Ext(V, m), W)
           B == Behind(E, F)
<1>4. A \in SUBSET Seq(Input) /\ Bounded(A) /\ Ext(V, m) \subseteq A /\ \A u \in Ext(V, m), t \in W : u \o t \in A
  BY <1>0, <1>1, AddIs, AddBounded
<1>5. B \in SUBSET Seq(Input) /\ Bounded(B) /\ E \subseteq B
  BY <1>0, <1>2, <1>3, BehindIs, BehindBounded
<1> HIDE DEF A, B
<1>6. T \in SUBSET Seq(Input) /\ T = A \cup B /\ Bounded(T)
  <2>1. T \in SUBSET Seq(Input) /\ T = A \cup B
    BY <1>4, <1>5 DEF A, B
  <2>2. PICK a \in Nat : \A t \in A : Len(t) <= a
    BY <1>4 DEF Bounded
  <2>3. PICK b \in Nat : \A t \in B : Len(t) <= b
    BY <1>5 DEF Bounded
  <2>4. ASSUME NEW t \in T PROVE Len(t) <= a + b
    <3>1. Len(t) \in Nat /\ (Len(t) <= a \/ Len(t) <= b)
      BY <2>1, <2>2, <2>3
    <3> QED BY <3>1
  <2>5. a + b \in Nat
    OBVIOUS
  <2> QED BY <2>1, <2>4, <2>5 DEF Bounded
<1>7. \A u \in T : Passes(r, im, Start, u)
  BY <1>6, LeavesPassed DEF AllPass
<1>8. AllPass(r, im, Ext(V, m + 1)) /\ AllPass(r, im, B)
  <2>1. Ext(V, m + 1) \subseteq T /\ B \subseteq T
    BY <1>4, <1>5, <1>6
  <2> QED BY <1>7, <2>1 DEF AllPass
<1>9. \A u \in Ext(V, m), t \in W : Passes(r, im, Start, u \o t)
  BY <1>4, <1>6, <1>7
<1>10. ASSUME NEW u \in Ext(V, m + 1) \ Ext(V, m), NEW q \in StatesAfter(r, u), NEW p \in State, p # q
       PROVE  \E t \in W : Differ(r, q, p, t) /\ Passes(r, im, Start, u \o t)
  <2>1. u \in E
    OBVIOUS
  <2>2. u \in Leaves(E)
    BY <1>0, <2>1, LongestAreLeaves
  <2> QED BY <1>0, <1>2, <1>8, <1>10, <2>2, BehindPasses DEF B
<1> QED BY <1>8, <1>9, <1>10, SufficientIf

(***************************************************************************)
(* The HSI method appends harmonised sets to the last inputs only; if      *)
(* their traces are single inputs, they are behind the others as well.     *)
(***************************************************************************)
LEMMA HSISufficient ==
  ASSUME NEW r \in Machines, NEW im, NEW V, NEW W, NEW m \in Nat, GoodCover(r, V), GoodSet(r, W),
         \A t \in W : Len(t) <= 1,
         NEW E, E = Ext(V, m + 1), NEW F, GoodBehind(r, E, W, F),
         NEW T, T = Behind(E, F), AllPass(r, im, Leaves(T)), SmallEnough(im, m)
  PROVE  Sufficient(r, im, V, W, m)
<1>0. /\ V \in SUBSET Seq(Input) /\ PrefixClosed(V) /\ Bounded(V) /\ W \in SUBSET Seq(Input) /\ Bounded(W)
      /\ m + 1 \in Nat /\ m <= m + 1
  BY DEF GoodCover, GoodSet
<1>1. Ext(V, m + 1) \in SUBSET Seq(Input)
  BY <1>0, ExtFacts
<1>2. E \in SUBSET Seq(Input) /\ Bounded(E)
  <2>1. Bounded(Ext(V, m + 1))
    BY <1>0, ExtBounded
  <2> QED BY <1>1, <2>1
<1>3. F \in [Leaves(E) -> SUBSET W] /\ F \in [Leaves(E) -> SUBSET Seq(Input)]
  BY <1>0 DEF GoodBehind
<1>5. T \in SUBSET Seq(Input) /\ Bounded(T) /\ E \subseteq T
  BY <1>0, <1>2, <1>3, BehindIs, BehindBounded
<1>7. \A u \in T : Passes(r, im, Start, u)
  BY <1>5, LeavesPassed DEF AllPass
<1>8. AllPass(r, im, Ext(V, m + 1)) /\ AllPass(r, im, Behind(E, F))
  BY <1>5, <1>7 DEF AllPass
<1>9. ASSUME NEW u \in Ext(V, m), NEW t \in W PROVE Passes(r, im, Start, u \o t)
  <2>1. u \o t \in Ext(Ext(V, m), 1)
    <3>1. t \in Seq(Input) /\ Len(t) <= 1 /\ u \in Seq(Input)
      BY <1>0, ExtFacts
    <3>2. u \o t \in Seq(Input)
      BY <3>1
    <3> QED BY <3>1, <3>2 DEF Ext
  <2>2. u \o t \in Ext(V, m + 1)
    BY <1>0, <2>1, ExtOfExt
  <2> QED BY <1>8, <2>2 DEF AllPass
<1>10. ASSUME NEW u \in Ext(V, m + 1) \ Ext(V, m), NEW q \in StatesAfter(r, u), NEW p \in State, p # q
       PROVE  \E t \in W : Differ(r, q, p, t) /\ Passes(r, im, Start, u \o t)
  <2>2. u \in Leaves(E)
    BY <1>0, LongestAreLeaves
  <2> QED BY <1>0, <1>2, <1>8, <1>10, <2>2, BehindPasses
<1> QED BY <1>8, <1>9, <1>10, SufficientIf

(***************************************************************************)
(* The state cover is a tree: the trace of a node that was met is that of  *)
(* a black node and one input more.                                        *)
(***************************************************************************)
HasParent(q) == \E p \in State, x \in Input : color[p] = "black" /\ f2t[q] = Append(f2t[p], x)

(* all nodes but the first have such a parent *)
TreeInv == \A q \in State : color[q] # "white" => f2t[q] = << >> \/ HasParent(q)

(* At the start no node has a trace. *)
LEMMA InitTreeInv == SuiteInit => TreeInv
BY DEF SuiteInit, TreeInv

(* Taking a node from the queue keeps the tree. *)
LEMMA TakeKeepsTree ==
  ASSUME CoverInv, TreeInv, bfsLst # << >>, NEW s, NEW h, h = Head(bfsLst), Taken(h, s)
  PROVE  TreeInv'
<1>1. /\ h \in State /\ color[h] = "grey" /\ color'[h] = "black"
      /\ \A q \in State \ (Fresh(h) \cup {h}) : color'[q] = color[q]
      /\ \A q \in State \ Fresh(h) : f2t'[q] = f2t[q]
  BY TakenIs
<1>2. \A q \in Fresh(h) : OneMore(h, q)
  BY TakenIs
<1>3. \A q \in Fresh(h) : color[q] = "white"
  BY DEF Fresh
<1>4. f2t'[h] = f2t[h]
  BY <1>1, <1>3
<1>5. ASSUME NEW q \in State, color'[q] # "white", f2t'[q] # << >>
      PROVE  \E p \in State, x \in Input : color'[p] = "black" /\ f2t'[q] = Append(f2t'[p], x)
  <2>1. CASE q \in Fresh(h)
    <3>1. PICK x \in Input : f2t'[q] = Append(f2t[h], x)
      BY <1>2, <2>1 DEF OneMore
    <3> QED BY <1>1, <1>4, <3>1
  <2>2. CASE q \notin Fresh(h)
    <3>1. f2t'[q] = f2t[q] /\ color[q] # "white"
      BY <1>1, <1>5, <2>2
    <3>2. HasParent(q)
      BY <1>5, <3>1 DEF TreeInv
    <3>3. PICK p \in State, x \in Input : color[p] = "black" /\ f2t[q] = Append(f2t[p], x)
      BY <3>2 DEF HasParent
    <3>4. p \notin Fresh(h) /\ p # h
      BY <1>1, <1>3, <3>3
    <3>5. color'[p] = "black" /\ f2t'[p] = f2t[p]
      BY <1>1, <3>3, <3>4
    <3> QED BY <3>1, <3>3, <3>5
  <2> QED BY <2>1, <2>2
<1> QED BY <1>5 DEF TreeInv, HasParent

(* So does every step. *)
LEMMA StepTreeInv ==
  ASSUME CoverInv, TreeInv, CoverStep
  PROVE  TreeInv'
<1>1. CASE VisitNode
  <2>1. bfsLst # << >> /\ \E s : Taken(Head(bfsLst), s)
    BY <1>1, VisitTakes
  <2> QED BY <2>1, TakeKeepsTree
<1>2. CASE ~VisitNode
  <2>1. color' = color /\ f2t' = f2t
    BY <1>2 DEF CoverStep, CoverDone, coverVars
  <2> QED BY <2>1 DEF TreeInv, HasParent
<1> QED BY <1>1, <1>2

-----------------------------------------------------------------------------
(* When no node waits any more, the traces of the cover ... *)
Black == {p \in State : color[p] = "black"}

(* the cover is complete *)
Covered == CoverInv /\ TreeInv /\ bfsLst = << >>

(* are those of the black nodes, which are all that can be reached, ... *)
LEMMA CoveredFacts ==
  ASSUME Covered
  PROVE  /\ f2t \in [State -> Seq(Input)] /\ rows \in Machines
         /\ scov = {f2t[q] : q \in Black}
         /\ scov \in SUBSET Seq(Input)
         /\ 0 \in Black /\ f2t[0] = << >> /\ << >> \in scov
         /\ \A q \in Black : f2t[q] \in scov /\ q \in StatesAfter(rows, f2t[q])
         /\ \A q \in Black : f2t[q] = << >> \/ \E p \in Black, x \in Input : f2t[q] = Append(f2t[p], x)
<1>1. f2t \in [State -> Seq(Input)] /\ rows \in Machines /\ color \in [State -> {"white", "grey", "black"}]
  BY DEF Covered, CoverInv, CoverTypes
<1>2. scov = {f2t[q] : q \in Black}
  BY DEF scov, Black
<1>3. scov \in SUBSET Seq(Input)
  BY <1>1, <1>2 DEF Black
<1>4. \A q \in State : color[q] # "grey"
  <2>1. \A q \in State : ~Waits(q)
    BY DEF Waits, Covered
  <2> QED BY <2>1 DEF Covered, CoverInv, WaitingAreGrey
<1>5. 0 \in Black /\ f2t[0] = << >>
  BY <1>1, <1>4, StateFacts DEF Covered, CoverInv, RootMet, Black
<1>6. \A q \in Black : f2t[q] \in scov /\ q \in StatesAfter(rows, f2t[q])
  BY <1>2 DEF Covered, CoverInv, TracesLead, Black
<1>7. ASSUME NEW q \in Black, f2t[q] # << >> PROVE \E p \in Black, x \in Input : f2t[q] = Append(f2t[p], x)
  <2>1. HasParent(q)
    BY <1>7 DEF Covered, TreeInv, Black
  <2> QED BY <2>1 DEF HasParent, Black
<1>8. << >> \in scov
  BY <1>5, <1>6
<1> QED BY <1>1, <1>2, <1>3, <1>5, <1>6, <1>7, <1>8

(* ... are closed under prefixes, ... *)
LEMMA CoverIsClosed ==
  ASSUME Covered
  PROVE  PrefixClosed(scov)
<1> DEFINE A == {n \in Nat : \A q \in Black : Len(f2t[q]) = n =>
                   \A u \in Seq(Input) : IsPrefix(u, f2t[q]) => u \in scov}
<1>0. \A q \in Black : f2t[q] \in Seq(Input) /\ Len(f2t[q]) \in Nat /\ f2t[q] \in scov
  BY CoveredFacts DEF Black
<1>1. 0 \in A
  <2> SUFFICES ASSUME NEW q \in Black, Len(f2t[q]) = 0, NEW u \in Seq(Input), IsPrefix(u, f2t[q])
               PROVE  u \in scov
    OBVIOUS
  <2>1. Len(u) <= Len(f2t[q]) /\ Len(u) \in Nat
    BY <1>0, PrefixIs
  <2>2. Len(u) = 0
    BY <2>1
  <2>3. u = << >>
    BY <2>2, EmptySeq
  <2> QED BY <2>3, CoveredFacts
<1>2. ASSUME NEW n \in Nat, n \in A PROVE n + 1 \in A
  <2> SUFFICES ASSUME NEW q \in Black, Len(f2t[q]) = n + 1, NEW u \in Seq(Input), IsPrefix(u, f2t[q])
               PROVE  u \in scov
    OBVIOUS
  <2>1. f2t[q] # << >>
    <3>1. Len(<< >>) = 0
      OBVIOUS
    <3> QED BY <3>1
  <2>2. PICK p \in Black, x \in Input : f2t[q] = Append(f2t[p], x)
    BY <2>1, CoveredFacts
  <2>3. Len(f2t[p]) = n
    <3>1. Len(Append(f2t[p], x)) = Len(f2t[p]) + 1
      BY <1>0, AppendExtends
    <3> QED BY <1>0, <2>2, <3>1
  <2>4. u = f2t[q] \/ IsPrefix(u, f2t[p])
    <3>1. IsPrefix(u, Append(f2t[p], x)) /\ f2t[p] \in Seq(Input)
      BY <1>0, <2>2
    <3> QED BY <2>2, <3>1, PrefixOfAppend
  <2> QED BY <1>0, <1>2, <2>3, <2>4
<1> HIDE DEF A
<1>3. Nat \subseteq A
  BY <1>1, <1>2, SetInduction
<1>4. ASSUME NEW q \in Black, NEW u \in Seq(Input), IsPrefix(u, f2t[q]) PROVE u \in scov
  <2>1. Len(f2t[q]) \in A
    BY <1>0, <1>3
  <2> QED BY <1>4, <2>1 DEF A
<1> QED BY <1>4, CoveredFacts DEF PrefixClosed

(* ... and shorter than the number of states, since there is one of each   *)
(* length up to the longest.                                               *)
LEMMA CoverIsShort ==
  ASSUME Covered, NEW q \in Black
  PROVE  Depth(q) \in Nat /\ Depth(q) < numStates
<1> DEFINE S == {Depth(p) : p \in Black}
           A == {n \in Nat : n <= Depth(q) => Depth(q) - n \in S}
           f == [p \in Black |-> Depth(p)]
<1>0. \A p \in Black : f2t[p] \in Seq(Input) /\ Depth(p) \in Nat
  BY CoveredFacts DEF Black, Depth
<1>1. 0 \in A
  <2>1. Depth(q) - 0 = Depth(q)
    BY <1>0
  <2> QED BY <2>1
<1>2. ASSUME NEW n \in Nat, n \in A PROVE n + 1 \in A
  <2> SUFFICES ASSUME n + 1 <= Depth(q) PROVE Depth(q) - (n + 1) \in S
    OBVIOUS
  <2> DEFINE d == Depth(q)
  <2>0. d \in Nat /\ n + 1 <= d
    BY <1>0
  <2> HIDE DEF d
  <2>1. n <= d
    BY <2>0
  <2>2. d - n \in S
    BY <1>2, <2>1 DEF d
  <2>3. PICK p \in Black : d - n = Depth(p)
    BY <2>2
  <2>4. f2t[p] # << >>
    <3>1. Depth(p) # 0 /\ Len(<< >>) = 0
      BY <2>0, <2>3
    <3> QED BY <3>1 DEF Depth
  <2>5. PICK o \in Black, x \in Input : f2t[p] = Append(f2t[o], x)
    BY <2>4, CoveredFacts
  <2>6. Len(Append(f2t[o], x)) = Len(f2t[o]) + 1
    BY <1>0, AppendExtends
  <2>7. Depth(p) = Depth(o) + 1
    BY <2>5, <2>6 DEF Depth
  <2>8. Depth(o) \in Nat
    BY <1>0
  <2>9. Depth(o) = d - (n + 1)
    BY <2>0, <2>3, <2>7, <2>8
  <2> QED BY <2>9 DEF d
<1>3. Nat \subseteq A
  <2> HIDE DEF A
  <2> QED BY <1>1, <1>2, SetInduction
<1>4. 0 .. Depth(q) \subseteq S
  <2> SUFFICES ASSUME NEW k \in 0 .. Depth(q) PROVE k \in S
    OBVIOUS
  <2> DEFINE d == Depth(q)
  <2>0. d \in Nat /\ k \in 0 .. d
    BY <1>0
  <2> HIDE DEF d
  <2>1. d - k \in Nat /\ d - k <= d /\ d - (d - k) = k
    BY <2>0
  <2>2. d - k \in A
    BY <1>3, <2>1
  <2> QED BY <2>1, <2>2 DEF d
<1>5. IsFiniteSet(Black) /\ Cardinality(Black) <= numStates /\ Cardinality(Black) \in Nat
  <2>1. IsFiniteSet(State) /\ Cardinality(State) = numStates
    BY NumStatesAssumption, FS_Interval DEF State
  <2>2. Black \in SUBSET State
    BY DEF Black
  <2> QED BY <2>1, <2>2, FS_Subset, FS_CardinalityType
<1>6. f \in Surjection(Black, S)
  BY DEF Surjection
<1>7. IsFiniteSet(S) /\ Cardinality(S) <= Cardinality(Black) /\ Cardinality(S) \in Nat
  <2> HIDE DEF f, S
  <2> QED BY <1>5, <1>6, FS_Surjection, FS_CardinalityType
<1>8. Cardinality(0 .. Depth(q)) = Depth(q) + 1
  <2>1. Depth(q) \in Nat
    BY <1>0
  <2> HIDE DEF Depth
  <2>2. Cardinality(0 .. Depth(q)) = IF 0 > Depth(q) THEN 0 ELSE Depth(q) - 0 + 1
    BY <2>1, FS_Interval
  <2> QED BY <2>1, <2>2
<1>9. Cardinality(0 .. Depth(q)) <= Cardinality(S)
  <2> HIDE DEF S
  <2> QED BY <1>4, <1>7, FS_Subset
<1> HIDE DEF S, Depth
<1>10. Depth(q) \in Nat
  BY <1>0
<1> QED BY <1>5, <1>7, <1>8, <1>9, <1>10, NumStatesAssumption

(* The cover is finite. *)
LEMMA CoverBounded ==
  ASSUME Covered
  PROVE  Bounded(scov)
<1>1. \A q \in Black : Len(f2t[q]) <= numStates
  <2> SUFFICES ASSUME NEW q \in Black PROVE Len(f2t[q]) <= numStates
    OBVIOUS
  <2>1. Depth(q) \in Nat /\ Depth(q) < numStates
    BY CoverIsShort
  <2> HIDE DEF Depth
  <2>2. Depth(q) <= numStates
    BY <2>1, NumStatesAssumption
  <2> QED BY <2>2 DEF Depth
<1>2. \A t \in scov : Len(t) <= numStates
  BY <1>1, CoveredFacts
<1> QED BY <1>2, NumStatesAssumption DEF Bounded

(* If all states can be reached, the cover reaches them all. *)
LEMMA CoverIsGood ==
  ASSUME Covered, \A q \in State : color[q] = "black"
  PROVE  GoodCover(rows, scov)
<1>1. \A q \in State : \E v \in scov : q \in StatesAfter(rows, v)
  <2>1. \A q \in State : q \in Black
    BY DEF Black
  <2> QED BY <2>1, CoveredFacts
<1> QED BY <1>1, CoveredFacts, CoverIsClosed, CoverBounded DEF GoodCover

(***************************************************************************)
(* The characterisation set is finite, and the identification sets are     *)
(* made of its traces.                                                     *)
(***************************************************************************)
TracesInv ==
  /\ IsFiniteSet(w) /\ Bounded(w)
  /\ pc \in {"tables", "pairs"} => \A q \in State : identification[q] = {}
  /\ \A q \in State : identification[q] \subseteq w

(* It holds at the start. *)
LEMMA InitTracesInv == Init => TracesInv
<1> SUFFICES ASSUME Init PROVE TracesInv
  OBVIOUS
<1>1. IsFiniteSet({<< >>}) /\ w = {<< >>}
  BY FS_Singleton DEF Init
<1>2. Bounded(w)
  <2>1. 0 \in Nat /\ \A t \in w : Len(t) <= 0
    BY <1>1
  <2> QED BY <2>1 DEF Bounded
<1> QED BY <1>1, <1>2 DEF Init, TracesInv

(* Adding a trace to such a set. *)
LEMMA AddToRootIn ==
  ASSUME NEW T, IsFiniteSet(T), Bounded(T), NEW t \in Seq(Input), T \subseteq Seq(Input)
  PROVE  IsFiniteSet(AddToRoot(T, t)) /\ Bounded(AddToRoot(T, t))
<1>1. AddToRoot(T, t) \subseteq T \cup {t}
  BY DEF AddToRoot
<1>2. IsFiniteSet(T \cup {t})
  BY FS_AddElement
<1>3. PICK n \in Nat : \A u \in T : Len(u) <= n
  BY DEF Bounded
<1>4. n + Len(t) \in Nat /\ \A u \in T \cup {t} : Len(u) <= n + Len(t)
  <2>1. Len(t) \in Nat /\ \A u \in T : Len(u) \in Nat
    OBVIOUS
  <2> QED BY <1>3, <2>1
<1> HIDE DEF AddToRoot
<1> QED BY <1>1, <1>2, <1>4, FS_Subset DEF Bounded

(* Every step keeps it. *)
LEMMA StepTracesInv == PairsInv /\ SetsInv /\ TracesInv /\ [Next]_vars => TracesInv'
<1> SUFFICES ASSUME PairsInv, SetsInv, TracesInv, [Next]_vars PROVE TracesInv'
  OBVIOUS
<1>1. CASE CalcOFSMTables \/ SkipPair \/ PairsDone \/ SetsDone \/ UNCHANGED vars
  <2>1. w' = w /\ identification' = identification /\ (pc' \in {"tables", "pairs"} => pc \in {"tables", "pairs"})
    BY <1>1 DEF CalcOFSMTables, SkipPair, PairsDone, SetsDone, vars
  <2> QED BY <2>1 DEF TracesInv, Bounded
<1>2. CASE AddTrace
  <2> DEFINE t == calcDistinguishingTrace(left, right)
  <2>1. left \in State /\ right \in State /\ left # right
    BY <1>2, NextPairIs DEF PairsInv, AddTrace
  <2>2. t \in Seq(Input)
    BY <1>2, <2>1, CalcDistinguishes DEF PairsInv, AddTrace
  <2>3. w' = AddToRoot(w, t) /\ identification' = identification /\ pc = "pairs" /\ pc' = pc
    BY <1>2 DEF AddTrace
  <2> HIDE DEF t
  <2>4. IsFiniteSet(w') /\ Bounded(w')
    BY <2>2, <2>3, AddToRootIn DEF TracesInv, PairsInv, Control
  <2>5. \A q \in State : identification'[q] = {}
    BY <2>3 DEF TracesInv
  <2> QED BY <2>4, <2>5 DEF TracesInv, Bounded
<1>3. CASE SelectSet
  <2> DEFINE zs == {{t \in w : Distinguished(left, j, t)} : j \in State \ {left}}
  <2>1. PICK h \in MinHittingSets(zs) : identification' = [identification EXCEPT ![left] = h]
    BY <1>3 DEF SelectSet
  <2>2. h \subseteq w
    <3>1. \A z \in zs : z \subseteq w
      OBVIOUS
    <3> HIDE DEF zs
    <3> QED BY <3>1, HittingSetTyped
  <2>3. \A q \in State : identification'[q] \subseteq w
    BY <2>1, <2>2 DEF TracesInv, SetsInv
  <2>4. w' = w /\ pc' = "sets"
    BY <1>3 DEF SelectSet
  <2> QED BY <2>3, <2>4 DEF TracesInv, Bounded
<1>4. CASE TryTrace
  <2>1. w' = w /\ pc' = "fast" /\ pc = "fast"
    BY <1>4 DEF TryTrace
  <2>2. PICK t \in todo : \A q \in State : identification'[q] \subseteq identification[q] \cup {t}
    BY <1>4 DEF TryTrace
  <2>3. t \in w
    BY <2>1, <2>2 DEF SetsInv
  <2>4. \A q \in State : identification'[q] \subseteq w
    BY <2>2, <2>3 DEF TracesInv
  <2> QED BY <2>1, <2>4 DEF TracesInv, Bounded
<1> QED BY <1>1, <1>2, <1>3, <1>4 DEF Next, Done

(***************************************************************************)
(* The suites, when they are generated.                                    *)
(***************************************************************************)
SetsReady ==
  /\ Covered /\ PairsInv /\ SetsInv /\ TracesInv
  /\ pc \notin {"tables", "pairs"}
  /\ numAddStates \in Nat

(* What the methods start from. *)
LEMMA ReadyFacts ==
  ASSUME SetsReady
  PROVE  /\ scov \in SUBSET Seq(Input) /\ PrefixClosed(scov) /\ Bounded(scov)
         /\ w \in SUBSET Seq(Input) /\ Bounded(w)
         /\ identification \in [State -> SUBSET w]
         /\ rows \in Machines
<1>1. scov \in SUBSET Seq(Input) /\ rows \in Machines
  BY CoveredFacts DEF SetsReady
<1>2. PrefixClosed(scov) /\ Bounded(scov)
  BY CoverIsClosed, CoverBounded DEF SetsReady
<1>3. w \in SUBSET Seq(Input) /\ Bounded(w)
  BY DEF SetsReady, PairsInv, Control, TracesInv
<1>4. identification \in [State -> SUBSET w]
  BY DEF SetsReady, SetsInv, TracesInv
<1> QED BY <1>1, <1>2, <1>3, <1>4

(* getTransitionCover: the state cover with one input behind it. *)
LEMMA TransitionCoverIs ==
  ASSUME SetsReady
  PROVE  /\ tcov = Ext(scov, 1)
         /\ tcov \in SUBSET Seq(Input) /\ PrefixClosed(tcov) /\ Bounded(tcov)
         /\ \A k \in Nat : tcov \subseteq Ext(scov, k + 1) /\ Ext(tcov, k) = Ext(scov, k + 1)
<1>0. scov \in SUBSET Seq(Input) /\ PrefixClosed(scov) /\ Bounded(scov) /\ 1 \in Nat
  BY ReadyFacts
<1>1. tcov = Ext(scov, 1)
  BY <1>0, AddEnum DEF tcov
<1>2. tcov \in SUBSET Seq(Input) /\ PrefixClosed(tcov) /\ Bounded(tcov)
  BY <1>0, <1>1, ExtFacts, ExtClosed, ExtBounded
<1>3. ASSUME NEW k \in Nat PROVE tcov \subseteq Ext(scov, k + 1) /\ Ext(tcov, k) = Ext(scov, k + 1)
  <2>1. k + 1 \in Nat /\ 1 <= k + 1 /\ 1 + k = k + 1
    OBVIOUS
  <2>2. tcov \subseteq Ext(scov, k + 1)
    BY <1>0, <1>1, <2>1, ExtFacts
  <2>3. Ext(tcov, k) \subseteq Ext(scov, 1 + k)
    BY <1>0, <1>1, ExtOfExt
  <2>4. Ext(scov, k + 1) \subseteq Ext(tcov, k)
    BY <1>0, <1>1, ExtByFirst
  <2> QED BY <2>1, <2>2, <2>3, <2>4
<1> QED BY <1>1, <1>2, <1>3

(* The W method's tree. *)
LEMMA WSuiteIs ==
  ASSUME SetsReady
  PROVE  WSuite = Add(Ext(scov, numAddStates + 1), w)
<1> DEFINE m == numAddStates
<1>0. m \in Nat
  BY DEF SetsReady
<1>1. CASE m > 0
  <2>1. Add(tcov, InputEnum(1, m)) = Ext(scov, m + 1)
    BY <1>0, TransitionCoverIs, AddEnum
  <2> QED BY <1>1, <2>1 DEF WSuite
<1>2. CASE ~(m > 0)
  <2>1. m + 1 = 1
    BY <1>0, <1>2
  <2> QED BY <1>2, <2>1, TransitionCoverIs DEF WSuite
<1> QED BY <1>1, <1>2

(* the traces of the second phase of the Wp method *)
SecondPhase ==
  IF numAddStates > 0 THEN Add(tcov, InputEnum(numAddStates, numAddStates)) ELSE tcov

(* The Wp method's tree. *)
LEMMA WpSuiteIs ==
  ASSUME SetsReady
  PROVE  /\ WpSuite = Add(Ext(scov, numAddStates), w) \cup AppendSets(SecondPhase, identification)
         /\ tcov \subseteq SecondPhase
         /\ SecondPhase \in SUBSET Ext(scov, numAddStates + 1)
         /\ Ext(scov, numAddStates + 1) \subseteq SecondPhase \cup Ext(scov, numAddStates)
<1> DEFINE m == numAddStates
           E == SecondPhase
<1>0. /\ m \in Nat /\ m + 1 \in Nat
      /\ scov \in SUBSET Seq(Input) /\ PrefixClosed(scov)
      /\ tcov = Ext(scov, 1) /\ tcov \in SUBSET Seq(Input) /\ PrefixClosed(tcov)
      /\ tcov \subseteq Ext(scov, m + 1) /\ Ext(tcov, m) = Ext(scov, m + 1)
  <2>1. m \in Nat
    BY DEF SetsReady
  <2> HIDE DEF m
  <2>2. m + 1 \in Nat
    BY <2>1
  <2> QED BY <2>1, <2>2, ReadyFacts, TransitionCoverIs
<1>1. (IF m > 0 THEN Add(scov, InputEnum(1, m)) ELSE scov) = Ext(scov, m)
  <2>1. Add(scov, InputEnum(1, m)) = Ext(scov, m)
    BY <1>0, AddEnum
  <2>2. m = 0 => InputEnum(1, m) = {}
    BY DEF InputEnum
  <2>3. m = 0 => Add(scov, InputEnum(1, m)) = scov
    BY <2>2 DEF Add, AddAfter
  <2> QED BY <1>0, <2>1, <2>3
<1>2. WpSuite = Add(Ext(scov, m), w) \cup AppendSets(E, identification)
  <2> HIDE DEF m
  <2> QED BY <1>1 DEF WpSuite, SecondPhase, m
<1>3. CASE m > 0
  <2>1. E = Add(tcov, InputEnum(m, m))
    BY <1>3 DEF SecondPhase
  <2>2. InputEnum(m, m) \in SUBSET Seq(Input) /\ InputEnum(1, m) \in SUBSET Seq(Input)
    BY <1>0, EnumIs
  <2>3. InputEnum(m, m) \subseteq InputEnum(1, m)
    BY <1>0, <1>3 DEF InputEnum
  <2>4. tcov \subseteq E
    BY <1>0, <2>1, <2>2, AddIs
  <2>5. E \subseteq Add(tcov, InputEnum(1, m))
    BY <2>1, <2>3 DEF Add, AddAfter
  <2>6. Add(tcov, InputEnum(1, m)) = Ext(scov, m + 1)
    BY <1>0, AddEnum
  <2>7. ASSUME NEW u \in Ext(tcov, m) PROVE u \in E \cup Ext(scov, m)
    <3>1. PICK v \in tcov, b \in Seq(Input) : Len(b) <= m /\ u = v \o b
      BY DEF Ext
    <3>2. Len(b) \in Nat /\ u \in Seq(Input)
      BY <1>0, <3>1
    <3>3. CASE Len(b) = m
      <4>1. b \in InputEnum(m, m)
        <5>1. b \in [1 .. m -> Input]
          BY <3>3
        <5>2. m \in m .. m
          BY <1>0
        <5> QED BY <5>1, <5>2 DEF InputEnum
      <4> QED BY <1>0, <2>1, <2>2, <3>1, <4>1, AddIs
    <3>4. CASE Len(b) # m
      <4>1. Len(b) <= m - 1 /\ m - 1 \in Nat /\ 1 + (m - 1) = m
        BY <1>0, <1>3, <3>1, <3>2, <3>4
      <4>2. u \in Ext(tcov, m - 1)
        BY <3>1, <3>2, <4>1 DEF Ext
      <4>3. Ext(tcov, m - 1) \subseteq Ext(scov, 1 + (m - 1))
        BY <1>0, <4>1, ExtOfExt
      <4> QED BY <4>1, <4>2, <4>3
    <3> QED BY <3>3, <3>4
  <2> HIDE DEF E, m
  <2> QED BY <1>0, <1>2, <2>4, <2>5, <2>6, <2>7 DEF E, m
<1>4. CASE ~(m > 0)
  <2>1. m + 1 = 1 /\ E = tcov
    BY <1>0, <1>4 DEF SecondPhase
  <2> QED BY <1>0, <1>2, <2>1
<1> QED BY <1>3, <1>4

(* what appendStateIdentificationSets adds *)
Identifying(sets) ==
  /\ sets \in [State -> SUBSET w]
  /\ Complete(rows) => \A q, p \in State : p # q => Separated(q, p, sets[q])

(* behind a leaf the sets of the states that it leads to *)
BehindLeaves(sets, E) == [t \in Leaves(E) |-> UNION {sets[q] : q \in After(t)}]

(* appendStateIdentificationSets adds nothing else than that. *)
LEMMA AppendSetsIs ==
  ASSUME SetsReady, NEW E \in SUBSET Seq(Input), NEW sets, Identifying(sets)
  PROVE  /\ AppendSets(E, sets) = Behind(E, BehindLeaves(sets, E))
         /\ BehindLeaves(sets, E) \in [Leaves(E) -> SUBSET w]
         /\ Complete(rows) => GoodBehind(rows, E, w, BehindLeaves(sets, E))
<1> DEFINE F == BehindLeaves(sets, E)
<1>1. ASSUME NEW t \in Leaves(E)
      PROVE  t \in Seq(Input) /\ After(t) = StatesAfter(rows, t) /\ After(t) \subseteq State
  <2>1. t \in Seq(Input)
    BY DEF Leaves
  <2> QED BY <2>1, AfterIs, StatesAfterTyped, ReadyFacts
<1>2. AppendSets(E, sets) = Behind(E, F)
  BY DEF AppendSets, Behind, BehindLeaves
<1>3. F \in [Leaves(E) -> SUBSET w]
  BY <1>1 DEF Identifying, BehindLeaves
<1>4. ASSUME Complete(rows), NEW t \in Leaves(E), NEW q \in StatesAfter(rows, t), NEW p \in State, p # q
      PROVE  \E s \in F[t] : Differ(rows, q, p, s)
  <2>1. q \in After(t) /\ q \in State
    BY <1>1
  <2>2. PICK s \in sets[q] : Differ(rows, q, p, s)
    BY <1>4, <2>1 DEF Identifying, Separated
  <2>3. s \in F[t]
    BY <2>1 DEF BehindLeaves
  <2> QED BY <2>2, <2>3
<1> QED BY <1>2, <1>3, <1>4 DEF GoodBehind

(* An order of a finite set has all its elements. *)
LEMMA OrderHasAll ==
  ASSUME NEW S, IsFiniteSet(S), NEW s \in SetToSeqs(S)
  PROVE  /\ DOMAIN s = 1 .. Cardinality(S)
         /\ \A k \in DOMAIN s : s[k] \in S
         /\ \A e \in S : \E k \in DOMAIN s : s[k] = e
<1> DEFINE n == Cardinality(S)
<1>1. n \in Nat
  BY FS_CardinalityType
<1>2. s \in [1 .. n -> S] /\ \A i, j \in 1 .. n : i # j => s[i] # s[j]
  BY DEF SetToSeqs
<1> HIDE DEF n
<1>3. s \in Injection(1 .. n, S)
  BY <1>2 DEF Injection, IsInjective
<1>4. Cardinality(1 .. n) = Cardinality(S)
  <2>1. Cardinality(1 .. n) = IF 1 > n THEN 0 ELSE n - 1 + 1
    BY <1>1, FS_Interval
  <2>2. Cardinality(1 .. n) = n
    BY <1>1, <2>1
  <2> QED BY <2>2 DEF n
<1>5. s \in Surjection(1 .. n, S)
  BY <1>1, <1>3, <1>4, FS_Injection
<1>6. \A e \in S : \E i \in 1 .. n : s[i] = e
  BY <1>5 DEF Surjection
<1> QED BY <1>2, <1>6 DEF n

(* the harmonised sets identify as well *)
LEMMA HarmonisedAre ==
  ASSUME SetsReady, NEW order \in SetToSeqs(w)
  PROVE  Identifying(HarmonisedSets(order))
<1> DEFINE Telling(p, q) == {k \in DOMAIN order : Distinguished(p, q, order[k])}
           sets == HarmonisedSets(order)
<1>1. /\ DOMAIN order \subseteq Nat
      /\ \A k \in DOMAIN order : order[k] \in w
      /\ \A t \in w : \E k \in DOMAIN order : order[k] = t
  <2>1. IsFiniteSet(w)
    BY DEF SetsReady, TracesInv
  <2>2. Cardinality(w) \in Nat
    BY <2>1, FS_CardinalityType
  <2>3. 1 .. Cardinality(w) \subseteq Nat
    BY <2>2
  <2> QED BY <2>1, <2>3, OrderHasAll
<1>2. \A p, q \in State : Telling(p, q) # {} => Min(Telling(p, q)) \in Telling(p, q)
  <2> SUFFICES ASSUME NEW p \in State, NEW q \in State, Telling(p, q) # {} PROVE Min(Telling(p, q)) \in Telling(p, q)
    OBVIOUS
  <2> DEFINE T == Telling(p, q)
  <2>1. T \subseteq Nat /\ T # {}
    BY <1>1
  <2> HIDE DEF T
  <2>2. Min(T) \in T
    BY <2>1, MinOf
  <2> QED BY <2>2 DEF T
<1>3. sets = [q \in State |-> {order[Min(Telling(p, q))] : p \in {r \in State \ {q} : Telling(r, q) # {}}}]
  BY DEF HarmonisedSets
<1> HIDE DEF sets
<1>4. sets \in [State -> SUBSET w]
  <2>1. ASSUME NEW q \in State, NEW p \in State, Telling(p, q) # {} PROVE order[Min(Telling(p, q))] \in w
    BY <1>1, <1>2, <2>1
  <2> HIDE DEF Telling
  <2> QED BY <1>3, <2>1
<1>5. ASSUME Complete(rows), NEW q \in State, NEW p \in State, p # q PROVE Separated(q, p, sets[q])
  <2>0. w \subseteq Seq(Input) /\ PairsInv /\ pc \notin {"tables", "pairs"}
    BY ReadyFacts DEF SetsReady
  <2>1. Separated(p, q, w)
    BY <1>5, <2>0, AllSeparated
  <2>2. PICK t \in w : Distinguished(p, q, t)
    BY <2>0, <2>1, DistinguishedIs DEF DistinguishedBy
  <2>3. Telling(p, q) # {}
    BY <1>1, <2>2
  <2> DEFINE k == Min(Telling(p, q))
  <2>4. k \in DOMAIN order /\ Distinguished(p, q, order[k])
    BY <1>2, <2>3
  <2>5. order[k] \in sets[q]
    <3> HIDE DEF Telling
    <3> QED BY <1>3, <1>5, <2>3
  <2> HIDE DEF k
  <2>6. Differ(rows, p, q, order[k])
    BY <1>1, <2>0, <2>4, DistinguishedIs
  <2> QED BY <2>5, <2>6, DifferSymmetric DEF Separated
<1> QED BY <1>4, <1>5 DEF Identifying, sets

-----------------------------------------------------------------------------
-----------------------------------------------------------------------------
(***************************************************************************)
(* Deterministic machines: one answer and one post-state for every input.  *)
(***************************************************************************)
Det(r) ==
  \A q \in State, x \in Input : \E y \in Output : {z \in Output : r[q][<<x, z>>] >= 0} = {y}

(* A set with one element. *)
LEMMA OneElement ==
  ASSUME NEW S, IsFiniteSet(S), Cardinality(S) = 1
  PROVE  \E s : S = {s}
<1>1. S # {}
  BY FS_EmptySet
<1>2. PICK s : s \in S
  BY <1>1
<1>3. IsFiniteSet({s}) /\ Cardinality({s}) = 1
  BY FS_Singleton
<1>4. {s} \subseteq S
  BY <1>2
<1>5. {s} = S
  BY <1>3, <1>4, FS_Subset
<1> QED BY <1>5

(* The condition of the H method in these terms. *)
LEMMA DeterministicIsDet == Deterministic => Det(rows)
<1> SUFFICES ASSUME Deterministic, NEW q \in State, NEW x \in Input
             PROVE  \E y \in Output : {z \in Output : rows[q][<<x, z>>] >= 0} = {y}
  BY DEF Det
<1> DEFINE S == {z \in Output : rows[q][<<x, z>>] >= 0}
<1>1. Cardinality(S) = 1
  BY DEF Deterministic
<1>2. IsFiniteSet(Output)
  BY AlphabetAssumption, FS_Interval DEF Output
<1>3. S \subseteq Output
  OBVIOUS
<1> HIDE DEF S
<1>4. IsFiniteSet(S)
  BY <1>2, <1>3, FS_Subset
<1>5. PICK y : S = {y}
  BY <1>1, <1>4, OneElement
<1> QED BY <1>3, <1>5 DEF S

(* The transition for an input. *)
LEMMA PostOfIs ==
  ASSUME NEW r \in Machines, Det(r), NEW q \in State, NEW x \in Input
  PROVE  /\ PostOf(r, q, x) \in State
         /\ \E y \in Output : r[q][<<x, y>>] = PostOf(r, q, x) /\ \A z \in Output \ {y} : ~(r[q][<<x, z>>] >= 0)
         /\ \A y \in Output : r[q][<<x, y>>] >= 0 => r[q][<<x, y>>] = PostOf(r, q, x)
<1>1. PICK y \in Output : {z \in Output : r[q][<<x, z>>] >= 0} = {y}
  BY DEF Det
<1>2. r[q][<<x, y>>] \in State
  BY <1>1, PostFacts
<1>3. \A z \in Output : r[q][<<x, z>>] >= 0 => z = y
  BY <1>1
<1>4. \A z \in Output : r[q][<<x, z>>] \in State => z = y
  BY <1>3, PostFacts
<1> DEFINE s == PostOf(r, q, x)
<1>5. s \in State /\ \E z \in Output : r[q][<<x, z>>] = s
  BY <1>2 DEF PostOf
<1> HIDE DEF s
<1>6. r[q][<<x, y>>] = s
  BY <1>4, <1>5
<1> QED BY <1>3, <1>5, <1>6 DEF s

(* A deterministic machine answers every input. *)
LEMMA DetIsComplete ==
  ASSUME NEW r, Det(r)
  PROVE  Complete(r)
<1> SUFFICES ASSUME NEW q \in State, NEW x \in Input
             PROVE  \E y \in Output : r[q][<<x, y>>] >= 0
  BY DEF Complete
<1>1. PICK y \in Output : {z \in Output : r[q][<<x, z>>] >= 0} = {y}
  BY DEF Det
<1>2. y \in {z \in Output : r[q][<<x, z>>] >= 0}
  BY <1>1
<1> QED BY <1>2

(***************************************************************************)
(* The state that a trace leads to.                                        *)
(***************************************************************************)
StateBy(r, q, t) == RunOf(<<"state", r>>, q, t)

(* FsmNode::after, one input after the other. *)
LEMMA StateAfterIs ==
  ASSUME NEW X, NEW t \in Seq(X), NEW q
  PROVE  StateAfter(q, t) = StateBy(rows, q, t)
<1> DEFINE m == <<"state", rows>>
           base == q
           D == DOMAIN t
           Op(a, b) == PostOf(rows, a, b)
           Is(iter) == iter = [s \in SUBSET D |-> IF s = {} THEN base
                                ELSE Op(iter[s \ {Max(s)}], t[Max(s)])]
           it == CHOOSE iter : Is(iter)
<1>1. StateAfter(q, t) = it[D]
  BY DEF StateAfter, FoldLeft, MapThenFoldSet, PostOf
<1>2. \A a, b : StepOf(m, a, b) = Op(a, b)
  BY StepCases
<1> HIDE DEF Op, m, base
<1>3. \A iter : Is(iter) <=> IsFold(iter, m, base, t)
  BY <1>2 DEF IsFold
<1>4. \E iter : Is(iter)
  BY <1>3, FoldExists
<1> HIDE DEF Is
<1>5. Is(it)
  BY <1>4
<1> HIDE DEF it
<1>6. IsFold(it, m, base, t)
  BY <1>3, <1>5
<1>7. it[D] = RunOf(m, base, t)
  BY <1>6, FoldIsRun
<1> QED BY <1>1, <1>7 DEF StateBy, m, base

(* It depends on the empty trace, on one input, and on the rest of it. *)
LEMMA StateByEmpty == \A r, q : StateBy(r, q, << >>) = q
BY RunOfEmpty DEF StateBy

(* One more input, whatever the trace is made of. *)
LEMMA StateByAppend ==
  ASSUME NEW r, NEW q, NEW X, NEW t \in Seq(X), NEW x \in X
  PROVE  StateBy(r, q, Append(t, x)) = PostOf(r, StateBy(r, q, t), x)
<1>1. RunOf(<<"state", r>>, q, Append(t, x)) = StepOf(<<"state", r>>, RunOf(<<"state", r>>, q, t), x)
  BY RunOfAppend
<1> QED BY <1>1, StepCases DEF StateBy

(* One more input. *)
LEMMA StateByStep ==
  ASSUME NEW r, NEW q, NEW t \in Seq(Input), NEW x \in Input
  PROVE  StateBy(r, q, Append(t, x)) = PostOf(r, StateBy(r, q, t), x)
BY StateByAppend

(* A single input. *)
LEMMA StateByOne == \A q, x : StateAfter(q, <<x>>) = PostOf(rows, q, x)
<1> SUFFICES ASSUME NEW q, NEW x PROVE StateAfter(q, <<x>>) = PostOf(rows, q, x)
  OBVIOUS
<1>1. << >> \in Seq({x}) /\ x \in {x} /\ <<x>> = Append(<< >>, x) /\ <<x>> \in Seq({x})
  OBVIOUS
<1>2. StateBy(rows, q, Append(<< >>, x)) = PostOf(rows, StateBy(rows, q, << >>), x)
  <2> DEFINE X == {x}
             t == << >>
  <2>1. t \in Seq(X) /\ x \in X
    OBVIOUS
  <2> HIDE DEF X, t
  <2>2. StateBy(rows, q, Append(t, x)) = PostOf(rows, StateBy(rows, q, t), x)
    BY <2>1, StateByAppend
  <2> QED BY <2>2 DEF t
<1>3. StateAfter(q, <<x>>) = StateBy(rows, q, <<x>>)
  BY <1>1, StateAfterIs
<1> QED BY <1>1, <1>2, <1>3, StateByEmpty

(* A trace leads a deterministic machine to a state. *)
LEMMA StateByTyped ==
  ASSUME NEW r \in Machines, Det(r), NEW q \in State, NEW t \in Seq(Input)
  PROVE  StateBy(r, q, t) \in State
<1> DEFINE A == {u \in Seq(Input) : StateBy(r, q, u) \in State}
<1>1. << >> \in A
  BY StateByEmpty
<1>2. ASSUME NEW u \in Seq(Input), NEW x \in Input, u \in A PROVE Append(u, x) \in A
  <2>1. StateBy(r, q, Append(u, x)) = PostOf(r, StateBy(r, q, u), x)
    BY StateByStep
  <2> QED BY <1>2, <2>1, PostOfIs
<1> HIDE DEF A
<1>3. t \in A
  BY <1>1, <1>2, SeqInduction
<1> QED BY <1>3 DEF A

(* A trace put together leads from where its first part leads. *)
LEMMA StateByConcat ==
  ASSUME NEW r, NEW q, NEW u \in Seq(Input), NEW t \in Seq(Input)
  PROVE  StateBy(r, q, u \o t) = StateBy(r, StateBy(r, q, u), t)
<1> DEFINE A == {s \in Seq(Input) : StateBy(r, q, u \o s) = StateBy(r, StateBy(r, q, u), s)}
<1>1. << >> \in A
  BY StateByEmpty, ConcatAppend
<1>2. ASSUME NEW s \in Seq(Input), NEW x \in Input, s \in A PROVE Append(s, x) \in A
  <2>1. u \o Append(s, x) = Append(u \o s, x) /\ u \o s \in Seq(Input)
    BY ConcatAppend
  <2>2. StateBy(r, q, Append(u \o s, x)) = PostOf(r, StateBy(r, q, u \o s), x)
    BY <2>1, StateByStep
  <2>3. StateBy(r, StateBy(r, q, u), Append(s, x)) = PostOf(r, StateBy(r, StateBy(r, q, u), s), x)
    BY StateByStep
  <2>4. Append(s, x) \in Seq(Input)
    BY AppendExtends
  <2>5. StateBy(r, q, u \o Append(s, x)) = StateBy(r, StateBy(r, q, u), Append(s, x))
    BY <1>2, <2>1, <2>2, <2>3
  <2> QED BY <2>4, <2>5
<1> HIDE DEF A
<1>3. t \in A
  BY <1>1, <1>2, SeqInduction
<1> QED BY <1>3 DEF A

(* It is the only one of StatesAfter. *)
LEMMA OneStateAfter ==
  ASSUME NEW r \in Machines, Det(r), NEW t \in Seq(Input)
  PROVE  StatesAfter(r, t) = {StateBy(r, 0, t)}
<1> DEFINE A == {u \in Seq(Input) : StatesAfter(r, u) = {StateBy(r, 0, u)}}
<1>1. << >> \in A
  BY StateByEmpty, RunOfEmpty DEF StatesAfter
<1>2. ASSUME NEW u \in Seq(Input), NEW x \in Input, u \in A PROVE Append(u, x) \in A
  <2> DEFINE q == StateBy(r, 0, u)
  <2>0. q \in State
    BY StateByTyped, StateFacts
  <2>1. StateBy(r, 0, Append(u, x)) = PostOf(r, q, x)
    BY StateByStep
  <2>2. StatesAfter(r, Append(u, x)) = PostsOf(r, {q}, x)
    <3>1. StatesAfter(r, u) = {q}
      BY <1>2
    <3> DEFINE Q == StatesAfter(r, u)
    <3>2. StatesAfter(r, Append(u, x)) = PostsOf(r, Q, x)
      BY StatesAfterAppend
    <3> HIDE DEF q, A, Q
    <3>3. Q = {q} => PostsOf(r, Q, x) = PostsOf(r, {q}, x)
      OBVIOUS
    <3> QED BY <3>1, <3>2, <3>3 DEF Q
  <2> HIDE DEF q
  <2>3. PostsOf(r, {q}, x) = {PostOf(r, q, x)}
    <3>1. PICK y \in Output : r[q][<<x, y>>] = PostOf(r, q, x) /\ \A z \in Output \ {y} : ~(r[q][<<x, z>>] >= 0)
      BY <2>0, PostOfIs
    <3>2. \A z \in Output : r[q][<<x, z>>] \in State \cup {-1}
      BY <2>0, PostFacts
    <3>3. \A z \in Output : r[q][<<x, z>>] # -1 => r[q][<<x, z>>] >= 0
      BY <3>2, <2>0, PostFacts
    <3>4. PostOf(r, q, x) # -1
      BY <2>0, PostOfIs, StateFacts
    <3>5. PostsOf(r, {q}, x) = {r[q][<<x, z>>] : z \in Output} \ {-1}
      BY DEF PostsOf
    <3> QED BY <3>1, <3>3, <3>4, <3>5
  <2>4. Append(u, x) \in Seq(Input)
    BY AppendExtends
  <2> QED BY <2>1, <2>2, <2>3, <2>4
<1> HIDE DEF A
<1>3. t \in A
  BY <1>1, <1>2, SeqInduction
<1> QED BY <1>3 DEF A

-----------------------------------------------------------------------------
(***************************************************************************)
(* A passed trace of a deterministic machine leads to one pair of states.  *)
(***************************************************************************)
LEMMA SinglePair ==
  ASSUME NEW r \in Machines, Det(r), NEW im \in ImplMachines, NEW t \in Seq(Input), Passes(r, im, Start, t)
  PROVE  \E i \in TR!ImplState : PairsFrom(r, im, Start, t) = {<<StateBy(r, 0, t), i>>}
<1> DEFINE Single(u) == \E i \in TR!ImplState : PairsFrom(r, im, Start, u) = {<<StateBy(r, 0, u), i>>}
           A == {u \in Seq(Input) : Passes(r, im, Start, u) => Single(u)}
<1>1. << >> \in A
  <2>1. PairsFrom(r, im, Start, << >>) = {<<0, 0>>} /\ StateBy(r, 0, << >>) = 0
    BY PairsFromEmpty, StateByEmpty DEF Start
  <2> QED BY <2>1, ImplFacts
<1>2. ASSUME NEW u \in Seq(Input), NEW x \in Input, u \in A PROVE Append(u, x) \in A
  <2>0. Append(u, x) \in Seq(Input)
    BY AppendExtends
  <2> SUFFICES ASSUME Passes(r, im, Start, Append(u, x)) PROVE Single(Append(u, x))
    BY <2>0
  <2>1. Passes(r, im, Start, u) /\ Agreeing(r, im, PairsFrom(r, im, Start, u), x)
    BY PassesAppend
  <2>2. PICK i \in TR!ImplState : PairsFrom(r, im, Start, u) = {<<StateBy(r, 0, u), i>>}
    BY <1>2, <2>1
  <2> DEFINE q == StateBy(r, 0, u)
             o == <<q, i>>
  <2>3. q \in State
    BY StateByTyped, StateFacts
  <2>4. StateBy(r, 0, Append(u, x)) = PostOf(r, q, x)
    BY StateByStep
  <2>5. PairsFrom(r, im, Start, Append(u, x)) = PairPosts(r, im, {o}, x)
    <3> DEFINE P == PairsFrom(r, im, Start, u)
    <3>1. PairsFrom(r, im, Start, Append(u, x)) = PairPosts(r, im, P, x)
      BY PairsFromAppend
    <3>2. P = {o}
      BY <2>2
    <3> HIDE DEF P, o
    <3> QED BY <3>1, <3>2
  <2>6. Agreeing(r, im, {o}, x) /\ o[1] = q /\ o[2] = i
    BY <2>1, <2>2
  <2> HIDE DEF q, o
  <2>7. PICK y \in Output : r[q][<<x, y>>] = PostOf(r, q, x) /\ \A z \in Output \ {y} : ~(r[q][<<x, z>>] >= 0)
    BY <2>3, PostOfIs
  <2>8. r[q][<<x, y>>] >= 0
    BY <2>3, <2>7, PostOfIs, PostFacts
  <2>9. im[i][x][y] >= 0
    BY <2>6, <2>8 DEF Agreeing
  <2>10. im[i][x][y] \in TR!ImplState
    BY <2>9, ImplPosts
  <2>11. PairPosts(r, im, {o}, x) = {<<PostOf(r, q, x), im[i][x][y]>>}
    <3>1. \A p : p \in PairPosts(r, im, {o}, x) <=>
                   \E z \in Output : r[q][<<x, z>>] >= 0 /\ p = <<r[q][<<x, z>>], im[i][x][z]>>
      <4> DEFINE O == {o}
      <4>1. \A p : p \in PairPosts(r, im, O, x) <=>
                     \E e \in O, z \in Output : r[e[1]][<<x, z>>] >= 0 /\ p = <<r[e[1]][<<x, z>>], im[e[2]][x][z]>>
        <5> HIDE DEF O
        <5> QED BY PairPostsAre
      <4>2. \A p : p \in PairPosts(r, im, O, x) <=>
                     \E z \in Output : r[o[1]][<<x, z>>] >= 0 /\ p = <<r[o[1]][<<x, z>>], im[o[2]][x][z]>>
        BY <4>1
      <4> QED BY <2>6, <4>2
    <3>2. \A p : p \in PairPosts(r, im, {o}, x) <=> p = <<PostOf(r, q, x), im[i][x][y]>>
      BY <2>7, <2>8, <3>1
    <3> QED BY <3>2
  <2> QED BY <2>4, <2>5, <2>10, <2>11
<1> HIDE DEF A
<1>3. t \in A
  BY <1>1, <1>2, SeqInduction
<1> QED BY <1>3 DEF A

(* the state of the implementation in this pair *)
ImplBy(r, im, t) == CHOOSE i \in TR!ImplState : PairsFrom(r, im, Start, t) = {<<StateBy(r, 0, t), i>>}

(* The state of the implementation behind a passed trace. *)
LEMMA PairBy ==
  ASSUME NEW r \in Machines, Det(r), NEW im \in ImplMachines, NEW t \in Seq(Input), Passes(r, im, Start, t)
  PROVE  /\ ImplBy(r, im, t) \in TR!Seen(im)
         /\ ImplBy(r, im, t) \in TR!ImplState
         /\ PairsFrom(r, im, Start, t) = {<<StateBy(r, 0, t), ImplBy(r, im, t)>>}
<1>1. /\ ImplBy(r, im, t) \in TR!ImplState
      /\ PairsFrom(r, im, Start, t) = {<<StateBy(r, 0, t), ImplBy(r, im, t)>>}
  BY SinglePair DEF ImplBy
<1>2. PairsFrom(r, im, Start, t) \subseteq State \X TR!Seen(im)
  BY ReachedTyped
<1>3. <<StateBy(r, 0, t), ImplBy(r, im, t)>> \in State \X TR!Seen(im)
  BY <1>1, <1>2
<1> QED BY <1>1, <1>3

(* What is passed in two parts is passed. *)
LEMMA PassesBoth ==
  ASSUME NEW r, NEW im, NEW P, NEW u \in Seq(Input), NEW s \in Seq(Input),
         Passes(r, im, P, u), Passes(r, im, PairsFrom(r, im, P, u), s)
  PROVE  Passes(r, im, P, u \o s)
<1> DEFINE Q == PairsFrom(r, im, P, u)
           A == {c \in Seq(Input) : Passes(r, im, Q, c) => Passes(r, im, P, u \o c)}
<1>1. << >> \in A
  BY ConcatAppend
<1>2. ASSUME NEW c \in Seq(Input), NEW x \in Input, c \in A PROVE Append(c, x) \in A
  <2>0. /\ Append(c, x) \in Seq(Input) /\ u \o c \in Seq(Input)
        /\ u \o Append(c, x) = Append(u \o c, x)
    BY AppendExtends, ConcatAppend
  <2> SUFFICES ASSUME Passes(r, im, Q, Append(c, x)) PROVE Passes(r, im, P, Append(u \o c, x))
    BY <2>0
  <2>1. Passes(r, im, Q, c) /\ Agreeing(r, im, PairsFrom(r, im, Q, c), x)
    <3> HIDE DEF Q
    <3> QED BY PassesAppend
  <2>2. PairsFrom(r, im, P, u \o c) = PairsFrom(r, im, Q, c)
    BY PairsFromConcat
  <2> QED BY <1>2, <2>0, <2>1, <2>2, PassesAppend
<1> HIDE DEF A
<1>3. s \in A
  BY <1>1, <1>2, SeqInduction
<1> QED BY <1>3 DEF A

(* What is passed behind one of two traces is passed behind the other one  *)
(* if both lead to the same pair.                                          *)
LEMMA SameTail ==
  ASSUME NEW r, NEW im, NEW P, NEW u \in Seq(Input), NEW v \in Seq(Input), NEW s \in Seq(Input),
         Passes(r, im, P, u), PairsFrom(r, im, P, u) = PairsFrom(r, im, P, v), Passes(r, im, P, v \o s)
  PROVE  Passes(r, im, P, u \o s)
<1>1. Passes(r, im, PairsFrom(r, im, P, v), s)
  BY PassesConcat
<1> QED BY <1>1, PassesBoth

(***************************************************************************)
(* The H condition, for a tree T.                                          *)
(***************************************************************************)
ToldApart(r, T, u, v) ==
  StateBy(r, 0, u) # StateBy(r, 0, v) =>
    \E t \in Seq(Input) : u \o t \in T /\ v \o t \in T /\ Differ(r, StateBy(r, 0, u), StateBy(r, 0, v), t)

(* what passing T needs to find every fault; m is the number of additional states *)
HTree(r, T, V, m) ==
  /\ Ext(V, m + 1) \subseteq T
  /\ \A u \in Ext(V, m + 1), v \in V : ToldApart(r, T, u, v)
  /\ \A v \in V, b \in Seq(Input), i \in 1 .. m :
       i < Len(b) /\ Len(b) <= m + 1 => ToldApart(r, T, v \o SubSeq(b, 1, i), v \o b)

(* Traces to different states that are told apart lead to different states *)
(* of an implementation that passes.                                       *)
LEMMA DifferentImpl ==
  ASSUME NEW r \in Machines, Det(r), NEW im \in ImplMachines, NEW T \in SUBSET Seq(Input),
         AllPass(r, im, T), NEW u \in T, NEW v \in T, ToldApart(r, T, u, v),
         ImplBy(r, im, u) = ImplBy(r, im, v)
  PROVE  /\ StateBy(r, 0, u) = StateBy(r, 0, v)
         /\ PairsFrom(r, im, Start, u) = PairsFrom(r, im, Start, v)
<1> DEFINE p == StateBy(r, 0, u)
           q == StateBy(r, 0, v)
           i == ImplBy(r, im, u)
<1>1. u \in Seq(Input) /\ v \in Seq(Input) /\ Passes(r, im, Start, u) /\ Passes(r, im, Start, v)
  BY DEF AllPass
<1>2. /\ PairsFrom(r, im, Start, u) = {<<p, i>>} /\ PairsFrom(r, im, Start, v) = {<<q, i>>}
      /\ i \in TR!ImplState
  BY <1>1, PairBy
<1>3. p \in State /\ q \in State
  BY <1>1, StateByTyped, StateFacts
<1> HIDE DEF i
<1>4. ASSUME p # q PROVE FALSE
  <2>1. PICK t \in Seq(Input) : u \o t \in T /\ v \o t \in T /\ Differ(r, p, q, t)
    BY <1>4 DEF ToldApart
  <2> HIDE DEF p, q
  <2>2. Passes(r, im, Start, u \o t) /\ Passes(r, im, Start, v \o t)
    BY <2>1 DEF AllPass
  <2>3. Passes(r, im, {<<p, i>>}, t) /\ Passes(r, im, {<<q, i>>}, t)
    <3> DEFINE a == <<p, i>>
               b == <<q, i>>
    <3>1. a \in PairsFrom(r, im, Start, u) /\ b \in PairsFrom(r, im, Start, v)
      BY <1>2
    <3> HIDE DEF a, b
    <3>2. Passes(r, im, {a}, t) /\ Passes(r, im, {b}, t)
      BY <1>1, <2>2, <3>1, PairPasses
    <3> QED BY <3>2 DEF a, b
  <2>4. Complete(r)
    BY DetIsComplete
  <2>5. ~Differ(r, p, q, t)
    BY <1>2, <1>3, <2>3, <2>4, SameOutputs
  <2> QED BY <2>1, <2>5
<1> QED BY <1>2, <1>4

(* A sequence up to an index, and behind it. *)
LEMMA SplitAt ==
  ASSUME NEW s \in Seq(Input), NEW i \in 0 .. Len(s)
  PROVE  /\ SubSeq(s, 1, i) \in Seq(Input) /\ Len(SubSeq(s, 1, i)) = i
         /\ SubSeq(s, i + 1, Len(s)) \in Seq(Input) /\ Len(SubSeq(s, i + 1, Len(s))) = Len(s) - i
         /\ SubSeq(s, 1, i) \o SubSeq(s, i + 1, Len(s)) = s
         /\ \A j \in 1 .. i : SubSeq(s, 1, i)[j] = s[j]
<1> DEFINE a == SubSeq(s, 1, i)
           c == SubSeq(s, i + 1, Len(s))
<1>0. Len(s) \in Nat /\ i \in Nat /\ i <= Len(s)
  OBVIOUS
<1>1. a \in Seq(Input) /\ Len(a) = i /\ \A j \in 1 .. i : a[j] = s[j]
  <2>1. \A j \in 1 .. i : s[j] \in Input
    OBVIOUS
  <2>2. /\ a \in Seq(Input) /\ Len(a) = IF 1 <= i THEN i - 1 + 1 ELSE 0
        /\ \A j \in 1 .. i - 1 + 1 : a[j] = s[1 + j - 1]
    BY <1>0, <2>1, SubSeqProperties
  <2> QED BY <1>0, <2>2
<1>2. c \in Seq(Input) /\ Len(c) = Len(s) - i /\ \A j \in 1 .. Len(s) - i : c[j] = s[i + j]
  <2>1. \A j \in i + 1 .. Len(s) : s[j] \in Input
    BY <1>0
  <2> DEFINE n == Len(s)
  <2>2. /\ c \in Seq(Input) /\ Len(c) = IF i + 1 <= n THEN n - (i + 1) + 1 ELSE 0
        /\ \A j \in 1 .. n - (i + 1) + 1 : c[j] = s[(i + 1) + j - 1]
    BY <1>0, <2>1, SubSeqProperties
  <2> QED BY <1>0, <2>2
<1> HIDE DEF a, c
<1>3. a \o c \in Seq(Input) /\ Len(a \o c) = Len(s)
  BY <1>0, <1>1, <1>2
<1>4. \A j \in 1 .. Len(s) : (a \o c)[j] = s[j]
  BY <1>0, <1>1, <1>2
<1>5. a \o c = s
  BY <1>3, <1>4, SeqEqual
<1> QED BY <1>1, <1>2, <1>5 DEF a, c

(***************************************************************************)
(* If T satisfies the H condition, and passing T did not imply passing     *)
(* every trace, some trace behind the cover would fail first.  The pairs   *)
(* on its way and those of the cover would need too many states.           *)
(***************************************************************************)
HPassed(r, im, T, V, m) ==
  /\ r \in Machines /\ Det(r) /\ im \in ImplMachines
  /\ T \in SUBSET Seq(Input) /\ AllPass(r, im, T)
  /\ V \in SUBSET Seq(Input) /\ << >> \in V
  /\ \A q \in State : \E v \in V : q = StateBy(r, 0, v)
  /\ m \in Nat /\ SmallEnough(im, m)
  /\ HTree(r, T, V, m)

(* s fails behind v, and no shorter trace fails behind the cover *)
FailsFirst(r, im, V, v, s) ==
  /\ v \in V /\ s \in Seq(Input) /\ ~Passes(r, im, Start, v \o s)
  /\ \A u \in V, c \in Seq(Input) : Len(c) < Len(s) => Passes(r, im, Start, u \o c)

(* Traces behind traces. *)
LEMMA ConcatInputs ==
  ASSUME NEW s \in Seq(Input), NEW t \in Seq(Input), NEW u \in Seq(Input)
  PROVE  /\ (s \o t) \o u = s \o (t \o u)
         /\ s \o t \in Seq(Input)
         /\ Len(s \o t) = Len(s) + Len(t)
BY ConcatAssociative, ConcatProperties

(* Such a trace is longer than m + 1, and its first parts are in T. *)
LEMMA PartsPass ==
  ASSUME NEW r, NEW im, NEW T, NEW V, NEW m, HPassed(r, im, T, V, m),
         NEW v, NEW s, FailsFirst(r, im, V, v, s)
  PROVE  /\ Len(s) \in Nat /\ m + 1 < Len(s)
         /\ \A i \in 1 .. m + 1 : v \o SubSeq(s, 1, i) \in Ext(V, m + 1)
<1>0. m + 1 \in Nat /\ V \in SUBSET Seq(Input) /\ v \in V /\ s \in Seq(Input) /\ Len(s) \in Nat
  BY DEF HPassed, FailsFirst
<1>1. ASSUME Len(s) <= m + 1 PROVE FALSE
  <2>1. v \o s \in Ext(V, m + 1)
    <3>1. v \in Seq(Input)
      BY <1>0
    <3>2. v \o s \in Seq(Input)
      BY <1>0, <3>1, ConcatAppend
    <3> QED BY <1>0, <1>1, <3>2 DEF Ext
  <2>2. v \o s \in T
    BY <2>1 DEF HPassed, HTree
  <2> QED BY <2>2 DEF HPassed, AllPass, FailsFirst
<1>2. ASSUME NEW i \in 1 .. m + 1 PROVE v \o SubSeq(s, 1, i) \in Ext(V, m + 1)
  <2>1. i \in 0 .. Len(s) /\ i <= m + 1
    BY <1>0, <1>1
  <2>2. SubSeq(s, 1, i) \in Seq(Input) /\ Len(SubSeq(s, 1, i)) <= m + 1
    BY <1>0, <2>1, SplitAt
  <2>3. v \o SubSeq(s, 1, i) \in Seq(Input)
    BY <1>0, <2>2, ConcatAppend
  <2> QED BY <1>0, <2>2, <2>3 DEF Ext
<1> QED BY <1>0, <1>1, <1>2

(* Its parts lead to other states of the implementation than the cover, *)
LEMMA PartOrCover ==
  ASSUME NEW r, NEW im, NEW T, NEW V, NEW m, HPassed(r, im, T, V, m),
         NEW v, NEW s, FailsFirst(r, im, V, v, s), NEW i \in 1 .. m + 1, NEW u \in V
  PROVE  ImplBy(r, im, v \o SubSeq(s, 1, i)) # ImplBy(r, im, u)
<1> DEFINE a == SubSeq(s, 1, i)
           c == SubSeq(s, i + 1, Len(s))
           t == v \o a
<1>0. /\ m \in Nat /\ V \in SUBSET Seq(Input) /\ v \in V /\ v \in Seq(Input) /\ u \in Seq(Input)
      /\ s \in Seq(Input) /\ Len(s) \in Nat
      /\ r \in Machines /\ Det(r) /\ im \in ImplMachines /\ T \in SUBSET Seq(Input) /\ AllPass(r, im, T)
      /\ Ext(V, m + 1) \subseteq T /\ \A e \in Ext(V, m + 1), o \in V : ToldApart(r, T, e, o)
  BY DEF HPassed, HTree, FailsFirst
<1>1. i \in 0 .. Len(s) /\ t \in Ext(V, m + 1)
  <2>1. m + 1 < Len(s) /\ t \in Ext(V, m + 1)
    BY PartsPass
  <2> QED BY <1>0, <2>1
<1>2. a \in Seq(Input) /\ c \in Seq(Input) /\ Len(c) = Len(s) - i /\ a \o c = s
  BY <1>0, <1>1, SplitAt
<1> HIDE DEF a, c
<1>3. t \o c = v \o s /\ t \in Seq(Input)
  <2>0. v \in Seq(Input) /\ a \in Seq(Input) /\ c \in Seq(Input)
    BY <1>0, <1>2
  <2>1. (v \o a) \o c = v \o (a \o c) /\ v \o a \in Seq(Input)
    BY <2>0, ConcatInputs
  <2> QED BY <1>2, <2>1
<1> HIDE DEF t
<1>4. t \in T /\ u \in T /\ ToldApart(r, T, t, u)
  <2>1. m + 1 \in Nat
    BY <1>0
  <2>2. u \in Ext(V, m + 1)
    BY <1>0, <2>1, ExtFacts
  <2> QED BY <1>0, <1>1, <2>2
<1>5. ASSUME ImplBy(r, im, t) = ImplBy(r, im, u) PROVE FALSE
  <2>1. PairsFrom(r, im, Start, t) = PairsFrom(r, im, Start, u)
    BY <1>0, <1>4, <1>5, DifferentImpl
  <2>2. Len(c) < Len(s)
    BY <1>0, <1>2
  <2>3. Passes(r, im, Start, u \o c)
    BY <1>2, <2>2 DEF FailsFirst
  <2>4. Passes(r, im, Start, t)
    BY <1>0, <1>4 DEF AllPass
  <2>5. Passes(r, im, Start, t \o c)
    BY <1>0, <1>2, <1>3, <2>1, <2>3, <2>4, SameTail
  <2> QED BY <1>3, <2>5 DEF FailsFirst
<1> QED BY <1>5 DEF t, a

(* and each part to another one. *)
LEMMA TwoParts ==
  ASSUME NEW r, NEW im, NEW T, NEW V, NEW m, HPassed(r, im, T, V, m),
         NEW v, NEW s, FailsFirst(r, im, V, v, s), NEW i \in 1 .. m + 1, NEW j \in 1 .. m + 1, i < j
  PROVE  ImplBy(r, im, v \o SubSeq(s, 1, i)) # ImplBy(r, im, v \o SubSeq(s, 1, j))
<1> DEFINE a == SubSeq(s, 1, i)
           b == SubSeq(s, 1, j)
           c == SubSeq(s, j + 1, Len(s))
           t == v \o a
           u == v \o b
<1>0. /\ m \in Nat /\ V \in SUBSET Seq(Input) /\ v \in V /\ v \in Seq(Input)
      /\ s \in Seq(Input) /\ Len(s) \in Nat
      /\ r \in Machines /\ Det(r) /\ im \in ImplMachines /\ T \in SUBSET Seq(Input) /\ AllPass(r, im, T)
      /\ Ext(V, m + 1) \subseteq T
      /\ \A o \in V, e \in Seq(Input), k \in 1 .. m :
           k < Len(e) /\ Len(e) <= m + 1 => ToldApart(r, T, o \o SubSeq(e, 1, k), o \o e)
  BY DEF HPassed, HTree, FailsFirst
<1>1. i \in 0 .. Len(s) /\ j \in 0 .. Len(s) /\ t \in Ext(V, m + 1) /\ u \in Ext(V, m + 1)
  <2>1. m + 1 < Len(s) /\ t \in Ext(V, m + 1) /\ u \in Ext(V, m + 1)
    BY PartsPass
  <2> QED BY <1>0, <2>1
<1>2. /\ a \in Seq(Input) /\ Len(a) = i /\ \A k \in 1 .. i : a[k] = s[k]
      /\ b \in Seq(Input) /\ Len(b) = j /\ \A k \in 1 .. j : b[k] = s[k]
      /\ c \in Seq(Input) /\ Len(c) = Len(s) - j /\ b \o c = s
  BY <1>0, <1>1, SplitAt
<1>3. SubSeq(b, 1, i) = a
  <2>1. i \in 0 .. Len(b) /\ i \in Nat
    BY <1>2
  <2> HIDE DEF a, b
  <2>2. /\ SubSeq(b, 1, i) \in Seq(Input) /\ Len(SubSeq(b, 1, i)) = i
        /\ \A k \in 1 .. i : SubSeq(b, 1, i)[k] = b[k]
    BY <1>2, <2>1, SplitAt
  <2> DEFINE d == SubSeq(b, 1, i)
  <2> HIDE DEF d
  <2>3. d \in Seq(Input) /\ Len(d) = i /\ \A k \in 1 .. i : d[k] = a[k]
    BY <1>2, <2>2 DEF d
  <2>4. d = a
    BY <1>2, <2>1, <2>3, SeqEqual
  <2> QED BY <2>4 DEF d
<1> HIDE DEF a, b, c
<1>4. u \o c = v \o s /\ u \in Seq(Input) /\ t \in Seq(Input) /\ t \o c = v \o (a \o c) /\ a \o c \in Seq(Input)
  <2>0. v \in Seq(Input) /\ a \in Seq(Input) /\ b \in Seq(Input) /\ c \in Seq(Input)
    BY <1>0, <1>2
  <2>1. (v \o a) \o c = v \o (a \o c) /\ v \o a \in Seq(Input)
    BY <2>0, ConcatInputs
  <2>3. a \o c \in Seq(Input)
    BY <2>0, ConcatInputs
  <2>2. (v \o b) \o c = v \o (b \o c) /\ v \o b \in Seq(Input)
    BY <2>0, ConcatInputs
  <2> QED BY <1>2, <2>1, <2>2, <2>3
<1>5. ToldApart(r, T, t, u)
  <2>1. i \in 1 .. m /\ i < Len(b) /\ Len(b) <= m + 1
    BY <1>0, <1>2
  <2> QED BY <1>0, <1>2, <1>3, <2>1
<1> HIDE DEF t, u
<1>6. t \in T /\ u \in T
  BY <1>0, <1>1
<1>7. ASSUME ImplBy(r, im, t) = ImplBy(r, im, u) PROVE FALSE
  <2>1. PairsFrom(r, im, Start, t) = PairsFrom(r, im, Start, u)
    BY <1>0, <1>5, <1>6, <1>7, DifferentImpl
  <2>2. Len(a \o c) = i + (Len(s) - j) /\ Len(a \o c) < Len(s)
    <3>1. Len(a \o c) = Len(a) + Len(c)
      BY <1>2, ConcatInputs
    <3> QED BY <1>0, <1>2, <3>1
  <2>3. Passes(r, im, Start, v \o (a \o c))
    BY <1>0, <1>4, <2>2 DEF FailsFirst
  <2>4. Passes(r, im, Start, u)
    BY <1>0, <1>6 DEF AllPass
  <2>5. Passes(r, im, Start, u \o c)
    BY <1>0, <1>2, <1>4, <2>1, <2>3, <2>4, SameTail
  <2> QED BY <1>4, <2>5 DEF FailsFirst
<1> QED BY <1>7 DEF t, u, a, b

(* So do the traces of the cover to different states. *)
LEMMA TwoOfCover ==
  ASSUME NEW r, NEW im, NEW T, NEW V, NEW m, HPassed(r, im, T, V, m),
         NEW u \in V, NEW v \in V, StateBy(r, 0, u) # StateBy(r, 0, v)
  PROVE  ImplBy(r, im, u) # ImplBy(r, im, v)
<1>0. /\ m + 1 \in Nat /\ V \in SUBSET Seq(Input)
      /\ r \in Machines /\ Det(r) /\ im \in ImplMachines /\ T \in SUBSET Seq(Input) /\ AllPass(r, im, T)
      /\ Ext(V, m + 1) \subseteq T /\ \A e \in Ext(V, m + 1), o \in V : ToldApart(r, T, e, o)
  BY DEF HPassed, HTree
<1>1. u \in Ext(V, m + 1) /\ v \in Ext(V, m + 1)
  BY <1>0, ExtFacts
<1> QED BY <1>0, <1>1, DifferentImpl

(* There are too many of them. *)
LEMMA NoneFailsFirst ==
  ASSUME NEW r, NEW im, NEW T, NEW V, NEW m, HPassed(r, im, T, V, m), NEW v, NEW s
  PROVE  ~FailsFirst(r, im, V, v, s)
<1> SUFFICES ASSUME FailsFirst(r, im, V, v, s) PROVE FALSE
  OBVIOUS
<1> DEFINE n == numStates
           cov(q) == CHOOSE u \in V : q = StateBy(r, 0, u)
           part(i) == v \o SubSeq(s, 1, i)
           g == [k \in 1 .. n + (m + 1) |-> IF k <= n THEN ImplBy(r, im, cov(k - 1))
                                                     ELSE ImplBy(r, im, part(k - n))]
           Seen == TR!Seen(im)
<1>0. /\ m \in Nat /\ n \in Nat \ {0} /\ V \in SUBSET Seq(Input) /\ v \in V
      /\ r \in Machines /\ Det(r) /\ im \in ImplMachines /\ T \in SUBSET Seq(Input) /\ AllPass(r, im, T)
      /\ Ext(V, m + 1) \subseteq T
  BY NumStatesAssumption DEF HPassed, HTree, FailsFirst
<1>1. \A q \in State : cov(q) \in V /\ q = StateBy(r, 0, cov(q))
  BY DEF HPassed
<1>2. \A i \in 1 .. m + 1 : part(i) \in Ext(V, m + 1)
  BY PartsPass
<1>3. \A u \in Ext(V, m + 1) : ImplBy(r, im, u) \in Seen
  <2> HIDE DEF Seen
  <2>1. \A u \in T : ImplBy(r, im, u) \in Seen
    BY <1>0, PairBy DEF AllPass, Seen
  <2> QED BY <1>0, <2>1
<1>4. V \subseteq Ext(V, m + 1)
  <2>1. m + 1 \in Nat
    BY <1>0
  <2> QED BY <1>0, <2>1, ExtFacts
<1>5. \A k \in 1 .. n : k - 1 \in State
  BY <1>0 DEF State
<1>6. \A i \in 1 .. m + 1, u \in V : ImplBy(r, im, part(i)) # ImplBy(r, im, u)
  BY PartOrCover
<1>7. \A i, j \in 1 .. m + 1 : i < j => ImplBy(r, im, part(i)) # ImplBy(r, im, part(j))
  BY TwoParts
<1>8. \A p, q \in State : p # q => ImplBy(r, im, cov(p)) # ImplBy(r, im, cov(q))
  <2> HIDE DEF cov
  <2> QED BY <1>1, TwoOfCover
<1> HIDE DEF cov, part, Seen
<1> DEFINE D == 1 .. n + (m + 1)
<1>9. \A k \in D : k <= n => k \in 1 .. n /\ k - 1 \in State /\ g[k] = ImplBy(r, im, cov(k - 1))
  BY <1>0, <1>5
<1>10. \A k \in D : ~(k <= n) => k - n \in 1 .. m + 1 /\ g[k] = ImplBy(r, im, part(k - n))
  BY <1>0
<1>11. \A k \in D : g[k] \in Seen
  <2> SUFFICES ASSUME NEW k \in D PROVE g[k] \in Seen
    OBVIOUS
  <2>1. CASE k <= n
    <3>1. cov(k - 1) \in Ext(V, m + 1)
      BY <1>1, <1>4, <1>9, <2>1
    <3> QED BY <1>3, <1>9, <2>1, <3>1
  <2>2. CASE ~(k <= n)
    BY <1>2, <1>3, <1>10, <2>2
  <2> QED BY <2>1, <2>2
<1>12. g = [k \in D |-> g[k]]
  OBVIOUS
<1> HIDE DEF g
<1>13. ASSUME NEW j \in D, NEW k \in D, j < k PROVE g[j] # g[k]
  <2>0. j \in Int /\ k \in Int /\ n \in Int
    BY <1>0
  <2>1. CASE k <= n
    <3>1. j <= n /\ j - 1 # k - 1
      BY <1>13, <2>0, <2>1
    <3> QED BY <1>8, <1>9, <2>1, <3>1
  <2>2. CASE ~(k <= n) /\ j <= n
    <3>1. cov(j - 1) \in V
      BY <1>1, <1>9, <2>2
    <3> QED BY <1>6, <1>9, <1>10, <2>2, <3>1
  <2>3. CASE ~(k <= n) /\ ~(j <= n)
    <3>1. j - n < k - n
      BY <1>13, <2>0
    <3> QED BY <1>7, <1>10, <2>3, <3>1
  <2> QED BY <2>1, <2>2, <2>3
<1>14. \A j, k \in D : g[j] = g[k] => j = k
  <2> SUFFICES ASSUME NEW j \in D, NEW k \in D, g[j] = g[k], j # k PROVE FALSE
    OBVIOUS
  <2>1. j < k \/ k < j
    OBVIOUS
  <2> QED BY <1>13, <2>1
<1>15. g \in [D -> Seen] /\ DOMAIN g = D
  BY <1>11, <1>12
<1>16. IsFiniteSet(D) /\ Cardinality(D) = n + (m + 1)
  <2>1. n + (m + 1) \in Nat \ {0}
    BY <1>0
  <2> DEFINE e == n + (m + 1)
  <2> HIDE DEF e
  <2>2. e \in Nat \ {0} /\ D = 1 .. e
    BY <2>1 DEF e
  <2> HIDE DEF D
  <2>3. IsFiniteSet(1 .. e) /\ Cardinality(1 .. e) = e
    BY <2>2, FS_Interval
  <2> QED BY <2>2, <2>3 DEF e
<1> HIDE DEF D
<1>17. g \in Injection(D, Seen)
  BY <1>14, <1>15 DEF Injection, IsInjective
<1>18. IsFiniteSet(Seen) /\ Cardinality(Seen) \in Nat
  BY <1>0, SeenFacts DEF Seen
<1>19. Cardinality(D) <= Cardinality(Seen)
  BY <1>17, <1>18, FS_Injection
<1>20. Cardinality(Seen) <= n + m
  BY DEF HPassed, SmallEnough, Seen
<1> QED BY <1>0, <1>16, <1>18, <1>19, <1>20

(* So every trace is passed. *)
LEMMA NoTraceFails ==
  ASSUME NEW r, NEW im, NEW T, NEW V, NEW m, HPassed(r, im, T, V, m), NEW t \in Seq(Input)
  PROVE  Passes(r, im, Start, t)
<1> DEFINE Fails(v, s) == ~Passes(r, im, Start, v \o s)
           N == {k \in Nat : \E v \in V, s \in Seq(Input) : Len(s) = k /\ Fails(v, s)}
<1> SUFFICES ASSUME ~Passes(r, im, Start, t) PROVE FALSE
  OBVIOUS
<1>1. N # {}
  <2>1. << >> \o t = t /\ << >> \in V /\ Len(t) \in Nat
    BY ConcatAppend DEF HPassed
  <2>2. Fails(<< >>, t)
    BY <2>1
  <2> QED BY <2>1, <2>2
<1>2. PICK k \in N : \A j \in N : k <= j
  <2>1. N \subseteq Nat
    OBVIOUS
  <2> HIDE DEF N
  <2> QED BY <1>1, <2>1, LeastElement
<1>3. PICK v \in V, s \in Seq(Input) : Len(s) = k /\ Fails(v, s)
  OBVIOUS
<1>4. ASSUME NEW u \in V, NEW c \in Seq(Input), Len(c) < Len(s) PROVE Passes(r, im, Start, u \o c)
  <2>1. Len(c) \in Nat /\ k \in Nat /\ ~(k <= Len(c))
    BY <1>3, <1>4
  <2>2. Len(c) \notin N
    BY <1>2, <2>1
  <2> QED BY <2>1, <2>2
<1>5. FailsFirst(r, im, V, v, s)
  BY <1>3, <1>4 DEF FailsFirst
<1> QED BY <1>5, NoneFailsFirst

(* An implementation that passes every trace is I/O-equivalent. *)
LEMMA PassingAllIsEquivalent ==
  ASSUME \A t \in Seq(Input) : Passes(rows, impl, Start, t)
  PROVE  TR!Equivalent
<1> DEFINE R == UNION {PairsFrom(rows, impl, Start, t) : t \in Seq(Input)}
<1>0. \A p : p \in R <=> \E t \in Seq(Input) : p \in PairsFrom(rows, impl, Start, t)
  OBVIOUS
<1> HIDE DEF R
<1>1. Start \subseteq R
  <2>1. << >> \in Seq(Input) /\ PairsFrom(rows, impl, Start, << >>) = Start
    BY PairsFromEmpty
  <2> QED BY <1>0, <2>1
<1>2. ASSUME NEW x \in Input PROVE Agreeing(rows, impl, R, x)
  <2> SUFFICES ASSUME NEW p \in R
               PROVE  /\ \E y \in Output : rows[p[1]][<<x, y>>] >= 0
                      /\ \A y \in Output : rows[p[1]][<<x, y>>] >= 0 <=> impl[p[2]][x][y] >= 0
    BY DEF Agreeing
  <2>1. PICK t \in Seq(Input) : p \in PairsFrom(rows, impl, Start, t)
    BY <1>0
  <2>2. Append(t, x) \in Seq(Input)
    BY AppendExtends
  <2>3. Agreeing(rows, impl, PairsFrom(rows, impl, Start, t), x)
    BY <2>2, PassesAppend
  <2> QED BY <2>1, <2>3 DEF Agreeing
<1>3. ASSUME NEW x \in Input PROVE PairPosts(rows, impl, R, x) \subseteq R
  <2> SUFFICES ASSUME NEW p \in PairPosts(rows, impl, R, x) PROVE p \in R
    OBVIOUS
  <2>1. PICK o \in R, y \in Output : rows[o[1]][<<x, y>>] >= 0 /\ p = <<rows[o[1]][<<x, y>>], impl[o[2]][x][y]>>
    BY PairPostsAre
  <2>2. PICK t \in Seq(Input) : o \in PairsFrom(rows, impl, Start, t)
    BY <1>0
  <2>3. p \in PairPosts(rows, impl, PairsFrom(rows, impl, Start, t), x)
    BY <2>1, <2>2, PairPostsAre
  <2>4. p \in PairsFrom(rows, impl, Start, Append(t, x)) /\ Append(t, x) \in Seq(Input)
    BY <2>3, PairsFromAppend, AppendExtends
  <2> QED BY <1>0, <2>4
<1>4. Closed(rows, impl, R)
  BY <1>2, <1>3 DEF Closed
<1>5. TR!ReachedPairs \subseteq R
  BY <1>1, <1>4, ReachedInClosed
<1>6. ASSUME NEW p \in TR!ReachedPairs, NEW x \in TR!In
      PROVE  TR!SpecOutputs(p[1], x) = TR!ImplOutputs(impl, p[2], x)
  <2>1. x \in Input /\ p \in R
    BY <1>5 DEF TR!In, Input
  <2> QED BY <1>2, <2>1, AgreeingIsSame
<1> QED BY <1>6 DEF TR!Equivalent

(***************************************************************************)
(* Sequences of sequences, one behind the other.                           *)
(***************************************************************************)
IsFlat(f, s, n) == f = [i \in 1 .. n |-> IF i = 1 THEN s[i] ELSE f[i - 1] \o s[i]]

(* FlattenSeq, as the recursive function it is defined by: one more. *)
LEMMA FlatNext ==
  ASSUME NEW s, NEW n \in Nat, NEW f, IsFlat(f, s, n)
  PROVE  \E g : IsFlat(g, s, n + 1)
<1> DEFINE last == IF n + 1 = 1 THEN s[n + 1] ELSE f[n] \o s[n + 1]
           g == [i \in 1 .. n + 1 |-> IF i = n + 1 THEN last ELSE f[i]]
           h == [i \in 1 .. n + 1 |-> IF i = 1 THEN s[i] ELSE g[i - 1] \o s[i]]
<1>1. \A i \in 1 .. n : f[i] = IF i = 1 THEN s[i] ELSE f[i - 1] \o s[i]
  BY DEF IsFlat
<1>2. ASSUME NEW i \in 1 .. n + 1 PROVE g[i] = h[i]
  <2>1. CASE i = n + 1
    BY <2>1
  <2>2. CASE i # n + 1
    <3>1. i \in 1 .. n /\ g[i] = f[i] /\ (i # 1 => i - 1 \in 1 .. n + 1 /\ i - 1 # n + 1 /\ g[i - 1] = f[i - 1])
      BY <2>2
    <3> HIDE DEF g
    <3> QED BY <1>1, <3>1
  <2> QED BY <2>1, <2>2
<1>3. g = h
  <2>1. g = [i \in 1 .. n + 1 |-> g[i]] /\ h = [i \in 1 .. n + 1 |-> h[i]]
    OBVIOUS
  <2> HIDE DEF g, h
  <2> QED BY <1>2, <2>1
<1>4. IsFlat(g, s, n + 1)
  <2> HIDE DEF g
  <2> QED BY <1>3 DEF IsFlat
<1> QED BY <1>4

(* There is such a function. *)
LEMMA FlatExists ==
  ASSUME NEW s, NEW n \in Nat
  PROVE  \E f : IsFlat(f, s, n)
<1> DEFINE A == {k \in Nat : \E f : IsFlat(f, s, k)}
<1>1. 0 \in A
  <2> DEFINE f == << >>
  <2>1. \A g, h : [i \in 1 .. 0 |-> g] = [i \in 1 .. 0 |-> h]
    OBVIOUS
  <2>2. f = [i \in 1 .. 0 |-> IF i = 1 THEN s[i] ELSE f[i - 1] \o s[i]]
    OBVIOUS
  <2>3. IsFlat(f, s, 0)
    BY <2>2 DEF IsFlat
  <2> QED BY <2>3
<1>2. ASSUME NEW k \in Nat, k \in A PROVE k + 1 \in A
  BY <1>2, FlatNext
<1> HIDE DEF A
<1>3. Nat \subseteq A
  BY <1>1, <1>2, SetInduction
<1> QED BY <1>3 DEF A

(* FlattenSeq is the last value of it. *)
LEMMA FlattenSeqIs ==
  ASSUME NEW X, NEW s \in Seq(X), s # << >>
  PROVE  \E f : IsFlat(f, s, Len(s)) /\ FlattenSeq(s) = f[Len(s)]
<1> DEFINE n == Len(s)
           f == CHOOSE g : IsFlat(g, s, n)
<1>1. n \in Nat /\ n # 0
  BY EmptySeq
<1>2. IsFlat(f, s, n)
  BY <1>1, FlatExists
<1>3. FlattenSeq(s) = f[n]
  BY <1>1 DEF FlattenSeq, IsFlat
<1> QED BY <1>2, <1>3

(* What two sequences have, one behind the other. *)
LEMMA ConcatRange ==
  ASSUME NEW X, NEW a \in Seq(X), NEW b \in Seq(X)
  PROVE  Range(a \o b) = Range(a) \cup Range(b) /\ a \o b \in Seq(X)
<1>1. a \o b \in Seq(X) /\ Len(a \o b) = Len(a) + Len(b) /\ Len(a) \in Nat /\ Len(b) \in Nat
  OBVIOUS
<1>2. DOMAIN (a \o b) = 1 .. Len(a) + Len(b) /\ DOMAIN a = 1 .. Len(a) /\ DOMAIN b = 1 .. Len(b)
  BY <1>1
<1>3. \A i \in 1 .. Len(a) + Len(b) : (a \o b)[i] = IF i <= Len(a) THEN a[i] ELSE b[i - Len(a)]
  BY <1>1
<1>4. ASSUME NEW e \in Range(a \o b) PROVE e \in Range(a) \cup Range(b)
  <2>1. PICK i \in 1 .. Len(a) + Len(b) : e = (a \o b)[i]
    BY <1>2 DEF Range
  <2>2. CASE i <= Len(a)
    <3>1. i \in DOMAIN a /\ e = a[i]
      BY <1>1, <1>2, <1>3, <2>1, <2>2
    <3> QED BY <3>1 DEF Range
  <2>3. CASE ~(i <= Len(a))
    <3>1. i - Len(a) \in DOMAIN b /\ e = b[i - Len(a)]
      BY <1>1, <1>2, <1>3, <2>1, <2>3
    <3> QED BY <3>1 DEF Range
  <2> QED BY <2>2, <2>3
<1>5. ASSUME NEW e \in Range(a) PROVE e \in Range(a \o b)
  <2>1. PICK i \in 1 .. Len(a) : e = a[i]
    BY <1>2 DEF Range
  <2>2. i \in DOMAIN (a \o b) /\ e = (a \o b)[i]
    BY <1>1, <1>2, <1>3, <2>1
  <2> QED BY <2>2 DEF Range
<1>6. ASSUME NEW e \in Range(b) PROVE e \in Range(a \o b)
  <2>1. PICK i \in 1 .. Len(b) : e = b[i]
    BY <1>2 DEF Range
  <2>2. /\ Len(a) + i \in 1 .. Len(a) + Len(b)
        /\ ~(Len(a) + i <= Len(a)) /\ (Len(a) + i) - Len(a) = i
    BY <1>1
  <2>3. Len(a) + i \in DOMAIN (a \o b) /\ e = (a \o b)[Len(a) + i]
    BY <1>2, <1>3, <2>1, <2>2
  <2> QED BY <2>3 DEF Range
<1> QED BY <1>1, <1>4, <1>5, <1>6

(* It has all their elements, and only these. *)
LEMMA FlattenHas ==
  ASSUME NEW X, NEW s \in Seq(Seq(X))
  PROVE  /\ FlattenSeq(s) \in Seq(X)
         /\ Range(FlattenSeq(s)) = UNION {Range(s[i]) : i \in DOMAIN s}
<1>1. CASE s = << >>
  <2>0. Len(s) = 0 /\ DOMAIN s = {} /\ << >> \in Seq(X)
    BY <1>1
  <2>1. FlattenSeq(s) = s /\ s \in Seq(X)
    BY <1>1, <2>0 DEF FlattenSeq
  <2>2. Range(s) = {} /\ UNION {Range(s[i]) : i \in DOMAIN s} = {}
    BY <2>0 DEF Range
  <2> HIDE <1>1
  <2> QED BY <2>1, <2>2
<1>2. CASE s # << >>
  <2>1. PICK f : IsFlat(f, s, Len(s)) /\ FlattenSeq(s) = f[Len(s)]
    BY <1>2, FlattenSeqIs
  <2> DEFINE n == Len(s)
             Has(k) == f[k] \in Seq(X) /\ Range(f[k]) = UNION {Range(s[i]) : i \in 1 .. k}
             A == {k \in Nat : k + 1 \in 1 .. n => Has(k + 1)}
  <2>2. n \in Nat \ {0} /\ DOMAIN s = 1 .. n /\ \A i \in 1 .. n : s[i] \in Seq(X)
    BY <1>2, EmptySeq
  <2>3. \A i \in 1 .. n : f[i] = IF i = 1 THEN s[i] ELSE f[i - 1] \o s[i]
    BY <2>1 DEF IsFlat
  <2>4. 0 \in A
    <3>1. f[1] = s[1] /\ 1 .. 1 = {1} /\ s[1] \in Seq(X)
      BY <2>2, <2>3
    <3>2. UNION {Range(s[i]) : i \in 1 .. 1} = Range(s[1])
      BY <3>1
    <3>3. Has(0 + 1)
      BY <3>1, <3>2
    <3> HIDE DEF Has
    <3> QED BY <3>3
  <2>5. ASSUME NEW k \in Nat, k \in A PROVE k + 1 \in A
    <3> SUFFICES ASSUME k + 2 \in 1 .. n PROVE Has(k + 2)
      <4>1. (k + 1) + 1 = k + 2 /\ k + 1 \in Nat
        OBVIOUS
      <4> HIDE DEF Has
      <4> QED BY <4>1
    <3>0. k + 1 \in 1 .. n
      BY <2>2
    <3>1. Has(k + 1)
      <4>1. k \in A
        BY <2>5
      <4> HIDE DEF Has
      <4> QED BY <3>0, <4>1
    <3> DEFINE a == f[k + 1]
               b == s[k + 2]
    <3>2. f[k + 2] = a \o b /\ b \in Seq(X) /\ a \in Seq(X)
      <4>1. (k + 2) - 1 = k + 1 /\ k + 2 # 1
        OBVIOUS
      <4> QED BY <2>2, <2>3, <3>0, <3>1, <4>1
    <3>3. Range(a) = UNION {Range(s[i]) : i \in 1 .. k + 1}
      BY <3>1
    <3> HIDE DEF a
    <3>4. Range(a \o b) = Range(a) \cup Range(b) /\ a \o b \in Seq(X)
      <4> HIDE DEF b
      <4> QED BY <3>2, ConcatRange
    <3>5. 1 .. k + 2 = (1 .. k + 1) \cup {k + 2}
      OBVIOUS
    <3>6. UNION {Range(s[i]) : i \in 1 .. k + 2} = (UNION {Range(s[i]) : i \in 1 .. k + 1}) \cup Range(b)
      BY <3>5
    <3> QED BY <3>2, <3>3, <3>4, <3>6
  <2> HIDE DEF A
  <2>6. Nat \subseteq A
    BY <2>4, <2>5, SetInduction
  <2>7. n - 1 \in Nat /\ (n - 1) + 1 = n
    BY <2>2
  <2>8. Has(n)
    <3>1. n - 1 \in A
      BY <2>6, <2>7
    <3> QED BY <2>2, <2>7, <3>1 DEF A
  <2> QED BY <2>1, <2>2, <2>8
<1> QED BY <1>1, <1>2

(* The rounds of two nested loops. *)
Rows2(s, t) == [i \in DOMAIN s |-> [j \in DOMAIN t |-> <<s[i], t[j]>>]]

(* The rows of a product are sequences of pairs. *)
LEMMA RowsTyped ==
  ASSUME NEW X, NEW Y, NEW s \in Seq(X), NEW t \in Seq(Y)
  PROVE  Rows2(s, t) \in Seq(Seq(X \X Y))
<1> DEFINE Z == X \X Y
           row(i) == [j \in DOMAIN t |-> <<s[i], t[j]>>]
<1>1. DOMAIN s = 1 .. Len(s) /\ DOMAIN t = 1 .. Len(t) /\ Len(s) \in Nat /\ Len(t) \in Nat
  OBVIOUS
<1>2. ASSUME NEW i \in DOMAIN s PROVE row(i) \in Seq(Z)
  <2>1. \A j \in 1 .. Len(t) : <<s[i], t[j]>> \in Z
    OBVIOUS
  <2>2. row(i) \in [1 .. Len(t) -> Z]
    BY <1>1, <2>1
  <2> QED BY <1>1, <2>2
<1>3. Rows2(s, t) = [i \in DOMAIN s |-> row(i)]
  BY DEF Rows2
<1> HIDE DEF row, Z
<1>4. Rows2(s, t) \in [1 .. Len(s) -> Seq(Z)]
  BY <1>1, <1>2, <1>3
<1>5. Rows2(s, t) \in Seq(Seq(Z))
  BY <1>1, <1>4
<1> QED BY <1>5 DEF Z

(* A product is a sequence of pairs. *)
LEMMA ProductTyped ==
  ASSUME NEW X, NEW Y, NEW s \in Seq(X), NEW t \in Seq(Y)
  PROVE  Product(s, t) \in Seq(X \X Y)
<1> DEFINE Z == X \X Y
<1>1. Rows2(s, t) \in Seq(Seq(Z))
  BY RowsTyped
<1>2. Product(s, t) = FlattenSeq(Rows2(s, t))
  BY DEF Product, Rows2
<1> HIDE DEF Z
<1>3. Product(s, t) \in Seq(Z)
  BY <1>1, <1>2, FlattenHas
<1> QED BY <1>3 DEF Z

(* A product has every pair. *)
LEMMA ProductRange ==
  ASSUME NEW X, NEW Y, NEW s \in Seq(X), NEW t \in Seq(Y)
  PROVE  Range(Product(s, t)) = Range(s) \X Range(t)
<1> DEFINE Z == X \X Y
           p == Rows2(s, t)
<1>1. p \in Seq(Seq(Z))
  BY RowsTyped
<1>2. /\ Product(s, t) = FlattenSeq(p) /\ DOMAIN p = DOMAIN s
      /\ \A i \in DOMAIN s : p[i] = [j \in DOMAIN t |-> <<s[i], t[j]>>]
  BY DEF Product, Rows2
<1> HIDE DEF Z, p
<1>3. FlattenSeq(p) \in Seq(Z) /\ Range(FlattenSeq(p)) = UNION {Range(p[i]) : i \in DOMAIN p}
  BY <1>1, FlattenHas
<1>4. \A i \in DOMAIN s : Range(p[i]) = {<<s[i], t[j]>> : j \in DOMAIN t}
  BY <1>2 DEF Range
<1>5. UNION {Range(p[i]) : i \in DOMAIN p} = UNION {{<<s[i], t[j]>> : j \in DOMAIN t} : i \in DOMAIN s}
  BY <1>2, <1>4
<1>6. UNION {{<<s[i], t[j]>> : j \in DOMAIN t} : i \in DOMAIN s} = Range(s) \X Range(t)
  BY DEF Range
<1> QED BY <1>2, <1>3, <1>5, <1>6

(* The index pairs are the pairs i < j. *)
LEMMA IndexPairsHas ==
  ASSUME NEW n \in Nat
  PROVE  /\ IndexPairs(n) \in Seq((1 .. n) \X (1 .. n))
         /\ Range(IndexPairs(n)) = {ij \in (1 .. n) \X (1 .. n) : ij[1] < ij[2]}
<1> DEFINE X == (1 .. n) \X (1 .. n)
           row(i) == [k \in 1 .. n - i |-> <<i, i + k>>]
           p == [i \in 1 .. n |-> row(i)]
<1>1. ASSUME NEW i \in 1 .. n PROVE row(i) \in Seq(X)
  <2>1. n - i \in Nat /\ \A k \in 1 .. n - i : i + k \in 1 .. n
    OBVIOUS
  <2>2. row(i) \in [1 .. n - i -> X]
    BY <2>1
  <2> QED BY <2>1, <2>2
<1>2. p \in Seq(Seq(X)) /\ DOMAIN p = 1 .. n /\ \A i \in 1 .. n : p[i] = row(i)
  <2>1. p \in [1 .. n -> Seq(X)]
    BY <1>1
  <2> HIDE DEF row, X
  <2> QED BY <2>1
<1>3. IndexPairs(n) = FlattenSeq(p)
  BY DEF IndexPairs
<1> HIDE DEF p, X
<1>4. FlattenSeq(p) \in Seq(X) /\ Range(FlattenSeq(p)) = UNION {Range(p[i]) : i \in DOMAIN p}
  BY <1>2, FlattenHas
<1>5. \A i \in 1 .. n : Range(row(i)) = {<<i, i + k>> : k \in 1 .. n - i}
  BY DEF Range
<1> HIDE DEF row
<1>6. UNION {Range(p[i]) : i \in DOMAIN p} = UNION {{<<i, i + k>> : k \in 1 .. n - i} : i \in 1 .. n}
  <2> DEFINE Fwd(i) == {<<i, i + k>> : k \in 1 .. n - i}
  <2>1. \A i \in 1 .. n : Range(p[i]) = Fwd(i)
    BY <1>2, <1>5
  <2> HIDE DEF Fwd
  <2>2. {Range(p[i]) : i \in DOMAIN p} = {Fwd(i) : i \in 1 .. n}
    BY <1>2, <2>1
  <2>3. UNION {Range(p[i]) : i \in DOMAIN p} = UNION {Fwd(i) : i \in 1 .. n}
    BY <2>2
  <2> QED BY <2>3 DEF Fwd
<1>7. ASSUME NEW i \in 1 .. n, NEW j \in 1 .. n, i < j
      PROVE  \E k \in 1 .. n - i : j = i + k
  <2>1. j - i \in 1 .. n - i /\ j = i + (j - i)
    BY <1>7
  <2> QED BY <2>1
<1>8. UNION {{<<i, i + k>> : k \in 1 .. n - i} : i \in 1 .. n} = {ij \in X : ij[1] < ij[2]}
  <2>1. ASSUME NEW i \in 1 .. n, NEW k \in 1 .. n - i PROVE i + k \in 1 .. n /\ i < i + k
    OBVIOUS
  <2>2. \A ij \in UNION {{<<i, i + k>> : k \in 1 .. n - i} : i \in 1 .. n} : ij \in X /\ ij[1] < ij[2]
    BY <2>1 DEF X
  <2>3. ASSUME NEW ij \in X, ij[1] < ij[2]
        PROVE  ij \in UNION {{<<i, i + k>> : k \in 1 .. n - i} : i \in 1 .. n}
    <3>1. PICK i \in 1 .. n, j \in 1 .. n : ij = <<i, j>> /\ i < j
      BY <2>3 DEF X
    <3>2. PICK k \in 1 .. n - i : j = i + k
      BY <1>7, <3>1
    <3> QED BY <3>1, <3>2
  <2> QED BY <2>2, <2>3
<1> QED BY <1>3, <1>4, <1>6, <1>8 DEF X

(***************************************************************************)
(* The order in which the traces of a tree are listed is total.            *)
(***************************************************************************)
LEMMA AtIs ==
  ASSUME NEW t \in Seq(Input), NEW i
  PROVE  /\ At(t, i) \in Nat /\ At(t, i) <= maxInput + 1
         /\ i \in DOMAIN t => At(t, i) = t[i] /\ At(t, i) < maxInput + 1
         /\ i \notin DOMAIN t => At(t, i) = maxInput + 1
<1>1. maxInput \in Nat
  BY AlphabetAssumption
<1>2. CASE i \in DOMAIN t
  <2>1. t[i] \in Input
    BY <1>2
  <2>2. t[i] \in Nat /\ t[i] <= maxInput
    BY <1>1, <2>1 DEF Input
  <2> QED BY <1>1, <1>2, <2>2 DEF At
<1>3. CASE i \notin DOMAIN t
  BY <1>1, <1>3 DEF At
<1> QED BY <1>2, <1>3

(* Before is a strict order, *)
LEMMA BeforeStrict ==
  ASSUME NEW u \in Seq(Input), NEW v \in Seq(Input), NEW t \in Seq(Input)
  PROVE  /\ ~Before(u, u)
         /\ Before(u, v) /\ Before(v, t) => Before(u, t)
<1>0. \A k : At(u, k) \in Nat /\ At(v, k) \in Nat /\ At(t, k) \in Nat
  BY AtIs
<1>1. ~Before(u, u)
  BY <1>0 DEF Before
<1>2. ASSUME Before(u, v), Before(v, t) PROVE Before(u, t)
  <2>1. PICK i \in DOMAIN u : (\A j \in 1 .. i - 1 : At(u, j) = At(v, j)) /\ At(u, i) < At(v, i)
    BY <1>2 DEF Before
  <2>2. PICK k \in DOMAIN v : (\A j \in 1 .. k - 1 : At(v, j) = At(t, j)) /\ At(v, k) < At(t, k)
    BY <1>2 DEF Before
  <2>3. DOMAIN u = 1 .. Len(u) /\ DOMAIN v = 1 .. Len(v) /\ Len(u) \in Nat /\ Len(v) \in Nat
    OBVIOUS
  <2>4. CASE i < k
    <3>1. At(u, i) < At(t, i) /\ \A j \in 1 .. i - 1 : At(u, j) = At(t, j)
      BY <1>0, <2>1, <2>2, <2>3, <2>4
    <3> QED BY <3>1 DEF Before
  <2>5. CASE i = k
    <3>1. At(u, i) < At(t, i) /\ \A j \in 1 .. i - 1 : At(u, j) = At(t, j)
      BY <1>0, <2>1, <2>2, <2>3, <2>5
    <3> QED BY <3>1 DEF Before
  <2>6. CASE k < i
    <3>0. k \in 1 .. i - 1 /\ \A j \in 1 .. k - 1 : j \in 1 .. i - 1
      BY <2>3, <2>6
    <3>1. At(u, k) < At(t, k) /\ \A j \in 1 .. k - 1 : At(u, j) = At(t, j)
      BY <1>0, <2>1, <2>2, <3>0
    <3>2. k \in DOMAIN u
      BY <2>3, <2>6
    <3> QED BY <3>1, <3>2 DEF Before
  <2> QED BY <2>3, <2>4, <2>5, <2>6
<1> QED BY <1>1, <1>2

(* and a total one. *)
LEMMA BeforeTotal ==
  ASSUME NEW u \in Seq(Input), NEW v \in Seq(Input), u # v
  PROVE  Before(u, v) \/ Before(v, u)
<1> DEFINE D == {i \in Nat : i # 0 /\ At(u, i) # At(v, i)}
<1>0. /\ \A k : At(u, k) \in Nat /\ At(v, k) \in Nat
      /\ \A k : At(u, k) <= maxInput + 1 /\ At(v, k) <= maxInput + 1
      /\ \A k : k \in DOMAIN u => At(u, k) = u[k] /\ At(u, k) < maxInput + 1
      /\ \A k : k \in DOMAIN v => At(v, k) = v[k] /\ At(v, k) < maxInput + 1
      /\ \A k : k \notin DOMAIN u => At(u, k) = maxInput + 1
      /\ \A k : k \notin DOMAIN v => At(v, k) = maxInput + 1
      /\ maxInput + 1 \in Nat
  BY AtIs, AlphabetAssumption
<1>1. DOMAIN u = 1 .. Len(u) /\ DOMAIN v = 1 .. Len(v) /\ Len(u) \in Nat /\ Len(v) \in Nat
  OBVIOUS
<1>2. D # {}
  <2> SUFFICES ASSUME \A i \in Nat : i # 0 => At(u, i) = At(v, i) PROVE FALSE
    OBVIOUS
  <2>1. CASE Len(u) < Len(v)
    <3>1. Len(u) + 1 \in DOMAIN v /\ Len(u) + 1 \notin DOMAIN u /\ Len(u) + 1 \in Nat /\ Len(u) + 1 # 0
      BY <1>1, <2>1
    <3>2. At(u, Len(u) + 1) = maxInput + 1 /\ At(v, Len(u) + 1) < maxInput + 1
      BY <1>0, <3>1
    <3> QED BY <1>0, <3>1, <3>2
  <2>2. CASE Len(v) < Len(u)
    <3>1. Len(v) + 1 \in DOMAIN u /\ Len(v) + 1 \notin DOMAIN v /\ Len(v) + 1 \in Nat /\ Len(v) + 1 # 0
      BY <1>1, <2>2
    <3>2. At(v, Len(v) + 1) = maxInput + 1 /\ At(u, Len(v) + 1) < maxInput + 1
      BY <1>0, <3>1
    <3> QED BY <1>0, <3>1, <3>2
  <2>3. CASE Len(u) = Len(v)
    <3>1. ASSUME NEW i \in 1 .. Len(u) PROVE u[i] = v[i]
      <4>1. i \in DOMAIN u /\ i \in DOMAIN v /\ i \in Nat /\ i # 0
        BY <1>1, <2>3
      <4>2. At(u, i) = u[i] /\ At(v, i) = v[i]
        BY <1>0, <4>1
      <4> QED BY <4>1, <4>2
    <3> QED BY <2>3, <3>1, SeqEqual
  <2>4. \A a, b \in Nat : a < b \/ b < a \/ a = b
    OBVIOUS
  <2>5. Len(u) < Len(v) \/ Len(v) < Len(u) \/ Len(u) = Len(v)
    BY <1>1, <2>4
  <2> QED BY <2>1, <2>2, <2>3, <2>5
<1>3. PICK i \in D : \A j \in D : i <= j
  <2>1. D \subseteq Nat
    OBVIOUS
  <2> HIDE DEF D
  <2> QED BY <1>2, <2>1, LeastElement
<1>4. \A j \in 1 .. i - 1 : At(u, j) = At(v, j)
  <2> SUFFICES ASSUME NEW j \in 1 .. i - 1, At(u, j) # At(v, j) PROVE FALSE
    OBVIOUS
  <2>1. j \in D /\ ~(i <= j)
    OBVIOUS
  <2> QED BY <1>3, <2>1
<1>5. CASE At(u, i) < At(v, i)
  <2>1. i \in DOMAIN u
    BY <1>0, <1>5
  <2> QED BY <1>4, <1>5, <2>1 DEF Before
<1>6. CASE At(v, i) < At(u, i)
  <2>1. i \in DOMAIN v
    BY <1>0, <1>6
  <2> QED BY <1>4, <1>6, <2>1 DEF Before
<1>7. At(u, i) # At(v, i)
  OBVIOUS
<1> QED BY <1>0, <1>5, <1>6, <1>7

(***************************************************************************)
(* A finite set can be listed: each trace at its rank.                     *)
(***************************************************************************)
Rank(S, e) == Cardinality({t \in S : Before(t, e)}) + 1

(* A trace that comes later has the higher rank. *)
LEMMA RankGrows ==
  ASSUME NEW S, S \subseteq Seq(Input), IsFiniteSet(S), NEW a \in S, NEW b \in S, Before(a, b)
  PROVE  Rank(S, a) < Rank(S, b)
<1> DEFINE A == {t \in S : Before(t, a)}
           B == {t \in S : Before(t, b)}
<1>1. A \subseteq B /\ a \in B /\ a \notin A
  BY BeforeStrict
<1>2. IsFiniteSet(A) /\ IsFiniteSet(B) /\ Cardinality(A) \in Nat /\ Cardinality(B) \in Nat
  <2>1. A \in SUBSET S /\ B \in SUBSET S
    OBVIOUS
  <2> HIDE DEF A, B
  <2> QED BY <2>1, FS_Subset, FS_CardinalityType
<1>3. Cardinality(A) < Cardinality(B)
  <2> HIDE DEF A, B
  <2>1. Cardinality(A) <= Cardinality(B) /\ (Cardinality(B) = Cardinality(A) => B = A)
    BY <1>1, <1>2, FS_Subset
  <2> QED BY <1>1, <1>2, <2>1
<1>4. Rank(S, a) = Cardinality(A) + 1 /\ Rank(S, b) = Cardinality(B) + 1
  BY DEF Rank
<1> HIDE DEF A, B
<1> QED BY <1>2, <1>3, <1>4

(* The ranks of a finite set of traces are 1, 2, ... *)
LEMMA RankTyped ==
  ASSUME NEW S, S \subseteq Seq(Input), IsFiniteSet(S), NEW a \in S
  PROVE  Rank(S, a) \in 1 .. Cardinality(S)
<1> DEFINE A == {t \in S : Before(t, a)}
<1>1. A \subseteq S /\ a \notin A
  BY BeforeStrict
<1>2. Rank(S, a) = Cardinality(A) + 1
  BY DEF Rank
<1> HIDE DEF A
<1>3. /\ Cardinality(A) \in Nat /\ Cardinality(S) \in Nat /\ Cardinality(A) <= Cardinality(S)
      /\ (Cardinality(S) = Cardinality(A) => S = A)
  <2>1. IsFiniteSet(A)
    BY <1>1, FS_Subset
  <2> QED BY <1>1, <2>1, FS_Subset, FS_CardinalityType
<1> QED BY <1>1, <1>2, <1>3

(* So Listed is defined for every finite set of traces, and lists it. *)
LEMMA ListedHas ==
  ASSUME NEW S, S \subseteq Seq(Input), IsFiniteSet(S)
  PROVE  Listed(S) \in Seq(S) /\ Range(Listed(S)) = S
<1> DEFINE n == Cardinality(S)
           f == [e \in S |-> Rank(S, e)]
           s == [k \in 1 .. n |-> CHOOSE e \in S : Rank(S, e) = k]
           Sorted(l) == \A i, j \in DOMAIN l : i < j => Before(l[i], l[j])
<1>1. n \in Nat
  BY FS_CardinalityType
<1>2. \A a, b \in S : a # b => Rank(S, a) # Rank(S, b)
  <2> SUFFICES ASSUME NEW a \in S, NEW b \in S, a # b PROVE Rank(S, a) # Rank(S, b)
    OBVIOUS
  <2>1. Before(a, b) \/ Before(b, a)
    BY BeforeTotal
  <2>2. Rank(S, a) < Rank(S, b) \/ Rank(S, b) < Rank(S, a)
    BY <2>1, RankGrows
  <2>3. Rank(S, a) \in 1 .. n /\ Rank(S, b) \in 1 .. n
    BY RankTyped
  <2> HIDE DEF n
  <2> QED BY <1>1, <2>2, <2>3
<1> DEFINE D == 1 .. n
<1>3. f \in Injection(S, D)
  <2>1. f \in [S -> D]
    BY RankTyped
  <2>2. \A a, b \in S : f[a] = f[b] => a = b
    BY <1>2
  <2> HIDE DEF f, D
  <2> QED BY <2>1, <2>2 DEF Injection, IsInjective
<1>4. IsFiniteSet(D) /\ Cardinality(D) = n
  <2> HIDE DEF n
  <2>1. IsFiniteSet(1 .. n) /\ Cardinality(1 .. n) = IF 1 > n THEN 0 ELSE n - 1 + 1
    BY <1>1, FS_Interval
  <2> QED BY <1>1, <2>1
<1>5. f \in Surjection(S, D)
  <2> HIDE DEF f, D
  <2> QED BY <1>3, <1>4, FS_Injection
<1>6. \A k \in D : \E e \in S : Rank(S, e) = k
  BY <1>5 DEF Surjection
<1>7. \A k \in D : s[k] \in S /\ Rank(S, s[k]) = k
  BY <1>6
<1>8. s \in [D -> S]
  <2>1. \A k \in D : s[k] \in S
    BY <1>7
  <2>2. s = [k \in D |-> s[k]]
    OBVIOUS
  <2> HIDE DEF s, D
  <2> QED BY <2>1, <2>2
<1>9. \A i, j \in D : i # j => s[i] # s[j]
  BY <1>7
<1>10. s \in SetToSeqs(S)
  <2> HIDE DEF s
  <2> QED BY <1>8, <1>9 DEF SetToSeqs
<1>11. Sorted(s)
  <2> SUFFICES ASSUME NEW i \in D, NEW j \in D, i < j PROVE Before(s[i], s[j])
    BY <1>8
  <2>1. /\ s[i] \in S /\ s[j] \in S /\ s[i] # s[j]
        /\ Rank(S, s[i]) = i /\ Rank(S, s[j]) = j
    BY <1>1, <1>7, <1>9
  <2> DEFINE a == s[i]
             b == s[j]
  <2> HIDE DEF s, a, b
  <2>2. a \in S /\ b \in S /\ a # b /\ Rank(S, a) = i /\ Rank(S, b) = j
    BY <2>1 DEF a, b
  <2>3. Before(a, b) \/ Before(b, a)
    BY <2>2, BeforeTotal
  <2>4. Before(b, a) => j < i
    BY <2>2, RankGrows
  <2>5. ~(j < i)
    BY <1>1
  <2> QED BY <2>3, <2>4, <2>5 DEF a, b
<1> DEFINE l == Listed(S)
<1>12. l \in SetToSeqs(S)
  <2> HIDE DEF s
  <2> QED BY <1>10, <1>11 DEF Listed
<1>13. l \in [D -> S] /\ \A i, j \in D : i # j => l[i] # l[j]
  BY <1>12 DEF SetToSeqs
<1> HIDE DEF l, f, s
<1>14. l \in Injection(D, S)
  <2>1. DOMAIN l = D
    BY <1>13
  <2> HIDE DEF D
  <2> QED BY <1>13, <2>1 DEF Injection, IsInjective
<1>15. l \in Surjection(D, S)
  <2> HIDE DEF D
  <2> QED BY <1>4, <1>14, FS_Injection
<1>16. Range(l) = S
  BY <1>13, <1>15 DEF Surjection, Range
<1>17. l \in Seq(S)
  BY <1>1, <1>13
<1> QED BY <1>16, <1>17 DEF l

(* There are finitely many traces of a length. *)
LEMMA EnumFinite ==
  ASSUME NEW k \in Nat
  PROVE  IsFiniteSet(InputEnum(k, k))
<1> DEFINE Of(n) == {b \in Seq(Input) : Len(b) = n}
           A == {n \in Nat : IsFiniteSet(Of(n))}
<1>1. 0 \in A
  <2>1. Of(0) = {<< >>}
    BY EmptySeq
  <2> HIDE DEF Of
  <2> QED BY <2>1, FS_Singleton
<1>2. ASSUME NEW n \in Nat, n \in A PROVE n + 1 \in A
  <2> DEFINE S == Of(n)
             P == S \X Input
             T == Of(n + 1)
             f == [p \in P |-> Append(p[1], p[2])]
  <2>1. IsFiniteSet(P)
    <3>1. IsFiniteSet(Input)
      BY AlphabetAssumption, FS_Interval DEF Input
    <3>2. IsFiniteSet(S)
      BY <1>2
    <3> HIDE DEF S
    <3> QED BY <3>1, <3>2, FS_Product
  <2>2. f \in [P -> T]
    <3>1. ASSUME NEW p \in P PROVE Append(p[1], p[2]) \in T
      <4>1. p[1] \in Seq(Input) /\ Len(p[1]) = n /\ p[2] \in Input
        OBVIOUS
      <4> QED BY <4>1
    <3> HIDE DEF T, P
    <3> QED BY <3>1
  <2>3. ASSUME NEW t \in T PROVE \E p \in P : f[p] = t
    <3>1. t # << >>
      BY EmptySeq
    <3>2. PICK s \in Seq(Input), x \in Input : t = Append(s, x)
      BY <3>1, SequenceEmptyOrAppend
    <3>3. <<s, x>> \in P
      BY <3>2
    <3> QED BY <3>2, <3>3
  <2>4. f \in Surjection(P, T)
    <3> HIDE DEF f, P, T
    <3> QED BY <2>2, <2>3 DEF Surjection
  <2>5. IsFiniteSet(T)
    <3> HIDE DEF f, P, T
    <3> QED BY <2>1, <2>4, FS_Surjection
  <2> HIDE DEF Of
  <2> QED BY <2>5
<1>3. InputEnum(k, k) = Of(k)
  BY EnumIs
<1> HIDE DEF A, Of
<1>4. k \in A
  BY <1>1, <1>2, SetInduction
<1> QED BY <1>3, <1>4 DEF A

(* Betas has the traces of one length. *)
LEMMA BetasHave ==
  ASSUME NEW k \in Nat
  PROVE  /\ Betas(k) \in Seq(Seq(Input))
         /\ Range(Betas(k)) = {b \in Seq(Input) : Len(b) = k}
<1> DEFINE S == InputEnum(k, k)
<1>1. S \subseteq Seq(Input) /\ IsFiniteSet(S) /\ S = {b \in Seq(Input) : Len(b) = k}
  BY EnumIs, EnumFinite
<1>2. Betas(k) = Listed(S)
  BY DEF Betas
<1> HIDE DEF S
<1>3. Listed(S) \in Seq(S) /\ Range(Listed(S)) = S
  BY <1>1, ListedHas
<1>4. Listed(S) \in Seq(Seq(Input))
  BY <1>1, <1>3
<1> QED BY <1>1, <1>2, <1>3, <1>4

(* All of them together. *)
LEMMA AllBetasHave ==
  ASSUME NEW m \in Nat
  PROVE  /\ FlattenSeq([k \in 1 .. m + 1 |-> Betas(k)]) \in Seq(Seq(Input))
         /\ Range(FlattenSeq([k \in 1 .. m + 1 |-> Betas(k)])) =
              {b \in Seq(Input) : 1 <= Len(b) /\ Len(b) <= m + 1}
<1> DEFINE p == [k \in 1 .. m + 1 |-> Betas(k)]
           X == Seq(Input)
<1>1. p \in Seq(Seq(X)) /\ DOMAIN p = 1 .. m + 1 /\ \A k \in 1 .. m + 1 : p[k] = Betas(k)
  <2>1. \A k \in 1 .. m + 1 : Betas(k) \in Seq(X)
    BY BetasHave
  <2> HIDE DEF X
  <2>2. p \in [1 .. m + 1 -> Seq(X)]
    BY <2>1
  <2> QED BY <2>2
<1> HIDE DEF p, X
<1>2. FlattenSeq(p) \in Seq(X) /\ Range(FlattenSeq(p)) = UNION {Range(p[k]) : k \in DOMAIN p}
  BY <1>1, FlattenHas
<1>3. \A k \in 1 .. m + 1 : Range(p[k]) = {b \in Seq(Input) : Len(b) = k}
  BY <1>1, BetasHave
<1>4. \A b : b \in Range(FlattenSeq(p)) <=> \E k \in 1 .. m + 1 : b \in Seq(Input) /\ Len(b) = k
  BY <1>1, <1>2, <1>3
<1>5. \A b : b \in Range(FlattenSeq(p)) <=> b \in Seq(Input) /\ 1 <= Len(b) /\ Len(b) <= m + 1
  BY <1>4
<1>6. Range(FlattenSeq(p)) = {b \in Seq(Input) : 1 <= Len(b) /\ Len(b) <= m + 1}
  BY <1>5
<1> QED BY <1>2, <1>6 DEF p, X

(***************************************************************************)
(* The lists of the three steps have every pair of the H condition.        *)
(***************************************************************************)
Listing(T) == T \subseteq Seq(Input) /\ IsFiniteSet(T)

(* Step 1. *)
LEMMA CoverPairsHave ==
  ASSUME Listing(scov)
  PROVE  /\ CoverPairs \in Seq(scov \X scov)
         /\ \A u, v \in scov : u = v \/ <<u, v>> \in Range(CoverPairs) \/ <<v, u>> \in Range(CoverPairs)
<1> DEFINE l == iolV
           n == Len(l)
           q == IndexPairs(n)
           c == CoverPairs
<1>1. l \in Seq(scov) /\ Range(l) = scov
  BY ListedHas DEF Listing, iolV
<1>2. c = [i \in DOMAIN q |-> <<l[q[i][1]], l[q[i][2]]>>]
  BY DEF CoverPairs, Map
<1> HIDE DEF l, c
<1>3. n \in Nat /\ DOMAIN l = 1 .. n /\ \A i \in 1 .. n : l[i] \in scov
  BY <1>1
<1> HIDE DEF n
<1>4. q \in Seq((1 .. n) \X (1 .. n)) /\ Range(q) = {ij \in (1 .. n) \X (1 .. n) : ij[1] < ij[2]}
  BY <1>3, IndexPairsHas
<1> HIDE DEF q
<1>5. c \in Seq(scov \X scov)
  <2>1. \A i \in DOMAIN q : <<l[q[i][1]], l[q[i][2]]>> \in scov \X scov
    BY <1>3, <1>4
  <2>2. DOMAIN q = 1 .. Len(q) /\ Len(q) \in Nat
    BY <1>4
  <2> QED BY <1>2, <2>1, <2>2
<1>6. ASSUME NEW i \in 1 .. n, NEW j \in 1 .. n, i < j PROVE <<l[i], l[j]>> \in Range(c)
  <2>1. <<i, j>> \in Range(q)
    BY <1>4, <1>6
  <2>2. PICK k \in DOMAIN q : q[k] = <<i, j>>
    BY <2>1 DEF Range
  <2>3. c[k] = <<l[i], l[j]>> /\ k \in DOMAIN c
    BY <1>2, <2>2
  <2> QED BY <2>3 DEF Range
<1>7. ASSUME NEW u \in scov, NEW v \in scov
      PROVE  u = v \/ <<u, v>> \in Range(c) \/ <<v, u>> \in Range(c)
  <2>1. PICK i \in 1 .. n, j \in 1 .. n : l[i] = u /\ l[j] = v
    BY <1>1, <1>3 DEF Range
  <2>2. i < j \/ j < i \/ i = j
    OBVIOUS
  <2> QED BY <1>6, <2>1, <2>2
<1> QED BY <1>5, <1>7 DEF c

(* Step 2. *)
LEMMA ExtensionPairsHave ==
  ASSUME Listing(scov), numAddStates \in Nat
  PROVE  /\ ExtensionPairs \in Seq(Ext(scov, numAddStates + 1) \X scov)
         /\ \A a, v \in scov, b \in Seq(Input) :
              1 <= Len(b) /\ Len(b) <= numAddStates + 1 => <<a \o b, v>> \in Range(ExtensionPairs)
<1> DEFINE m == numAddStates
           l == iolV
           B == {b \in Seq(Input) : 1 <= Len(b) /\ Len(b) <= m + 1}
           all == FlattenSeq([k \in 1 .. m + 1 |-> Betas(k)])
           ll == Product(l, l)
           q == Product(all, ll)
           c == ExtensionPairs
           E == Ext(scov, m + 1)
<1>0. m \in Nat /\ scov \subseteq Seq(Input)
  BY DEF Listing
<1>1. l \in Seq(scov) /\ Range(l) = scov
  BY ListedHas DEF Listing, iolV
<1>2. all \in Seq(Seq(Input)) /\ Range(all) = B
  <2> HIDE DEF m
  <2> QED BY <1>0, AllBetasHave
<1>3. c = [i \in DOMAIN q |-> <<q[i][2][1] \o q[i][1], q[i][2][2]>>]
  BY DEF ExtensionPairs, Map
<1>4. \A a \in scov, b \in B : a \o b \in E
  <2>1. ASSUME NEW a \in scov, NEW b \in B PROVE a \o b \in E
    <3>1. a \in Seq(Input) /\ b \in Seq(Input) /\ Len(b) <= m + 1 /\ a \o b \in Seq(Input)
      BY <1>0
    <3> QED BY <3>1 DEF Ext
  <2> QED BY <2>1
<1> HIDE DEF l, c, all, E
<1>5. ll \in Seq(scov \X scov) /\ Range(ll) = scov \X scov
  <2>1. Range(ll) = Range(l) \X Range(l)
    BY <1>1, ProductRange
  <2>2. ll \in Seq(scov \X scov)
    BY <1>1, ProductTyped
  <2> HIDE DEF ll
  <2> QED BY <1>1, <2>1, <2>2
<1> HIDE DEF ll, B
<1>6. Range(q) = B \X (scov \X scov) /\ q \in Seq(Seq(Input) \X (scov \X scov))
  <2>1. Range(q) = Range(all) \X Range(ll)
    BY <1>2, <1>5, ProductRange
  <2>2. q \in Seq(Seq(Input) \X (scov \X scov))
    BY <1>2, <1>5, ProductTyped
  <2> HIDE DEF q
  <2> QED BY <1>2, <1>5, <2>1, <2>2
<1> HIDE DEF q
<1>7. c \in Seq(E \X scov)
  <2>1. \A i \in DOMAIN q : q[i] \in B \X (scov \X scov)
    BY <1>6 DEF Range
  <2>2. \A i \in DOMAIN q : <<q[i][2][1] \o q[i][1], q[i][2][2]>> \in E \X scov
    BY <1>4, <2>1
  <2>3. DOMAIN q = 1 .. Len(q) /\ Len(q) \in Nat
    BY <1>6
  <2> DEFINE Z == E \X scov
  <2>4. c \in [1 .. Len(q) -> Z]
    BY <1>3, <2>2, <2>3
  <2> HIDE DEF Z
  <2>5. c \in Seq(Z)
    BY <2>3, <2>4
  <2> QED BY <2>5 DEF Z
<1>8. ASSUME NEW a \in scov, NEW v \in scov, NEW b \in B PROVE <<a \o b, v>> \in Range(c)
  <2>1. <<b, <<a, v>>>> \in Range(q)
    BY <1>6
  <2>2. PICK k \in DOMAIN q : q[k] = <<b, <<a, v>>>>
    BY <2>1 DEF Range
  <2>3. c[k] = <<a \o b, v>> /\ k \in DOMAIN c
    BY <1>3, <2>2
  <2> QED BY <2>3 DEF Range
<1> QED BY <1>7, <1>8 DEF B, c, E

(* Step 3. *)
LEMMA PrefixPairsHave ==
  ASSUME Listing(scov), numAddStates \in Nat
  PROVE  LET m == numAddStates
         IN  /\ PrefixPairs \in Seq(Ext(scov, m + 1) \X Ext(scov, m + 1))
             /\ \A a \in scov, b \in Seq(Input), i, j \in 1 .. m + 1 :
                  Len(b) = m + 1 /\ i < j =>
                    <<a \o SubSeq(b, 1, i), a \o SubSeq(b, 1, j)>> \in Range(PrefixPairs)
<1> DEFINE m == numAddStates
           l == iolV
           n == m + 1
           B == {b \in Seq(Input) : Len(b) = n}
           all == Betas(n)
           lb == Product(l, all)
           idx == IndexPairs(n)
           q == Product(lb, idx)
           c == PrefixPairs
           E == Ext(scov, n)
<1>0. n \in Nat /\ scov \subseteq Seq(Input)
  BY DEF Listing
<1>1. l \in Seq(scov) /\ Range(l) = scov
  BY ListedHas DEF Listing, iolV
<1>3. c = [i \in DOMAIN q |-> <<q[i][1][1] \o SubSeq(q[i][1][2], 1, q[i][2][1]),
                               q[i][1][1] \o SubSeq(q[i][1][2], 1, q[i][2][2])>>]
  BY DEF PrefixPairs, Map
<1> HIDE DEF n
<1>2. all \in Seq(Seq(Input)) /\ Range(all) = B
  BY <1>0, BetasHave
<1>4. \A a \in scov, b \in B, i \in 1 .. n : a \o SubSeq(b, 1, i) \in E
  <2>1. ASSUME NEW a \in scov, NEW b \in B, NEW i \in 1 .. n PROVE a \o SubSeq(b, 1, i) \in E
    <3>1. i \in 0 .. Len(b) /\ a \in Seq(Input) /\ b \in Seq(Input)
      BY <1>0
    <3> DEFINE s == SubSeq(b, 1, i)
    <3>2. s \in Seq(Input) /\ Len(s) = i
      BY <3>1, SplitAt
    <3> HIDE DEF s
    <3>3. a \o s \in Seq(Input)
      BY <3>1, <3>2
    <3>4. a \o s \in E
      <4>1. Len(s) <= n
        BY <1>0, <3>2
      <4> HIDE DEF B
      <4> QED BY <3>2, <3>3, <4>1 DEF Ext
    <3> QED BY <3>4 DEF s
  <2> QED BY <2>1
<1>5. idx \in Seq((1 .. n) \X (1 .. n)) /\ Range(idx) = {ij \in (1 .. n) \X (1 .. n) : ij[1] < ij[2]}
  BY <1>0, IndexPairsHas
<1> HIDE DEF l, c, all, E, idx
<1>6. lb \in Seq(scov \X Seq(Input)) /\ Range(lb) = scov \X B
  <2>1. Range(lb) = Range(l) \X Range(all)
    BY <1>1, <1>2, ProductRange
  <2>2. lb \in Seq(scov \X Seq(Input))
    BY <1>1, <1>2, ProductTyped
  <2> HIDE DEF lb
  <2> QED BY <1>1, <1>2, <2>1, <2>2
<1> HIDE DEF lb, B
<1> DEFINE I == (1 .. n) \X (1 .. n)
<1> HIDE DEF I
<1>7. Range(q) = (scov \X B) \X Range(idx) /\ q \in Seq((scov \X Seq(Input)) \X I)
  <2>1. idx \in Seq(I)
    BY <1>5 DEF I
  <2>2. Range(q) = Range(lb) \X Range(idx)
    BY <1>6, <2>1, ProductRange
  <2>3. q \in Seq((scov \X Seq(Input)) \X I)
    BY <1>6, <2>1, ProductTyped
  <2> HIDE DEF q
  <2> QED BY <1>6, <2>2, <2>3
<1> HIDE DEF q
<1>8. c \in Seq(E \X E)
  <2>1. \A i \in DOMAIN q : q[i] \in (scov \X B) \X ((1 .. n) \X (1 .. n))
    BY <1>5, <1>7 DEF Range
  <2>2. ASSUME NEW i \in DOMAIN q PROVE c[i] \in E \X E
    <3>1. PICK a \in scov, b \in B, j \in 1 .. n, k \in 1 .. n : q[i] = <<<<a, b>>, <<j, k>>>>
      BY <2>1
    <3>2. q[i][1] = <<a, b>> /\ q[i][2] = <<j, k>>
      BY <3>1
    <3>3. q[i][1][1] = a /\ q[i][1][2] = b /\ q[i][2][1] = j /\ q[i][2][2] = k
      BY <3>2
    <3>4. c[i] = <<q[i][1][1] \o SubSeq(q[i][1][2], 1, q[i][2][1]),
                   q[i][1][1] \o SubSeq(q[i][1][2], 1, q[i][2][2])>>
      BY <1>3
    <3>5. c[i] = <<a \o SubSeq(b, 1, j), a \o SubSeq(b, 1, k)>>
      BY <3>3, <3>4
    <3> DEFINE d == a \o SubSeq(b, 1, j)
               e == a \o SubSeq(b, 1, k)
    <3>6. d \in E /\ e \in E
      BY <1>4
    <3>7. c[i] = <<d, e>>
      BY <3>5
    <3> HIDE DEF d, e
    <3> QED BY <3>6, <3>7
  <2>3. DOMAIN q = 1 .. Len(q) /\ Len(q) \in Nat
    BY <1>7
  <2>4. DOMAIN c = 1 .. Len(q) /\ c = [i \in DOMAIN c |-> c[i]]
    BY <1>3, <2>3
  <2> QED BY <2>2, <2>3, <2>4
<1>9. ASSUME NEW a \in scov, NEW b \in B, NEW i \in 1 .. n, NEW j \in 1 .. n, i < j
      PROVE  <<a \o SubSeq(b, 1, i), a \o SubSeq(b, 1, j)>> \in Range(c)
  <2>1. <<<<a, b>>, <<i, j>>>> \in Range(q)
    <3>1. <<i, j>> \in Range(idx)
      BY <1>5, <1>9
    <3> QED BY <1>7, <3>1
  <2>2. PICK k \in DOMAIN q : q[k] = <<<<a, b>>, <<i, j>>>>
    BY <2>1 DEF Range
  <2>3. q[k][1] = <<a, b>> /\ q[k][2] = <<i, j>>
    BY <2>2
  <2>4. q[k][1][1] = a /\ q[k][1][2] = b /\ q[k][2][1] = i /\ q[k][2][2] = j
    BY <2>3
  <2>5. k \in DOMAIN c /\ c[k] = <<q[k][1][1] \o SubSeq(q[k][1][2], 1, q[k][2][1]),
                                q[k][1][1] \o SubSeq(q[k][1][2], 1, q[k][2][2])>>
    BY <1>3
  <2>6. c[k] = <<a \o SubSeq(b, 1, i), a \o SubSeq(b, 1, j)>>
    BY <2>4, <2>5
  <2> QED BY <2>5, <2>6 DEF Range
<1> QED BY <1>8, <1>9 DEF B, c, E, n

(***************************************************************************)
(* A deterministic machine answers a trace with one output trace.          *)
(***************************************************************************)
Answers(r, q, t, a) == a \in Seq(Output) /\ LeavesOf(r, q, t) = {<<a, StateBy(r, q, t)>>}

(* One more input, one more output. *)
LEMMA AnswerStep ==
  ASSUME NEW r \in Machines, Det(r), NEW p \in State, NEW t \in Seq(Input), NEW x \in Input,
         NEW a, Answers(r, p, t, a), NEW y \in Output, r[StateBy(r, p, t)][<<x, y>>] \in State
  PROVE  Answers(r, p, Append(t, x), Append(a, y))
<1> DEFINE s == StateBy(r, p, t)
           G == GrowLeaf(r, <<a, s>>, x)
<1>0. s \in State /\ a \in Seq(Output) /\ r[s][<<x, y>>] \in State
  BY StateByTyped DEF Answers
<1>1. LeavesOf(r, p, Append(t, x)) = G
  <2> DEFINE lf == <<a, s>>
             L == LeavesOf(r, p, t)
  <2>1. L = {lf}
    BY DEF Answers
  <2>2. LeavesOf(r, p, Append(t, x)) = UNION {GrowLeaf(r, leaf, x) : leaf \in L}
    BY LeavesAppend
  <2> HIDE DEF lf, L
  <2>3. LeavesOf(r, p, Append(t, x)) = GrowLeaf(r, lf, x)
    BY <2>1, <2>2
  <2> QED BY <2>3 DEF lf
<1>2. StateBy(r, p, Append(t, x)) = PostOf(r, s, x)
  BY StateByStep
<1> HIDE DEF s
<1>3. r[s][<<x, y>>] = PostOf(r, s, x) /\ \A z \in Output : r[s][<<x, z>>] \in State => z = y
  <2>1. PICK v \in Output : /\ r[s][<<x, v>>] = PostOf(r, s, x)
                            /\ \A z \in Output \ {v} : ~(r[s][<<x, z>>] >= 0)
    BY <1>0, PostOfIs
  <2>2. \A z \in Output : r[s][<<x, z>>] \in State => z = v
    BY <1>0, <2>1, PostFacts
  <2> QED BY <1>0, <2>1, <2>2
<1>4. /\ \A g \in G : \/ g = <<a, s>> /\ \A z \in Output : r[s][<<x, z>>] \notin State
                      \/ \E z \in Output : r[s][<<x, z>>] \in State /\ g = <<Append(a, z), r[s][<<x, z>>]>>
      /\ <<Append(a, y), r[s][<<x, y>>]>> \in G
  BY <1>0, GrowthOf
<1> HIDE DEF G
<1>5. \A g \in G : g = <<Append(a, y), r[s][<<x, y>>]>>
  BY <1>0, <1>3, <1>4
<1>6. G = {<<Append(a, y), r[s][<<x, y>>]>>}
  BY <1>4, <1>5
<1>7. Append(a, y) \in Seq(Output)
  BY <1>0
<1> QED BY <1>1, <1>2, <1>3, <1>6, <1>7 DEF Answers

(* There is an answer to one input, *)
LEMMA AnswerIs ==
  ASSUME NEW r \in Machines, Det(r), NEW s \in State, NEW x \in Input
  PROVE  \E y \in Output : r[s][<<x, y>>] \in State
<1>1. Complete(r)
  BY DetIsComplete
<1>2. PICK y \in Output : r[s][<<x, y>>] >= 0
  BY <1>1 DEF Complete
<1> QED BY <1>2, PostFacts

(* The answer to the empty trace, *)
LEMMA AnswerEmpty ==
  ASSUME NEW r, NEW q
  PROVE  Answers(r, q, << >>, << >>)
<1>1. LeavesOf(r, q, << >>) = {<< << >>, q>>} /\ StateBy(r, q, << >>) = q
  BY LeavesEmpty, StateByEmpty
<1>2. << >> \in Seq(Output)
  OBVIOUS
<1> QED BY <1>1, <1>2 DEF Answers

(* and to a trace. *)
LEMMA OneAnswer ==
  ASSUME NEW r \in Machines, Det(r), NEW p \in State, NEW t \in Seq(Input)
  PROVE  \E a \in Seq(Output) : Len(a) = Len(t) /\ Answers(r, p, t, a)
<1> DEFINE A == {u \in Seq(Input) : \E a \in Seq(Output) : Len(a) = Len(u) /\ Answers(r, p, u, a)}
<1>1. << >> \in A
  <2>1. << >> \in Seq(Input) /\ << >> \in Seq(Output)
    OBVIOUS
  <2> QED BY <2>1, AnswerEmpty
<1>2. ASSUME NEW u \in Seq(Input), NEW x \in Input, u \in A PROVE Append(u, x) \in A
  <2>1. PICK a \in Seq(Output) : Len(a) = Len(u) /\ Answers(r, p, u, a)
    BY <1>2
  <2>2. StateBy(r, p, u) \in State
    BY StateByTyped
  <2>3. PICK y \in Output : r[StateBy(r, p, u)][<<x, y>>] \in State
    BY <2>2, AnswerIs
  <2>4. Answers(r, p, Append(u, x), Append(a, y))
    BY <2>1, <2>3, AnswerStep
  <2>5. /\ Append(a, y) \in Seq(Output) /\ Len(Append(a, y)) = Len(a) + 1
        /\ Append(u, x) \in Seq(Input) /\ Len(Append(u, x)) = Len(u) + 1
    OBVIOUS
  <2> QED BY <2>1, <2>4, <2>5
<1> HIDE DEF A
<1>3. t \in A
  BY <1>1, <1>2, SeqInduction
<1> QED BY <1>3 DEF A

(* Outputs behind outputs. *)
LEMMA ConcatOutput ==
  ASSUME NEW a \in Seq(Output), NEW c \in Seq(Output), NEW y \in Output
  PROVE  /\ a \o c \in Seq(Output) /\ a \o << >> = a
         /\ a \o Append(c, y) = Append(a \o c, y) /\ Append(c, y) \in Seq(Output)
<1>1. Append(c, y) = c \o <<y>> /\ Append(a \o c, y) = (a \o c) \o <<y>> /\ <<y>> \in Seq(Output)
  BY AppendIsConcat
<1>2. (a \o c) \o <<y>> = a \o (c \o <<y>>)
  BY <1>1, ConcatAssociative
<1>3. a \o c \in Seq(Output) /\ a \o << >> = a /\ Append(c, y) \in Seq(Output)
  OBVIOUS
<1> QED BY <1>1, <1>2, <1>3

(* The answer to the rest of a trace is the rest of the answer. *)
LEMMA AnswerToRest ==
  ASSUME NEW r \in Machines, Det(r), NEW p \in State, NEW t \in Seq(Input), NEW g \in Seq(Input),
         NEW a, Answers(r, p, t, a)
  PROVE  \E c \in Seq(Output) : Answers(r, StateBy(r, p, t), g, c) /\ Answers(r, p, t \o g, a \o c)
<1> DEFINE q == StateBy(r, p, t)
           Both(u) == \E c \in Seq(Output) : Answers(r, q, u, c) /\ Answers(r, p, t \o u, a \o c)
           A == {u \in Seq(Input) : Both(u)}
<1>0. q \in State /\ a \in Seq(Output)
  BY StateByTyped DEF Answers
<1> HIDE DEF q
<1>1. << >> \in A
  <2>1. t \o << >> = t /\ a \o << >> = a /\ << >> \in Seq(Output) /\ << >> \in Seq(Input)
    BY <1>0
  <2>2. Answers(r, q, << >>, << >>) /\ Answers(r, p, t \o << >>, a \o << >>)
    BY <2>1, AnswerEmpty
  <2> QED BY <2>1, <2>2
<1>2. ASSUME NEW u \in Seq(Input), NEW x \in Input, u \in A PROVE Append(u, x) \in A
  <2> DEFINE s == StateBy(r, q, u)
             v == t \o u
  <2>0. v \in Seq(Input) /\ t \o Append(u, x) = Append(v, x) /\ Append(u, x) \in Seq(Input)
    BY ConcatAppend, AppendExtends
  <2>1. PICK c \in Seq(Output) : Answers(r, q, u, c) /\ Answers(r, p, v, a \o c)
    BY <1>2
  <2>2. s \in State
    BY <1>0, StateByTyped
  <2>3. StateBy(r, p, v) = s
    BY StateByConcat DEF q
  <2> HIDE DEF v
  <2>4. PICK y \in Output : r[s][<<x, y>>] \in State
    <3> HIDE DEF s
    <3> QED BY <2>2, AnswerIs
  <2>5. Answers(r, q, Append(u, x), Append(c, y))
    BY <1>0, <2>1, <2>4, AnswerStep
  <2>6. Answers(r, p, Append(v, x), Append(a \o c, y))
    BY <2>0, <2>1, <2>3, <2>4, AnswerStep
  <2>7. a \o Append(c, y) = Append(a \o c, y) /\ Append(c, y) \in Seq(Output)
    BY <1>0, ConcatOutput
  <2>8. Both(Append(u, x))
    BY <2>0, <2>5, <2>6, <2>7
  <2> HIDE DEF Both
  <2> QED BY <2>0, <2>8
<1> HIDE DEF A
<1>3. g \in A
  BY <1>1, <1>2, SeqInduction
<1> QED BY <1>3 DEF A, q

(* The output trace of a state. *)
LEMMA OneOutput ==
  ASSUME NEW r, NEW q, NEW t, NEW c, Answers(r, q, t, c)
  PROVE  OutputsOf(r, q, t) = {c}
<1> DEFINE L == LeavesOf(r, q, t)
           lf == <<c, StateBy(r, q, t)>>
<1>1. L = {lf} /\ lf[1] = c
  BY DEF Answers
<1>2. OutputsOf(r, q, t) = {leaf[1] : leaf \in L}
  BY DEF OutputsOf
<1> HIDE DEF L, lf
<1> QED BY <1>1, <1>2

(* Sequences that begin with sequences of the same length. *)
LEMMA SameRest ==
  ASSUME NEW a \in Seq(Output), NEW b \in Seq(Output), NEW c \in Seq(Output), NEW d \in Seq(Output),
         Len(a) = Len(b), a \o c = b \o d
  PROVE  c = d
<1>1. /\ Len(a) \in Nat /\ Len(c) \in Nat /\ Len(d) \in Nat
      /\ Len(a \o c) = Len(a) + Len(c) /\ Len(b \o d) = Len(b) + Len(d)
  BY ONLY ConcatProperties, a \in Seq(Output), b \in Seq(Output), c \in Seq(Output), d \in Seq(Output)
<1>2. Len(c) = Len(d)
  BY <1>1
<1>3. ASSUME NEW i \in 1 .. Len(c) PROVE c[i] = d[i]
  <2>1. Len(a) + i \in 1 .. Len(a) + Len(c) /\ Len(a) + i > Len(a) /\ (Len(a) + i) - Len(a) = i
    BY <1>1
  <2>2. Len(b) + i \in 1 .. Len(b) + Len(d) /\ Len(b) + i > Len(b) /\ (Len(b) + i) - Len(b) = i
    BY <1>1, <1>2
  <2>3. (a \o c)[Len(a) + i] = c[i]
    BY <2>1
  <2>4. (b \o d)[Len(b) + i] = d[i]
    BY <2>2
  <2> QED BY <2>3, <2>4
<1> QED BY <1>2, <1>3, SeqEqual

(* What distinguishes the states that a trace leads to, distinguishes the  *)
(* states it comes from, behind the trace.                                 *)
LEMMA DifferBehind ==
  ASSUME NEW r \in Machines, Det(r), NEW p \in State, NEW q \in State,
         NEW t \in Seq(Input), NEW g \in Seq(Input),
         Differ(r, StateBy(r, p, t), StateBy(r, q, t), g)
  PROVE  Differ(r, p, q, t \o g)
<1>1. PICK a \in Seq(Output) : Len(a) = Len(t) /\ Answers(r, p, t, a)
  BY OneAnswer
<1>2. PICK b \in Seq(Output) : Len(b) = Len(t) /\ Answers(r, q, t, b)
  BY OneAnswer
<1>3. PICK c \in Seq(Output) : Answers(r, StateBy(r, p, t), g, c) /\ Answers(r, p, t \o g, a \o c)
  BY <1>1, AnswerToRest
<1>4. PICK d \in Seq(Output) : Answers(r, StateBy(r, q, t), g, d) /\ Answers(r, q, t \o g, b \o d)
  BY <1>2, AnswerToRest
<1>5. c # d
  <2>1. OutputsOf(r, StateBy(r, p, t), g) = {c} /\ OutputsOf(r, StateBy(r, q, t), g) = {d}
    BY <1>3, <1>4, OneOutput
  <2> QED BY <2>1 DEF Differ
<1>6. a \o c # b \o d
  BY <1>1, <1>2, <1>5, SameRest
<1>7. OutputsOf(r, p, t \o g) = {a \o c} /\ OutputsOf(r, q, t \o g) = {b \o d}
  BY <1>3, <1>4, OneOutput
<1> QED BY <1>6, <1>7 DEF Differ

(***************************************************************************)
(* calcDistinguishingTrace on P_k-tables: the pair that is looked at is    *)
(* separated by one table less after each round.                           *)
(***************************************************************************)
PkInv(p, q, c, j) ==
  /\ c.itrc \in Seq(Input)
  /\ c.qi = StateBy(rows, p, c.itrc) /\ c.qi \in State
  /\ c.qj = StateBy(rows, q, c.itrc) /\ c.qj \in State
  /\ <<c.qi, c.qj>> \in Table[j] /\ <<c.qi, c.qj>> \notin Table[j + 1]

(* What a table that separates two states more says of their transitions. *)
LEMMA TableOfPosts ==
  ASSUME MinimalRows, Det(rows), NEW s \in State, NEW o \in State, NEW j \in 1 .. numStates - 1,
         <<s, o>> \in Table[j]
  PROVE  /\ \A x \in Input : <<PostOf(rows, s, x), PostOf(rows, o, x)>> \in Table[j - 1]
         /\ <<s, o>> \notin Table[j + 1] =>
              \E x \in Input : <<PostOf(rows, s, x), PostOf(rows, o, x)>> \notin Table[j]
<1> DEFINE pr == <<s, o>>
<1>0. /\ rows \in Machines /\ numStates \in Nat \ {0}
      /\ j - 1 \in 0 .. numStates - 1 /\ (j - 1) + 1 = j /\ j \in 0 .. numStates - 1 /\ j \in 1 .. numStates
  BY NumStatesAssumption DEF MinimalRows
<1>1. pr \in Refined(Table[j - 1])
  BY <1>0, TableIs
<1>2. pr[1] = s /\ pr[2] = o
  OBVIOUS
<1>3. \A l \in Label : /\ rows[s][l] >= 0 <=> rows[o][l] >= 0
                       /\ rows[s][l] >= 0 => <<rows[s][l], rows[o][l]>> \in Table[j - 1]
  <2> HIDE DEF pr
  <2> QED BY <1>1, <1>2 DEF Refined
<1>4. \A x \in Input, y \in Output : rows[s][<<x, y>>] >= 0 =>
        /\ rows[o][<<x, y>>] >= 0
        /\ <<rows[s][<<x, y>>], rows[o][<<x, y>>]>> \in Table[j - 1]
        /\ rows[s][<<x, y>>] = PostOf(rows, s, x) /\ rows[o][<<x, y>>] = PostOf(rows, o, x)
  <2> SUFFICES ASSUME NEW x \in Input, NEW y \in Output, rows[s][<<x, y>>] >= 0
               PROVE  /\ rows[o][<<x, y>>] >= 0
                      /\ <<rows[s][<<x, y>>], rows[o][<<x, y>>]>> \in Table[j - 1]
                      /\ rows[s][<<x, y>>] = PostOf(rows, s, x) /\ rows[o][<<x, y>>] = PostOf(rows, o, x)
    OBVIOUS
  <2>1. <<x, y>> \in Label
    BY DEF Label
  <2>2. rows[o][<<x, y>>] >= 0 /\ <<rows[s][<<x, y>>], rows[o][<<x, y>>]>> \in Table[j - 1]
    BY <1>3, <2>1
  <2>3. rows[s][<<x, y>>] = PostOf(rows, s, x)
    BY <1>0, PostOfIs
  <2>4. rows[o][<<x, y>>] = PostOf(rows, o, x)
    BY <1>0, <2>2, PostOfIs
  <2> QED BY <2>2, <2>3, <2>4
<1>5. ASSUME NEW x \in Input PROVE <<PostOf(rows, s, x), PostOf(rows, o, x)>> \in Table[j - 1]
  <2>1. PICK y \in Output : rows[s][<<x, y>>] \in State
    BY <1>0, AnswerIs
  <2>2. rows[s][<<x, y>>] >= 0
    BY <1>0, <2>1, PostFacts
  <2> QED BY <1>4, <2>2
<1>6. ASSUME <<s, o>> \notin Table[j + 1]
      PROVE  \E x \in Input : <<PostOf(rows, s, x), PostOf(rows, o, x)>> \notin Table[j]
  <2>1. pr \in Table[j] /\ pr \notin Refined(Table[j])
    BY <1>0, <1>6, TableIs
  <2>2. PICK l \in Label : rows[s][l] >= 0 /\ <<rows[s][l], rows[o][l]>> \notin Table[j]
    <3> HIDE DEF pr
    <3> QED BY <1>2, <1>3, <2>1 DEF Refined
  <2>3. PICK x \in Input, y \in Output : l = <<x, y>>
    BY DEF Label
  <2>4. rows[s][l] = PostOf(rows, s, x) /\ rows[o][l] = PostOf(rows, o, x)
    BY <1>4, <2>2, <2>3
  <2> QED BY <2>2, <2>4
<1> QED BY <1>5, <1>6

(* So one round keeps the invariant, with the next smaller table. *)
LEMMA PkStep ==
  ASSUME MinimalRows, Det(rows), NEW p \in State, NEW q \in State, NEW c, NEW l, NEW k,
         l - k \in 1 .. numStates - 1, PkInv(p, q, c, l - k)
  PROVE  PkInv(p, q, PkMove(rows, Table, l, c, k), (l - k) - 1)
<1> DEFINE j == l - k
           X == {i \in Input : <<PostOf(rows, c.qi, i), PostOf(rows, c.qj, i)>> \notin Table[l - k]}
           x == Min(X)
           d == PkMove(rows, Table, l, c, k)
<1>0. rows \in Machines /\ j \in 1 .. numStates - 1 /\ (j - 1) + 1 = j
  BY DEF MinimalRows
<1>1. d = [qi |-> PostOf(rows, c.qi, x), qj |-> PostOf(rows, c.qj, x), itrc |-> Append(c.itrc, x)]
  BY DEF PkMove
<1>2. X = {i \in Input : <<PostOf(rows, c.qi, i), PostOf(rows, c.qj, i)>> \notin Table[j]}
  OBVIOUS
<1> HIDE DEF j, d
<1>3. /\ c.itrc \in Seq(Input) /\ c.qi \in State /\ c.qj \in State
      /\ c.qi = StateBy(rows, p, c.itrc) /\ c.qj = StateBy(rows, q, c.itrc)
      /\ <<c.qi, c.qj>> \in Table[j] /\ <<c.qi, c.qj>> \notin Table[j + 1]
  BY DEF PkInv, j
<1>4. X # {} /\ X \subseteq Nat
  <2>1. \E i \in Input : <<PostOf(rows, c.qi, i), PostOf(rows, c.qj, i)>> \notin Table[j]
    BY <1>0, <1>3, TableOfPosts
  <2> QED BY <1>2, <2>1, StateFacts
<1>5. x \in X
  <2> HIDE DEF X
  <2> QED BY <1>4, MinOf
<1> HIDE DEF x
<1>6. x \in Input /\ <<PostOf(rows, c.qi, x), PostOf(rows, c.qj, x)>> \notin Table[j]
  BY <1>2, <1>5
<1> HIDE DEF X
<1>7. <<PostOf(rows, c.qi, x), PostOf(rows, c.qj, x)>> \in Table[j - 1]
  BY <1>0, <1>3, <1>6, TableOfPosts
<1>8. PostOf(rows, c.qi, x) \in State /\ PostOf(rows, c.qj, x) \in State
  BY <1>0, <1>3, <1>6, PostOfIs
<1>9. /\ StateBy(rows, p, Append(c.itrc, x)) = PostOf(rows, c.qi, x)
      /\ StateBy(rows, q, Append(c.itrc, x)) = PostOf(rows, c.qj, x)
      /\ Append(c.itrc, x) \in Seq(Input)
  BY <1>3, <1>6, StateByStep, AppendExtends
<1>10. d.qi = PostOf(rows, c.qi, x) /\ d.qj = PostOf(rows, c.qj, x) /\ d.itrc = Append(c.itrc, x)
  BY <1>1
<1>11. PkInv(p, q, d, j - 1)
  BY <1>0, <1>6, <1>7, <1>8, <1>9, <1>10 DEF PkInv
<1> QED BY <1>11 DEF d, j

(* the rounds 1, 2, ..., n *)
Upto(n) == [k \in 1 .. n |-> k]

(* The rounds are numbered from 1. *)
LEMMA UptoIs ==
  /\ Upto(0) = << >>
  /\ \A n \in Nat : Upto(n) \in Seq(Nat) /\ Upto(n + 1) = Append(Upto(n), n + 1)
<1>1. Upto(0) = << >>
  BY DEF Upto
<1>2. ASSUME NEW n \in Nat PROVE Upto(n) \in Seq(Nat) /\ Len(Upto(n)) = n
  BY DEF Upto
<1>3. ASSUME NEW n \in Nat PROVE Upto(n + 1) = Append(Upto(n), n + 1)
  <2>1. /\ Upto(n) \in Seq(Nat) /\ Len(Upto(n)) = n
        /\ Upto(n + 1) \in Seq(Nat) /\ Len(Upto(n + 1)) = n + 1
    BY <1>2
  <2> DEFINE a == Append(Upto(n), n + 1)
  <2>2. a \in Seq(Nat) /\ Len(a) = n + 1 /\ \A i \in 1 .. n + 1 : a[i] = IF i = n + 1 THEN n + 1 ELSE Upto(n)[i]
    BY <2>1
  <2>3. \A i \in 1 .. n + 1 : a[i] = Upto(n + 1)[i]
    <3> HIDE DEF a
    <3> SUFFICES ASSUME NEW i \in 1 .. n + 1 PROVE a[i] = i
      BY DEF Upto
    <3>1. i = n + 1 \/ i \in 1 .. n
      OBVIOUS
    <3>2. i \in 1 .. n => Upto(n)[i] = i
      BY DEF Upto
    <3> QED BY <2>2, <3>1, <3>2
  <2> HIDE DEF a
  <2>4. a = Upto(n + 1)
    BY <2>1, <2>2, <2>3, SeqEqual
  <2> QED BY <2>4 DEF a
<1> QED BY <1>1, <1>2, <1>3

(* the pair after n rounds *)
PkPair(r, tables, l, p, q, n) == RunOf(<<"pk", r, tables, l>>, [qi |-> p, qj |-> q, itrc |-> << >>], Upto(n))

(* After all rounds the pair is separated by the first table. *)
LEMMA PkRounds ==
  ASSUME MinimalRows, Det(rows), NEW p \in State, NEW q \in State, NEW l \in 1 .. numStates,
         <<p, q>> \in Table[l - 1], <<p, q>> \notin Table[l]
  PROVE  PkInv(p, q, PkPair(rows, Table, l, p, q, l - 1), 0)
<1> DEFINE m == <<"pk", rows, Table, l>>
           base == [qi |-> p, qj |-> q, itrc |-> << >>]
           Holds(n) == PkInv(p, q, RunOf(m, base, Upto(n)), (l - 1) - n)
           A == {n \in Nat : n <= l - 1 => Holds(n)}
<1>0. numStates \in Nat \ {0} /\ (l - 1) - 0 = l - 1 /\ (l - 1) + 1 = l /\ (l - 1) - (l - 1) = 0 /\ l - 1 \in Nat
  BY NumStatesAssumption
<1>1. 0 \in A
  <2>1. RunOf(m, base, Upto(0)) = base
    <3> HIDE DEF m, base
    <3> QED BY UptoIs, RunOfEmpty
  <2>2. base.qi = p /\ base.qj = q /\ base.itrc = << >>
    OBVIOUS
  <2> HIDE DEF base
  <2>3. PkInv(p, q, base, l - 1)
    <3>1. << >> \in Seq(Input)
      OBVIOUS
    <3> QED BY <1>0, <2>2, <3>1, StateByEmpty DEF PkInv
  <2>4. Holds(0)
    BY <1>0, <2>1, <2>3
  <2> HIDE DEF Holds
  <2> QED BY <2>4
<1>2. ASSUME NEW n \in Nat, n \in A PROVE n + 1 \in A
  <2> SUFFICES ASSUME n + 1 <= l - 1 PROVE Holds(n + 1)
    <3> HIDE DEF Holds
    <3> QED OBVIOUS
  <2> DEFINE c == RunOf(m, base, Upto(n))
             k == n + 1
  <2>1. /\ l - k \in 1 .. numStates - 1 /\ (l - 1) - n = l - k /\ (l - 1) - k = (l - k) - 1 /\ n <= l - 1
        /\ (l - 1) - (n + 1) = (l - k) - 1
    BY <1>0
  <2>2. PkInv(p, q, c, l - k)
    <3>1. Holds(n)
      <4> HIDE DEF Holds
      <4> QED BY <1>2, <2>1
    <3> QED BY <2>1, <3>1
  <2>3. RunOf(m, base, Upto(n + 1)) = PkMove(rows, Table, l, c, k)
    <3>1. RunOf(m, base, Append(Upto(n), k)) = StepOf(m, c, k)
      <4>1. Upto(n) \in Seq(Nat) /\ k \in Nat
        BY UptoIs
      <4> HIDE DEF m, base, k
      <4> QED BY <4>1, RunOfAppend
    <3>2. StepOf(m, c, k) = PkMove(rows, Table, l, c, k)
      <4> HIDE DEF c, k
      <4> QED BY StepCases
    <3>3. Upto(n + 1) = Append(Upto(n), k)
      BY UptoIs
    <3> QED BY <3>1, <3>2, <3>3
  <2> HIDE DEF c, k, m, base
  <2>4. PkInv(p, q, PkMove(rows, Table, l, c, k), (l - k) - 1)
    BY <2>1, <2>2, PkStep
  <2> QED BY <2>1, <2>3, <2>4
<1> HIDE DEF A
<1>3. l - 1 \in A
  BY <1>0, <1>1, <1>2, SetInduction
<1>4. Holds(l - 1)
  <2> HIDE DEF Holds
  <2> QED BY <1>0, <1>3 DEF A
<1> QED BY <1>0, <1>4 DEF PkPair

(* One input has one output. *)
LEMMA OneOutputOf ==
  ASSUME NEW r \in Machines, Det(r), NEW s \in State, NEW x \in Input,
         NEW y \in Output, r[s][<<x, y>>] \in State
  PROVE  \A z \in Output : r[s][<<x, z>>] \in State => z = y
<1>1. PICK v \in Output : \A z \in Output \ {v} : ~(r[s][<<x, z>>] >= 0)
  BY PostOfIs
<1>2. \A z \in Output : r[s][<<x, z>>] \in State => z = v
  BY <1>1, PostFacts
<1> QED BY <1>2

(* The answer to a single input. *)
LEMMA AnswerOne ==
  ASSUME NEW r \in Machines, Det(r), NEW s \in State, NEW x \in Input,
         NEW y \in Output, r[s][<<x, y>>] \in State
  PROVE  Answers(r, s, <<x>>, <<y>>)
<1> DEFINE e == << >>
<1>1. e \in Seq(Input) /\ Append(e, x) = <<x>> /\ Append(e, y) = <<y>>
  OBVIOUS
<1>2. Answers(r, s, e, e) /\ StateBy(r, s, e) = s
  BY AnswerEmpty, StateByEmpty
<1> HIDE DEF e
<1>3. Answers(r, s, Append(e, x), Append(e, y))
  BY <1>1, <1>2, AnswerStep
<1> QED BY <1>1, <1>3

(* The last input. *)
LEMMA LastPkInput ==
  ASSUME MinimalRows, Det(rows), NEW s \in State, NEW o \in State, <<s, o>> \notin Table[1]
  PROVE  LET X == {x \in Input : Distinguished(s, o, <<x>>)}
         IN  Min(X) \in Input /\ Differ(rows, s, o, <<Min(X)>>)
<1> DEFINE X == {x \in Input : Distinguished(s, o, <<x>>)}
<1>0. rows \in Machines /\ numStates \in Nat \ {0} /\ 0 \in 0 .. numStates - 1 /\ 0 + 1 = 1
  BY NumStatesAssumption DEF MinimalRows
<1>1. \A x \in Input : <<x>> \in Seq(Input)
  OBVIOUS
<1>2. \A x \in Input : Distinguished(s, o, <<x>>) <=> Differ(rows, s, o, <<x>>)
  BY <1>1, DistinguishedIs
<1>3. \E x \in Input : Differ(rows, s, o, <<x>>)
  <2> DEFINE pr == <<s, o>>
  <2>1. pr \in State \X State /\ pr \notin Refined(State \X State) /\ pr[1] = s /\ pr[2] = o
    BY <1>0, TableIs
  <2>2. PICK l \in Label : \/ (rows[s][l] >= 0) # (rows[o][l] >= 0)
                           \/ rows[s][l] >= 0 /\ <<rows[s][l], rows[o][l]>> \notin State \X State
    <3> DEFINE E == State \X State
    <3> HIDE DEF pr, E
    <3>1. pr \in E /\ pr \notin Refined(E)
      BY <2>1 DEF E
    <3>2. \E l \in Label : \/ (rows[s][l] >= 0) # (rows[o][l] >= 0)
                           \/ rows[s][l] >= 0 /\ <<rows[s][l], rows[o][l]>> \notin E
      BY <2>1, <3>1 DEF Refined
    <3> QED BY <3>2 DEF E
  <2>3. PICK x \in Input, y \in Output : l = <<x, y>>
    BY DEF Label
  <2>4. (rows[s][<<x, y>>] \in State) # (rows[o][<<x, y>>] \in State)
    BY <1>0, <2>2, <2>3, PostFacts
  <2>5. PICK a \in Output : rows[s][<<x, a>>] \in State
    BY <1>0, AnswerIs
  <2>6. PICK b \in Output : rows[o][<<x, b>>] \in State
    BY <1>0, AnswerIs
  <2>7. a # b
    <3>1. \A z \in Output : rows[s][<<x, z>>] \in State => z = a
      BY <1>0, <2>5, OneOutputOf
    <3>2. \A z \in Output : rows[o][<<x, z>>] \in State => z = b
      BY <1>0, <2>6, OneOutputOf
    <3> QED BY <2>4, <2>5, <2>6, <3>1, <3>2
  <2>8. Answers(rows, s, <<x>>, <<a>>) /\ Answers(rows, o, <<x>>, <<b>>)
    BY <1>0, <2>5, <2>6, AnswerOne
  <2>9. OutputsOf(rows, s, <<x>>) = {<<a>>} /\ OutputsOf(rows, o, <<x>>) = {<<b>>}
    BY <2>8, OneOutput
  <2>10. <<a>> # <<b>>
    BY <2>7
  <2> QED BY <2>9, <2>10 DEF Differ
<1>4. X # {} /\ X \subseteq Nat
  BY <1>2, <1>3, StateFacts
<1> HIDE DEF X
<1>5. Min(X) \in X
  BY <1>4, MinOf
<1> QED BY <1>2, <1>5 DEF X

(* The trace that the loops find. *)
LEMMA PkTraceIs ==
  ASSUME NEW p, NEW q, NEW l, l = Min({k \in 1 .. numStates : <<p, q>> \notin Table[k]}), l - 1 \in Nat
  PROVE  LET c == PkPair(rows, Table, l, p, q, l - 1)
         IN  PkTrace(p, q) = Append(c.itrc, Min({x \in Input : Distinguished(c.qi, c.qj, <<x>>)}))
<1> DEFINE m == <<"pk", rows, Table, l>>
           base == [qi |-> p, qj |-> q, itrc |-> << >>]
           t == [k \in 1 .. l - 1 |-> k]
           D == DOMAIN t
           Op(c, k) ==
             LET x == Min({i \in Input : <<StateAfter(c.qi, <<i>>), StateAfter(c.qj, <<i>>)>> \notin Table[l - k]})
             IN  [qi |-> StateAfter(c.qi, <<x>>), qj |-> StateAfter(c.qj, <<x>>), itrc |-> Append(c.itrc, x)]
           Is(iter) == iter = [s \in SUBSET D |-> IF s = {} THEN base
                                ELSE Op(iter[s \ {Max(s)}], t[Max(s)])]
           it == CHOOSE iter : Is(iter)
           Result(d) == Append(d.itrc, Min({x \in Input : Distinguished(d.qi, d.qj, <<x>>)}))
<1>1. PkTrace(p, q) = Result(it[D])
  BY DEF PkTrace, FoldLeft, MapThenFoldSet
<1>2. \A a, b : StepOf(m, a, b) = Op(a, b)
  <2>0. \A a, b : StepOf(m, a, b) = PkMove(rows, Table, l, a, b)
    BY StepCases
  <2>1. \A s, x : StateAfter(s, <<x>>) = PostOf(rows, s, x)
    BY StateByOne
  <2> SUFFICES ASSUME NEW a, NEW b PROVE PkMove(rows, Table, l, a, b) = Op(a, b)
    <3> HIDE DEF Op, m
    <3> QED BY <2>0
  <2>2. {i \in Input : <<StateAfter(a.qi, <<i>>), StateAfter(a.qj, <<i>>)>> \notin Table[l - b]} =
        {i \in Input : <<PostOf(rows, a.qi, i), PostOf(rows, a.qj, i)>> \notin Table[l - b]}
    BY <2>1
  <2> QED BY <2>1, <2>2 DEF PkMove
<1>3. t = Upto(l - 1) /\ t \in Seq(Nat)
  BY UptoIs DEF Upto
<1> HIDE DEF Op, m, base, Result, t
<1>4. \A iter : Is(iter) <=> IsFold(iter, m, base, t)
  BY <1>2 DEF IsFold
<1>5. \E iter : Is(iter)
  BY <1>3, <1>4, FoldExists
<1> HIDE DEF Is
<1>6. Is(it)
  BY <1>5
<1> HIDE DEF it
<1>7. IsFold(it, m, base, t)
  BY <1>4, <1>6
<1>8. it[D] = RunOf(m, base, t)
  BY <1>3, <1>7, FoldIsRun
<1>9. it[D] = PkPair(rows, Table, l, p, q, l - 1)
  BY <1>3, <1>8 DEF PkPair, m, base
<1> QED BY <1>1, <1>9 DEF Result

(* Together: the trace distinguishes any two states of a minimal machine. *)
LEMMA PkTraceDistinguishes ==
  ASSUME MinimalRows, Det(rows), NEW p \in State, NEW q \in State, p # q
  PROVE  PkTrace(p, q) \in Seq(Input) /\ Differ(rows, p, q, PkTrace(p, q))
<1> DEFINE K == {k \in 1 .. numStates : <<p, q>> \notin Table[k]}
           l == Min(K)
           c == PkPair(rows, Table, l, p, q, l - 1)
           x == Min({i \in Input : Distinguished(c.qi, c.qj, <<i>>)})
<1>0. rows \in Machines /\ numStates \in Nat \ {0}
  BY NumStatesAssumption DEF MinimalRows
<1>1. K # {} /\ K \subseteq Nat
  <2>1. <<p, q>> \notin Table[numStates]
    BY DEF MinimalRows, Identity2
  <2> QED BY <1>0, <2>1
<1>2. l \in K /\ \A k \in K : l <= k
  <2> HIDE DEF K
  <2> QED BY <1>1, MinOf
<1>3. l = Min({k \in 1 .. numStates : <<p, q>> \notin Table[k]})
  OBVIOUS
<1> HIDE DEF l
<1>4. l \in 1 .. numStates /\ <<p, q>> \notin Table[l] /\ l - 1 \in Nat
  BY <1>2
<1>5. <<p, q>> \in Table[l - 1]
  <2>1. CASE l = 1
    <3>1. Table[0] = State \X State
      BY TableIs
    <3> QED BY <2>1, <3>1
  <2>2. CASE l # 1
    <3>1. l - 1 \in 1 .. numStates /\ ~(l <= l - 1)
      BY <1>0, <1>4, <2>2
    <3> QED BY <1>2, <3>1
  <2> QED BY <2>1, <2>2
<1>6. PkTrace(p, q) = Append(c.itrc, x)
  BY <1>3, <1>4, PkTraceIs
<1>7. PkInv(p, q, c, 0)
  BY <1>4, <1>5, PkRounds
<1> HIDE DEF c
<1>8. /\ c.itrc \in Seq(Input) /\ c.qi = StateBy(rows, p, c.itrc) /\ c.qi \in State
      /\ c.qj = StateBy(rows, q, c.itrc) /\ c.qj \in State /\ <<c.qi, c.qj>> \notin Table[1]
  BY <1>7 DEF PkInv
<1>9. x \in Input /\ Differ(rows, c.qi, c.qj, <<x>>)
  BY <1>8, LastPkInput
<1> HIDE DEF x
<1>10. <<x>> \in Seq(Input) /\ c.itrc \o <<x>> = Append(c.itrc, x) /\ Append(c.itrc, x) \in Seq(Input)
  BY <1>8, <1>9, AppendIsConcat, AppendExtends
<1>11. Differ(rows, p, q, c.itrc \o <<x>>)
  BY <1>0, <1>8, <1>9, <1>10, DifferBehind
<1> QED BY <1>6, <1>10, <1>11

(***************************************************************************)
(* The distinguishing traces that the loop chooses from.                   *)
(***************************************************************************)
(* What a tree holds behind a trace. *)
LEMMA SubTreeIs ==
  ASSUME NEW T \in SUBSET Seq(Input), NEW u \in Seq(Input)
  PROVE  /\ SubTree(T, u) \subseteq Seq(Input)
         /\ \A t \in Seq(Input) : u \o t \in T => t \in SubTree(T, u)
<1>1. ASSUME NEW v \in T PROVE SubSeq(v, Len(u) + 1, Len(v)) \in Seq(Input)
  <2>1. v \in Seq(Input) /\ Len(v) \in Nat /\ Len(u) + 1 \in Nat /\ Len(u) + 1 >= 1
    OBVIOUS
  <2>2. \A j \in Len(u) + 1 .. Len(v) : v[j] \in Input
    BY <2>1
  <2> QED BY <2>1, <2>2, SubSeqProperties
<1>2. ASSUME NEW t \in Seq(Input), u \o t \in T PROVE t \in SubTree(T, u)
  <2> DEFINE v == u \o t
             a == SubSeq(v, Len(u) + 1, Len(v))
  <2>1. v \in Seq(Input) /\ Len(v) = Len(u) + Len(t) /\ Len(u) \in Nat /\ Len(t) \in Nat
    OBVIOUS
  <2>2. \A j \in 1 .. Len(t) : v[Len(u) + j] = t[j]
    OBVIOUS
  <2>3. IsPrefix(u, v) /\ v \in T
    BY <1>2, PrefixOfConcat
  <2> HIDE DEF v
  <2>4. a \in Seq(Input) /\ Len(a) = Len(t) /\ \A j \in 1 .. Len(t) : a[j] = t[j]
    BY <2>1, <2>2
  <2> HIDE DEF a
  <2>5. a = t
    BY <2>4, SeqEqual
  <2> QED BY <2>3, <2>5 DEF SubTree, a
<1> QED BY <1>1, <1>2 DEF SubTree

(* The tree of the prefix relation. *)
LEMMA RelationTreeIs ==
  ASSUME NEW A \in SUBSET Seq(Input), NEW B \in SUBSET Seq(Input)
  PROVE  PrefixRelationTree(A, B) \subseteq Seq(Input)
<1>1. Leaves(A) \subseteq Seq(Input) /\ Leaves(B) \subseteq Seq(Input)
  BY DEF Leaves
<1>2. << >> \in Seq(Input)
  OBVIOUS
<1>3. \A t \in Seq(Input) : Prefixes(t) \subseteq Seq(Input)
  BY PrefixesAre
<1> QED BY <1>1, <1>2, <1>3 DEF PrefixRelationTree

(* Whatever the tree: what is chosen distinguishes the two states. *)
LEMMA ChosenDistinguishes ==
  ASSUME MinimalRows, Det(rows), NEW p \in State, NEW q \in State, p # q,
         NEW T \in SUBSET Seq(Input), NEW g \in DistinguishingTraces(p, q, T)
  PROVE  g \in Seq(Input) /\ Differ(rows, p, q, g)
<1>0. rows \in Machines /\ Leaves(T) \subseteq Seq(Input)
  BY DEF MinimalRows, Leaves
<1>1. CASE g \in InTree(p, q, T)
  <2>1. g \in T /\ Distinguished(p, q, g)
    BY <1>1 DEF InTree
  <2> QED BY <2>1, DistinguishedIs
<1>2. CASE g \in AfterTree(p, q, T)
  <2>1. PICK t \in Leaves(T) : /\ StateAfter(p, t) # StateAfter(q, t)
                               /\ g = t \o PkTrace(StateAfter(p, t), StateAfter(q, t))
    BY <1>2 DEF AfterTree
  <2> DEFINE a == StateBy(rows, p, t)
             b == StateBy(rows, q, t)
             s == PkTrace(a, b)
  <2>2. t \in Seq(Input) /\ StateAfter(p, t) = a /\ StateAfter(q, t) = b
    BY <1>0, StateAfterIs
  <2>3. a \in State /\ b \in State /\ a # b
    BY <1>0, <2>1, <2>2, StateByTyped
  <2>4. s \in Seq(Input) /\ Differ(rows, a, b, s)
    BY <2>3, PkTraceDistinguishes
  <2>5. g = t \o s
    BY <2>1, <2>2
  <2> HIDE DEF s
  <2>6. Differ(rows, p, q, t \o s)
    BY <1>0, <2>2, <2>4, DifferBehind
  <2>7. t \o s \in Seq(Input)
    BY <2>2, <2>4
  <2> QED BY <2>5, <2>6, <2>7
<1>3. CASE g = PkTrace(p, q)
  BY <1>3, PkTraceDistinguishes
<1> QED BY <1>1, <1>2, <1>3 DEF DistinguishingTraces

(***************************************************************************)
(* The loop: what it has still to do.                                      *)
(***************************************************************************)
(* the traces of listed are told apart, or will be *)
ToldOrOpen(r, T, listed, u, v) == ToldApart(r, T, u, v) \/ <<u, v>> \in listed \/ <<v, u>> \in listed

(* every pair of the H condition is told apart, or will be *)
HOpen(r, T, V, m, listed) ==
  /\ \A u \in Ext(V, m + 1), v \in V : ToldOrOpen(r, T, listed, u, v)
  /\ \A v \in V, b \in Seq(Input), i \in 1 .. m :
       i < Len(b) /\ Len(b) <= m + 1 => ToldOrOpen(r, T, listed, v \o SubSeq(b, 1, i), v \o b)

(* the invariant of the loop, for the tree T and the pairs o *)
LoopKeeps(r, T, V, m, o) ==
  /\ T \in SUBSET Seq(Input) /\ Bounded(T)
  /\ Ext(V, m + 1) \subseteq T
  /\ o \in Seq(Ext(V, m + 1) \X Ext(V, m + 1))
  /\ HOpen(r, T, V, m, Range(o))

(* When nothing is left, the H condition holds. *)
LEMMA NothingOpen ==
  ASSUME NEW r, NEW T, NEW V, NEW m, LoopKeeps(r, T, V, m, << >>)
  PROVE  HTree(r, T, V, m)
<1>1. Range(<< >>) = {}
  BY DEF Range
<1> QED BY <1>1 DEF LoopKeeps, HOpen, ToldOrOpen, HTree

(* The order of two traces does not matter. *)
LEMMA ToldApartSymmetric ==
  ASSUME NEW r, NEW T, NEW u, NEW v, ToldApart(r, T, u, v)
  PROVE  ToldApart(r, T, v, u)
BY DifferSymmetric DEF ToldApart

(* Traces that are told apart remain so when the tree grows. *)
LEMMA ToldApartGrows ==
  ASSUME NEW r, NEW T, NEW U, T \subseteq U, NEW u, NEW v, ToldApart(r, T, u, v)
  PROVE  ToldApart(r, U, u, v)
BY DEF ToldApart

(* One pair less. *)
LEMMA OnePairLess ==
  ASSUME NEW r, NEW T, NEW U, T \subseteq U, NEW listed, NEW left1, NEW u, NEW v,
         ToldApart(r, U, u, v), listed \subseteq left1 \cup {<<u, v>>}, NEW a, NEW b, ToldOrOpen(r, T, listed, a, b)
  PROVE  ToldOrOpen(r, U, left1, a, b)
<1>1. CASE ToldApart(r, T, a, b)
  BY <1>1, ToldApartGrows DEF ToldOrOpen
<1>2. CASE <<a, b>> \in listed
  <2>1. <<a, b>> \in left1 \/ (a = u /\ b = v)
    BY <1>2
  <2> QED BY <2>1 DEF ToldOrOpen
<1>3. CASE <<b, a>> \in listed
  <2>1. <<b, a>> \in left1 \/ (b = u /\ a = v)
    BY <1>3
  <2> QED BY <2>1, ToldApartSymmetric DEF ToldOrOpen
<1> QED BY <1>1, <1>2, <1>3 DEF ToldOrOpen

(* The first pair, and the others. *)
LEMMA FirstPair ==
  ASSUME NEW X, NEW s \in Seq(X), s # << >>
  PROVE  /\ Head(s) \in X /\ Tail(s) \in Seq(X)
         /\ Range(s) \subseteq Range(Tail(s)) \cup {Head(s)}
<1>1. Head(s) \in X /\ Tail(s) \in Seq(X) /\ Len(Tail(s)) = Len(s) - 1 /\ Head(s) = s[1]
      /\ \A i \in 1 .. Len(Tail(s)) : Tail(s)[i] = s[i + 1]
  OBVIOUS
<1>2. ASSUME NEW i \in DOMAIN s PROVE s[i] \in Range(Tail(s)) \cup {Head(s)}
  <2>0. i \in 1 .. Len(s) /\ DOMAIN Tail(s) = 1 .. Len(Tail(s)) /\ Len(s) \in Nat
    BY <1>1
  <2>1. CASE i = 1
    BY <1>1, <2>1
  <2>2. CASE i # 1
    <3>1. i - 1 \in DOMAIN Tail(s) /\ (i - 1) + 1 = i
      BY <1>1, <2>0, <2>2
    <3>2. Tail(s)[i - 1] = s[i]
      BY <1>1, <2>0, <3>1
    <3> QED BY <3>1, <3>2 DEF Range
  <2> QED BY <2>1, <2>2
<1> QED BY <1>1, <1>2 DEF Range

(* A trace and its prefixes make the tree no more than finitely deeper. *)
LEMMA PrefixesBounded ==
  ASSUME NEW T \in SUBSET Seq(Input), Bounded(T), NEW s \in Seq(Input)
  PROVE  T \cup Prefixes(s) \in SUBSET Seq(Input) /\ Bounded(T \cup Prefixes(s)) /\ s \in T \cup Prefixes(s)
<1>1. s \in Prefixes(s) /\ \A u \in Prefixes(s) : u \in Seq(Input) /\ IsPrefix(u, s)
  BY PrefixesAre
<1>2. \A u \in Prefixes(s) : Len(u) <= Len(s)
  BY <1>1, PrefixIs
<1>3. PICK b \in Nat : \A t \in T : Len(t) <= b
  BY DEF Bounded
<1>4. Len(s) \in Nat /\ b + Len(s) \in Nat
  OBVIOUS
<1>5. \A t \in T \cup Prefixes(s) : Len(t) \in Nat
  BY <1>1
<1>6. \A t \in T \cup Prefixes(s) : Len(t) <= b + Len(s)
  BY <1>2, <1>3, <1>4, <1>5
<1> QED BY <1>1, <1>4, <1>6 DEF Bounded

(* The loop body keeps the invariant. *)
LEMMA PairStep ==
  ASSUME MinimalRows, Det(rows), NEW V \in SUBSET Seq(Input), NEW m \in Nat,
         LoopKeeps(rows, iTree, V, m, open), DistinguishPair
  PROVE  LoopKeeps(rows, iTree', V, m, open')
<1> DEFINE E == Ext(V, m + 1)
           EE == E \X E
           u == Head(open)[1]
           v == Head(open)[2]
           p == StateBy(rows, 0, u)
           q == StateBy(rows, 0, v)
<1>0. /\ iTree \in SUBSET Seq(Input) /\ Bounded(iTree) /\ E \subseteq iTree
      /\ open \in Seq(EE) /\ HOpen(rows, iTree, V, m, Range(open)) /\ open # << >>
      /\ rows \in Machines /\ 0 \in State
  BY StateFacts DEF LoopKeeps, DistinguishPair, MinimalRows
<1>1. /\ Head(open) \in EE /\ open' \in Seq(EE) /\ Range(open) \subseteq Range(open') \cup {Head(open)}
  <2> HIDE DEF EE
  <2> QED BY <1>0, FirstPair DEF DistinguishPair
<1>2. u \in E /\ v \in E /\ Head(open) = <<u, v>>
  BY <1>1
<1>3. u \in Seq(Input) /\ v \in Seq(Input) /\ u \in iTree /\ v \in iTree
  BY <1>0, <1>2
<1>4. StateAfter(0, u) = p /\ StateAfter(0, v) = q /\ p \in State /\ q \in State
  BY <1>0, <1>3, StateAfterIs, StateByTyped
<1> DEFINE R == PrefixRelationTree(SubTree(iTree, u), SubTree(iTree, v))
<1>5. R \in SUBSET Seq(Input)
  BY <1>0, <1>3, SubTreeIs, RelationTreeIs
<1>6. \/ p = q /\ iTree' = iTree
      \/ p # q /\ \E gamma \in DistinguishingTraces(p, q, R) :
                    iTree' = iTree \cup Prefixes(u \o gamma) \cup Prefixes(v \o gamma)
  <2>1. \/ StateAfter(0, u) = StateAfter(0, v) /\ iTree' = iTree
        \/ StateAfter(0, u) # StateAfter(0, v) /\ \E gamma \in DistinguishingTraces(StateAfter(0, u), StateAfter(0, v), R) :
                    iTree' = iTree \cup Prefixes(u \o gamma) \cup Prefixes(v \o gamma)
    BY DEF DistinguishPair
  <2> HIDE DEF R, p, q, u, v
  <2> QED BY <1>4, <2>1
<1> HIDE DEF R, p, q
<1>7. /\ iTree' \in SUBSET Seq(Input) /\ Bounded(iTree') /\ iTree \subseteq iTree'
      /\ ToldApart(rows, iTree', u, v)
  <2>1. CASE p = q /\ iTree' = iTree
    BY <1>0, <2>1 DEF ToldApart, p, q
  <2>2. CASE p # q /\ \E gamma \in DistinguishingTraces(p, q, R) :
                    iTree' = iTree \cup Prefixes(u \o gamma) \cup Prefixes(v \o gamma)
    <3>1. PICK gamma \in DistinguishingTraces(p, q, R) :
                    iTree' = iTree \cup Prefixes(u \o gamma) \cup Prefixes(v \o gamma)
      BY <2>2
    <3>2. gamma \in Seq(Input) /\ Differ(rows, p, q, gamma)
      BY <1>4, <1>5, <2>2, ChosenDistinguishes
    <3> HIDE DEF u, v
    <3> DEFINE a == u \o gamma
               b == v \o gamma
               W == iTree \cup Prefixes(a)
    <3>3. a \in Seq(Input) /\ b \in Seq(Input)
      BY <1>3, <3>2
    <3> HIDE DEF a, b
    <3>4. W \in SUBSET Seq(Input) /\ Bounded(W) /\ a \in W
      BY <1>0, <3>3, PrefixesBounded
    <3> HIDE DEF W
    <3>5. W \cup Prefixes(b) \in SUBSET Seq(Input) /\ Bounded(W \cup Prefixes(b)) /\ b \in W \cup Prefixes(b)
      BY <3>3, <3>4, PrefixesBounded
    <3>6. iTree' = W \cup Prefixes(b) /\ iTree \subseteq W
      BY <3>1 DEF W, a, b
    <3>7. u \o gamma \in iTree' /\ v \o gamma \in iTree'
      BY <3>4, <3>5, <3>6 DEF a, b
    <3> QED BY <3>2, <3>5, <3>6, <3>7 DEF ToldApart, p, q
  <2> QED BY <1>6, <2>1, <2>2
<1> HIDE DEF u, v
<1>8. ASSUME NEW a, NEW b, ToldOrOpen(rows, iTree, Range(open), a, b)
      PROVE  ToldOrOpen(rows, iTree', Range(open'), a, b)
  <2> DEFINE listed == Range(open)
             more == Range(open')
  <2>1. listed \subseteq more \cup {<<u, v>>}
    BY <1>1, <1>2
  <2> HIDE DEF listed, more
  <2>2. ToldOrOpen(rows, iTree, listed, a, b)
    BY <1>8 DEF listed
  <2>3. ToldOrOpen(rows, iTree', more, a, b)
    BY <1>7, <2>1, <2>2, OnePairLess
  <2> QED BY <2>3 DEF more
<1>9. HOpen(rows, iTree', V, m, Range(open'))
  BY <1>0, <1>8 DEF HOpen
<1> QED BY <1>0, <1>1, <1>7, <1>9 DEF LoopKeeps

(* A prefix of a trace is among its prefixes. *)
LEMMA PrefixIsIn ==
  ASSUME NEW u \in Seq(Input), NEW s \in Seq(Input), IsPrefix(u, s)
  PROVE  u \in Prefixes(s)
<1> DEFINE a == SubSeq(s, 1, Len(u))
<1>1. Len(u) <= Len(s) /\ \A i \in 1 .. Len(u) : u[i] = s[i]
  BY PrefixIs
<1>2. a \in Seq(Input) /\ Len(a) = Len(u) /\ \A i \in 1 .. Len(u) : a[i] = s[i]
  BY <1>1, SplitAt
<1>3. Len(u) \in 0 .. Len(s)
  BY <1>1
<1> HIDE DEF a
<1>4. a = u
  BY <1>1, <1>2, SeqEqual
<1> QED BY <1>3, <1>4 DEF Prefixes, a

(* A trace can be made longer. *)
LEMMA LongerTrace ==
  ASSUME NEW b \in Seq(Input), NEW n \in Nat, Len(b) <= n
  PROVE  \E c \in Seq(Input) : Len(c) = n /\ IsPrefix(b, c) /\ \A i \in 0 .. Len(b) : SubSeq(c, 1, i) = SubSeq(b, 1, i)
<1> DEFINE c == [i \in 1 .. n |-> IF i <= Len(b) THEN b[i] ELSE 0]
<1>1. c \in Seq(Input) /\ Len(c) = n
  BY StateFacts
<1>2. \A i \in 1 .. Len(b) : b[i] = c[i]
  OBVIOUS
<1> HIDE DEF c
<1>3. IsPrefix(b, c)
  BY <1>1, <1>2, PrefixIs
<1>4. ASSUME NEW i \in 0 .. Len(b) PROVE SubSeq(c, 1, i) = SubSeq(b, 1, i)
  <2> DEFINE d == SubSeq(c, 1, i)
             e == SubSeq(b, 1, i)
  <2>1. i \in 0 .. Len(c)
    BY <1>1
  <2>2. d \in Seq(Input) /\ Len(d) = i /\ \A j \in 1 .. i : d[j] = c[j]
    BY <1>1, <2>1, SplitAt
  <2>3. e \in Seq(Input) /\ Len(e) = i /\ \A j \in 1 .. i : e[j] = b[j]
    BY SplitAt
  <2> HIDE DEF d, e
  <2>4. \A j \in 1 .. i : d[j] = e[j]
    BY <1>2, <2>2, <2>3
  <2>5. d = e
    BY <2>2, <2>3, <2>4, SeqEqual
  <2> QED BY <2>5 DEF d, e
<1> QED BY <1>1, <1>3, <1>4

(* The first tree holds all extensions of the cover. *)
LEMMA FirstTree ==
  ASSUME NEW V \in SUBSET Seq(Input), Bounded(V), NEW k \in Nat
  PROVE  LET T == Add(V, InputEnum(k, k))
         IN  T \in SUBSET Seq(Input) /\ Bounded(T) /\ Ext(V, k) \subseteq T
<1> DEFINE S == InputEnum(k, k)
           T == Add(V, S)
<1>1. S = {b \in Seq(Input) : k <= Len(b) /\ Len(b) <= k} /\ S \in SUBSET Seq(Input) /\ Bounded(S)
  BY EnumIs
<1> HIDE DEF S
<1>2. T \subseteq Seq(Input) /\ Bounded(T)
  BY <1>1, AddIs, AddBounded
<1>3. ASSUME NEW u \in Ext(V, k) PROVE u \in T
  <2>1. PICK v \in V, b \in Seq(Input) : Len(b) <= k /\ u = v \o b
    BY DEF Ext
  <2>2. PICK c \in Seq(Input) : Len(c) = k /\ IsPrefix(b, c)
    BY <2>1, LongerTrace
  <2>3. c \in S
    BY <1>1, <2>2
  <2>4. v \o c \in Seq(Input) /\ u \in Seq(Input) /\ v \in Seq(Input)
    BY <2>1
  <2>5. IsPrefix(u, v \o c)
    BY <2>1, <2>2, <2>4, PrefixOfConcat
  <2>6. u \in Prefixes(v \o c)
    BY <2>4, <2>5, PrefixIsIn
  <2> QED BY <2>3, <2>6 DEF Add, AddAfter
<1> QED BY <1>2, <1>3 DEF S

(* All pairs together. *)
AllPairs == CoverPairs \o ExtensionPairs \o PrefixPairs

(* They are pairs of extensions of the cover. *)
LEMMA AllPairsHave ==
  ASSUME Listing(scov), numAddStates \in Nat
  PROVE  LET E == Ext(scov, numAddStates + 1)
         IN  /\ AllPairs \in Seq(E \X E)
             /\ Range(AllPairs) = Range(CoverPairs) \cup Range(ExtensionPairs) \cup Range(PrefixPairs)
<1> DEFINE E == Ext(scov, numAddStates + 1)
           X == E \X E
           a == CoverPairs
           b == ExtensionPairs
           c == PrefixPairs
<1>0. numAddStates + 1 \in Nat /\ scov \in SUBSET Seq(Input)
  BY DEF Listing
<1>1. scov \subseteq E
  BY <1>0, ExtFacts
<1>2. scov \X scov \subseteq X /\ E \X scov \subseteq X
  BY <1>1
<1>3. a \in Seq(scov \X scov) /\ b \in Seq(E \X scov) /\ c \in Seq(X)
  BY CoverPairsHave, ExtensionPairsHave, PrefixPairsHave
<1> HIDE DEF a, b, c, X
<1>4. a \in Seq(X) /\ b \in Seq(X) /\ c \in Seq(X)
  BY <1>2, <1>3
<1> DEFINE d == a \o b
<1>5. Range(d) = Range(a) \cup Range(b) /\ d \in Seq(X)
  BY <1>4, ConcatRange
<1> HIDE DEF d
<1>6. Range(d \o c) = Range(d) \cup Range(c) /\ d \o c \in Seq(X)
  BY <1>4, <1>5, ConcatRange
<1>7. AllPairs = d \o c
  BY DEF AllPairs, a, b, c, d
<1> QED BY <1>5, <1>6, <1>7 DEF a, b, c, X

(* They are all that has to be told apart. *)
LEMMA AllPairsOpen ==
  ASSUME Listing(scov), numAddStates \in Nat, NEW T
  PROVE  HOpen(rows, T, scov, numAddStates, Range(AllPairs))
<1> DEFINE m == numAddStates
           listed == Range(AllPairs)
<1>0. m \in Nat /\ m + 1 \in Nat /\ scov \in SUBSET Seq(Input)
  BY DEF Listing
<1>1. Range(CoverPairs) \subseteq listed /\ Range(ExtensionPairs) \subseteq listed /\ Range(PrefixPairs) \subseteq listed
  BY AllPairsHave
<1> HIDE DEF listed
<1>2. ASSUME NEW u \in Ext(scov, m + 1), NEW v \in scov PROVE ToldOrOpen(rows, T, listed, u, v)
  <2>1. PICK a \in scov, b \in Seq(Input) : Len(b) <= m + 1 /\ u = a \o b
    BY DEF Ext
  <2>2. CASE b = << >>
    <3>1. u = a
      BY <1>0, <2>1, <2>2, ConcatEmptySeq
    <3>2. u = v \/ <<u, v>> \in Range(CoverPairs) \/ <<v, u>> \in Range(CoverPairs)
      BY <3>1, CoverPairsHave
    <3> QED BY <1>1, <3>2 DEF ToldOrOpen, ToldApart
  <2>3. CASE b # << >>
    <3>1. 1 <= Len(b)
      BY <2>3, EmptySeq
    <3>2. <<u, v>> \in Range(ExtensionPairs)
      BY <2>1, <3>1, ExtensionPairsHave
    <3> QED BY <1>1, <3>2 DEF ToldOrOpen
  <2> QED BY <2>2, <2>3
<1>3. ASSUME NEW v \in scov, NEW b \in Seq(Input), NEW i \in 1 .. m, i < Len(b), Len(b) <= m + 1
      PROVE  ToldOrOpen(rows, T, listed, v \o SubSeq(b, 1, i), v \o b)
  <2>1. PICK c \in Seq(Input) : Len(c) = m + 1 /\ \A k \in 0 .. Len(b) : SubSeq(c, 1, k) = SubSeq(b, 1, k)
    BY <1>0, <1>3, LongerTrace
  <2>2. Len(b) \in 1 .. m + 1 /\ i \in 1 .. m + 1 /\ i \in 0 .. Len(b) /\ Len(b) \in 0 .. Len(b)
    BY <1>0, <1>3
  <2>3. SubSeq(b, 1, Len(b)) = b
    <3> DEFINE d == SubSeq(b, 1, Len(b))
    <3>1. d \in Seq(Input) /\ Len(d) = Len(b) /\ \A j \in 1 .. Len(b) : d[j] = b[j]
      BY <2>2, SplitAt
    <3> HIDE DEF d
    <3>2. d = b
      BY <3>1, SeqEqual
    <3> QED BY <3>2 DEF d
  <2>4. SubSeq(c, 1, i) = SubSeq(b, 1, i) /\ SubSeq(c, 1, Len(b)) = b
    BY <2>1, <2>2, <2>3
  <2>5. <<v \o SubSeq(c, 1, i), v \o SubSeq(c, 1, Len(b))>> \in Range(PrefixPairs)
    BY <1>3, <2>1, <2>2, PrefixPairsHave
  <2> QED BY <1>1, <2>4, <2>5 DEF ToldOrOpen
<1>4. \A v \in scov, b \in Seq(Input), i \in 1 .. m :
        i < Len(b) /\ Len(b) <= m + 1 => ToldOrOpen(rows, T, listed, v \o SubSeq(b, 1, i), v \o b)
  BY <1>3
<1> QED BY <1>2, <1>4 DEF HOpen, listed

(* So the loop starts with its invariant. *)
LEMMA BeginHStarts ==
  ASSUME Covered, numAddStates \in Nat, BeginH
  PROVE  LoopKeeps(rows, iTree', scov, numAddStates, open')
<1>1. scov \in SUBSET Seq(Input) /\ Bounded(scov) /\ numAddStates + 1 \in Nat
  BY CoveredFacts, CoverBounded
<1>2. IsFiniteSet(scov)
  <2> DEFINE f == [q \in Black |-> f2t[q]]
  <2>1. Black \in SUBSET State /\ IsFiniteSet(State)
    BY NumStatesAssumption, FS_Interval DEF Black, State
  <2>2. IsFiniteSet(Black)
    BY <2>1, FS_Subset
  <2>3. scov = {f2t[q] : q \in Black}
    BY CoveredFacts
  <2>4. f \in Surjection(Black, scov)
    BY <2>3 DEF Surjection
  <2> HIDE DEF f
  <2> QED BY <2>2, <2>4, FS_Surjection
<1>3. Listing(scov)
  BY <1>1, <1>2 DEF Listing
<1>4. iTree' = Add(scov, InputEnum(numAddStates + 1, numAddStates + 1)) /\ open' = AllPairs
  BY DEF BeginH, AllPairs
<1>5. iTree' \in SUBSET Seq(Input) /\ Bounded(iTree') /\ Ext(scov, numAddStates + 1) \subseteq iTree'
  BY <1>1, <1>4, FirstTree
<1>6. open' \in Seq(Ext(scov, numAddStates + 1) \X Ext(scov, numAddStates + 1))
  BY <1>3, <1>4, AllPairsHave
<1>7. HOpen(rows, iTree', scov, numAddStates, Range(open'))
  BY <1>3, <1>4, AllPairsOpen
<1> QED BY <1>5, <1>6, <1>7 DEF LoopKeeps

-----------------------------------------------------------------------------
(***************************************************************************)
(* What each method builds: a tree that holds the transition cover, and    *)
(* whose test cases, all passed, are sufficient; or that satisfies the H   *)
(* condition.                                                              *)
(***************************************************************************)
Premises ==
  /\ Complete(rows)
  /\ \A q \in State : color[q] = "black"
  /\ method \in {"W", "Wp"} \/ (method = "HSI" /\ \A t \in w : Len(t) <= 1)

(* passing the leaves of T is sufficient *)
Convincing(T) ==
  /\ T \in SUBSET Seq(Input) /\ Bounded(T) /\ tcov \subseteq T
  /\ Premises =>
       \A im : AllPass(rows, im, Leaves(T)) /\ SmallEnough(im, numAddStates) =>
         Sufficient(rows, im, scov, w, numAddStates)
  /\ method = "H" => Det(rows) /\ HTree(rows, T, scov, numAddStates)

(* The sets are what the sufficient suites need. *)
LEMMA GoodSets ==
  ASSUME SetsReady, Premises
  PROVE  GoodCover(rows, scov) /\ GoodSet(rows, w) /\ rows \in Machines
<1>1. GoodCover(rows, scov)
  BY CoverIsGood DEF SetsReady, Premises
<1>2. \A p, q \in State : p # q => \E t \in w : Differ(rows, p, q, t)
  <2> SUFFICES ASSUME NEW p \in State, NEW q \in State, p # q PROVE Separated(p, q, w)
    BY DEF Separated
  <2> QED BY AllSeparated DEF SetsReady, Premises
<1> QED BY <1>1, <1>2, ReadyFacts DEF GoodSet

(* The W method does. *)
LEMMA WConvincing ==
  ASSUME SetsReady, method = "W"
  PROVE  Convincing(WSuite)
<1> DEFINE m == numAddStates
           T == WSuite
<1>0. m \in Nat /\ m + 1 \in Nat
  <2>1. m \in Nat
    BY DEF SetsReady
  <2> HIDE DEF m
  <2> QED BY <2>1
<1>1. T = Add(Ext(scov, m + 1), w)
  BY WSuiteIs
<1>2. /\ Ext(scov, m + 1) \in SUBSET Seq(Input) /\ Bounded(Ext(scov, m + 1))
      /\ w \in SUBSET Seq(Input) /\ Bounded(w) /\ tcov \subseteq Ext(scov, m + 1)
  BY <1>0, ReadyFacts, TransitionCoverIs, ExtFacts, ExtBounded
<1>3. T \in SUBSET Seq(Input) /\ Bounded(T) /\ tcov \subseteq T
  BY <1>1, <1>2, AddIs, AddBounded
<1> HIDE DEF T
<1>4. ASSUME Premises, NEW im, AllPass(rows, im, Leaves(T)), SmallEnough(im, m)
      PROVE  Sufficient(rows, im, scov, w, m)
  BY <1>0, <1>1, <1>4, GoodSets, WSufficient
<1>5. method # "H"
  OBVIOUS
<1> QED BY <1>3, <1>4, <1>5 DEF Convincing, T

(* The Wp method does. *)
LEMMA WpConvincing ==
  ASSUME SetsReady, method = "Wp", pc = "done"
  PROVE  Convincing(WpSuite)
<1> DEFINE m == numAddStates
           T == WpSuite
           E == SecondPhase
           F == BehindLeaves(identification, E)
<1>0. m \in Nat /\ m + 1 \in Nat
  <2>1. m \in Nat
    BY DEF SetsReady
  <2> HIDE DEF m
  <2> QED BY <2>1
<1>1. Identifying(identification)
  <2>1. identification \in [State -> SUBSET w]
    BY ReadyFacts
  <2>2. ASSUME Complete(rows), NEW q \in State, NEW p \in State, p # q
        PROVE  Separated(q, p, identification[q])
    BY <2>2 DEF SetsReady, SetsInv, Identified
  <2> QED BY <2>1, <2>2 DEF Identifying
<1>2. /\ T = Add(Ext(scov, m), w) \cup AppendSets(E, identification)
      /\ tcov \subseteq E /\ E \in SUBSET Ext(scov, m + 1)
      /\ Ext(scov, m + 1) \subseteq E \cup Ext(scov, m)
  BY WpSuiteIs
<1> HIDE DEF T, E
<1>3. /\ Ext(scov, m + 1) \in SUBSET Seq(Input) /\ Bounded(Ext(scov, m + 1))
      /\ Ext(scov, m) \in SUBSET Seq(Input) /\ Bounded(Ext(scov, m))
      /\ w \in SUBSET Seq(Input) /\ Bounded(w)
  <2>1. /\ scov \in SUBSET Seq(Input) /\ Bounded(scov) /\ PrefixClosed(scov)
        /\ w \in SUBSET Seq(Input) /\ Bounded(w)
    BY ReadyFacts
  <2>2. \A k \in Nat : Ext(scov, k) \in SUBSET Seq(Input) /\ Bounded(Ext(scov, k))
    BY <2>1, ExtFacts, ExtBounded
  <2> HIDE DEF m
  <2> QED BY <1>0, <2>1, <2>2
<1>4. E \in SUBSET Seq(Input) /\ Bounded(E)
  BY <1>2, <1>3 DEF Bounded
<1>5. /\ AppendSets(E, identification) = Behind(E, F)
      /\ F \in [Leaves(E) -> SUBSET w]
      /\ Complete(rows) => GoodBehind(rows, E, w, F)
  BY <1>1, <1>4, AppendSetsIs
<1> HIDE DEF F
<1> DEFINE A == Add(Ext(scov, m), w)
           B == Behind(E, F)
<1>6. A \in SUBSET Seq(Input) /\ Bounded(A)
  BY <1>3, AddIs, AddBounded
<1>7. B \in SUBSET Seq(Input) /\ Bounded(B) /\ E \subseteq B
  <2>1. F \in [Leaves(E) -> SUBSET Seq(Input)]
    BY <1>3, <1>5
  <2> QED BY <1>3, <1>4, <1>5, <2>1, BehindIs, BehindBounded
<1>8. T = A \cup B
  BY <1>2, <1>5
<1> HIDE DEF A, B
<1>9. Bounded(T)
  <2>1. PICK a \in Nat : \A t \in A : Len(t) <= a
    BY <1>6 DEF Bounded
  <2>2. PICK b \in Nat : \A t \in B : Len(t) <= b
    BY <1>7 DEF Bounded
  <2>3. ASSUME NEW t \in T PROVE Len(t) <= a + b
    <3>1. Len(t) \in Nat /\ (Len(t) <= a \/ Len(t) <= b)
      BY <1>6, <1>7, <1>8, <2>1, <2>2
    <3> QED BY <3>1
  <2>4. a + b \in Nat
    OBVIOUS
  <2> QED BY <2>3, <2>4 DEF Bounded
<1>10. T \in SUBSET Seq(Input) /\ tcov \subseteq T
  BY <1>2, <1>6, <1>7, <1>8
<1>11. ASSUME Premises, NEW im, AllPass(rows, im, Leaves(T)), SmallEnough(im, m)
       PROVE  Sufficient(rows, im, scov, w, m)
  <2>1. Complete(rows) /\ GoodCover(rows, scov) /\ GoodSet(rows, w) /\ rows \in Machines
    BY <1>11, GoodSets DEF Premises
  <2>2. GoodBehind(rows, E, w, F)
    BY <1>5, <2>1
  <2>3. T = Add(Ext(scov, m), w) \cup Behind(E, F)
    BY <1>8 DEF A, B
  <2> QED BY <1>0, <1>2, <1>11, <2>1, <2>2, <2>3, WpSufficient
<1>12. method # "H"
  OBVIOUS
<1> QED BY <1>9, <1>10, <1>11, <1>12 DEF Convincing, T

(* The HSI method does. *)
LEMMA HSIConvincing ==
  ASSUME SetsReady, method = "HSI", NEW order \in SetToSeqs(w)
  PROVE  Convincing(HSISuite(order))
<1> DEFINE m == numAddStates
           T == HSISuite(order)
           E == Ext(scov, m + 1)
           F == BehindLeaves(HarmonisedSets(order), E)
<1>0. m \in Nat /\ m + 1 \in Nat
  <2>1. m \in Nat
    BY DEF SetsReady
  <2> HIDE DEF m
  <2> QED BY <2>1
<1>1. Identifying(HarmonisedSets(order))
  BY HarmonisedAre
<1>2. T = AppendSets(E, HarmonisedSets(order))
  BY <1>0, ReadyFacts, AddEnum DEF HSISuite
<1>3. /\ E \in SUBSET Seq(Input) /\ Bounded(E)
      /\ w \in SUBSET Seq(Input) /\ Bounded(w) /\ tcov \subseteq E
  BY <1>0, ReadyFacts, TransitionCoverIs, ExtFacts, ExtBounded
<1> HIDE DEF T
<1>5. /\ T = Behind(E, F)
      /\ F \in [Leaves(E) -> SUBSET w]
      /\ Complete(rows) => GoodBehind(rows, E, w, F)
  BY <1>1, <1>2, <1>3, AppendSetsIs
<1> HIDE DEF F
<1>6. T \in SUBSET Seq(Input) /\ Bounded(T) /\ tcov \subseteq T
  <2>1. F \in [Leaves(E) -> SUBSET Seq(Input)]
    BY <1>3, <1>5
  <2> QED BY <1>3, <1>5, <2>1, BehindIs, BehindBounded
<1>7. ASSUME Premises, NEW im, AllPass(rows, im, Leaves(T)), SmallEnough(im, m)
      PROVE  Sufficient(rows, im, scov, w, m)
  <2>1. /\ Complete(rows) /\ GoodCover(rows, scov) /\ GoodSet(rows, w) /\ rows \in Machines
        /\ \A t \in w : Len(t) <= 1
    BY <1>7, GoodSets DEF Premises
  <2>2. GoodBehind(rows, E, w, F)
    BY <1>5, <2>1
  <2> QED BY <1>0, <1>5, <1>7, <2>1, <2>2, HSISufficient
<1>8. method # "H"
  OBVIOUS
<1> QED BY <1>6, <1>7, <1>8 DEF Convincing, T

(***************************************************************************)
(* The T method builds the transition cover, for which nothing more is     *)
(* claimed.                                                                *)
(***************************************************************************)
LEMMA TConvincing ==
  ASSUME SetsReady, method = "T"
  PROVE  Convincing(tcov)
BY TransitionCoverIs DEF Convincing, Premises

(* So Generate leaves the leaves of such a tree. *)
LEMMA GeneratedIsConvincing ==
  ASSUME Covered, PairsInv, SetsInv, TracesInv, numAddStates \in Nat, Generate
  PROVE  \E T : Convincing(T) /\ tests' = Leaves(T)
<1>1. SetsReady
  BY DEF SetsReady, Generate
<1>2. CASE method = "W" /\ tests' = Leaves(WSuite)
  BY <1>1, <1>2, WConvincing
<1>3. CASE method = "Wp" /\ tests' = Leaves(WpSuite)
  <2>1. pc = "done"
    BY <1>3 DEF Generate
  <2> QED BY <1>1, <1>3, <2>1, WpConvincing
<1>4. CASE method = "HSI" /\ \E order \in SetToSeqs(w) : tests' = Leaves(HSISuite(order))
  <2>1. PICK order \in SetToSeqs(w) : tests' = Leaves(HSISuite(order))
    BY <1>4
  <2> QED BY <1>1, <1>4, <2>1, HSIConvincing
<1>5. CASE method = "T" /\ tests' = Leaves(tcov)
  BY <1>1, <1>5, TConvincing
<1> QED BY <1>2, <1>3, <1>4, <1>5 DEF Generate

(***************************************************************************)
(* The execution of a suite.                                               *)
(***************************************************************************)
LEMMA StartTyped == Start \in SUBSET Pairs
<1>1. 0 \in State /\ 0 \in TR!ImplState
  BY StateFacts, ImplFacts
<1> QED BY <1>1 DEF Start, Pairs

(* the implementation before anything has been seen of it *)
LEMMA NothingSeen ==
  ASSUME TR!RunInit
  PROVE  impl \in ImplMachines /\ Cardinality(TR!Seen(impl)) = 1
<1>1. \A i \in TR!ImplState, x \in Input, y \in Output : impl[i][x][y] = -1
  BY DEF TR!RunInit, TR!In, TR!Out, Input, Output
<1>2. impl \in ImplMachines
  BY DEF TR!RunInit, TR!In, TR!Out, Input, Output, ImplMachines, TR!ImplRow
<1>3. TR!Seen(impl) = {0}
  BY <1>1 DEF TR!Seen, TR!In, TR!Out, Input, Output
<1> QED BY <1>2, <1>3, FS_Singleton

(* answering one more input adds transitions, and changes none *)
LEMMA ExtensionsExtend ==
  ASSUME impl \in ImplMachines, NEW x \in Input, NEW im \in TR!Extensions(x)
  PROVE  im \in ImplMachines /\ Extends(impl, im) /\ Cardinality(TR!Seen(im)) <= bound
<1> DEFINE new == {lf[2] : lf \in leaves} \cap {i \in TR!ImplState : ~TR!Exercised(impl, i, x)}
           R == {r \in TR!ImplRow : \E y \in Output : r[y] >= 0}
           Rw(f) == [i \in TR!ImplState |-> IF i \in new THEN [impl[i] EXCEPT ![x] = f[i]] ELSE impl[i]]
<1>1. /\ \E f \in [new -> R] : im = Rw(f)
      /\ Cardinality(TR!Seen(im)) <= bound
  <2>1. \A S : TR!Cardinality(S) = Cardinality(S)
    BY DEF TR!Cardinality, Cardinality
  <2>2. im \in {Rw(f) : f \in [new -> R]} /\ TR!Cardinality(TR!Seen(im)) <= bound
    BY DEF TR!Extensions, TR!Out, Output
  <2> HIDE DEF new, R, Rw
  <2> QED BY <2>1, <2>2
<1>2. PICK f \in [new -> R] : im = Rw(f)
  BY <1>1
<1>3. \A i \in new : i \in TR!ImplState /\ f[i] \in TR!ImplRow
  BY <1>2
<1>4. \A i \in TR!ImplState : impl[i] \in [Input -> TR!ImplRow]
  BY DEF ImplMachines
<1>5. \A i \in new, y \in Output : ~(impl[i][x][y] >= 0)
  BY DEF TR!Exercised, TR!Out, Output
<1> HIDE DEF new
<1>6. im \in ImplMachines
  BY <1>2, <1>3, <1>4 DEF ImplMachines
<1>7. ASSUME NEW i \in TR!ImplState, NEW z \in Input, NEW y \in Output, impl[i][z][y] >= 0
      PROVE  im[i][z] = impl[i][z]
  <2>1. CASE i \in new
    <3>1. z # x
      BY <1>5, <1>7, <2>1
    <3> QED BY <1>2, <1>4, <2>1, <3>1
  <2>2. CASE i \notin new
    BY <1>2, <2>2
  <2> QED BY <2>1, <2>2
<1> QED BY <1>1, <1>6, <1>7 DEF Extends

(* TestRun compares the answers of all leaves, as Passes does. *)
LEMMA AgreeIsAgreeing ==
  ASSUME Complete(rows), NEW im, NEW x \in Input, leaves \subseteq Pairs, TR!Agree(im, x)
  PROVE  Agreeing(rows, im, leaves, x)
<1> SUFFICES ASSUME NEW p \in leaves
             PROVE  /\ \E y \in Output : rows[p[1]][<<x, y>>] >= 0
                    /\ \A y \in Output : rows[p[1]][<<x, y>>] >= 0 <=> im[p[2]][x][y] >= 0
  BY DEF Agreeing
<1>1. p[1] \in State
  BY DEF Pairs
<1>2. \E y \in Output : rows[p[1]][<<x, y>>] >= 0
  BY <1>1 DEF Complete
<1>3. TR!SpecOutputs(p[1], x) = TR!ImplOutputs(im, p[2], x)
  BY DEF TR!Agree
<1>4. \A y \in Output : rows[p[1]][<<x, y>>] >= 0 <=> im[p[2]][x][y] >= 0
  BY <1>3 DEF TR!SpecOutputs, TR!ImplOutputs, TR!Out, Output
<1> QED BY <1>2, <1>4

(* Moving one input from the rest to the part that was passed. *)
LEMMA InputMoved ==
  ASSUME NEW u \in Seq(Input), NEW s \in Seq(Input), s # << >>
  PROVE  /\ Head(s) \in Input /\ Tail(s) \in Seq(Input)
         /\ Append(u, Head(s)) \in Seq(Input)
         /\ Append(u, Head(s)) \o Tail(s) = u \o s
<1>1. /\ Len(s) \in Nat \ {0} /\ Head(s) = s[1] /\ s[1] \in Input
      /\ Tail(s) \in Seq(Input) /\ Len(Tail(s)) = Len(s) - 1
      /\ \A i \in 1 .. Len(s) - 1 : Tail(s)[i] = s[i + 1]
  <2>1. Len(s) \in Nat \ {0}
    BY EmptySeq
  <2> QED BY <2>1, HeadTailProperties
<1> DEFINE a == Append(u, Head(s))
           t == Tail(s)
<1>2. /\ a \in Seq(Input) /\ Len(a) = Len(u) + 1 /\ a[Len(u) + 1] = s[1]
      /\ \A i \in 1 .. Len(u) : a[i] = u[i]
  BY <1>1
<1>3. /\ t \in Seq(Input) /\ Len(t) = Len(s) - 1
      /\ \A i \in 1 .. Len(s) - 1 : t[i] = s[i + 1]
  BY <1>1
<1> HIDE DEF a, t
<1> DEFINE b == a \o t
           c == u \o s
<1>4. /\ b \in Seq(Input) /\ Len(b) = Len(u) + Len(s)
      /\ c \in Seq(Input) /\ Len(c) = Len(u) + Len(s)
      /\ Len(u) \in Nat
  <2>0. a \in Seq(Input) /\ t \in Seq(Input)
    BY <1>2, <1>3
  <2>1. b \in Seq(Input) /\ Len(b) = Len(a) + Len(t) /\ Len(a) \in Nat
    BY <2>0
  <2>2. c \in Seq(Input) /\ Len(c) = Len(u) + Len(s) /\ Len(u) \in Nat
    OBVIOUS
  <2> HIDE DEF b, c
  <2> QED BY <1>1, <1>2, <1>3, <2>1, <2>2
<1>5. /\ \A i \in 1 .. Len(u) + 1 : b[i] = a[i]
      /\ \A i \in 1 .. Len(s) - 1 : b[Len(u) + 1 + i] = t[i]
      /\ \A i \in 1 .. Len(u) : c[i] = u[i]
      /\ \A i \in 1 .. Len(s) : c[Len(u) + i] = s[i]
  BY <1>1, <1>2, <1>3
<1> HIDE DEF b, c
<1>6. ASSUME NEW i \in 1 .. Len(u) + Len(s) PROVE b[i] = c[i]
  <2>1. CASE i <= Len(u)
    <3>1. i \in 1 .. Len(u) /\ i \in 1 .. Len(u) + 1
      BY <1>4, <2>1
    <3> QED BY <1>2, <1>5, <3>1
  <2>2. CASE i = Len(u) + 1
    <3>1. 1 \in 1 .. Len(s) /\ i \in 1 .. Len(u) + 1
      BY <1>1, <1>4, <2>2
    <3> QED BY <1>2, <1>5, <2>2, <3>1
  <2>3. CASE i > Len(u) + 1
    <3> DEFINE k == i - Len(u) - 1
    <3>1. k \in 1 .. Len(s) - 1 /\ i = Len(u) + 1 + k /\ i = Len(u) + (k + 1) /\ k + 1 \in 1 .. Len(s)
      BY <1>1, <1>4, <2>3
    <3> HIDE DEF k
    <3>2. b[i] = t[k] /\ c[i] = s[k + 1]
      BY <1>5, <3>1
    <3> QED BY <1>3, <3>1, <3>2
  <2> QED BY <1>4, <2>1, <2>2, <2>3
<1>7. b = c
  BY <1>1, <1>4, <1>6, SeqEqual
<1> QED BY <1>1, <1>2, <1>7 DEF a, b, c, t

(***************************************************************************)
(* While a suite is executed: each test case is still to come, or is the   *)
(* one that is being applied, of which u has been passed, or was passed by *)
(* whatever the implementation will turn out to be.                        *)
(***************************************************************************)
Running(T, u) ==
  /\ tests \subseteq Leaves(T)
  /\ u \in Seq(Input) /\ rest \in Seq(Input)
  /\ leaves = PairsFrom(rows, impl, Start, u)
  /\ Passes(rows, impl, Start, u)
  /\ \A t \in Leaves(T) : t \in tests \/ t = u \o rest \/ Passes(rows, impl, Start, t)

(* the test cases of tree T are being executed *)
Executing(T) ==
  /\ Convincing(T)
  /\ impl \in ImplMachines /\ SmallEnough(impl, numAddStates)
  /\ verdict # "fail" => \E u : Running(T, u)
  /\ verdict = "pass" => rest = << >> /\ tests = {}

(* the invariant of the execution *)
TestInv ==
  /\ numAddStates \in Nat /\ bound = numStates + numAddStates
  /\ stage \in {"cover", "sets", "test"}
  /\ stage # "test" => TR!RunInit
  /\ stage = "test" /\ Complete(rows) => \E T : Executing(T)

(* At the start nothing is executed. *)
LEMMA InitTestInv == SuiteInit => TestInv
BY MaxAddStatesAssumption DEF SuiteInit, TestInv

(* nothing but the test run itself changes while a suite is executed *)
LEMMA ConvincingUnchanged ==
  ASSUME UNCHANGED <<vars, method, numAddStates, coverVars>>, NEW T, Convincing(T)
  PROVE  Convincing(T)'
<1>1. rows' = rows /\ w' = w /\ method' = method /\ numAddStates' = numAddStates /\ color' = color /\ f2t' = f2t
  BY DEF vars, coverVars
<1>2. scov' = scov /\ tcov' = tcov
  BY <1>1 DEF scov, tcov
<1>3. Premises' = Premises
  BY <1>1 DEF Premises
<1> QED BY <1>1, <1>2, <1>3 DEF Convincing

(* The test cases are generated, and their execution starts. *)
GeneratedFrom(T) ==
  /\ stage = "sets" /\ stage' = "test"
  /\ tests' = Leaves(T)
  /\ UNCHANGED <<vars, method, numAddStates, coverVars, bound, runVars>>

LEMMA ExecutionBegins ==
  ASSUME TestInv, NEW T, Convincing(T), GeneratedFrom(T)
  PROVE  Executing(T)'
<1>1. /\ UNCHANGED <<vars, method, numAddStates, coverVars, bound, runVars>>
      /\ stage = "sets" /\ stage' = "test"
  BY DEF GeneratedFrom
<1>2. Convincing(T) /\ tests' = Leaves(T)
  BY DEF GeneratedFrom
<1>3. TR!RunInit /\ impl' = impl /\ rest' = rest /\ leaves' = leaves /\ verdict' = verdict
  BY <1>1 DEF TestInv, runVars
<1>4. Convincing(T)'
  BY <1>1, <1>2, ConvincingUnchanged
<1>5. impl \in ImplMachines /\ SmallEnough(impl, numAddStates)
  <2>1. impl \in ImplMachines /\ Cardinality(TR!Seen(impl)) = 1
    BY <1>3, NothingSeen
  <2>2. 1 <= numStates + numAddStates
    BY NumStatesAssumption DEF TestInv
  <2> QED BY <2>1, <2>2 DEF SmallEnough
<1>6. Running(T, << >>)'
  <2>1. << >> \in Seq(Input) /\ rest' = << >> /\ leaves' = Start
    BY <1>3 DEF TR!RunInit, Start
  <2>2. PairsFrom(rows', impl', Start, << >>) = Start /\ Passes(rows', impl', Start, << >>)
    BY PairsFromEmpty, PassesEmpty
  <2> QED BY <1>2, <2>1, <2>2 DEF Running
<1>7. (impl \in ImplMachines)' /\ SmallEnough(impl, numAddStates)'
  BY <1>1, <1>3, <1>5 DEF SmallEnough
<1>8. verdict' = "none"
  BY <1>3 DEF TR!RunInit
<1> QED BY <1>4, <1>6, <1>7, <1>8 DEF Executing

LEMMA ExecutionStarts ==
  ASSUME TestInv, NEW T, Convincing(T), GeneratedFrom(T)
  PROVE  TestInv'
<1>1. Executing(T)'
  BY ExecutionBegins
<1>2. UNCHANGED <<numAddStates, bound>> /\ stage' = "test"
  BY DEF GeneratedFrom
<1> QED BY <1>1, <1>2 DEF TestInv

(* Generate does so. *)
LEMMA GenerateStarts ==
  ASSUME Covered, PairsInv, SetsInv, TracesInv, TestInv, Generate
  PROVE  TestInv'
<1>1. PICK T : Convincing(T) /\ tests' = Leaves(T)
  BY GeneratedIsConvincing DEF TestInv
<1>2. GeneratedFrom(T)
  BY <1>1 DEF Generate, GeneratedFrom
<1> QED BY <1>1, <1>2, ExecutionStarts

(***************************************************************************)
(* Taking the next test case keeps the invariant, since the last one was   *)
(* passed.                                                                 *)
(***************************************************************************)
LEMMA NextTestKeeps ==
  ASSUME TestInv, NEW T, Executing(T), stage = "test", Complete(rows), TR!NextTest,
         UNCHANGED <<vars, method, numAddStates, stage, coverVars>>
  PROVE  Executing(T)'
<1>1. Executing(T)
  OBVIOUS
<1>2. /\ verdict = "none" /\ verdict' = verdict /\ impl' = impl /\ rows' = rows /\ numAddStates' = numAddStates
      /\ rest = << >> /\ tests # {} /\ leaves' = Start
      /\ \E t \in tests : rest' = t /\ tests' = tests \ {t}
  BY DEF TR!NextTest, Start
<1>3. PICK u : Running(T, u)
  BY <1>1, <1>2 DEF Executing
<1>4. PICK t \in tests : rest' = t /\ tests' = tests \ {t}
  BY <1>2
<1>5. t \in Leaves(T) /\ t \in Seq(Input)
  BY <1>1, <1>3 DEF Running, Executing, Convincing, Leaves
<1>6. Running(T, << >>)'
  <2>1. << >> \in Seq(Input) /\ << >> \o rest' = rest'
    BY <1>4, <1>5, ConcatEmptySeq
  <2>2. PairsFrom(rows', impl', Start, << >>) = Start /\ Passes(rows', impl', Start, << >>)
    BY PairsFromEmpty, PassesEmpty
  <2>3. ASSUME NEW s \in Leaves(T)
        PROVE  s \in tests' \/ s = << >> \o rest' \/ Passes(rows', impl', Start, s)
    <3>1. s \in tests \/ s = u \o rest \/ Passes(rows, impl, Start, s)
      BY <1>3 DEF Running
    <3>2. u \o rest = u /\ Passes(rows, impl, Start, u)
      BY <1>2, <1>3, ConcatEmptySeq DEF Running
    <3> QED BY <1>2, <1>4, <2>1, <3>1, <3>2
  <2>4. tests' \subseteq Leaves(T)
    BY <1>3, <1>4 DEF Running
  <2> QED BY <1>2, <1>4, <1>5, <2>1, <2>2, <2>3, <2>4 DEF Running
<1>7. Convincing(T)'
  BY <1>1, ConvincingUnchanged DEF Executing
<1> QED BY <1>1, <1>2, <1>6, <1>7 DEF Executing, SmallEnough

(***************************************************************************)
(* Applying an input keeps it, whatever states the implementation turns    *)
(* out to go to.                                                           *)
(***************************************************************************)
LEMMA ApplyInputKeeps ==
  ASSUME rows \in Machines, TestInv, NEW T, Executing(T), stage = "test", Complete(rows), TR!ApplyInput,
         UNCHANGED <<vars, method, numAddStates, stage, coverVars>>
  PROVE  Executing(T)'
<1>1. Executing(T)
  OBVIOUS
<1>x. PICK x : x = Head(rest)
  OBVIOUS
<1>2. /\ verdict = "none" /\ verdict' = verdict /\ rows' = rows /\ tests' = tests /\ numAddStates' = numAddStates
      /\ rest # << >> /\ rest' = Tail(rest)
  BY DEF TR!ApplyInput
<1>3. PICK im \in TR!Extensions(x) :
        /\ TR!Agree(im, x)
        /\ impl' = im
        /\ leaves' = PairPosts(rows, im, leaves, x)
  BY <1>x DEF TR!ApplyInput, PairPosts, TR!SpecOutputs, TR!Out, Output
<1>4. PICK u : Running(T, u)
  BY <1>1, <1>2 DEF Executing
<1>5. /\ u \in Seq(Input) /\ rest \in Seq(Input) /\ impl \in ImplMachines
      /\ leaves = PairsFrom(rows, impl, Start, u) /\ Passes(rows, impl, Start, u)
  BY <1>1, <1>4 DEF Running, Executing
<1>6. /\ x \in Input /\ Tail(rest) \in Seq(Input) /\ Append(u, x) \in Seq(Input)
      /\ Append(u, x) \o Tail(rest) = u \o rest
  BY <1>2, <1>5, <1>x, InputMoved
<1>7. im \in ImplMachines /\ Extends(impl, im) /\ Cardinality(TR!Seen(im)) <= bound
  BY <1>3, <1>5, <1>6, ExtensionsExtend
<1>8. \A t \in Seq(Input) : Passes(rows, impl, Start, t) =>
        PairsFrom(rows, im, Start, t) = PairsFrom(rows, impl, Start, t) /\ Passes(rows, im, Start, t)
  BY <1>5, <1>7, ExtendsKeeps, StartTyped
<1>9. leaves = PairsFrom(rows, im, Start, u) /\ Passes(rows, im, Start, u)
  BY <1>5, <1>8
<1>10. leaves \subseteq Pairs
  BY <1>7, <1>5, <1>9, PairsArePairs, StartTyped
<1>11. Agreeing(rows, im, leaves, x)
  BY <1>3, <1>6, <1>10, AgreeIsAgreeing
<1>12. /\ Passes(rows, im, Start, Append(u, x))
       /\ leaves' = PairsFrom(rows, im, Start, Append(u, x))
  <2>1. Passes(rows, im, Start, Append(u, x))
    BY <1>5, <1>6, <1>9, <1>11, PassesAppend
  <2>2. PairsFrom(rows, im, Start, Append(u, x)) = PairPosts(rows, im, leaves, x)
    BY <1>5, <1>6, <1>9, PairsFromAppend
  <2> QED BY <1>3, <2>1, <2>2
<1>13. ASSUME NEW t \in Leaves(T)
       PROVE  t \in tests' \/ t = Append(u, x) \o rest' \/ Passes(rows, im, Start, t)
  <2>1. t \in Seq(Input)
    BY <1>1 DEF Executing, Convincing, Leaves
  <2>2. t \in tests \/ t = u \o rest \/ Passes(rows, impl, Start, t)
    BY <1>4 DEF Running
  <2> QED BY <1>2, <1>6, <1>8, <2>1, <2>2
<1>14. Running(T, Append(u, x))'
  <2>1. tests' \subseteq Leaves(T)
    BY <1>2, <1>4 DEF Running
  <2>2. PairsFrom(rows', impl', Start, Append(u, x)) = leaves' /\ Passes(rows', impl', Start, Append(u, x))
    BY <1>2, <1>3, <1>12
  <2>3. \A t \in Leaves(T) : t \in tests' \/ t = Append(u, x) \o rest' \/ Passes(rows', impl', Start, t)
    BY <1>2, <1>3, <1>13
  <2>4. Append(u, x) \in Seq(Input) /\ rest' \in Seq(Input)
    BY <1>2, <1>6
  <2> QED BY <2>1, <2>2, <2>3, <2>4 DEF Running
<1>15. Convincing(T)'
  BY <1>1, ConvincingUnchanged DEF Executing
<1>16. SmallEnough(impl, numAddStates)'
  BY <1>2, <1>3, <1>7 DEF TestInv, SmallEnough
<1>17. Executing(T)'
  BY <1>2, <1>3, <1>7, <1>14, <1>15, <1>16 DEF Executing
<1> QED BY <1>17

(* A verdict keeps it. *)
LEMMA TestEnds ==
  ASSUME TestInv, NEW T, Executing(T), stage = "test", Complete(rows), TR!Discrepancy \/ TR!AllPassed,
         UNCHANGED <<vars, method, numAddStates, stage, coverVars>>
  PROVE  Executing(T)'
<1>1. Executing(T)
  OBVIOUS
<1>2. /\ verdict = "none" /\ rows' = rows /\ numAddStates' = numAddStates
      /\ impl' = impl /\ tests' = tests /\ rest' = rest /\ leaves' = leaves
      /\ verdict' = "fail" \/ (verdict' = "pass" /\ rest = << >> /\ tests = {})
  BY DEF TR!Discrepancy, TR!AllPassed
<1>3. PICK u : Running(T, u)
  BY <1>1, <1>2 DEF Executing
<1>4. Running(T, u)'
  BY <1>2, <1>3 DEF Running
<1>5. Convincing(T)'
  BY <1>1, ConvincingUnchanged DEF Executing
<1> QED BY <1>1, <1>2, <1>4, <1>5 DEF Executing, SmallEnough

(***************************************************************************)
(* Output faults: the transition cover alone is enough to find them.       *)
(***************************************************************************)
LEMMA StepsAreEnough == numStates <= MoreSteps
<1> DEFINE b == numStates + maxAddStates
           n == numStates
<1>1. n \in Nat \ {0} /\ b \in Int /\ 0 \in Int /\ 0 < b
  BY NumStatesAssumption, MaxAddStatesAssumption
<1>2. MoreSteps = n * b
  BY DEF MoreSteps
<1> HIDE DEF b, n
<1>3. n * 0 + n <= n * b
  BY <1>1, TimesStep
<1>4. n * 0 + n = n
  BY <1>1
<1>5. n <= MoreSteps
  BY <1>2, <1>3, <1>4
<1> QED BY <1>5 DEF n

(* What MorePairs adds. *)
LEMMA MorePairsHas ==
  ASSUME NEW r, NEW im, NEW P, NEW p,
         p[1] >= 0, p[2] >= 0,
         p \in P \/ \E o \in P, x \in Input, y \in Output : p = <<r[o[1]][<<x, y>>], im[o[2]][x][y]>>
  PROVE  p \in MorePairs(r, im, P)
<1> DEFINE S(o) == {<<r[o[1]][<<x, y>>], im[o[2]][x][y]>> : x \in Input, y \in Output}
           U == P \cup UNION {S(o) : o \in P}
<1>0. MorePairs(r, im, P) = {o \in U : o[1] >= 0 /\ o[2] >= 0}
  BY DEF MorePairs
<1>1. p \in P \/ \E o \in P : p \in S(o)
  <2> SUFFICES ASSUME NEW o \in P, NEW x \in Input, NEW y \in Output,
                      p = <<r[o[1]][<<x, y>>], im[o[2]][x][y]>>
               PROVE  p \in S(o)
    OBVIOUS
  <2> QED OBVIOUS
<1> HIDE DEF S
<1> QED BY <1>0, <1>1

(* the states of the reference machine in the pairs of TestRun are reached *)
LEMMA ReachedPairsLead ==
  ASSUME rows \in Machines, NEW p \in TR!ReachedPairs
  PROVE  \E t \in Seq(Input) : p[1] \in StatesAfter(rows, t)
<1>1. PICK f : /\ f[0] = Start
               /\ \A k \in Nat : f[k + 1] = MorePairs(rows, impl, f[k])
               /\ TR!ReachedPairs = f[MoreSteps]
  BY ReachedPairsAre
<1> DEFINE Led(o) == \E t \in Seq(Input) : o[1] \in StatesAfter(rows, t)
           A == {k \in Nat : \A o \in f[k] : Led(o)}
<1>2. 0 \in A
  <2>1. 0 \in StatesAfter(rows, << >>) /\ << >> \in Seq(Input)
    BY RunOfEmpty DEF StatesAfter
  <2> SUFFICES ASSUME NEW o \in f[0] PROVE Led(o)
    OBVIOUS
  <2>2. o[1] = 0
    BY <1>1 DEF Start
  <2> QED BY <2>1, <2>2
<1>3. ASSUME NEW k \in Nat, k \in A PROVE k + 1 \in A
  <2> SUFFICES ASSUME NEW q \in MorePairs(rows, impl, f[k]) PROVE Led(q)
    BY <1>1
  <2>1. CASE q \in f[k]
    BY <1>3, <2>1
  <2>2. CASE IsMore(rows, impl, f[k], q)
    <3>1. PICK o \in f[k], x \in Input, y \in Output :
            q = <<rows[o[1]][<<x, y>>], impl[o[2]][x][y]>> /\ q[1] >= 0
      BY ONLY <2>2 DEF IsMore
    <3>2. PICK t \in Seq(Input) : o[1] \in StatesAfter(rows, t)
      BY <1>3
    <3>3. ~(-1 >= 0) /\ q[1] = rows[o[1]][<<x, y>>]
      BY <3>1
    <3>4. q[1] \in PostsOf(rows, StatesAfter(rows, t), x)
      <4> DEFINE Q == StatesAfter(rows, t)
                 s == o[1]
      <4>1. s \in Q /\ q[1] = rows[s][<<x, y>>]
        BY <3>2, <3>3
      <4>2. q[1] # -1
        BY <3>1, <3>3
      <4> HIDE DEF Q, s
      <4>3. q[1] \in PostsOf(rows, Q, x)
        BY ONLY <4>1, <4>2, y \in Output DEF PostsOf
      <4> QED BY <4>3 DEF Q
    <3>5. q[1] \in StatesAfter(rows, Append(t, x))
      BY <3>4, StatesAfterAppend
    <3>6. Append(t, x) \in Seq(Input)
      BY AppendExtends
    <3> QED BY <3>5, <3>6
  <2> QED BY <2>1, <2>2, MorePairsAre
<1> HIDE DEF A, Led
<1>4. MoreSteps \in A
  BY <1>2, <1>3, SetInduction, MoreStepsTyped
<1>5. Led(p)
  BY <1>1, <1>4 DEF A
<1> QED BY <1>5 DEF Led

(* the pairs that a short passed trace leads to are among them *)
LEMMA ShortTracesReach ==
  ASSUME rows \in Machines, impl \in ImplMachines, NEW v \in Seq(Input), Len(v) <= MoreSteps,
         Passes(rows, impl, Start, v)
  PROVE  PairsFrom(rows, impl, Start, v) \subseteq TR!ReachedPairs
<1>1. PICK f : /\ f[0] = Start
               /\ \A k \in Nat : f[k + 1] = MorePairs(rows, impl, f[k])
               /\ TR!ReachedPairs = f[MoreSteps]
  BY ReachedPairsAre
<1>n. \A p \in Pairs : p[1] >= 0 /\ p[2] >= 0
  <2>1. \A q \in State : q >= 0
    BY StateFacts
  <2>2. \A i \in TR!ImplState : i >= 0
    BY ImplFacts
  <2> QED BY <2>1, <2>2 DEF Pairs
<1> DEFINE B == {k \in Nat : \A p \in f[k] : p[1] >= 0 /\ p[2] >= 0}
<1>2. 0 \in B
  BY <1>1, <1>n, StartTyped
<1>3. ASSUME NEW k \in Nat, k \in B PROVE k + 1 \in B
  <2>1. \A p \in MorePairs(rows, impl, f[k]) : p[1] >= 0 /\ p[2] >= 0
    BY DEF MorePairs
  <2>2. f[k + 1] = MorePairs(rows, impl, f[k]) /\ k + 1 \in Nat
    BY <1>1
  <2>3. \A p \in f[k + 1] : p[1] >= 0 /\ p[2] >= 0
    BY ONLY <2>1, <2>2
  <2> QED BY <2>2, <2>3
<1>4. Nat \subseteq B
  <2> HIDE DEF B
  <2> QED BY <1>2, <1>3, SetInduction
<1>5. ASSUME NEW k \in Nat PROVE f[k] \subseteq f[k + 1]
  <2> SUFFICES ASSUME NEW p \in f[k] PROVE p \in MorePairs(rows, impl, f[k])
    BY <1>1
  <2>1. p[1] >= 0 /\ p[2] >= 0
    BY <1>4
  <2> QED BY <2>1, MorePairsHas
<1> DEFINE C(j) == {k \in Nat : f[j] \subseteq f[j + k]}
<1>6. ASSUME NEW j \in Nat, NEW k \in Nat PROVE f[j] \subseteq f[j + k]
  <2>1. 0 \in C(j)
    OBVIOUS
  <2>2. ASSUME NEW i \in Nat, i \in C(j) PROVE i + 1 \in C(j)
    <3>1. j + i \in Nat /\ (j + i) + 1 = j + (i + 1)
      OBVIOUS
    <3>2. f[j + i] \subseteq f[(j + i) + 1]
      BY <1>5, <3>1
    <3> QED BY <2>2, <3>1, <3>2
  <2> HIDE DEF C
  <2>3. k \in C(j)
    BY <2>1, <2>2, SetInduction
  <2> QED BY <2>3 DEF C
<1> DEFINE A == {u \in Seq(Input) : Passes(rows, impl, Start, u) =>
                   PairsFrom(rows, impl, Start, u) \subseteq f[Len(u)]}
<1>7. << >> \in A
  <2>1. << >> \in Seq(Input) /\ Len(<< >>) = 0
    OBVIOUS
  <2>2. PairsFrom(rows, impl, Start, << >>) = Start
    BY PairsFromEmpty
  <2> QED BY <1>1, <2>1, <2>2
<1>8. ASSUME NEW u \in Seq(Input), NEW x \in Input, u \in A PROVE Append(u, x) \in A
  <2>1. Append(u, x) \in Seq(Input) /\ Len(Append(u, x)) = Len(u) + 1 /\ Len(u) \in Nat
    BY AppendExtends
  <2> SUFFICES ASSUME Passes(rows, impl, Start, Append(u, x)),
                      NEW p \in PairsFrom(rows, impl, Start, Append(u, x))
               PROVE  p \in f[Len(u) + 1]
    BY <2>1
  <2>2. p \in Pairs
    BY <2>1, PairsArePairs, StartTyped
  <2>3. p \in PairPosts(rows, impl, PairsFrom(rows, impl, Start, u), x)
    BY PairsFromAppend
  <2>4. PICK o \in PairsFrom(rows, impl, Start, u), y \in Output :
          rows[o[1]][<<x, y>>] >= 0 /\ p = <<rows[o[1]][<<x, y>>], impl[o[2]][x][y]>>
    <3> DEFINE P == PairsFrom(rows, impl, Start, u)
    <3>1. p \in PairPosts(rows, impl, P, x)
      BY <2>3
    <3> HIDE DEF P, A, B, C
    <3>2. \E o \in P, y \in Output :
            rows[o[1]][<<x, y>>] >= 0 /\ p = <<rows[o[1]][<<x, y>>], impl[o[2]][x][y]>>
      BY ONLY <3>1 DEF PairPosts
    <3> QED BY <3>2 DEF P
  <2>5. o \in f[Len(u)]
    <3>1. Passes(rows, impl, Start, u)
      BY PassesAppend
    <3> QED BY <1>8, <3>1
  <2>6. p[1] >= 0 /\ p[2] >= 0
    BY <1>n, <2>2
  <2>7. p \in MorePairs(rows, impl, f[Len(u)])
    BY <2>4, <2>5, <2>6, MorePairsHas
  <2> QED BY <1>1, <2>1, <2>7
<1> HIDE DEF A
<1>9. v \in A
  BY <1>7, <1>8, SeqInduction
<1>10. f[Len(v)] \subseteq f[MoreSteps]
  <2>1. Len(v) \in Nat /\ MoreSteps \in Nat
    BY MoreStepsTyped
  <2>2. MoreSteps - Len(v) \in Nat /\ Len(v) + (MoreSteps - Len(v)) = MoreSteps
    BY <2>1
  <2> QED BY <1>6, <2>1, <2>2
<1> QED BY <1>1, <1>9, <1>10 DEF A

(***************************************************************************)
(* An implementation of the same structure that passes the transition      *)
(* cover is I/O-equivalent.                                                *)
(***************************************************************************)
LEMMA TransitionCoverFinds ==
  ASSUME Covered, Complete(rows), impl \in ImplMachines, TR!SameStructure,
         \A u \in Ext(scov, 1) : Passes(rows, impl, Start, u)
  PROVE  TR!Equivalent
<1>0. rows \in Machines /\ scov \in SUBSET Seq(Input)
  BY CoveredFacts
<1> SUFFICES ASSUME NEW p \in TR!ReachedPairs, NEW x \in Input
             PROVE  TR!SpecOutputs(p[1], x) = TR!ImplOutputs(impl, p[2], x)
  BY DEF TR!Equivalent, TR!In, Input
<1> DEFINE q == p[1]
           v == f2t[q]
<1>1. q \in Black
  <2>1. PICK t \in Seq(Input) : p[1] \in StatesAfter(rows, t)
    BY <1>0, ReachedPairsLead
  <2> QED BY <2>1, NoneIsNearer DEF Covered, Black
<1>2. v \in scov /\ v \in Seq(Input) /\ q \in StatesAfter(rows, v)
  BY <1>0, <1>1, CoveredFacts
<1>3. Len(v) <= MoreSteps
  <2>1. Depth(q) \in Nat /\ Depth(q) < numStates
    BY <1>1, CoverIsShort
  <2>2. Depth(q) = Len(v)
    BY DEF Depth
  <2> HIDE DEF v, q
  <2> QED BY <2>1, <2>2, StepsAreEnough, MoreStepsTyped, NumStatesAssumption
<1> HIDE DEF v
<1>4. v \in Ext(scov, 1) /\ Append(v, x) \in Ext(scov, 1)
  <2>1. 1 \in Nat /\ 0 \in Nat /\ 0 + 1 = 1
    OBVIOUS
  <2>2. v \in Ext(scov, 1) /\ v \in Ext(scov, 0)
    BY <1>0, <1>2, <2>1, ExtFacts
  <2> QED BY <1>0, <2>1, <2>2, ExtFacts
<1>5. Passes(rows, impl, Start, v) /\ Passes(rows, impl, Start, Append(v, x))
  BY <1>4
<1>6. PICK i \in TR!ImplState : <<q, i>> \in PairsFrom(rows, impl, Start, v)
  BY <1>0, <1>2, <1>5, StateHasPair
<1>7. <<q, i>> \in TR!ReachedPairs
  BY <1>0, <1>2, <1>3, <1>5, <1>6, ShortTracesReach
<1>8. p[2] = i
  <2> DEFINE o == <<q, i>>
  <2>1. o[1] = q /\ o[2] = i /\ o \in TR!ReachedPairs
    BY <1>7
  <2> HIDE DEF o
  <2>2. p[2] = o[2]
    BY <2>1 DEF TR!SameStructure
  <2> QED BY <2>1, <2>2
<1>9. Agreeing(rows, impl, PairsFrom(rows, impl, Start, v), x)
  BY <1>2, <1>5, PassesAppend
<1> DEFINE o == <<q, i>>
<1>10. o[1] = q /\ o[2] = i /\ o \in PairsFrom(rows, impl, Start, v)
  BY <1>6
<1> HIDE DEF o
<1>11. TR!SpecOutputs(o[1], x) = TR!ImplOutputs(impl, o[2], x)
  BY <1>9, <1>10, AgreeingIsSame
<1> QED BY <1>8, <1>10, <1>11

(***************************************************************************)
(* All together.                                                           *)
(***************************************************************************)
SuiteInv ==
  /\ CoverInv /\ TreeInv
  /\ PairsInv /\ SetsInv /\ TracesInv
  /\ TestInv

(* The invariant holds at the start. *)
LEMMA InitSuiteInv == SuiteInit => SuiteInv
<1> SUFFICES ASSUME SuiteInit PROVE SuiteInv
  OBVIOUS
<1>1. Init /\ stage = "cover"
  BY DEF SuiteInit
<1> QED BY <1>1, InitCoverInv, InitTreeInv, InitPairsInv, InitSetsInv, InitTracesInv, InitTestInv DEF SuiteInv

(* The test run goes on executing the suite. *)
LEMMA TestGoesOn ==
  ASSUME SuiteInv, Test, Complete(rows), NEW T, Executing(T)
  PROVE  Executing(T)'
<1>1. /\ UNCHANGED <<vars, method, numAddStates, stage, coverVars>>
      /\ stage = "test" /\ TestInv /\ rows \in Machines
  BY DEF SuiteInv, Test, CoverInv, CoverTypes
<1>2. CASE TR!NextTest
  BY <1>1, <1>2, NextTestKeeps
<1>3. CASE TR!ApplyInput
  BY <1>1, <1>3, ApplyInputKeeps
<1>4. CASE TR!Discrepancy \/ TR!AllPassed
  BY <1>1, <1>4, TestEnds
<1> QED BY <1>2, <1>3, <1>4 DEF Test, TR!RunNext

(* The test run keeps the invariant. *)
LEMMA TestKeeps ==
  ASSUME SuiteInv, Test
  PROVE  TestInv'
<1>1. /\ stage = "test" /\ stage' = "test" /\ rows' = rows /\ numAddStates' = numAddStates /\ bound' = bound
      /\ TestInv
  BY DEF SuiteInv, Test, vars
<1>2. Complete(rows) => \E T : Executing(T)'
  <2> SUFFICES ASSUME Complete(rows) PROVE \E T : Executing(T)'
    OBVIOUS
  <2>1. PICK T : Executing(T)
    BY <1>1 DEF TestInv
  <2>2. Executing(T)'
    BY <2>1, TestGoesOn
  <2> QED BY <2>2
<1> QED BY <1>1, <1>2 DEF TestInv

(* So does a step that changes nothing of it. *)
LEMMA ExecutionRests ==
  ASSUME UNCHANGED suiteVars, NEW T, Executing(T)
  PROVE  Executing(T)'
<1>1. /\ UNCHANGED <<vars, method, numAddStates, coverVars>>
      /\ rows' = rows /\ numAddStates' = numAddStates
      /\ impl' = impl /\ rest' = rest /\ leaves' = leaves /\ verdict' = verdict /\ tests' = tests
  BY DEF suiteVars, runVars, vars
<1>2. Convincing(T)'
  BY <1>1, ConvincingUnchanged DEF Executing
<1>3. \A u : Running(T, u) => Running(T, u)'
  BY <1>1 DEF Running
<1> QED BY <1>1, <1>2, <1>3 DEF Executing, SmallEnough

(* Every step keeps it. *)
LEMMA StepSuiteInv == SuiteInv /\ [SuiteNext]_suiteVars => SuiteInv'
<1> SUFFICES ASSUME SuiteInv, [SuiteNext]_suiteVars PROVE SuiteInv'
  OBVIOUS
<1>1. CoverInv' /\ TreeInv'
  BY SuiteCoverSteps, StepCoverInv, StepTreeInv DEF SuiteInv
<1>2. [Next]_vars
  BY DEF SuiteNext, suiteVars, VisitNode, CoverDone, CalcSets, Generate, Test, Finished, Next
<1>3. PairsInv' /\ SetsInv' /\ TracesInv'
  BY <1>2, StepPairsInv, StepSetsInv, StepTracesInv DEF SuiteInv
<1>4. TestInv'
  <2>1. CASE VisitNode \/ CoverDone \/ CalcSets
    <3>1. /\ stage \in {"cover", "sets"} /\ stage' \in {"cover", "sets"}
          /\ numAddStates' = numAddStates /\ bound' = bound
          /\ impl' = impl /\ rest' = rest /\ leaves' = leaves /\ verdict' = verdict
      BY <2>1 DEF VisitNode, CoverDone, CalcSets, runVars
    <3> QED BY <3>1 DEF SuiteInv, TestInv, TR!RunInit
  <2>2. CASE Generate
    <3>1. Covered
      BY <2>2 DEF SuiteInv, Covered, CoverInv, CoverTypes, Generate
    <3> QED BY <2>2, <3>1, GenerateStarts DEF SuiteInv
  <2>3. CASE Test
    BY <2>3, TestKeeps
  <2>4. CASE Finished \/ UNCHANGED suiteVars
    <3>1. UNCHANGED suiteVars
      BY <2>4 DEF Finished
    <3>2. stage' = stage /\ bound' = bound /\ rows' = rows /\ numAddStates' = numAddStates
          /\ impl' = impl /\ rest' = rest /\ leaves' = leaves /\ verdict' = verdict
      BY <3>1 DEF suiteVars, runVars, vars
    <3>3. \A T : Executing(T) => Executing(T)'
      BY <3>1, ExecutionRests
    <3> QED BY <3>2, <3>3 DEF SuiteInv, TestInv, TR!RunInit
  <2> QED BY <2>1, <2>2, <2>3, <2>4 DEF SuiteNext
<1> QED BY <1>1, <1>3, <1>4 DEF SuiteInv

(* an implementation that has passed every test case *)
LEMMA PassedAll ==
  ASSUME SuiteInv, verdict = "pass", Complete(rows)
  PROVE  /\ impl \in ImplMachines /\ SmallEnough(impl, numAddStates) /\ numAddStates \in Nat
         /\ Covered /\ rows \in Machines
         /\ \E T : Convincing(T) /\ AllPass(rows, impl, Leaves(T))
<1>1. stage = "test"
  BY DEF SuiteInv, TestInv, TR!RunInit
<1>2. PICK T : Executing(T)
  BY <1>1 DEF SuiteInv, TestInv
<1>3. PICK u : Running(T, u)
  BY <1>2 DEF Executing
<1>4. rest = << >> /\ tests = {}
  BY <1>2 DEF Executing
<1>5. u \o rest = u /\ Passes(rows, impl, Start, u)
  BY <1>3, <1>4, ConcatEmptySeq DEF Running
<1>6. AllPass(rows, impl, Leaves(T))
  BY <1>3, <1>4, <1>5 DEF Running, AllPass
<1>7. Covered /\ rows \in Machines /\ numAddStates \in Nat
  BY <1>1 DEF SuiteInv, Covered, CoverInv, CoverTypes, TestInv
<1> QED BY <1>2, <1>6, <1>7 DEF Executing

(* In the case of the H method, the H condition holds for all it has passed. *)
LEMMA HTreePassed ==
  ASSUME SuiteInv, verdict = "pass", Complete(rows), \A q \in State : color[q] = "black",
         method = "H", NEW T, Convincing(T), AllPass(rows, impl, Leaves(T))
  PROVE  HPassed(rows, impl, T, scov, numAddStates)
<1>1. /\ impl \in ImplMachines /\ SmallEnough(impl, numAddStates) /\ numAddStates \in Nat
      /\ Covered /\ rows \in Machines
  BY PassedAll
<1>2. /\ T \in SUBSET Seq(Input) /\ Bounded(T)
      /\ Det(rows) /\ HTree(rows, T, scov, numAddStates)
  BY DEF Convincing
<1>3. AllPass(rows, impl, T)
  BY <1>2, LeavesPassed DEF AllPass
<1>4. scov \in SUBSET Seq(Input) /\ << >> \in scov
  BY <1>1, CoveredFacts
<1>5. ASSUME NEW q \in State PROVE \E v \in scov : q = StateBy(rows, 0, v)
  <2>1. q \in Black
    BY DEF Black
  <2>2. PICK v \in scov : q \in StatesAfter(rows, v)
    BY <1>1, <2>1, CoveredFacts
  <2>3. StatesAfter(rows, v) = {StateBy(rows, 0, v)}
    BY <1>1, <1>2, <1>4, OneStateAfter
  <2> QED BY <2>2, <2>3
<1> QED BY <1>1, <1>2, <1>3, <1>4, <1>5 DEF HPassed

(* It implies that the suites are complete. *)
LEMMA PassedIsEquivalent ==
  ASSUME SuiteInv
  PROVE  SuiteComplete
<1> SUFFICES ASSUME verdict = "pass", Complete(rows), \A q \in State : color[q] = "black",
                    method \in {"W", "Wp", "H"} \/ (method = "HSI" /\ \A t \in w : Len(t) <= 1)
             PROVE  TR!Equivalent
  BY DEF SuiteComplete, CompletelySpecified, Complete
<1>1. PICK T : Convincing(T) /\ AllPass(rows, impl, Leaves(T))
  BY PassedAll
<1>2. CASE method # "H"
  <2>1. Premises
    BY <1>2 DEF Premises
  <2>2. Sufficient(rows, impl, scov, w, numAddStates)
    BY <1>1, <2>1, PassedAll DEF Convincing
  <2> QED BY <2>2, PassedAll, SufficientIsComplete
<1>3. CASE method = "H"
  <2>1. HPassed(rows, impl, T, scov, numAddStates)
    BY <1>1, <1>3, HTreePassed
  <2>2. \A t \in Seq(Input) : Passes(rows, impl, Start, t)
    BY <2>1, NoTraceFails
  <2> QED BY <2>2, PassingAllIsEquivalent
<1> QED BY <1>2, <1>3

(* It implies that output faults are found. *)
LEMMA NoOutputFault ==
  ASSUME SuiteInv
  PROVE  OutputFaultsFound
<1> SUFFICES ASSUME verdict = "pass", Complete(rows), TR!SameStructure
             PROVE  TR!Equivalent
  BY DEF OutputFaultsFound, CompletelySpecified, Complete
<1>1. PICK T : Convincing(T) /\ AllPass(rows, impl, Leaves(T))
  BY PassedAll
<1>2. \A u \in tcov : Passes(rows, impl, Start, u)
  BY <1>1, LeavesPassed DEF Convincing, AllPass
<1>3. tcov = Ext(scov, 1)
  <2>1. scov \in SUBSET Seq(Input) /\ PrefixClosed(scov) /\ 1 \in Nat
    BY PassedAll, CoveredFacts, CoverIsClosed
  <2> QED BY <2>1, AddEnum DEF tcov
<1> QED BY <1>2, <1>3, PassedAll, TransitionCoverFinds

(***************************************************************************)
(* Completeness of the W, the Wp and, for single inputs, the HSI method,   *)
(* with any number of additional states: an implementation with no more    *)
(* states than announced that passes the suite is I/O-equivalent to the    *)
(* minimal, completely specified reference machine. And the suites of all  *)
(* four methods, the T method among them, find every output fault of an    *)
(* implementation that has the transitions of the reference machine.       *)
(***************************************************************************)
THEOREM SuitesFindFaults == SuiteSpec => []SuiteFindsFaults
<1>1. SuiteInit => SuiteInv
  BY InitSuiteInv
<1>2. SuiteInv /\ [SuiteNext]_suiteVars => SuiteInv'
  BY StepSuiteInv
<1>3. SuiteInv => SuiteFindsFaults
  BY PassedIsEquivalent, NoOutputFault DEF SuiteFindsFaults
<1> QED BY <1>1, <1>2, <1>3, PTL DEF SuiteSpec

-----------------------------------------------------------------------------
(***************************************************************************)
(* The loops of the H method.                                              *)
(***************************************************************************)
HLoop ==
  /\ method = "H" => Det(rows)
  /\ open # << >> => iTree # {}
  /\ iTree # {} =>
       /\ method = "H" /\ stage = "sets"
       /\ LoopKeeps(rows, iTree, scov, numAddStates, open)

HMethodInv == SuiteInv /\ HLoop

(* The invariant holds at the start. *)
LEMMA InitHMethodInv == HInit => HMethodInv
BY InitSuiteInv, DeterministicIsDet DEF HInit, HMethodInv, HLoop

(* The tree that GenerateH turns into a suite. *)
LEMMA TreeIsConvincing ==
  ASSUME HMethodInv, GenerateH
  PROVE  Convincing(iTree)
<1>1. /\ method = "H" /\ stage = "sets" /\ Det(rows)
      /\ LoopKeeps(rows, iTree, scov, numAddStates, << >>)
  BY DEF GenerateH, HMethodInv, HLoop
<1>2. Covered /\ numAddStates \in Nat
  BY <1>1 DEF HMethodInv, SuiteInv, TestInv, Covered, CoverInv, CoverTypes
<1>3. HTree(rows, iTree, scov, numAddStates)
  BY <1>1, NothingOpen
<1>4. iTree \in SUBSET Seq(Input) /\ Bounded(iTree) /\ Ext(scov, numAddStates + 1) \subseteq iTree
  BY <1>1 DEF LoopKeeps
<1>5. tcov \subseteq iTree
  <2>1. scov \in SUBSET Seq(Input) /\ PrefixClosed(scov)
    BY <1>2, CoveredFacts, CoverIsClosed
  <2>2. tcov = Ext(scov, 1)
    BY <2>1, AddEnum DEF tcov
  <2>3. 1 \in Nat /\ numAddStates + 1 \in Nat /\ 1 <= numAddStates + 1
    BY <1>2
  <2> QED BY <1>4, <2>1, <2>2, <2>3, ExtFacts
<1> QED BY <1>1, <1>3, <1>4, <1>5 DEF Convincing, Premises

(* Every step keeps what the methods have in common, *)
LEMMA StepHSuiteInv == HMethodInv /\ [HNext]_hVars => SuiteInv'
<1> SUFFICES ASSUME HMethodInv, [HNext]_hVars PROVE SuiteInv'
  OBVIOUS
<1>0. SuiteInv
  BY DEF HMethodInv
<1>1. CASE GenerateH
  <2>1. GeneratedFrom(iTree)
    BY <1>1 DEF GenerateH, GeneratedFrom
  <2>2. TestInv'
    BY <1>0, <1>1, <2>1, TreeIsConvincing, ExecutionStarts DEF SuiteInv
  <2>3. CoverInv' /\ TreeInv'
    BY <1>0, HCoverSteps, StepCoverInv, StepTreeInv DEF SuiteInv
  <2>4. [Next]_vars
    BY <1>1 DEF GenerateH
  <2>5. PairsInv' /\ SetsInv' /\ TracesInv'
    BY <1>0, <2>4, StepPairsInv, StepSetsInv, StepTracesInv DEF SuiteInv
  <2> QED BY <2>2, <2>3, <2>5 DEF SuiteInv
<1>2. CASE ~GenerateH
  <2>1. [SuiteNext]_suiteVars
    BY <1>2 DEF HNext, BeginH, DistinguishPair, hVars
  <2> QED BY <1>0, <2>1, StepSuiteInv
<1> QED BY <1>1, <1>2

(* and the invariant of the loops. *)
LEMMA StepHLoop == HMethodInv /\ [HNext]_hVars => HLoop'
<1> SUFFICES ASSUME HMethodInv, [HNext]_hVars PROVE HLoop'
  OBVIOUS
<1>0. SuiteInv /\ HLoop /\ MinimalRows
  BY DEF HMethodInv, SuiteInv, PairsInv
<1>1. CASE BeginH
  <2>1. /\ UNCHANGED <<rows, method, stage, numAddStates, color, f2t>>
        /\ method = "H" /\ stage = "sets"
    BY <1>1 DEF BeginH, suiteVars, coverVars, vars
  <2>2. Covered /\ numAddStates \in Nat
    BY <1>0, <2>1 DEF SuiteInv, TestInv, Covered, CoverInv, CoverTypes
  <2>3. LoopKeeps(rows, iTree', scov, numAddStates, open')
    BY <1>1, <2>2, BeginHStarts
  <2>4. iTree' # {}
    <3>1. << >> \in scov /\ scov \in SUBSET Seq(Input) /\ numAddStates + 1 \in Nat
      BY <2>2, CoveredFacts
    <3>2. << >> \in Ext(scov, numAddStates + 1)
      BY <3>1, ExtFacts
    <3> QED BY <2>3, <3>2 DEF LoopKeeps
  <2>5. scov' = scov /\ rows' = rows /\ numAddStates' = numAddStates /\ method' = method /\ stage' = stage
    BY <2>1 DEF scov
  <2> QED BY <1>0, <2>1, <2>3, <2>4, <2>5 DEF HLoop
<1>2. CASE DistinguishPair
  <2>1. UNCHANGED <<rows, method, stage, numAddStates, color, f2t>>
    BY <1>2 DEF DistinguishPair, suiteVars, coverVars, vars
  <2>2. /\ iTree # {} /\ method = "H" /\ stage = "sets" /\ Det(rows)
        /\ LoopKeeps(rows, iTree, scov, numAddStates, open)
    BY <1>0, <1>2 DEF DistinguishPair, HLoop
  <2>3. Covered /\ numAddStates \in Nat
    BY <1>0, <2>2 DEF SuiteInv, TestInv, Covered, CoverInv, CoverTypes
  <2>4. scov \in SUBSET Seq(Input)
    BY <2>3, CoveredFacts
  <2>5. LoopKeeps(rows, iTree', scov, numAddStates, open')
    BY <1>0, <1>2, <2>2, <2>3, <2>4, PairStep
  <2>6. iTree \subseteq iTree'
    BY <1>2 DEF DistinguishPair
  <2>7. scov' = scov /\ rows' = rows /\ numAddStates' = numAddStates /\ method' = method /\ stage' = stage
    BY <2>1 DEF scov
  <2> QED BY <1>0, <2>2, <2>5, <2>6, <2>7 DEF HLoop
<1>3. CASE GenerateH
  <2>1. method' = method /\ rows' = rows /\ iTree' = {} /\ open' = << >>
    BY <1>3 DEF GenerateH, vars
  <2> QED BY <1>0, <2>1 DEF HLoop
<1>4. CASE (SuiteNext /\ UNCHANGED <<iTree, open>>) \/ UNCHANGED hVars
  <2>1. rows' = rows /\ method' = method /\ iTree' = iTree /\ open' = open
    <3>1. [Next]_vars
      BY <1>4 DEF SuiteNext, suiteVars, hVars, VisitNode, CoverDone, CalcSets, Generate, Test, Finished, Next
    <3>2. rows' = rows
      BY <3>1, RowsStay
    <3> QED BY <1>4, <3>2 DEF SuiteNext, suiteVars, hVars, VisitNode, CoverDone, CalcSets, Generate, Test, Finished
  <2>2. CASE iTree = {}
    BY <1>0, <2>1, <2>2 DEF HLoop
  <2>3. CASE iTree # {}
    <3>1. method = "H" /\ stage = "sets" /\ LoopKeeps(rows, iTree, scov, numAddStates, open)
      BY <1>0, <2>3 DEF HLoop
    <3>2. UNCHANGED <<stage, numAddStates, color, f2t>>
      BY <1>4, <3>1 DEF SuiteNext, suiteVars, coverVars, hVars, VisitNode, CoverDone, CalcSets, Generate, Test, Finished
    <3>3. scov' = scov
      BY <3>2 DEF scov
    <3> QED BY <1>0, <2>1, <3>1, <3>2, <3>3 DEF HLoop
  <2> QED BY <2>2, <2>3
<1> QED BY <1>1, <1>2, <1>3, <1>4 DEF HNext

(* When the loops are through, the H condition holds. *)
LEMMA LoopSatisfiesHCondition == HMethodInv => SuiteSatisfiesHCondition
<1> SUFFICES ASSUME HMethodInv, method = "H", stage = "sets", iTree # {}, open = << >>
             PROVE  LET More(k) == {a \o b : a \in scov, b \in InputEnum(1, k)}
                        TellsApart(u, v) == StateAfter(0, u) # StateAfter(0, v) => SuiteTellsApart(u, v)
                    IN  /\ \A u \in scov \cup More(numAddStates + 1), v \in scov : TellsApart(u, v)
                        /\ \A a \in scov, b \in InputEnum(1, numAddStates + 1) : \A i \in 1 .. Len(b) - 1 :
                             TellsApart(a \o SubSeq(b, 1, i), a \o b)
  BY DEF SuiteSatisfiesHCondition
<1> DEFINE m == numAddStates
           TellsApart(u, v) == StateAfter(0, u) # StateAfter(0, v) => SuiteTellsApart(u, v)
           B == InputEnum(1, m + 1)
<1>1. LoopKeeps(rows, iTree, scov, m, << >>)
  BY DEF HMethodInv, HLoop
<1>2. Covered /\ m \in Nat /\ m + 1 \in Nat /\ 1 \in Nat
  BY DEF HMethodInv, SuiteInv, TestInv, Covered, CoverInv, CoverTypes
<1>3. scov \in SUBSET Seq(Input) /\ iTree \in SUBSET Seq(Input)
  BY <1>1, <1>2, CoveredFacts DEF LoopKeeps
<1>4. HTree(rows, iTree, scov, m)
  BY <1>1, NothingOpen
<1>5. B = {b \in Seq(Input) : 1 <= Len(b) /\ Len(b) <= m + 1}
  BY <1>2, EnumIs
<1>6. ASSUME NEW u \in Seq(Input), NEW v \in Seq(Input), ToldApart(rows, iTree, u, v)
      PROVE  TellsApart(u, v)
  <2> DEFINE p == StateBy(rows, 0, u)
             q == StateBy(rows, 0, v)
  <2>1. StateAfter(0, u) = p /\ StateAfter(0, v) = q
    BY StateAfterIs
  <2>2. ASSUME p # q PROVE SuiteTellsApart(u, v)
    <3>1. PICK t \in Seq(Input) : u \o t \in iTree /\ v \o t \in iTree /\ Differ(rows, p, q, t)
      BY <1>6, <2>2 DEF ToldApart
    <3>2. t \in SubTree(iTree, u) \cap SubTree(iTree, v)
      BY <1>3, <3>1, SubTreeIs
    <3>3. {t} \subseteq Seq(Input) /\ t \in {t}
      OBVIOUS
    <3> HIDE DEF p, q
    <3>4. Distinguished(p, q, t)
      BY <3>1, <3>3, DistinguishedIs
    <3> QED BY <2>1, <3>2, <3>4 DEF SuiteTellsApart
  <2> QED BY <2>1, <2>2
<1> HIDE DEF TellsApart, B
<1> DEFINE E == Ext(scov, m + 1)
<1>7. scov \subseteq E
  BY <1>2, <1>3, ExtFacts
<1>8. ASSUME NEW a \in scov, NEW b \in B PROVE a \o b \in E
  <2>1. a \in Seq(Input) /\ b \in Seq(Input) /\ Len(b) <= m + 1
    BY <1>3, <1>5
  <2>2. a \o b \in Seq(Input)
    BY <2>1
  <2> QED BY <2>1, <2>2 DEF Ext
<1>9. ASSUME NEW u \in scov \cup {a \o b : a \in scov, b \in B}, NEW v \in scov
      PROVE  TellsApart(u, v)
  <2>1. u \in E
    <3> HIDE DEF E
    <3>1. u \in scov \/ \E a \in scov, b \in B : u = a \o b
      OBVIOUS
    <3>2. CASE \E a \in scov, b \in B : u = a \o b
      <4>1. PICK a \in scov, b \in B : u = a \o b
        BY <3>2
      <4>2. a \o b \in E
        BY <1>8
      <4> QED BY <4>1, <4>2
    <3> QED BY <1>7, <3>1, <3>2
  <2>2. u \in Seq(Input) /\ v \in Seq(Input)
    BY <1>3, <2>1 DEF Ext
  <2> QED BY <1>4, <1>6, <2>1, <2>2 DEF HTree
<1>10. ASSUME NEW a \in scov, NEW b \in B, NEW i \in 1 .. Len(b) - 1
      PROVE  TellsApart(a \o SubSeq(b, 1, i), a \o b)
  <2>1. b \in Seq(Input) /\ Len(b) \in Nat /\ Len(b) <= m + 1 /\ a \in Seq(Input)
    BY <1>3, <1>5
  <2>2. i \in 1 .. m /\ i < Len(b) /\ i \in 0 .. Len(b)
    BY <1>2, <1>8, <2>1
  <2> DEFINE c == SubSeq(b, 1, i)
  <2>3. c \in Seq(Input)
    BY <2>1, <2>2, SplitAt
  <2>4. ToldApart(rows, iTree, a \o c, a \o b)
    BY <1>4, <2>1, <2>2 DEF HTree
  <2> HIDE DEF c
  <2>5. a \o c \in Seq(Input) /\ a \o b \in Seq(Input)
    BY <2>1, <2>3
  <2>6. TellsApart(a \o c, a \o b)
    BY <1>6, <2>4, <2>5
  <2> QED BY <2>6 DEF c
<1> QED BY <1>9, <1>10 DEF TellsApart, B

(* The invariant is one. *)
LEMMA HMethodInvHolds == HSpec => []HMethodInv
<1>1. HInit => HMethodInv
  BY InitHMethodInv
<1>2. HMethodInv /\ [HNext]_hVars => HMethodInv'
  BY StepHSuiteInv, StepHLoop DEF HMethodInv
<1> QED BY <1>1, <1>2, PTL DEF HSpec

(***************************************************************************)
(* Dfsm::hMethodOnMinimisedDfsm: when the loops over the pairs of traces   *)
(* are through, the suite tells apart all traces that the H condition      *)
(* names, wherever the distinguishing traces were taken from.              *)
(***************************************************************************)
THEOREM HConditionHolds == HSpec => []SuiteSatisfiesHCondition
<1>1. HMethodInv => SuiteSatisfiesHCondition
  BY LoopSatisfiesHCondition
<1> QED BY <1>1, HMethodInvHolds, PTL

(***************************************************************************)
(* Completeness of the H method: an implementation with no more states     *)
(* than announced that passes its suite is I/O-equivalent to the           *)
(* deterministic, minimal, completely specified reference machine; and the *)
(* suites of the other methods still find what SuitesFindFaults says.      *)
(***************************************************************************)
THEOREM HMethodFindsFaults == HSpec => []SuiteFindsFaults
<1>1. HMethodInv => SuiteFindsFaults
  BY PassedIsEquivalent, NoOutputFault DEF HMethodInv, SuiteFindsFaults
<1> QED BY <1>1, HMethodInvHolds, PTL
=============================================================================
