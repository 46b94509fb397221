----------------------- MODULE ReductionTesting_proofs -----------------------
(***************************************************************************)
(* r-distinguishability and d-reachability, for observable FSMs of every   *)
(* size: what both methods that test for reduction start from is exact,    *)
(* and so is the verdict of adaptive state counting.                       *)
(*                                                                         *)
(* What the folds over traces compute is first proved step by step.        *)
(***************************************************************************)
EXTENDS ReductionTesting, FiniteSetTheorems, SequenceTheorems, WellFoundedInduction, TLAPS

(***************************************************************************)
(* Induction on the naturals, as facts about sets.                         *)
(***************************************************************************)
LEMMA LeastElement ==
  ASSUME NEW T, T \subseteq Nat, T # {}
  PROVE  \E x \in T : \A y \in T : x <= y
<1> DEFINE R == {ss \in Nat \X Nat : ss[1] < ss[2]}
<1>1. IsWellFoundedOn(R, Nat)
  BY NatLessThanWellFounded DEF OpToRel
<1>2. \E x \in T : \A y \in T : ~(<<y, x>> \in R)
  <2> HIDE DEF R
  <2> QED BY <1>1, WFMin
<1>3. PICK x \in T : \A y \in T : ~(<<y, x>> \in R)
  BY <1>2
<1>4. ASSUME NEW y \in T PROVE x <= y
  <2>1. x \in Nat /\ y \in Nat /\ ~(<<y, x>> \in R)
    BY <1>3
  <2> QED BY <2>1
<1> QED BY <1>4

LEMMA SetInduction ==
  ASSUME NEW A, 0 \in A, \A n \in Nat : n \in A => n + 1 \in A
  PROVE  Nat \subseteq A
<1> DEFINE B == Nat \ A
<1> SUFFICES ASSUME B # {} PROVE FALSE
  OBVIOUS
<1>1. PICK x \in B : \A y \in B : x <= y
  BY LeastElement
<1>2. x # 0 /\ x - 1 \in Nat /\ (x - 1) + 1 = x
  BY <1>1
<1> QED BY <1>1, <1>2

(* A set of sequences with the empty one and all extensions has all. *)
LEMMA SeqInduction ==
  ASSUME NEW X, NEW A, << >> \in A, \A u \in Seq(X), x \in X : u \in A => Append(u, x) \in A
  PROVE  Seq(X) \subseteq A
<1> DEFINE B == {n \in Nat : \A u \in Seq(X) : Len(u) = n => u \in A}
<1>1. 0 \in B
  <2>1. \A u \in Seq(X) : Len(u) = 0 => u = << >>
    BY EmptySeq
  <2> QED BY <2>1
<1>2. ASSUME NEW n \in Nat, n \in B PROVE n + 1 \in B
  <2> SUFFICES ASSUME NEW u \in Seq(X), Len(u) = n + 1 PROVE u \in A
    OBVIOUS
  <2>1. u # << >>
    BY EmptySeq
  <2>2. PICK s \in Seq(X), x \in X : u = Append(s, x)
    BY <2>1, SequenceEmptyOrAppend
  <2>3. Len(s) = n
    BY <2>2
  <2> QED BY <1>2, <2>2, <2>3
<1> HIDE DEF B
<1>3. Nat \subseteq B
  BY <1>1, <1>2, SetInduction
<1> QED BY <1>3 DEF B

LEMMA MinOf ==
  ASSUME NEW T, T \subseteq Nat, T # {}
  PROVE  Min(T) \in T /\ \A y \in T : Min(T) <= y
<1>1. \E x \in T : \A y \in T : x <= y
  BY LeastElement
<1> QED BY <1>1 DEF Min

(* The last index of a sequence, as FoldLeft takes it. *)
LEMMA MaxOfInitial ==
  ASSUME NEW n \in Nat, NEW T, T \subseteq 1 .. n + 1, n + 1 \in T
  PROVE  Max(T) = n + 1
<1>1. \A y \in T : n + 1 >= y
  OBVIOUS
<1>2. Max(T) \in T /\ \A y \in T : Max(T) >= y
  BY <1>1 DEF Max
<1>3. Max(T) >= n + 1 /\ Max(T) \in 1 .. n + 1
  BY <1>2
<1> QED BY <1>3

(***************************************************************************)
(* FoldLeft, by the function that its definition recurs with.  StepOf has  *)
(* a case for every operator that is folded with; k says which, on which   *)
(* FSM.                                                                    *)
(***************************************************************************)
SuccessorsOf(r, s, x) == {r[s][<<x, y>>] : y \in PossibleOutputs(r, s, x)}

SubsetsOf(r, S, x) ==
  UNION {IF q = Sink \/ SuccessorsOf(r, q, x) = {} THEN {Sink} ELSE SuccessorsOf(r, q, x) : q \in S}

(* the traces in a followed by the input b, of r *)
OneMore(r, a, b) == {io \in {Append(i, <<b, y>>) : i \in a, y \in Out} : After(r, 0, io) >= 0}

(* a set of states told apart, and a system of such sets, with the state b *)
AddApart(q, D, a, b) == IF b # q /\ \A s \in a : <<b, s>> \in D THEN a \cup {b} ELSE a

AddSet(sets, a, b) == IF b \in UNION a THEN a ELSE a \cup {sets[b]}

(* the elements of a sequence that reach a state of R *)
AddWithin(R, a, b) == IF b[2] \in R THEN Append(a, b) ELSE a

AddToRDSet(D, a, b) == IF b \notin a /\ \A s \in a : <<s, b>> \in D THEN a \cup {b} ELSE a

(* a test suite with the traces that tell the two of the pair apart *)
SeparateBy(told, trees, tree, ab) ==
  LET a == ab[1]
      b == ab[2]
  IN  IF a[2] = b[2] \/ told[<<<<a[2], b[2]>>, SharedExtensions(tree, a[1], b[1])>>] THEN tree
      ELSE AddAfter(AddAfter(tree, a[1], trees[<<a[2], b[2]>>]), b[1], trees[<<a[2], b[2]>>])

(* a response of fsm that has not ended, followed by an input *)
FollowedOn(M, fsm, r, x) ==
  LET ys == PossibleOutputs(fsm, r.state, x)
  IN  IF r.ended \/ ys = {} THEN {[r EXCEPT !.ended = TRUE]}
      ELSE {[spec |-> IF r.spec < 0 THEN -1 ELSE M[r.spec][<<x, y>>],
             state |-> fsm[r.state][<<x, y>>], ended |-> FALSE] : y \in ys}

StepOf(k, a, b) ==
  CASE k[1] = "after" -> (IF a < 0 THEN -1 ELSE k[2][a][b])
    [] k[1] = "reached" -> UNION {SuccessorsOf(k[2], s, b) : s \in a}
    [] k[1] = "subset" -> SubsetsOf(k[2], a, b)
    [] k[1] = "responses" -> OneMore(k[2], a, b)
    [] k[1] = "set" -> AddApart(k[2], k[3], a, b)
    [] k[1] = "sets" -> AddSet(k[2], a, b)
    [] k[1] = "radix" -> a * Len(k[2][b])
    [] k[1] = "within" -> AddWithin(k[2], a, b)
    [] k[1] = "rdset" -> AddToRDSet(k[2], a, b)
    [] k[1] = "separate" -> SeparateBy(k[2], k[3], a, b)
    [] k[1] = "follow" -> UNION {FollowedOn(k[2], k[3], r, b) : r \in a}

IsFold(iter, k, base, u) ==
  iter = [s \in SUBSET DOMAIN u |-> IF s = {} THEN base
                                   ELSE StepOf(k, iter[s \ {Max(s)}], u[Max(s)])]

FoldOf(k, base, u) == (CHOOSE iter : IsFold(iter, k, base, u))[DOMAIN u]

LEMMA FoldExists ==
  ASSUME NEW k, NEW base, NEW X, NEW u \in Seq(X)
  PROVE  \E iter : IsFold(iter, k, base, u)
<1> DEFINE Is(f, n) == f = [s \in SUBSET (1 .. n) |-> IF s = {} THEN base
                                   ELSE StepOf(k, f[s \ {Max(s)}], u[Max(s)])]
           A == {n \in Nat : \E f : Is(f, n)}
<1>1. 0 \in A
  <2> DEFINE f == [s \in SUBSET (1 .. 0) |-> base]
  <2>1. Is(f, 0)
    OBVIOUS
  <2> QED BY <2>1
<1>2. ASSUME NEW n \in Nat, n \in A PROVE n + 1 \in A
  <2>1. PICK f : Is(f, n)
    BY <1>2
  <2> DEFINE h == [s \in SUBSET (1 .. n + 1) |->
                     IF n + 1 \in s THEN StepOf(k, f[s \ {n + 1}], u[n + 1]) ELSE f[s]]
             Rec(s, g) == IF s = {} THEN base ELSE StepOf(k, g[s \ {Max(s)}], u[Max(s)])
  <2>2. \A s \in SUBSET (1 .. n) : f[s] = Rec(s, f)
    BY <2>1
  <2>3. \A s \in SUBSET (1 .. n) : s \in SUBSET (1 .. n + 1) /\ h[s] = f[s]
    OBVIOUS
  <2>4. ASSUME NEW s \in SUBSET (1 .. n + 1) PROVE h[s] = Rec(s, h)
    <3>1. CASE n + 1 \in s
      <4>1. Max(s) = n + 1
        BY <3>1, MaxOfInitial
      <4>2. s \ {n + 1} \in SUBSET (1 .. n)
        OBVIOUS
      <4>3. h[s] = StepOf(k, f[s \ {n + 1}], u[n + 1])
        BY <3>1
      <4>4. h[s \ {n + 1}] = f[s \ {n + 1}]
        BY <2>3, <4>2
      <4>5. Rec(s, h) = StepOf(k, h[s \ {n + 1}], u[n + 1])
        BY <3>1, <4>1
      <4> QED BY <4>3, <4>4, <4>5
    <3>2. CASE n + 1 \notin s
      <4>1. s \in SUBSET (1 .. n) /\ s \ {Max(s)} \in SUBSET (1 .. n)
        <5>1. \A e \in s : e \in 1 .. n
          BY <3>2
        <5> QED BY <5>1
      <4>2. h[s] = f[s] /\ h[s \ {Max(s)}] = f[s \ {Max(s)}]
        BY <2>3, <4>1
      <4>3. Rec(s, h) = Rec(s, f)
        BY <4>2
      <4> QED BY <2>2, <4>1, <4>2, <4>3
    <3> QED BY <3>1, <3>2
  <2>5. Is(h, n + 1)
    <3>1. h = [s \in SUBSET (1 .. n + 1) |-> h[s]]
      OBVIOUS
    <3> HIDE DEF h
    <3> QED BY <2>4, <3>1
  <2> HIDE DEF Is
  <2> QED BY <2>5
<1> HIDE DEF A
<1>3. Len(u) \in A /\ DOMAIN u = 1 .. Len(u)
  BY <1>1, <1>2, SetInduction
<1> QED BY <1>3 DEF A, IsFold

(* What is calculated up to an index is what the elements up to it determine. *)
LEMMA SameFold ==
  ASSUME NEW k, NEW base, NEW X, NEW u \in Seq(X), NEW v \in Seq(X), NEW f, NEW g,
         IsFold(f, k, base, u), IsFold(g, k, base, v), NEW n \in Nat, n <= Len(u), n <= Len(v),
         \A i \in 1 .. n : u[i] = v[i]
  PROVE  f[1 .. n] = g[1 .. n]
<1> DEFINE A == {i \in Nat : i <= n => f[1 .. i] = g[1 .. i]}
<1>1. 0 \in A
  <2>1. 1 .. 0 = {} /\ {} \in SUBSET DOMAIN u /\ {} \in SUBSET DOMAIN v
    OBVIOUS
  <2>2. f[{}] = base /\ g[{}] = base
    BY <2>1 DEF IsFold
  <2> QED BY <2>1, <2>2
<1>2. ASSUME NEW i \in Nat, i \in A PROVE i + 1 \in A
  <2> SUFFICES ASSUME i + 1 <= n PROVE f[1 .. i + 1] = g[1 .. i + 1]
    OBVIOUS
  <2>1. /\ 1 .. i + 1 \in SUBSET DOMAIN u /\ 1 .. i + 1 \in SUBSET DOMAIN v
        /\ 1 .. i + 1 # {} /\ (1 .. i + 1) \ {i + 1} = 1 .. i
    <3> HIDE DEF A
    <3>1. DOMAIN u = 1 .. Len(u) /\ DOMAIN v = 1 .. Len(v) /\ Len(u) \in Nat /\ Len(v) \in Nat
      OBVIOUS
    <3>2. \A j \in 1 .. i + 1 : j \in 1 .. Len(u) /\ j \in 1 .. Len(v)
      BY <3>1
    <3>3. i + 1 \in 1 .. i + 1 /\ (1 .. i + 1) \ {i + 1} = 1 .. i
      OBVIOUS
    <3> QED BY <3>1, <3>2, <3>3
  <2>2. Max(1 .. i + 1) = i + 1
    BY MaxOfInitial
  <2>3. f[1 .. i + 1] = StepOf(k, f[1 .. i], u[i + 1])
    BY <2>1, <2>2 DEF IsFold
  <2>4. g[1 .. i + 1] = StepOf(k, g[1 .. i], v[i + 1])
    BY <2>1, <2>2 DEF IsFold
  <2>5. f[1 .. i] = g[1 .. i] /\ u[i + 1] = v[i + 1]
    BY <1>2
  <2> QED BY <2>3, <2>4, <2>5
<1> HIDE DEF A
<1>3. n \in A
  BY <1>1, <1>2, SetInduction
<1> QED BY <1>3 DEF A

LEMMA FoldOfEmpty ==
  ASSUME NEW k, NEW base
  PROVE  FoldOf(k, base, << >>) = base
<1>1. << >> \in Seq({}) /\ DOMAIN << >> = {}
  OBVIOUS
<1>2. PICK f : IsFold(f, k, base, << >>) /\ f = CHOOSE iter : IsFold(iter, k, base, << >>)
  BY <1>1, FoldExists
<1>3. f[{}] = base
  BY <1>1, <1>2 DEF IsFold
<1> QED BY <1>1, <1>2, <1>3 DEF FoldOf

LEMMA FoldOfAppend ==
  ASSUME NEW k, NEW base, NEW X, NEW u \in Seq(X), NEW x \in X
  PROVE  FoldOf(k, base, Append(u, x)) = StepOf(k, FoldOf(k, base, u), x)
<1> DEFINE v == Append(u, x)
           n == Len(u)
<1>1. /\ v \in Seq(X) /\ Len(v) = n + 1 /\ v[n + 1] = x /\ n \in Nat
      /\ \A i \in 1 .. n : u[i] = v[i]
      /\ DOMAIN v = 1 .. n + 1 /\ DOMAIN u = 1 .. n
  OBVIOUS
<1> HIDE DEF v, n
<1>2. PICK f : IsFold(f, k, base, u) /\ f = CHOOSE iter : IsFold(iter, k, base, u)
  BY FoldExists
<1>3. PICK g : IsFold(g, k, base, v) /\ g = CHOOSE iter : IsFold(iter, k, base, v)
  BY <1>1, FoldExists
<1>4. f[1 .. n] = g[1 .. n]
  <2>1. n <= Len(u) /\ n <= Len(v)
    BY <1>1 DEF n
  <2> QED BY <1>1, <1>2, <1>3, <2>1, SameFold
<1>5. g[1 .. n + 1] = StepOf(k, g[1 .. n], x)
  <2>1. Max(1 .. n + 1) = n + 1
    BY <1>1, MaxOfInitial
  <2>2. 1 .. n + 1 \in SUBSET DOMAIN v
    BY <1>1
  <2>3. n + 1 \in 1 .. n + 1 /\ (1 .. n + 1) \ {n + 1} = 1 .. n
    BY <1>1
  <2>4. 1 .. n + 1 # {}
    BY <2>3
  <2> QED BY <1>1, <1>3, <2>1, <2>2, <2>3, <2>4 DEF IsFold
<1>6. FoldOf(k, base, u) = f[1 .. n] /\ FoldOf(k, base, v) = g[1 .. n + 1]
  BY <1>1, <1>2, <1>3 DEF FoldOf
<1>7. FoldOf(k, base, v) = StepOf(k, FoldOf(k, base, u), x)
  BY <1>4, <1>5, <1>6
<1> QED BY <1>7 DEF v

LEMMA StepCases ==
  /\ \A r, a, b : StepOf(<<"after", r>>, a, b) = IF a < 0 THEN -1 ELSE r[a][b]
  /\ \A r, a, b : StepOf(<<"reached", r>>, a, b) = UNION {SuccessorsOf(r, s, b) : s \in a}
  /\ \A r, a, b : StepOf(<<"subset", r>>, a, b) = SubsetsOf(r, a, b)
  /\ \A r, a, b : StepOf(<<"responses", r>>, a, b) = OneMore(r, a, b)
  /\ \A q, D, a, b : StepOf(<<"set", q, D>>, a, b) = AddApart(q, D, a, b)
  /\ \A r, a, b : StepOf(<<"sets", r>>, a, b) = AddSet(r, a, b)
  /\ \A r, a, b : StepOf(<<"radix", r>>, a, b) = a * Len(r[b])
  /\ \A R, a, b : StepOf(<<"within", R>>, a, b) = AddWithin(R, a, b)
  /\ \A D, a, b : StepOf(<<"rdset", D>>, a, b) = AddToRDSet(D, a, b)
  /\ \A d, g, a, b : StepOf(<<"separate", d, g>>, a, b) = SeparateBy(d, g, a, b)
  /\ \A r, f, a, b : StepOf(<<"follow", r, f>>, a, b) = UNION {FollowedOn(r, f, e, b) : e \in a}
BY DEF StepOf

(* FsmNode::after, one label after the other. *)
LEMMA AfterIs ==
  ASSUME NEW r, NEW q, NEW X, NEW io \in Seq(X)
  PROVE  After(r, q, io) = FoldOf(<<"after", r>>, q, io)
<1> DEFINE k == <<"after", r>>
           D == DOMAIN io
           Op(a, b) == IF a < 0 THEN -1 ELSE r[a][b]
           Is(iter) == iter = [s \in SUBSET D |-> IF s = {} THEN q
                                ELSE Op(iter[s \ {Max(s)}], io[Max(s)])]
<1>1. After(r, q, io) = (CHOOSE iter : Is(iter))[D]
  BY DEF After, FoldLeft, MapThenFoldSet
<1>2. \A a, b : StepOf(k, a, b) = Op(a, b)
  BY StepCases
<1> HIDE DEF Op, k
<1>3. \A iter : Is(iter) <=> IsFold(iter, k, q, io)
  BY <1>2 DEF IsFold
<1> HIDE DEF Is
<1>4. (CHOOSE iter : Is(iter)) = CHOOSE iter : IsFold(iter, k, q, io)
  BY <1>3
<1> QED BY <1>1, <1>4 DEF FoldOf, k

(* The states after an input trace, one input after the other. *)
LEMMA ReachedIs ==
  ASSUME NEW r, NEW X, NEW xs \in Seq(X)
  PROVE  Reached(r, xs) = FoldOf(<<"reached", r>>, {0}, xs)
<1> DEFINE k == <<"reached", r>>
           D == DOMAIN xs
           Op(a, b) == UNION {SuccessorsOf(r, s, b) : s \in a}
           Is(iter) == iter = [s \in SUBSET D |-> IF s = {} THEN {0}
                                ELSE Op(iter[s \ {Max(s)}], xs[Max(s)])]
<1>1. Reached(r, xs) = (CHOOSE iter : Is(iter))[D]
  BY DEF Reached, FoldLeft, MapThenFoldSet, SuccessorsOf
<1>2. \A a, b : StepOf(k, a, b) = Op(a, b)
  BY StepCases
<1> HIDE DEF Op, k
<1>3. \A iter : Is(iter) <=> IsFold(iter, k, {0}, xs)
  BY <1>2 DEF IsFold
<1> HIDE DEF Is
<1>4. (CHOOSE iter : Is(iter)) = CHOOSE iter : IsFold(iter, k, {0}, xs)
  BY <1>3
<1> QED BY <1>1, <1>4 DEF FoldOf, k

(***************************************************************************)
(* The machine and its traces.                                             *)
(***************************************************************************)
Machines == [State -> [IO -> State \cup {-1}]]

LEMMA SizeFacts ==
  /\ State \subseteq Nat /\ 0 \in State
  /\ In \subseteq Nat /\ Out \subseteq Nat
  /\ -1 \notin State
BY SizeAssumption DEF State, In, Out

LEMMA PostFacts ==
  ASSUME NEW r \in Machines, NEW q \in State, NEW e \in IO
  PROVE  /\ r[q][e] \in State \cup {-1}
         /\ r[q][e] >= 0 <=> r[q][e] \in State
         /\ r[q][e] < 0 <=> r[q][e] = -1
<1>1. r[q][e] \in State \cup {-1}
  BY DEF Machines
<1>2. \A s \in State : s >= 0 /\ s \in Int
  BY SizeFacts
<1> QED BY <1>1, <1>2

LEMMA AfterEmpty ==
  ASSUME NEW r, NEW q
  PROVE  After(r, q, << >>) = q
<1>1. << >> \in Seq({})
  OBVIOUS
<1>2. After(r, q, << >>) = FoldOf(<<"after", r>>, q, << >>)
  BY <1>1, AfterIs
<1>3. FoldOf(<<"after", r>>, q, << >>) = q
  BY FoldOfEmpty
<1> QED BY <1>2, <1>3

LEMMA AfterAppend ==
  ASSUME NEW r, NEW q, NEW io \in Seq(IO), NEW e \in IO
  PROVE  After(r, q, Append(io, e)) = IF After(r, q, io) < 0 THEN -1 ELSE r[After(r, q, io)][e]
<1>1. Append(io, e) \in Seq(IO)
  OBVIOUS
<1>2. After(r, q, Append(io, e)) = FoldOf(<<"after", r>>, q, Append(io, e))
  BY <1>1, AfterIs
<1>3. After(r, q, io) = FoldOf(<<"after", r>>, q, io)
  BY AfterIs
<1>4. FoldOf(<<"after", r>>, q, Append(io, e)) = StepOf(<<"after", r>>, FoldOf(<<"after", r>>, q, io), e)
  BY FoldOfAppend
<1> QED BY <1>2, <1>3, <1>4, StepCases

LEMMA AfterTyped ==
  ASSUME NEW r \in Machines, NEW q \in State, NEW io \in Seq(IO)
  PROVE  /\ After(r, q, io) \in State \cup {-1}
         /\ After(r, q, io) >= 0 <=> After(r, q, io) \in State
         /\ After(r, q, io) < 0 <=> After(r, q, io) = -1
<1> DEFINE A == {u \in Seq(IO) : After(r, q, u) \in State \cup {-1}}
<1>1. << >> \in A
  BY AfterEmpty
<1>2. ASSUME NEW u \in Seq(IO), NEW e \in IO, u \in A PROVE Append(u, e) \in A
  <2>1. After(r, q, u) \in State \/ After(r, q, u) = -1
    BY <1>2
  <2>2. ASSUME NEW s \in State PROVE ~(s < 0) /\ r[s][e] \in State \cup {-1}
    <3>1. s \in Nat
      BY SizeFacts
    <3> QED BY <3>1, PostFacts
  <2>3. After(r, q, Append(u, e)) \in State \cup {-1}
    BY <2>1, <2>2, AfterAppend
  <2> QED BY <2>3
<1> HIDE DEF A
<1>3. io \in A
  BY <1>1, <1>2, SeqInduction
<1>4. After(r, q, io) \in State \cup {-1}
  BY <1>3 DEF A
<1>5. \A s \in State : s >= 0 /\ s \in Int
  BY SizeFacts
<1> QED BY <1>4, <1>5

(* The first label first. *)
LEMMA AfterFirst ==
  ASSUME NEW r \in Machines, NEW q \in State, NEW e \in IO, NEW io \in Seq(IO)
  PROVE  After(r, q, <<e>> \o io) = IF r[q][e] < 0 THEN -1 ELSE After(r, r[q][e], io)
<1> DEFINE Want(u) == IF r[q][e] < 0 THEN -1 ELSE After(r, r[q][e], u)
           A == {u \in Seq(IO) : After(r, q, <<e>> \o u) = Want(u)}
<1>q. ~(q < 0)
  <2>1. q \in Nat
    BY SizeFacts
  <2> QED BY <2>1
<1>1. << >> \in A
  <2>1. <<e>> \o << >> = Append(<< >>, e) /\ << >> \in Seq(IO)
    OBVIOUS
  <2>2. After(r, q, Append(<< >>, e)) = IF After(r, q, << >>) < 0 THEN -1 ELSE r[After(r, q, << >>)][e]
    <3> HIDE DEF A, Want
    <3> QED BY <2>1, AfterAppend
  <2>3. Want(<< >>) = r[q][e]
    BY AfterEmpty, PostFacts
  <2>4. After(r, q, << >>) = q
    BY AfterEmpty
  <2> QED BY <1>q, <2>1, <2>2, <2>3, <2>4
<1>2. ASSUME NEW u \in Seq(IO), NEW l \in IO, u \in A PROVE Append(u, l) \in A
  <2>1. <<e>> \o Append(u, l) = Append(<<e>> \o u, l) /\ <<e>> \o u \in Seq(IO)
    OBVIOUS
  <2> DEFINE v == <<e>> \o u
  <2>v. v \in Seq(IO)
    BY <2>1
  <2> HIDE DEF v, Want, A
  <2>2. After(r, q, Append(v, l)) = IF After(r, q, v) < 0 THEN -1 ELSE r[After(r, q, v)][l]
    BY <2>v, AfterAppend
  <2>3. After(r, q, v) = Want(u)
    BY <1>2 DEF v, A
  <2>4. After(r, q, <<e>> \o Append(u, l)) = IF Want(u) < 0 THEN -1 ELSE r[Want(u)][l]
    BY <2>1, <2>2, <2>3 DEF v
  <2>5. Want(Append(u, l)) = IF Want(u) < 0 THEN -1 ELSE r[Want(u)][l]
    <3>1. CASE r[q][e] < 0
      BY <3>1 DEF Want
    <3>2. CASE ~(r[q][e] < 0)
      <4>1. After(r, r[q][e], Append(u, l))
              = IF After(r, r[q][e], u) < 0 THEN -1 ELSE r[After(r, r[q][e], u)][l]
        BY AfterAppend
      <4> QED BY <3>2, <4>1 DEF Want
    <3> QED BY <3>1, <3>2
  <2>6. Append(u, l) \in Seq(IO)
    OBVIOUS
  <2> QED BY <2>4, <2>5, <2>6 DEF A
<1> HIDE DEF A
<1>3. io \in A
  BY <1>1, <1>2, SeqInduction
<1> QED BY <1>3 DEF A

LEMMA ReachedEmpty == \A r : Reached(r, << >>) = {0}
<1> SUFFICES ASSUME NEW r PROVE Reached(r, << >>) = {0}
  OBVIOUS
<1>1. << >> \in Seq({})
  OBVIOUS
<1>2. Reached(r, << >>) = FoldOf(<<"reached", r>>, {0}, << >>)
  BY <1>1, ReachedIs
<1>3. FoldOf(<<"reached", r>>, {0}, << >>) = {0}
  BY FoldOfEmpty
<1> QED BY <1>2, <1>3

LEMMA ReachedSteps ==
  ASSUME NEW r, NEW xs \in Seq(In), NEW x \in In
  PROVE  Reached(r, Append(xs, x)) = UNION {SuccessorsOf(r, s, x) : s \in Reached(r, xs)}
<1>1. Append(xs, x) \in Seq(In)
  OBVIOUS
<1>2. Reached(r, Append(xs, x)) = FoldOf(<<"reached", r>>, {0}, Append(xs, x))
  BY <1>1, ReachedIs
<1>3. Reached(r, xs) = FoldOf(<<"reached", r>>, {0}, xs)
  BY ReachedIs
<1>4. FoldOf(<<"reached", r>>, {0}, Append(xs, x)) = StepOf(<<"reached", r>>, FoldOf(<<"reached", r>>, {0}, xs), x)
  BY FoldOfAppend
<1>5. StepOf(<<"reached", r>>, Reached(r, xs), x) = UNION {SuccessorsOf(r, s, x) : s \in Reached(r, xs)}
  BY StepCases
<1> QED BY <1>2, <1>3, <1>4, <1>5

(* Where a trace leads to one state only, one input more leads to the       *)
(* successors of that state.                                                *)
LEMMA ReachedAppend ==
  ASSUME NEW r, NEW q, NEW xs \in Seq(In), NEW x \in In, Reached(r, xs) = {q}
  PROVE  Reached(r, Append(xs, x)) = SuccessorsOf(r, q, x)
<1>1. Reached(r, Append(xs, x)) = UNION {SuccessorsOf(r, s, x) : s \in Reached(r, xs)}
  BY ReachedSteps
<1> DEFINE S == Reached(r, xs)
<1>2. S = {q}
  OBVIOUS
<1> HIDE DEF S
<1>3. UNION {SuccessorsOf(r, s, x) : s \in S} = SuccessorsOf(r, q, x)
  BY <1>2
<1> QED BY <1>1, <1>3 DEF S

(***************************************************************************)
(* Adaptive test cases.                                                    *)
(***************************************************************************)
NextPair(p, e) == <<rows[p[1]][e], rows[p[2]][e]>>

HasEdge(tree) == \E e \in IO : <<e>> \in tree

LEMMA OutputsAre ==
  ASSUME rows \in Machines, NEW q \in State, NEW x \in In, NEW y \in Out
  PROVE  /\ <<x, y>> \in IO
         /\ y \in PossibleOutputs(rows, q, x) <=> rows[q][<<x, y>>] >= 0
         /\ y \in PossibleOutputs(rows, q, x) <=> rows[q][<<x, y>>] \in State
<1>1. <<x, y>> \in IO
  BY DEF IO
<1> QED BY <1>1, PostFacts DEF PossibleOutputs

LEMMA CompleteHasOutput ==
  ASSUME rows \in Machines, IsComplete(rows), NEW q \in State, NEW x \in In
  PROVE  PossibleOutputs(rows, q, x) # {}
<1>1. DOMAIN rows = State
  BY DEF Machines
<1>2. DefinedInputs(rows, q) = In
  BY <1>1 DEF IsComplete
<1> QED BY <1>2 DEF DefinedInputs

(* what a state may answer to the test case TreeFor(q1, q2, x) after y *)
Below(q1, q2, x, y) ==
  IF y \in PossibleOutputs(rows, q2, x)
  THEN sigma[<<rows[q1][<<x, y>>], rows[q2][<<x, y>>]>>] ELSE EmptyTree

LedBy(x, y, v) == <<<<x, y>>>> \o v

LEMMA TreeForIs ==
  ASSUME NEW q1, NEW q2, NEW x, NEW io
  PROVE  io \in TreeFor(q1, q2, x) <=>
           \/ io = << >>
           \/ \E y \in PossibleOutputs(rows, q1, x) : \E v \in Below(q1, q2, x, y) : io = LedBy(x, y, v)
<1> DEFINE A(y) == {LedBy(x, y, v) : v \in Below(q1, q2, x, y)}
<1>1. TreeFor(q1, q2, x) = {<< >>} \cup UNION {A(y) : y \in PossibleOutputs(rows, q1, x)}
  BY DEF TreeFor, Below, LedBy
<1>2. \A y : io \in A(y) <=> \E v \in Below(q1, q2, x, y) : io = LedBy(x, y, v)
  BY Zenon
<1> HIDE DEF A
<1>3. io \in TreeFor(q1, q2, x) <=> io = << >> \/ \E y \in PossibleOutputs(rows, q1, x) : io \in A(y)
  BY <1>1
<1> QED BY <1>2, <1>3

SigmaTyped ==
  /\ sigma \in [State \X State -> SUBSET Seq(IO)]
  /\ \A p \in State \X State : << >> \in sigma[p]

LEMMA BelowTyped ==
  ASSUME rows \in Machines, SigmaTyped, NEW q1 \in State, NEW q2 \in State, NEW x \in In,
         NEW y \in PossibleOutputs(rows, q1, x)
  PROVE  Below(q1, q2, x, y) \in SUBSET Seq(IO) /\ << >> \in Below(q1, q2, x, y)
<1>1. y \in Out /\ rows[q1][<<x, y>>] \in State
  BY OutputsAre DEF PossibleOutputs
<1>2. CASE y \in PossibleOutputs(rows, q2, x)
  <2>1. rows[q2][<<x, y>>] \in State
    BY <1>1, <1>2, OutputsAre
  <2> QED BY <1>1, <1>2, <2>1 DEF Below, SigmaTyped
<1>3. CASE y \notin PossibleOutputs(rows, q2, x)
  <2>1. EmptyTree \in SUBSET Seq(IO) /\ << >> \in EmptyTree
    BY DEF EmptyTree
  <2> QED BY <1>3, <2>1 DEF Below
<1> QED BY <1>2, <1>3

LEMMA TreeForTyped ==
  ASSUME rows \in Machines, SigmaTyped, NEW q1 \in State, NEW q2 \in State, NEW x \in In
  PROVE  TreeFor(q1, q2, x) \in SUBSET Seq(IO) /\ << >> \in TreeFor(q1, q2, x)
<1>1. << >> \in Seq(IO)
  OBVIOUS
<1>2. ASSUME NEW y \in PossibleOutputs(rows, q1, x), NEW v \in Below(q1, q2, x, y)
      PROVE  LedBy(x, y, v) \in Seq(IO)
  <2>1. <<x, y>> \in IO /\ v \in Seq(IO)
    BY BelowTyped, OutputsAre DEF PossibleOutputs
  <2> QED BY <2>1 DEF LedBy
<1>3. ASSUME NEW io \in TreeFor(q1, q2, x) PROVE io \in Seq(IO)
  <2>1. CASE io = << >>
    BY <1>1, <2>1
  <2>2. CASE io # << >>
    <3>1. PICK y \in PossibleOutputs(rows, q1, x) : \E v \in Below(q1, q2, x, y) : io = LedBy(x, y, v)
      <4>1. io \in TreeFor(q1, q2, x) <=>
             \/ io = << >>
             \/ \E y \in PossibleOutputs(rows, q1, x) : \E v \in Below(q1, q2, x, y) : io = LedBy(x, y, v)
        BY TreeForIs
      <4>2. io \in TreeFor(q1, q2, x)
        OBVIOUS
      <4> QED BY <2>2, <4>1, <4>2
    <3> QED BY <1>2, <3>1
  <2> QED BY <2>1, <2>2
<1>4. << >> \in TreeFor(q1, q2, x)
  BY TreeForIs
<1> QED BY <1>3, <1>4

(***************************************************************************)
(* A response to a test case, of a machine that defines all inputs.        *)
(***************************************************************************)
Changed(io, y) == Append(Front(io), <<Last(io)[1], y>>)

(* Its last output may be any, and it goes no further.                      *)
Answers(q, tree, w) ==
  /\ \E io \in tree \ {<< >>}, y \in Out : w = Changed(io, y)
  /\ After(rows, q, w) >= 0
  /\ \A io \in tree : ~(Len(io) = Len(w) + 1 /\ IsPrefix(w, io))

LEMMA ChangedTyped ==
  ASSUME NEW io \in Seq(IO), io # << >>, NEW y \in Out
  PROVE  /\ Changed(io, y) \in Seq(IO) /\ Len(Changed(io, y)) = Len(io)
         /\ Front(io) \in Seq(IO) /\ Last(io) \in IO
         /\ <<Last(io)[1], y>> \in IO
         /\ Last(io)[1] \in In
<1>1. Len(io) \in Nat \ {0}
  BY EmptySeq
<1>2. Front(io) \in Seq(IO) /\ Len(Front(io)) = Len(io) - 1 /\ Last(io) \in IO
  <2>1. Front(io) = SubSeq(io, 1, Len(io) - 1) /\ Last(io) = io[Len(io)]
    BY DEF Front, Last
  <2>2. Len(io) \in 1 .. Len(io)
    BY <1>1
  <2>3. io[Len(io)] \in IO
    BY <2>2
  <2>4. SubSeq(io, 1, Len(io) - 1) \in Seq(IO) /\ Len(SubSeq(io, 1, Len(io) - 1)) = Len(io) - 1
    <3>1. /\ \A i \in 1 .. Len(io) - 1 : io[i] \in IO
          /\ 1 \in Int /\ Len(io) - 1 \in Nat
          /\ (1 <= Len(io) - 1 => Len(io) - 1 - 1 + 1 = Len(io) - 1)
      BY <1>1
    <3>2. /\ SubSeq(io, 1, Len(io) - 1) \in Seq(IO)
          /\ Len(SubSeq(io, 1, Len(io) - 1)) = IF 1 <= Len(io) - 1 THEN Len(io) - 1 - 1 + 1 ELSE 0
      BY <3>1, SubSeqProperties
    <3> DEFINE F == SubSeq(io, 1, Len(io) - 1)
               n == Len(io) - 1
    <3>3. n \in Nat /\ F \in Seq(IO) /\ Len(F) = IF 1 <= n THEN n - 1 + 1 ELSE 0
      BY <3>1, <3>2
    <3> HIDE DEF F, n
    <3>4. F \in Seq(IO) /\ Len(F) = n
      BY <3>3
    <3> QED BY <3>4 DEF F, n
  <2> QED BY <2>1, <2>3, <2>4
<1>3. <<Last(io)[1], y>> \in IO /\ Last(io)[1] \in In
  BY <1>2 DEF IO
<1>4. Append(Front(io), <<Last(io)[1], y>>) \in Seq(IO) /\ Len(Append(Front(io), <<Last(io)[1], y>>)) = Len(Front(io)) + 1
  BY <1>2, <1>3
<1> QED BY <1>1, <1>2, <1>3, <1>4 DEF Changed

LEMMA AnswersAre ==
  ASSUME rows \in Machines, IsComplete(rows), NEW q \in State, NEW tree \in SUBSET Seq(IO)
  PROVE  PossibleIOTraces(rows, q, tree) = {w \in Seq(IO) : Answers(q, tree, w)}
<1> DEFINE All == UNION {{Append(Front(io), <<Last(io)[1], y>>) : y \in Out} : io \in tree \ {<< >>}}
<1>1. \A w : w \in All <=> \E io \in tree \ {<< >>}, y \in Out : w = Changed(io, y)
  BY DEF Changed
<1>2. \A w \in All : w \in Seq(IO)
  <2> HIDE DEF All
  <2> SUFFICES ASSUME NEW w \in All PROVE w \in Seq(IO)
    OBVIOUS
  <2>1. PICK io \in tree \ {<< >>}, y \in Out : w = Changed(io, y)
    BY <1>1
  <2>2. io \in Seq(IO) /\ io # << >>
    BY <2>1
  <2> QED BY <2>1, <2>2, ChangedTyped
<1>3. ASSUME NEW w \in Seq(IO), After(rows, q, w) >= 0, NEW io \in tree, Len(io) = Len(w) + 1
      PROVE  PossibleOutputs(rows, After(rows, q, w), Last(io)[1]) # {}
  <2>1. io # << >> /\ After(rows, q, w) \in State
    BY <1>3, AfterTyped
  <2>2. Last(io)[1] \in In
    <3>1. PICK y : y \in Out
      BY SizeAssumption DEF Out
    <3>2. io \in Seq(IO) /\ io # << >>
      BY <2>1
    <3> QED BY <3>1, <3>2, ChangedTyped
  <2> QED BY <2>1, <2>2, CompleteHasOutput
<1>4. \A w : w \in PossibleIOTraces(rows, q, tree) <=>
         /\ w \in All /\ After(rows, q, w) >= 0
         /\ \A io \in tree : Len(io) = Len(w) + 1 /\ IsPrefix(w, io)
                              => PossibleOutputs(rows, After(rows, q, w), Last(io)[1]) = {}
  BY DEF PossibleIOTraces
<1> HIDE DEF All
<1>5. \A w : w \in PossibleIOTraces(rows, q, tree) <=> w \in Seq(IO) /\ Answers(q, tree, w)
  BY <1>1, <1>2, <1>3, <1>4 DEF Answers
<1> QED BY <1>5

LEMMA ChangedAppend ==
  ASSUME NEW u \in Seq(IO), NEW l \in IO, NEW y \in Out
  PROVE  Changed(Append(u, l), y) = Append(u, <<l[1], y>>)
<1>1. Front(Append(u, l)) = u
  <2> DEFINE v == Append(u, l)
  <2>1. /\ v \in Seq(IO) /\ Len(v) = Len(u) + 1 /\ Len(u) \in Nat
        /\ \A i \in 1 .. Len(u) : v[i] = u[i]
    OBVIOUS
  <2> HIDE DEF v
  <2>2. SubSeq(v, 1, Len(v) - 1) = u
    <3>1. Len(v) - 1 = Len(u)
      BY <2>1
    <3>2. \A i \in 1 .. Len(u) : v[i] \in IO
      BY <2>1
    <3>3. /\ SubSeq(v, 1, Len(u)) \in Seq(IO)
          /\ Len(SubSeq(v, 1, Len(u))) = IF 1 <= Len(u) THEN Len(u) - 1 + 1 ELSE 0
          /\ \A i \in 1 .. Len(u) - 1 + 1 : SubSeq(v, 1, Len(u))[i] = v[1 + i - 1]
      BY <2>1, <3>2, SubSeqProperties
    <3> DEFINE s == SubSeq(v, 1, Len(u))
    <3> HIDE DEF s
    <3>4. s \in Seq(IO) /\ Len(s) = Len(u) /\ \A i \in 1 .. Len(u) : s[i] = u[i]
      BY <2>1, <3>3 DEF s
    <3>5. s = u
      BY <3>4, SeqEqual
    <3> QED BY <3>1, <3>5 DEF s
  <2> QED BY <2>2 DEF v, Front
<1>2. Last(Append(u, l)) = l
  BY DEF Last
<1> QED BY <1>1, <1>2 DEF Changed

LEMMA ChangedFirst ==
  ASSUME NEW e \in IO, NEW v \in Seq(IO), v # << >>, NEW y \in Out
  PROVE  Changed(<<e>> \o v, y) = <<e>> \o Changed(v, y)
<1>1. PICK u \in Seq(IO), l \in IO : v = Append(u, l)
  BY SequenceEmptyOrAppend
<1>2. <<e>> \o u \in Seq(IO) /\ <<e>> \o Append(u, l) = Append(<<e>> \o u, l)
  OBVIOUS
<1>3. Changed(<<e>> \o v, y) = Append(<<e>> \o u, <<l[1], y>>)
  BY <1>1, <1>2, ChangedAppend
<1>4. Changed(v, y) = Append(u, <<l[1], y>>)
  BY <1>1, ChangedAppend
<1>5. <<l[1], y>> \in IO
  BY DEF IO
<1>6. <<e>> \o Append(u, <<l[1], y>>) = Append(<<e>> \o u, <<l[1], y>>)
  BY <1>5
<1> QED BY <1>3, <1>4, <1>6

LEMMA PrefixIs ==
  ASSUME NEW s \in Seq(IO), NEW v \in Seq(IO)
  PROVE  IsPrefix(s, v) <=> Len(s) <= Len(v) /\ \A i \in 1 .. Len(s) : s[i] = v[i]
BY DEF IsPrefix

LEMMA PrefixFirst ==
  ASSUME NEW e \in IO, NEW w \in Seq(IO), NEW io \in Seq(IO), Len(io) = Len(w) + 1, IsPrefix(w, io)
  PROVE  /\ <<e>> \o w \in Seq(IO) /\ <<e>> \o io \in Seq(IO)
         /\ Len(<<e>> \o io) = Len(<<e>> \o w) + 1
         /\ IsPrefix(<<e>> \o w, <<e>> \o io)
<1>1. \A i \in 1 .. Len(w) : w[i] = io[i]
  BY PrefixIs
<1>2. /\ <<e>> \o w \in Seq(IO) /\ <<e>> \o io \in Seq(IO)
      /\ Len(<<e>> \o io) = Len(io) + 1 /\ Len(<<e>> \o w) = Len(w) + 1
  OBVIOUS
<1>3. ASSUME NEW i \in 1 .. Len(w) + 1 PROVE (<<e>> \o w)[i] = (<<e>> \o io)[i]
  <2>1. CASE i = 1
    BY <2>1
  <2>2. CASE i # 1
    <3>1. i - 1 \in 1 .. Len(w) /\ (<<e>> \o w)[i] = w[i - 1] /\ (<<e>> \o io)[i] = io[i - 1]
      BY <2>2
    <3> QED BY <1>1, <3>1
  <2> QED BY <2>1, <2>2
<1> DEFINE a == <<e>> \o w
           b == <<e>> \o io
<1> HIDE DEF a, b
<1>4. /\ a \in Seq(IO) /\ b \in Seq(IO) /\ Len(a) = Len(w) + 1 /\ Len(b) = Len(a) + 1
      /\ \A i \in 1 .. Len(a) : a[i] = b[i]
  BY <1>2, <1>3 DEF a, b
<1>5. Len(a) \in Nat /\ Len(a) <= Len(b)
  BY <1>4
<1>6. IsPrefix(a, b)
  BY <1>4, <1>5, PrefixIs
<1> QED BY <1>4, <1>6 DEF a, b

(* An answer that begins with e goes on as an answer to what follows e.     *)
LEMMA AnswersBelow ==
  ASSUME rows \in Machines, NEW q \in State, NEW tree \in SUBSET Seq(IO), NEW sub \in SUBSET Seq(IO),
         NEW e \in IO, \A v \in sub : <<e>> \o v \in tree,
         NEW w \in Seq(IO), \E v \in sub \ {<< >>}, y \in Out : w = Changed(v, y),
         Answers(q, tree, <<e>> \o w)
  PROVE  rows[q][e] \in State /\ Answers(rows[q][e], sub, w)
<1>1. After(rows, q, <<e>> \o w) >= 0
  BY DEF Answers
<1>2. ~(rows[q][e] < 0) /\ After(rows, rows[q][e], w) >= 0
  BY <1>1, AfterFirst
<1>3. rows[q][e] \in State
  BY <1>2, PostFacts
<1>4. ASSUME NEW io \in sub, Len(io) = Len(w) + 1, IsPrefix(w, io) PROVE FALSE
  <2>1. <<e>> \o io \in tree /\ io \in Seq(IO)
    OBVIOUS
  <2>2. Len(<<e>> \o io) = Len(<<e>> \o w) + 1 /\ IsPrefix(<<e>> \o w, <<e>> \o io)
    BY <1>4, <2>1, PrefixFirst
  <2> QED BY <2>1, <2>2 DEF Answers
<1> QED BY <1>2, <1>3, <1>4 DEF Answers

(* The test case for a pair of states that an input separates.              *)
LEMMA TreeTellsApart ==
  ASSUME rows \in Machines, IsComplete(rows), SigmaTyped,
         NEW q1 \in State, NEW q2 \in State, NEW x \in In,
         \A y \in OutputIntersection(q1, q2, x) :
           LET p == <<rows[q1][<<x, y>>], rows[q2][<<x, y>>]>>
           IN  HasEdge(sigma[p]) /\ rDistinguishes(p[1], p[2], sigma[p])
  PROVE  HasEdge(TreeFor(q1, q2, x)) /\ rDistinguishes(q1, q2, TreeFor(q1, q2, x))
<1> DEFINE T == TreeFor(q1, q2, x)
<1>t. T \in SUBSET Seq(IO)
  BY TreeForTyped
<1>b. \A z \in PossibleOutputs(rows, q1, x) : \A v \in Below(q1, q2, x, z) : LedBy(x, z, v) \in T
  BY TreeForIs
<1> HIDE DEF T
<1>1. HasEdge(T)
  <2>1. PICK y : y \in PossibleOutputs(rows, q1, x)
    BY CompleteHasOutput
  <2>2. << >> \in Below(q1, q2, x, y) /\ y \in Out
    BY <2>1, BelowTyped DEF PossibleOutputs
  <2>3. <<x, y>> \in IO
    BY <2>2, OutputsAre
  <2>4. LedBy(x, y, << >>) = <<<<x, y>>>>
    BY <2>3 DEF LedBy
  <2> QED BY <1>b, <2>1, <2>2, <2>3, <2>4 DEF HasEdge
<1>2. ASSUME NEW w \in Seq(IO), Answers(q1, T, w), Answers(q2, T, w) PROVE FALSE
  <2>1. PICK io \in T \ {<< >>}, y \in Out : w = Changed(io, y)
    BY <1>2 DEF Answers
  <2>2. PICK z \in PossibleOutputs(rows, q1, x) : \E v \in Below(q1, q2, x, z) : io = LedBy(x, z, v)
    <3>1. io \in TreeFor(q1, q2, x) /\ io # << >>
      BY <2>1 DEF T
    <3> QED BY <3>1, TreeForIs
  <2>3. PICK v \in Below(q1, q2, x, z) : io = LedBy(x, z, v)
    BY <2>2
  <2> DEFINE sub == Below(q1, q2, x, z)
  <2>4. z \in Out /\ <<x, z>> \in IO /\ <<x, y>> \in IO /\ sub \in SUBSET Seq(IO)
    BY BelowTyped, OutputsAre DEF PossibleOutputs
  <2>5. CASE v = << >>
    <3>1. io = Append(<< >>, <<x, z>>) /\ << >> \in Seq(IO)
      BY <2>3, <2>4, <2>5 DEF LedBy
    <3>2. w = <<<<x, y>>>> \o << >>
      <4>1. w = Append(<< >>, <<<<x, z>>[1], y>>)
        BY <2>1, <2>4, <3>1, ChangedAppend
      <4> QED BY <2>4, <4>1
    <3>3. After(rows, q1, w) >= 0 /\ After(rows, q2, w) >= 0
      BY <1>2 DEF Answers
    <3>4. ~(rows[q1][<<x, y>>] < 0) /\ ~(rows[q2][<<x, y>>] < 0)
      <4>1. ASSUME NEW q \in State, After(rows, q, w) >= 0 PROVE ~(rows[q][<<x, y>>] < 0)
        <5>1. After(rows, q, w) = IF rows[q][<<x, y>>] < 0 THEN -1 ELSE After(rows, rows[q][<<x, y>>], << >>)
          BY <2>4, <3>1, <3>2, AfterFirst
        <5> QED BY <4>1, <5>1
      <4> QED BY <3>3, <4>1
    <3>5. y \in OutputIntersection(q1, q2, x)
      <4>1. rows[q1][<<x, y>>] >= 0 /\ rows[q2][<<x, y>>] >= 0
        BY <2>4, <3>4, PostFacts
      <4> QED BY <4>1, OutputsAre DEF OutputIntersection
    <3> DEFINE p == <<rows[q1][<<x, y>>], rows[q2][<<x, y>>]>>
    <3>6. PICK e \in IO : <<e>> \in sigma[p]
      BY <3>5 DEF HasEdge
    <3>7. y \in PossibleOutputs(rows, q1, x) /\ <<e>> \in Below(q1, q2, x, y)
      BY <3>5, <3>6 DEF OutputIntersection, Below
    <3>8. <<<<x, y>>>> \o <<e>> \in T
      BY <1>b, <3>7 DEF LedBy
    <3>9. Len(<<e>>) = Len(<< >>) + 1 /\ IsPrefix(<< >>, <<e>>) /\ <<e>> \in Seq(IO)
      <4>1. <<e>> \in Seq(IO) /\ << >> \in Seq(IO) /\ Len(<<e>>) = 1 /\ Len(<< >>) = 0
        OBVIOUS
      <4>2. \A i \in 1 .. Len(<< >>) : FALSE
        BY <4>1
      <4>3. IsPrefix(<< >>, <<e>>) <=> Len(<< >>) <= Len(<<e>>) /\ \A i \in 1 .. Len(<< >>) : << >>[i] = <<e>>[i]
        BY <4>1, PrefixIs
      <4> QED BY <4>1, <4>2, <4>3
    <3>10. Len(<<<<x, y>>>> \o <<e>>) = Len(w) + 1 /\ IsPrefix(w, <<<<x, y>>>> \o <<e>>)
      BY <2>4, <3>1, <3>2, <3>9, PrefixFirst
    <3> QED BY <1>2, <3>8, <3>10 DEF Answers
  <2>6. CASE v # << >>
    <3> DEFINE u == Changed(v, y)
    <3>1. v \in Seq(IO) /\ io = <<<<x, z>>>> \o v
      BY <2>3, <2>4 DEF LedBy
    <3>2. u \in Seq(IO) /\ w = <<<<x, z>>>> \o u
      BY <2>1, <2>4, <2>6, <3>1, ChangedTyped, ChangedFirst
    <3>3. \E i \in sub \ {<< >>}, o \in Out : u = Changed(i, o)
      BY <2>6
    <3>4. \A i \in sub : <<<<x, z>>>> \o i \in T
      BY <1>b DEF LedBy
    <3> HIDE DEF u, sub
    <3>5. rows[q1][<<x, z>>] \in State /\ Answers(rows[q1][<<x, z>>], sub, u)
      BY <1>t, <1>2, <2>4, <3>2, <3>3, <3>4, AnswersBelow
    <3>6. rows[q2][<<x, z>>] \in State /\ Answers(rows[q2][<<x, z>>], sub, u)
      BY <1>t, <1>2, <2>4, <3>2, <3>3, <3>4, AnswersBelow
    <3> DEFINE p == <<rows[q1][<<x, z>>], rows[q2][<<x, z>>]>>
    <3>7. z \in OutputIntersection(q1, q2, x) /\ z \in PossibleOutputs(rows, q2, x)
      BY <2>4, <3>5, <3>6, OutputsAre DEF OutputIntersection
    <3>8. sub = sigma[p]
      BY <3>7 DEF sub, Below
    <3>9. rDistinguishes(p[1], p[2], sub)
      BY <3>7, <3>8
    <3>10. PossibleIOTraces(rows, p[1], sub) \cap PossibleIOTraces(rows, p[2], sub) = {}
      BY <3>9 DEF rDistinguishes
    <3>11. /\ u \in PossibleIOTraces(rows, rows[q1][<<x, z>>], sub)
           /\ u \in PossibleIOTraces(rows, rows[q2][<<x, z>>], sub)
      BY <2>4, <3>2, <3>5, <3>6, AnswersAre
    <3> QED BY <3>10, <3>11
  <2> QED BY <2>5, <2>6
<1>3. rDistinguishes(q1, q2, T)
  BY <1>t, <1>2, AnswersAre DEF rDistinguishes
<1> QED BY <1>1, <1>3 DEF T

(***************************************************************************)
(* The levels of r-distinguishability.  Told has the pairs of states that  *)
(* are told apart so far.                                                  *)
(***************************************************************************)
Told == IF rDist = << >> THEN {} ELSE rDist[Len(rDist)]

Separating(p, x) == \A y \in OutputIntersection(p[1], p[2], x) : NextPair(p, <<x, y>>) \in Told

Mirror(p) == <<p[2], p[1]>>

Both(found) == found \cup {Mirror(p) : p \in found}

LevelTypes ==
  /\ rows \in Machines
  /\ rPhase \in {"one", "levels", "dreach", "done"}
  /\ rDist \in Seq(SUBSET (State \X State))
  /\ again \in BOOLEAN
  /\ rPhase = "one" <=> rDist = << >>

LevelsGrow == \A i, j \in 1 .. Len(rDist) : i <= j => rDist[i] \subseteq rDist[j]

ToldBothWays == \A p \in Told : p \in State \X State /\ p[1] # p[2] /\ Mirror(p) \in Told

LeftAreOthers == notRDist = {p \in State \X State : p[1] < p[2] /\ p \notin Told}

LevelInv == LevelTypes /\ LevelsGrow /\ ToldBothWays /\ LeftAreOthers

(* States with a common reduct are never told apart. *)
Sound ==
  IsComplete(rows) => \A R \in SUBSET (State \X State) : IsCompatible(R) => R \cap Told = {}

(* What has no common output is told apart by the first level. *)
FirstLevel ==
  rDist # << >> =>
    \A p \in State \X State : p[1] # p[2] =>
      \A x \in In : OutputIntersection(p[1], p[2], x) = {} => p \in Told

Settled == \A p \in State \X State : p[1] # p[2] /\ p \notin Told => \A x \in In : ~Separating(p, x)

StopsSettled == (rDist # << >> /\ ~again) \/ rPhase \in {"dreach", "done"} => Settled

(* The limit on the number of levels: every level but the first finds a    *)
(* pair, or it is the last; after a first level that found nothing, so does *)
(* the second.                                                             *)
LimitSuffices ==
  rPhase = "levels" /\ again =>
    \/ Len(rDist) = 1 /\ Told = {}
    \/ Cardinality(notRDist) + Len(rDist) <= limit

SigmaInv ==
  /\ SigmaTyped
  /\ \A p \in State \X State :
       /\ p \notin Told => sigma[p] = EmptyTree
       /\ IsComplete(rows) /\ p \in Told => HasEdge(sigma[p]) /\ rDistinguishes(p[1], p[2], sigma[p])

LEMMA PairFacts ==
  ASSUME NEW p \in State \X State
  PROVE  /\ p = <<p[1], p[2]>> /\ p[1] \in State /\ p[2] \in State
         /\ p[1] \in Nat /\ p[2] \in Nat
         /\ Mirror(p) \in State \X State /\ Mirror(Mirror(p)) = p
         /\ Mirror(p)[1] = p[2] /\ Mirror(p)[2] = p[1]
<1>1. p = <<p[1], p[2]>> /\ p[1] \in State /\ p[2] \in State
  OBVIOUS
<1>2. p[1] \in Nat /\ p[2] \in Nat
  BY <1>1, SizeFacts
<1>3. Mirror(p)[1] = p[2] /\ Mirror(p)[2] = p[1] /\ Mirror(p) \in State \X State
  BY <1>1 DEF Mirror
<1>4. Mirror(Mirror(p)) = p
  BY <1>1, <1>3 DEF Mirror
<1> QED BY <1>1, <1>2, <1>3, <1>4

LEMMA ToldIs ==
  ASSUME LevelInv, NEW q1, NEW q2
  PROVE  RDistinguishable(q1, q2) <=> <<q1, q2>> \in Told
<1>1. Len(rDist) \in Nat /\ \A i \in 1 .. Len(rDist) : i <= Len(rDist)
  BY DEF LevelInv, LevelTypes
<1>2. CASE rDist = << >>
  <2>1. Len(rDist) = 0
    BY <1>2
  <2> QED BY <1>2, <2>1 DEF Told, RDistinguishable, isRDistinguishableWith
<1>3. CASE rDist # << >>
  <2>1. Len(rDist) \in 1 .. Len(rDist)
    BY <1>1, <1>3, EmptySeq DEF LevelInv, LevelTypes
  <2>2. \A i \in 1 .. Len(rDist) : rDist[i] \subseteq rDist[Len(rDist)]
    BY <1>1, <2>1 DEF LevelInv, LevelsGrow
  <2> QED BY <1>3, <2>1, <2>2 DEF Told, RDistinguishable, isRDistinguishableWith
<1> QED BY <1>2, <1>3

LEMMA NextPairTyped ==
  ASSUME rows \in Machines, NEW p \in State \X State, NEW x \in In,
         NEW y \in OutputIntersection(p[1], p[2], x)
  PROVE  /\ NextPair(p, <<x, y>>) \in State \X State
         /\ NextPair(p, <<x, y>>)[1] = rows[p[1]][<<x, y>>]
         /\ NextPair(p, <<x, y>>)[2] = rows[p[2]][<<x, y>>]
<1>1. y \in Out /\ p[1] \in State /\ p[2] \in State
  BY DEF OutputIntersection, PossibleOutputs
<1>2. rows[p[1]][<<x, y>>] \in State /\ rows[p[2]][<<x, y>>] \in State
  BY <1>1, OutputsAre DEF OutputIntersection
<1> QED BY <1>2 DEF NextPair

LEMMA SeparatesIs ==
  ASSUME LevelInv, NEW p \in State \X State, NEW x \in In
  PROVE  Separates(p, x) <=> Separating(p, x)
<1>1. ASSUME NEW y \in OutputIntersection(p[1], p[2], x)
      PROVE  /\ rows[p[1]][<<x, y>>] # rows[p[2]][<<x, y>>]
             /\ isRDistinguishableWith(Len(rDist), rows[p[1]][<<x, y>>], rows[p[2]][<<x, y>>])
             <=> NextPair(p, <<x, y>>) \in Told
  <2>1. isRDistinguishableWith(Len(rDist), rows[p[1]][<<x, y>>], rows[p[2]][<<x, y>>])
          <=> NextPair(p, <<x, y>>) \in Told
    BY ToldIs DEF RDistinguishable, NextPair
  <2>2. NextPair(p, <<x, y>>) \in Told => rows[p[1]][<<x, y>>] # rows[p[2]][<<x, y>>]
    BY DEF NextPair, LevelInv, ToldBothWays
  <2> QED BY <2>1, <2>2
<1> QED BY <1>1 DEF Separates, Separating

LEMMA MirrorSeparating ==
  ASSUME LevelInv, NEW p \in State \X State, NEW x \in In, Separating(p, x)
  PROVE  Separating(Mirror(p), x)
<1>1. OutputIntersection(p[2], p[1], x) = OutputIntersection(p[1], p[2], x)
  BY DEF OutputIntersection
<1>2. \A y \in OutputIntersection(p[1], p[2], x) : NextPair(Mirror(p), <<x, y>>) = Mirror(NextPair(p, <<x, y>>))
  BY PairFacts DEF NextPair, Mirror
<1>3. \A e \in Told : Mirror(e) \in Told
  BY DEF LevelInv, ToldBothWays
<1>4. Mirror(p)[1] = p[2] /\ Mirror(p)[2] = p[1]
  BY PairFacts
<1> QED BY <1>1, <1>2, <1>3, <1>4 DEF Separating

(* What is found at a level is added, in both orders. *)
LEMMA LevelGrows ==
  ASSUME LevelInv, NEW found \in SUBSET notRDist,
         rDist' = Append(rDist, Both(found) \cup Told), notRDist' = notRDist \ found,
         rows' = rows, rPhase' = "levels", again' \in BOOLEAN
  PROVE  /\ LevelInv' /\ Told' = Told \cup Both(found)
         /\ Len(rDist') = Len(rDist) + 1 /\ Len(rDist) \in Nat
<1>1. found \subseteq State \X State /\ \A p \in found : p[1] < p[2] /\ p \notin Told
  BY DEF LevelInv, LeftAreOthers
<1> DEFINE new == Both(found) \cup Told
<1>2. new \in SUBSET (State \X State) /\ \A p \in new : p[1] # p[2] /\ Mirror(p) \in new
  <2>1. ASSUME NEW p \in found
        PROVE  p \in State \X State /\ p[1] # p[2] /\ Mirror(p) \in Both(found)
    BY <1>1, PairFacts DEF Both
  <2>2. ASSUME NEW p \in found
        PROVE  Mirror(p) \in State \X State /\ Mirror(p)[1] # Mirror(p)[2] /\ Mirror(Mirror(p)) \in Both(found)
    BY <2>1, PairFacts DEF Both
  <2>3. \A p \in Told : p \in State \X State /\ p[1] # p[2] /\ Mirror(p) \in Told
    BY DEF LevelInv, ToldBothWays
  <2>4. \A p \in Both(found) : p \in State \X State /\ p[1] # p[2] /\ Mirror(p) \in Both(found)
    BY <2>1, <2>2 DEF Both
  <2> QED BY <2>3, <2>4
<1> HIDE DEF new
<1>3. rDist \in Seq(SUBSET (State \X State))
  BY DEF LevelInv, LevelTypes
<1>4. /\ rDist' \in Seq(SUBSET (State \X State)) /\ Len(rDist') = Len(rDist) + 1 /\ Len(rDist) \in Nat
      /\ rDist'[Len(rDist) + 1] = new
      /\ \A i \in 1 .. Len(rDist) : rDist'[i] = rDist[i]
  <2>1. rDist' = Append(rDist, new)
    BY DEF new
  <2> QED BY <1>2, <1>3, <2>1
<1>5. rDist' # << >>
  <2>1. Len(<< >>) = 0
    OBVIOUS
  <2> QED BY <1>4, <2>1
<1>6. Told' = new
  BY <1>4, <1>5 DEF Told
<1>7. LevelTypes'
  BY <1>4, <1>5 DEF LevelTypes, LevelInv
<1>8. LevelsGrow'
  <2>1. \A i \in 1 .. Len(rDist) : rDist[i] \subseteq Told
    <3> SUFFICES ASSUME NEW i \in 1 .. Len(rDist) PROVE rDist[i] \subseteq Told
      OBVIOUS
    <3>1. Len(rDist) \in 1 .. Len(rDist) /\ i <= Len(rDist) /\ rDist # << >>
      <4>1. Len(<< >>) = 0
        OBVIOUS
      <4> QED BY <1>4, <4>1
    <3> QED BY <3>1 DEF LevelInv, LevelsGrow, Told
  <2>2. \A i \in 1 .. Len(rDist) : rDist[i] \subseteq new
    BY <2>1 DEF new
  <2> SUFFICES ASSUME NEW i \in 1 .. Len(rDist) + 1, NEW j \in 1 .. Len(rDist) + 1, i <= j
               PROVE  rDist'[i] \subseteq rDist'[j]
    BY <1>4 DEF LevelsGrow
  <2>3. CASE j = Len(rDist) + 1
    <3>1. i = Len(rDist) + 1 \/ i \in 1 .. Len(rDist)
      BY <1>4
    <3> QED BY <1>4, <2>2, <2>3, <3>1
  <2>4. CASE j # Len(rDist) + 1
    <3>1. i \in 1 .. Len(rDist) /\ j \in 1 .. Len(rDist)
      BY <1>4, <2>4
    <3> QED BY <1>4, <3>1 DEF LevelInv, LevelsGrow
  <2> QED BY <2>3, <2>4
<1>9. ToldBothWays'
  BY <1>2, <1>6 DEF ToldBothWays
<1>10. LeftAreOthers'
  <2>1. ASSUME NEW p \in State \X State, p[1] < p[2] PROVE p \in Both(found) <=> p \in found
    <3>1. ASSUME NEW e \in found PROVE p # Mirror(e)
      <4>1. e \in State \X State /\ e[1] < e[2]
        BY <1>1
      <4>2. Mirror(e)[1] = e[2] /\ Mirror(e)[2] = e[1] /\ e[1] \in Nat /\ e[2] \in Nat
        BY <4>1, PairFacts
      <4> QED BY <2>1, <4>1, <4>2
    <3> QED BY <3>1 DEF Both
  <2> QED BY <1>6, <2>1 DEF LeftAreOthers, LevelInv, new
<1> QED BY <1>4, <1>6, <1>7, <1>8, <1>9, <1>10 DEF LevelInv, new

LEMMA SoundGrows ==
  ASSUME LevelInv, Sound, IsComplete(rows), NEW found \in SUBSET notRDist,
         \A p \in found : \E x \in In : Separating(p, x),
         NEW R \in SUBSET (State \X State), IsCompatible(R)
  PROVE  R \cap (Told \cup Both(found)) = {}
<1>1. R \cap Told = {}
  BY DEF Sound
<1>2. ASSUME NEW p \in State \X State, NEW x \in In, Separating(p, x) PROVE p \notin R
  <2> SUFFICES ASSUME p \in R PROVE FALSE
    OBVIOUS
  <2>1. x \in DefinedInputs(rows, p[1])
    <3>1. DOMAIN rows = State /\ p[1] \in State
      BY DEF LevelInv, LevelTypes, Machines
    <3> QED BY <3>1 DEF IsComplete
  <2>2. PICK y \in OutputIntersection(p[1], p[2], x) : NextPair(p, <<x, y>>) \in R
    BY <2>1 DEF IsCompatible, NextPair
  <2> QED BY <1>1, <1>2, <2>2 DEF Separating
<1>3. ASSUME NEW p \in found PROVE p \notin R /\ Mirror(p) \notin R
  <2>1. p \in State \X State
    BY DEF LevelInv, LeftAreOthers
  <2>2. PICK x \in In : Separating(p, x)
    OBVIOUS
  <2>3. Mirror(p) \in State \X State /\ Separating(Mirror(p), x)
    BY <2>1, <2>2, MirrorSeparating, PairFacts
  <2> QED BY <1>2, <2>1, <2>2, <2>3
<1> QED BY <1>1, <1>3 DEF Both

(***************************************************************************)
(* The test cases a level adds.                                            *)
(***************************************************************************)
GrownSigma(found, inp) ==
  [p \in State \X State |->
     IF sigma[p] # EmptyTree THEN sigma[p]
     ELSE IF p \in found THEN TreeFor(p[1], p[2], inp[p])
     ELSE IF p \in Both(found) THEN TreeFor(p[1], p[2], inp[Mirror(p)])
     ELSE EmptyTree]

LEMMA SigmaGrows ==
  ASSUME LevelInv, SigmaInv, NEW found \in SUBSET notRDist, NEW inp,
         \A p \in found : inp[p] \in In /\ Separating(p, inp[p]),
         NEW sg,
         sg = GrownSigma(found, inp)
  PROVE  /\ sg \in [State \X State -> SUBSET Seq(IO)]
         /\ \A p \in State \X State :
              /\ << >> \in sg[p]
              /\ p \notin Told \cup Both(found) => sg[p] = EmptyTree
              /\ IsComplete(rows) /\ p \in Told \cup Both(found)
                   => HasEdge(sg[p]) /\ rDistinguishes(p[1], p[2], sg[p])
<1>1. rows \in Machines /\ SigmaTyped
  BY DEF LevelInv, LevelTypes, SigmaInv
<1>2. ASSUME NEW p \in State \X State, NEW x \in In
      PROVE  /\ TreeFor(p[1], p[2], x) \in SUBSET Seq(IO)
             /\ << >> \in TreeFor(p[1], p[2], x)
             /\ IsComplete(rows) /\ Separating(p, x)
                  => HasEdge(TreeFor(p[1], p[2], x)) /\ rDistinguishes(p[1], p[2], TreeFor(p[1], p[2], x))
  <2>1. p[1] \in State /\ p[2] \in State
    BY PairFacts
  <2>2. TreeFor(p[1], p[2], x) \in SUBSET Seq(IO) /\ << >> \in TreeFor(p[1], p[2], x)
    BY <1>1, <2>1, TreeForTyped
  <2>3. ASSUME IsComplete(rows), Separating(p, x)
        PROVE  HasEdge(TreeFor(p[1], p[2], x)) /\ rDistinguishes(p[1], p[2], TreeFor(p[1], p[2], x))
    <3>1. ASSUME NEW y \in OutputIntersection(p[1], p[2], x)
          PROVE  LET n == <<rows[p[1]][<<x, y>>], rows[p[2]][<<x, y>>]>>
                 IN  HasEdge(sigma[n]) /\ rDistinguishes(n[1], n[2], sigma[n])
      <4>1. NextPair(p, <<x, y>>) \in State \X State /\ NextPair(p, <<x, y>>) \in Told
        BY <1>1, <2>3, NextPairTyped DEF Separating
      <4> DEFINE n == NextPair(p, <<x, y>>)
      <4> HIDE DEF n
      <4>2. HasEdge(sigma[n]) /\ rDistinguishes(n[1], n[2], sigma[n])
        BY <2>3, <4>1 DEF SigmaInv, n
      <4> QED BY <4>2 DEF n, NextPair
    <3> QED BY <1>1, <2>1, <2>3, <3>1, TreeTellsApart
  <2> QED BY <2>2, <2>3
<1>3. EmptyTree \in SUBSET Seq(IO) /\ << >> \in EmptyTree
  BY DEF EmptyTree
<1>4. ASSUME NEW p \in found
      PROVE  /\ p \in State \X State /\ p \notin Told
             /\ Mirror(p) \in State \X State /\ Mirror(p) \notin Told /\ Mirror(Mirror(p)) = p
             /\ Mirror(p) \notin found
             /\ inp[p] \in In /\ Separating(p, inp[p]) /\ Separating(Mirror(p), inp[p])
  <2>1. p \in State \X State /\ p \notin Told /\ p[1] < p[2]
    BY DEF LevelInv, LeftAreOthers
  <2>2. Mirror(p) \in State \X State /\ Mirror(Mirror(p)) = p /\ Mirror(p)[1] = p[2] /\ Mirror(p)[2] = p[1]
    BY <2>1, PairFacts
  <2>3. Mirror(p) \notin Told
    BY <2>1, <2>2 DEF LevelInv, ToldBothWays
  <2>4. Mirror(p) \notin found
    <3>1. ~(p[2] < p[1])
      BY <2>1, PairFacts
    <3> QED BY <2>2, <3>1 DEF LevelInv, LeftAreOthers
  <2>5. inp[p] \in In /\ Separating(p, inp[p])
    OBVIOUS
  <2>6. Separating(Mirror(p), inp[p])
    BY <2>1, <2>5, MirrorSeparating
  <2> QED BY <2>1, <2>2, <2>3, <2>4, <2>5, <2>6
<1>g. \A p \in State \X State :
        sg[p] = IF sigma[p] # EmptyTree THEN sigma[p]
                ELSE IF p \in found THEN TreeFor(p[1], p[2], inp[p])
                ELSE IF p \in Both(found) THEN TreeFor(p[1], p[2], inp[Mirror(p)])
                ELSE EmptyTree
  BY DEF GrownSigma
<1>5. ASSUME NEW p \in State \X State
      PROVE  /\ sg[p] \in SUBSET Seq(IO) /\ << >> \in sg[p]
             /\ p \notin Told \cup Both(found) => sg[p] = EmptyTree
             /\ IsComplete(rows) /\ p \in Told \cup Both(found)
                  => HasEdge(sg[p]) /\ rDistinguishes(p[1], p[2], sg[p])
  <2>1. CASE p \in Told
    <3>1. sigma[p] \in SUBSET Seq(IO) /\ << >> \in sigma[p]
      BY <1>1 DEF SigmaTyped
    <3>2. p \notin found /\ p \notin Both(found)
      BY <1>4, <2>1 DEF Both
    <3>3. sg[p] = sigma[p]
      BY <1>g, <3>2
    <3> QED BY <2>1, <3>1, <3>3 DEF SigmaInv
  <2>2. CASE p \in found
    <3>1. sg[p] = TreeFor(p[1], p[2], inp[p])
      BY <1>g, <1>4, <2>2 DEF SigmaInv
    <3>2. p \in Both(found)
      BY <2>2 DEF Both
    <3> QED BY <1>2, <1>4, <2>2, <3>1, <3>2
  <2>3. CASE p \in Both(found) \ found
    <3>1. PICK e \in found : p = Mirror(e)
      BY <2>3 DEF Both
    <3>2. Mirror(p) = e /\ p \notin Told
      BY <1>4, <3>1
    <3>3. sg[p] = TreeFor(p[1], p[2], inp[e])
      BY <1>g, <2>3, <3>2 DEF SigmaInv
    <3> QED BY <1>2, <1>4, <2>3, <3>1, <3>3
  <2>4. CASE p \notin Told \cup Both(found)
    <3>1. p \notin found
      BY <2>4 DEF Both
    <3>2. sigma[p] = EmptyTree
      BY <2>4 DEF SigmaInv
    <3>3. sg[p] = EmptyTree
      BY <1>g, <2>4, <3>1, <3>2
    <3> QED BY <1>3, <2>4, <3>3
  <2> QED BY <2>1, <2>2, <2>3, <2>4
<1>6. sg \in [State \X State -> SUBSET Seq(IO)]
  <2>1. sg = [p \in State \X State |-> sg[p]]
    BY DEF GrownSigma
  <2> QED BY <1>5, <2>1
<1> QED BY <1>5, <1>6

(***************************************************************************)
(* The number of pairs that the limit allows for.                          *)
(***************************************************************************)
Ordered == {p \in State \X State : p[1] < p[2]}

LEMMA OrderedPairs ==
  /\ IsFiniteSet(Ordered)
  /\ Cardinality(Ordered) = limit /\ limit \in Nat
<1> DEFINE Reversed == {p \in State \X State : p[2] < p[1]}
           Diagonal == {p \in State \X State : p[1] = p[2]}
           All == State \X State
           n == numStates
<1>1. IsFiniteSet(State) /\ Cardinality(State) = n /\ n \in Nat \ {0}
  <2>1. IsFiniteSet(State) /\ Cardinality(State) = IF 0 > n - 1 THEN 0 ELSE n - 1 - 0 + 1
    BY SizeAssumption, FS_Interval DEF State
  <2> QED BY <2>1, SizeAssumption
<1>2. IsFiniteSet(All) /\ Cardinality(All) = n * n
  BY <1>1, FS_Product
<1>3. IsFiniteSet(Ordered) /\ IsFiniteSet(Reversed) /\ IsFiniteSet(Diagonal)
  BY <1>2, FS_Subset DEF Ordered
<1>4. Cardinality(Reversed) = Cardinality(Ordered)
  <2> DEFINE f == [p \in Ordered |-> Mirror(p)]
  <2>1. \A p \in Ordered : Mirror(p) \in Reversed /\ Mirror(Mirror(p)) = p
    BY PairFacts DEF Ordered
  <2>2. \A p \in Reversed : Mirror(p) \in Ordered /\ Mirror(Mirror(p)) = p
    BY PairFacts DEF Ordered
  <2> HIDE DEF Reversed
  <2>3. f \in Bijection(Ordered, Reversed)
    <3>1. f \in [Ordered -> Reversed]
      BY <2>1
    <3>2. \A p, q \in Ordered : f[p] = f[q] => p = q
      BY <2>1
    <3>3. \A q \in Reversed : \E p \in Ordered : f[p] = q
      BY <2>2
    <3> QED BY <3>1, <3>2, <3>3 DEF Bijection, Injection, Surjection, IsInjective
  <2>4. ExistsBijection(Ordered, Reversed)
    BY <2>3 DEF ExistsBijection
  <2> QED BY <1>3, <2>4, FS_Bijection
<1>5. Cardinality(Diagonal) = n
  <2> DEFINE f == [q \in State |-> <<q, q>>]
  <2>1. f \in Bijection(State, Diagonal)
    <3>1. f \in [State -> Diagonal]
      OBVIOUS
    <3>2. \A p, q \in State : f[p] = f[q] => p = q
      OBVIOUS
    <3>3. \A p \in Diagonal : \E q \in State : f[q] = p
      <4> SUFFICES ASSUME NEW p \in Diagonal PROVE \E q \in State : f[q] = p
        OBVIOUS
      <4>1. p[1] \in State /\ p = <<p[1], p[1]>>
        OBVIOUS
      <4> QED BY <4>1
    <3> HIDE DEF f, Diagonal
    <3> QED BY <3>1, <3>2, <3>3 DEF Bijection, Injection, Surjection, IsInjective
  <2>2. ExistsBijection(State, Diagonal)
    BY <2>1 DEF ExistsBijection
  <2> QED BY <1>1, <2>2, FS_Bijection
<1>6. All = (Ordered \cup Reversed) \cup Diagonal
  <2>1. \A p \in All : p[1] < p[2] \/ p[2] < p[1] \/ p[1] = p[2]
    BY PairFacts
  <2> QED BY <2>1 DEF Ordered
<1>7. Ordered \cap Reversed = {} /\ (Ordered \cup Reversed) \cap Diagonal = {}
  <2>1. \A p \in All : ~(p[1] < p[2] /\ p[2] < p[1]) /\ ~((p[1] < p[2] \/ p[2] < p[1]) /\ p[1] = p[2])
    BY PairFacts
  <2> QED BY <2>1 DEF Ordered
<1> HIDE DEF All, Diagonal, Reversed, n
<1>8. Cardinality(Ordered \cup Reversed) = Cardinality(Ordered) + Cardinality(Reversed) - 0
  BY <1>3, <1>7, FS_Union, FS_EmptySet
<1>9. n * n = Cardinality(Ordered \cup Reversed) + n - 0
  <2>1. IsFiniteSet(Ordered \cup Reversed)
    BY <1>3, FS_Union
  <2> QED BY <1>2, <1>3, <1>5, <1>6, <1>7, <2>1, FS_Union, FS_EmptySet
<1>10. Cardinality(Ordered) \in Nat
  BY <1>3, FS_CardinalityType
<1>11. n * n = 2 * Cardinality(Ordered) + n
  BY <1>1, <1>4, <1>8, <1>9, <1>10
<1>12. n * (n - 1) = 2 * Cardinality(Ordered)
  <2>1. n * (n - 1) = n * n - n
    BY <1>1
  <2> QED BY <1>1, <1>10, <1>11, <2>1
<1>13. limit = (2 * Cardinality(Ordered)) \div 2
  BY <1>12 DEF limit, n
<1> QED BY <1>3, <1>10, <1>13

(***************************************************************************)
(* d-reachability.                                                         *)
(***************************************************************************)
CoverInv ==
  /\ bfsLst \in Seq(State)
  /\ dReachTrace \in [State -> Seq(In) \cup {NoTrace}]
  /\ \A q \in State : dReachTrace[q] # NoTrace => Reached(rows, dReachTrace[q]) = {q}
  /\ \A i \in 1 .. Len(bfsLst) : dReachTrace[bfsLst[i]] # NoTrace

(* The inductive invariant of the analysis. *)
RInv == LevelInv /\ Sound /\ FirstLevel /\ StopsSettled /\ LimitSuffices /\ SigmaInv /\ CoverInv

LEMMA NoTraceIsNone == \A xs \in Seq(In) : xs # NoTrace
<1> SUFFICES ASSUME NEW xs \in Seq(In), xs = <<-1>> PROVE FALSE
  BY DEF NoTrace
<1>1. Len(xs) = 1 /\ xs[1] = -1
  OBVIOUS
<1>2. xs[1] \in In
  BY <1>1
<1>3. -1 \notin In
  BY SizeFacts
<1> QED BY <1>1, <1>2, <1>3

LEMMA InitRInv ==
  ASSUME rows \in Machines, RInit
  PROVE  RInv
<1>1. Told = {} /\ rDist = << >> /\ Len(<< >>) = 0 /\ << >> \in Seq(SUBSET (State \X State))
  BY DEF RInit, Told
<1>2. LevelInv
  BY <1>1 DEF RInit, LevelInv, LevelTypes, LevelsGrow, ToldBothWays, LeftAreOthers
<1>3. Sound /\ FirstLevel
  BY <1>1 DEF Sound, FirstLevel
<1>4. StopsSettled /\ LimitSuffices
  BY <1>1 DEF RInit, StopsSettled, LimitSuffices
<1>5. SigmaInv
  <2>1. EmptyTree \in SUBSET Seq(IO) /\ << >> \in EmptyTree
    BY DEF EmptyTree
  <2>2. sigma = [p \in State \X State |-> EmptyTree]
    BY DEF RInit
  <2> QED BY <1>1, <2>1, <2>2 DEF SigmaInv, SigmaTyped
<1>6. CoverInv
  BY DEF RInit, CoverInv
<1> QED BY <1>2, <1>3, <1>4, <1>5, <1>6 DEF RInv

LEMMA CoverKept ==
  ASSUME CoverInv, UNCHANGED <<rows, bfsLst, dReachTrace>>
  PROVE  CoverInv'
BY DEF CoverInv

(* the pairs found are told apart, and the others not at this level *)
LEMMA LevelKeeps ==
  ASSUME RInv, NEW found \in SUBSET notRDist, NEW inp,
         \A p \in found : inp[p] \in In /\ Separating(p, inp[p]),
         rDist' = Append(rDist, Both(found) \cup Told), notRDist' = notRDist \ found,
         rows' = rows, rPhase' = "levels", again' \in BOOLEAN,
         UNCHANGED <<bfsLst, dReachTrace>>,
         sigma' = GrownSigma(found, inp)
  PROVE  LevelInv' /\ Sound' /\ SigmaInv' /\ CoverInv' /\ Told' = Told \cup Both(found)
<1>1. LevelInv' /\ Told' = Told \cup Both(found)
  BY LevelGrows DEF RInv
<1>2. Sound'
  <2>1. IsComplete(rows)' <=> IsComplete(rows)
    BY DEF IsComplete, DefinedInputs, PossibleOutputs
  <2>2. \A R : IsCompatible(R)' <=> IsCompatible(R)
    BY DEF IsCompatible, DefinedInputs, PossibleOutputs, OutputIntersection
  <2>3. \A p \in found : \E x \in In : Separating(p, x)
    OBVIOUS
  <2>4. ASSUME IsComplete(rows), NEW R \in SUBSET (State \X State), IsCompatible(R)
        PROVE  R \cap Told' = {}
    BY <1>1, <2>3, <2>4, SoundGrows DEF RInv
  <2> QED BY <2>1, <2>2, <2>4 DEF Sound
<1>3. SigmaInv'
  <2>0. PICK sg : sg = sigma'
    OBVIOUS
  <2>1. /\ sg \in [State \X State -> SUBSET Seq(IO)]
        /\ \A p \in State \X State :
              /\ << >> \in sg[p]
              /\ p \notin Told \cup Both(found) => sg[p] = EmptyTree
              /\ IsComplete(rows) /\ p \in Told \cup Both(found)
                   => HasEdge(sg[p]) /\ rDistinguishes(p[1], p[2], sg[p])
    <3>1. LevelInv /\ SigmaInv
      BY DEF RInv
    <3>2. sg = GrownSigma(found, inp)
      BY <2>0
    <3> QED BY <3>1, <3>2, SigmaGrows
  <2>2. \A q1, q2, tree : rDistinguishes(q1, q2, tree)' <=> rDistinguishes(q1, q2, tree)
    BY DEF rDistinguishes
  <2>3. IsComplete(rows)' <=> IsComplete(rows)
    BY DEF IsComplete, DefinedInputs, PossibleOutputs
  <2> QED BY <1>1, <2>0, <2>1, <2>2, <2>3 DEF SigmaInv, SigmaTyped
<1>4. CoverInv'
  BY CoverKept DEF RInv
<1> QED BY <1>1, <1>2, <1>3, <1>4

(***************************************************************************)
(* The first level.                                                        *)
(***************************************************************************)
LEMMA FirstLevelStep ==
  ASSUME RInv, CalcROneDistinguishable
  PROVE  RInv'
<1> DEFINE found == {p \in notRDist : \E x \in In : OutputIntersection(p[1], p[2], x) = {}}
           Inputs1(p) == {x \in In : OutputIntersection(p[1], p[2], x) = {}}
           inp == [p \in notRDist |-> Min(Inputs1(p))]
<1>1. /\ rDist = << >> /\ Told = {} /\ LevelInv /\ SigmaInv /\ rows' = rows /\ rPhase' = "levels" /\ again' = TRUE
      /\ UNCHANGED <<bfsLst, dReachTrace>> /\ notRDist' = notRDist \ found
  BY DEF RInv, LevelInv, LevelTypes, CalcROneDistinguishable, Told
<1>2. ASSUME NEW p \in found
      PROVE  inp[p] \in In /\ OutputIntersection(p[1], p[2], inp[p]) = {}
  <2>1. Inputs1(p) \subseteq Nat /\ Inputs1(p) # {}
    BY SizeFacts
  <2>2. Min(Inputs1(p)) \in Inputs1(p)
    <3> HIDE DEF Inputs1
    <3> QED BY <2>1, MinOf
  <2>3. inp[p] = Min(Inputs1(p))
    OBVIOUS
  <2> QED BY <2>2, <2>3
<1>3. \A p \in found : inp[p] \in In /\ Separating(p, inp[p])
  BY <1>2 DEF Separating
<1>4. rDist' = Append(rDist, Both(found) \cup Told)
  <2>1. rDist' = <<Both(found)>>
    BY DEF CalcROneDistinguishable, Both, Mirror
  <2>2. Both(found) \cup Told = Both(found)
    BY <1>1
  <2> HIDE DEF found
  <2> QED BY <1>1, <2>1, <2>2
<1>5. sigma' = GrownSigma(found, inp)
  <2>1. DOMAIN sigma = State \X State /\ \A p \in State \X State : sigma[p] = EmptyTree
    BY <1>1 DEF SigmaInv, SigmaTyped
  <2>2. sigma' = [p \in State \X State |->
                    IF p \in found THEN TreeFor(p[1], p[2], Min(Inputs1(p)))
                    ELSE IF p \in Both(found) THEN TreeFor(p[1], p[2], Min(Inputs1(Mirror(p))))
                    ELSE EmptyTree]
    BY <2>1 DEF CalcROneDistinguishable, Both, Mirror
  <2>3. \A p \in found : inp[p] = Min(Inputs1(p))
    OBVIOUS
  <2>4. \A p \in State \X State : p \in Both(found) \ found => Mirror(p) \in found
    <3>1. \A p \in found : p \in State \X State
      BY <1>1 DEF LevelInv, LeftAreOthers
    <3> HIDE DEF found
    <3> QED BY <3>1, PairFacts DEF Both
  <2> HIDE DEF found, inp, Inputs1
  <2>5. \A p \in State \X State :
          (IF p \in found THEN TreeFor(p[1], p[2], Min(Inputs1(p)))
           ELSE IF p \in Both(found) THEN TreeFor(p[1], p[2], Min(Inputs1(Mirror(p))))
           ELSE EmptyTree)
          = IF sigma[p] # EmptyTree THEN sigma[p]
            ELSE IF p \in found THEN TreeFor(p[1], p[2], inp[p])
            ELSE IF p \in Both(found) THEN TreeFor(p[1], p[2], inp[Mirror(p)])
            ELSE EmptyTree
    BY <2>1, <2>3, <2>4
  <2> QED BY <2>2, <2>5 DEF GrownSigma
<1>6. found \in SUBSET notRDist
  OBVIOUS
<1>f. ASSUME NEW p \in notRDist, NEW x \in In, OutputIntersection(p[1], p[2], x) = {} PROVE p \in found
  BY <1>f
<1> HIDE DEF found, inp, Inputs1
<1>7. LevelInv' /\ Sound' /\ SigmaInv' /\ CoverInv' /\ Told' = Told \cup Both(found)
  BY <1>1, <1>3, <1>4, <1>5, <1>6, LevelKeeps
<1>8. Len(rDist') = 1 /\ rDist' # << >>
  <2>1. Len(rDist') = Len(rDist) + 1 /\ Len(<< >>) = 0
    BY <1>1, <1>4, <1>6, LevelGrows
  <2> QED BY <1>1, <2>1
<1>9. FirstLevel'
  <2>1. ASSUME NEW p \in State \X State, p[1] # p[2], NEW x \in In, OutputIntersection(p[1], p[2], x) = {}
        PROVE  p \in Told'
    <3>1. OutputIntersection(p[2], p[1], x) = {}
      BY <2>1 DEF OutputIntersection
    <3>2. p[1] \in Nat /\ p[2] \in Nat /\ Mirror(p) \in State \X State /\ Mirror(Mirror(p)) = p
          /\ Mirror(p)[1] = p[2] /\ Mirror(p)[2] = p[1]
      BY PairFacts
    <3>3. CASE p[1] < p[2]
      <4>1. p \in notRDist
        BY <1>1, <3>3 DEF LevelInv, LeftAreOthers
      <4>2. p \in found
        BY <1>f, <2>1, <4>1
      <4> QED BY <1>7, <4>2 DEF Both
    <3>4. CASE p[2] < p[1]
      <4>1. Mirror(p) \in notRDist
        BY <1>1, <3>2, <3>4 DEF LevelInv, LeftAreOthers
      <4>2. Mirror(p) \in found
        BY <1>f, <3>1, <3>2, <4>1
      <4> QED BY <1>7, <3>2, <4>2 DEF Both
    <3> QED BY <2>1, <3>2, <3>3, <3>4
  <2>2. \A q1, q2, x : OutputIntersection(q1, q2, x)' = OutputIntersection(q1, q2, x)
    BY <1>1 DEF OutputIntersection
  <2> QED BY <2>1, <2>2 DEF FirstLevel
<1>10. StopsSettled'
  BY <1>1 DEF StopsSettled
<1>11. LimitSuffices'
  <2>1. notRDist = Ordered
    BY <1>1 DEF LevelInv, LeftAreOthers, Ordered
  <2>2. CASE found = {}
    <3>1. Told' = {}
      BY <1>1, <1>7, <2>2 DEF Both
    <3> QED BY <1>8, <3>1 DEF LimitSuffices
  <2>3. CASE found # {}
    <3>1. PICK p \in found : p \in Ordered
      BY <1>6, <2>1, <2>3
    <3>2. IsFiniteSet(Ordered \ {p}) /\ Cardinality(Ordered \ {p}) = limit - 1 /\ limit \in Nat
      BY <3>1, OrderedPairs, FS_RemoveElement
    <3>3. IsFiniteSet(notRDist') /\ Cardinality(notRDist') <= limit - 1
      <4>1. notRDist' \in SUBSET (Ordered \ {p})
        BY <1>1, <2>1
      <4> QED BY <3>2, <4>1, FS_Subset
    <3>4. Cardinality(notRDist') \in Nat
      BY <3>3, FS_CardinalityType
    <3>5. Cardinality(notRDist') + 1 <= limit
      BY <3>2, <3>3, <3>4
    <3>6. limit' = limit
      BY DEF limit
    <3> QED BY <1>8, <3>5, <3>6 DEF LimitSuffices
  <2> QED BY <2>2, <2>3
<1> QED BY <1>7, <1>9, <1>10, <1>11 DEF RInv

(***************************************************************************)
(* The other levels.                                                       *)
(***************************************************************************)
LEMMA LevelStep ==
  ASSUME RInv, CalcRLevel
  PROVE  RInv'
<1> DEFINE found == {p \in notRDist : \E x \in In : Separates(p, x)}
           Least(p) == CHOOSE x \in In : Separates(p, x) /\ \A z \in In : Separates(p, z) => x <= z
           inp == [p \in notRDist |-> Least(p)]
<1>1. /\ rPhase = "levels" /\ rDist # << >> /\ Told = Last(rDist) /\ LevelInv /\ SigmaInv
      /\ rows' = rows /\ rPhase' = "levels" /\ again' = (notRDist # {} /\ found # {}) /\ again = TRUE
      /\ UNCHANGED <<bfsLst, dReachTrace>> /\ notRDist' = notRDist \ found
  BY DEF RInv, LevelInv, LevelTypes, CalcRLevel, MoreLevels, Level, Told, Last
<1>s. \A p \in notRDist : p \in State \X State /\ p[1] < p[2] /\ p \notin Told
  BY <1>1 DEF LevelInv, LeftAreOthers
<1>t. \A p \in notRDist, x \in In : Separates(p, x) <=> Separating(p, x)
  BY <1>1, <1>s, SeparatesIs
<1>2. ASSUME NEW p \in found
      PROVE  inp[p] \in In /\ Separates(p, inp[p])
  <2> DEFINE T == {x \in In : Separates(p, x)}
  <2>1. T \subseteq Nat /\ T # {}
    BY SizeFacts
  <2>2. \E x \in T : \A z \in T : x <= z
    <3> HIDE DEF T
    <3> QED BY <2>1, LeastElement
  <2>3. \E x \in In : Separates(p, x) /\ \A z \in In : Separates(p, z) => x <= z
    BY <2>2
  <2>4. Least(p) \in In /\ Separates(p, Least(p))
    BY <2>3
  <2>5. inp[p] = Least(p)
    OBVIOUS
  <2> QED BY <2>4, <2>5
<1>3. \A p \in found : inp[p] \in In /\ Separating(p, inp[p])
  BY <1>2, <1>t
<1>4. rDist' = Append(rDist, Both(found) \cup Told)
  BY <1>1 DEF CalcRLevel, Level, Both, Mirror
<1>5. sigma' = GrownSigma(found, inp)
  <2>1. DOMAIN sigma = State \X State
    BY <1>1 DEF SigmaInv, SigmaTyped
  <2>2. sigma' = [p \in State \X State |->
                    IF sigma[p] # EmptyTree THEN sigma[p]
                    ELSE IF p \in found THEN TreeFor(p[1], p[2], Least(p))
                    ELSE IF p \in Both(found) THEN TreeFor(p[1], p[2], Least(Mirror(p)))
                    ELSE EmptyTree]
    BY <2>1 DEF CalcRLevel, Level, Both, Mirror
  <2>3. \A p \in found : inp[p] = Least(p)
    OBVIOUS
  <2>4. \A p \in State \X State : p \in Both(found) \ found => Mirror(p) \in found
    <3>1. \A p \in found : p \in State \X State
      BY <1>s
    <3> HIDE DEF found
    <3> QED BY <3>1, PairFacts DEF Both
  <2> HIDE DEF found, inp, Least
  <2>5. \A p \in State \X State :
          (IF sigma[p] # EmptyTree THEN sigma[p]
           ELSE IF p \in found THEN TreeFor(p[1], p[2], Least(p))
           ELSE IF p \in Both(found) THEN TreeFor(p[1], p[2], Least(Mirror(p)))
           ELSE EmptyTree)
          = IF sigma[p] # EmptyTree THEN sigma[p]
            ELSE IF p \in found THEN TreeFor(p[1], p[2], inp[p])
            ELSE IF p \in Both(found) THEN TreeFor(p[1], p[2], inp[Mirror(p)])
            ELSE EmptyTree
    BY <2>3, <2>4
  <2> QED BY <2>2, <2>5 DEF GrownSigma
<1>6. found \in SUBSET notRDist
  OBVIOUS
<1>f. ASSUME NEW p \in notRDist, NEW x \in In, Separating(p, x) PROVE p \in found
  BY <1>t, <1>f
<1> HIDE DEF found, inp, Least
<1>b. again' \in BOOLEAN
  BY <1>1
<1>7. LevelInv' /\ Sound' /\ SigmaInv' /\ CoverInv' /\ Told' = Told \cup Both(found)
  BY <1>1, <1>b, <1>3, <1>4, <1>5, <1>6, LevelKeeps
<1>8. Len(rDist') = Len(rDist) + 1 /\ Len(rDist) \in Nat
  BY <1>1, <1>b, <1>4, <1>6, LevelGrows
<1>o. \A q1, q2, x : OutputIntersection(q1, q2, x)' = OutputIntersection(q1, q2, x)
  BY <1>1 DEF OutputIntersection
<1>9. FirstLevel'
  BY <1>1, <1>7, <1>o DEF FirstLevel, RInv
<1>10. StopsSettled'
  <2> SUFFICES ASSUME ~again' PROVE Settled'
    BY <1>1 DEF StopsSettled
  <2>1. found = {}
    BY <1>1, <1>6
  <2>2. Told' = Told
    BY <1>7, <2>1 DEF Both
  <2>3. \A p, x : Separating(p, x)' <=> Separating(p, x)
    BY <1>1, <1>o, <2>2 DEF Separating, NextPair
  <2>4. ASSUME NEW p \in State \X State, p[1] # p[2], p \notin Told, NEW x \in In, Separating(p, x) PROVE FALSE
    <3>1. p[1] \in Nat /\ p[2] \in Nat /\ Mirror(p) \in State \X State
          /\ Mirror(p)[1] = p[2] /\ Mirror(p)[2] = p[1] /\ Mirror(Mirror(p)) = p
      BY PairFacts
    <3>2. CASE p[1] < p[2]
      <4>1. p \in notRDist
        BY <1>1, <2>4, <3>2 DEF LevelInv, LeftAreOthers
      <4> QED BY <1>f, <2>1, <2>4, <4>1
    <3>3. CASE p[2] < p[1]
      <4>1. Mirror(p) \notin Told
        BY <1>1, <2>4, <3>1 DEF LevelInv, ToldBothWays
      <4>2. Mirror(p) \in notRDist
        BY <1>1, <3>1, <3>3, <4>1 DEF LevelInv, LeftAreOthers
      <4>3. Separating(Mirror(p), x)
        BY <1>1, <2>4, MirrorSeparating
      <4> QED BY <1>f, <2>1, <4>2, <4>3
    <3> QED BY <2>4, <3>1, <3>2, <3>3
  <2> QED BY <2>2, <2>3, <2>4 DEF Settled
<1>11. LimitSuffices'
  <2> SUFFICES ASSUME again' PROVE Cardinality(notRDist)' + Len(rDist') <= limit
    BY DEF LimitSuffices, limit
  <2>1. PICK p \in found : p \in notRDist
    BY <1>1, <1>6
  <2>2. ~(Len(rDist) = 1 /\ Told = {})
    <3> SUFFICES ASSUME Told = {} PROVE FALSE
      OBVIOUS
    <3>1. p \in State \X State /\ p[1] # p[2] /\ p \notin Told
      <4>1. p \in State \X State /\ p[1] < p[2] /\ p \notin Told
        BY <1>s, <2>1
      <4> QED BY <4>1, PairFacts
    <3>2. inp[p] \in In /\ OutputIntersection(p[1], p[2], inp[p]) = {}
      BY <1>3 DEF Separating
    <3> QED BY <1>1, <3>1, <3>2 DEF RInv, FirstLevel
  <2>3. Cardinality(notRDist) + Len(rDist) <= limit
    BY <1>1, <2>2 DEF RInv, LimitSuffices
  <2>4. IsFiniteSet(notRDist)
    <3>1. notRDist \in SUBSET Ordered
      BY <1>s DEF Ordered
    <3> QED BY <3>1, OrderedPairs, FS_Subset
  <2>5. Cardinality(notRDist \ {p}) = Cardinality(notRDist) - 1 /\ IsFiniteSet(notRDist \ {p})
    BY <2>1, <2>4, FS_RemoveElement
  <2>6. Cardinality(notRDist') <= Cardinality(notRDist) - 1 /\ IsFiniteSet(notRDist')
    <3>1. notRDist' \in SUBSET (notRDist \ {p})
      BY <1>1
    <3> QED BY <2>5, <3>1, FS_Subset
  <2>7. Cardinality(notRDist) \in Nat /\ Cardinality(notRDist') \in Nat /\ limit \in Nat
    BY <2>4, <2>6, FS_CardinalityType, OrderedPairs
  <2> QED BY <1>8, <2>3, <2>6, <2>7
<1> QED BY <1>7, <1>9, <1>10, <1>11 DEF RInv

(***************************************************************************)
(* The end of the levels, and the search for d-reaching traces.            *)
(***************************************************************************)
LEMMA RestKept ==
  ASSUME RInv, UNCHANGED <<rows, rDist, notRDist, again, sigma>>, rPhase \notin {"one"},
         rPhase' \in {"dreach", "done"}, Settled, CoverInv'
  PROVE  RInv'
<1>1. Told' = Told
  BY DEF Told
<1>2. LevelInv'
  BY <1>1 DEF RInv, LevelInv, LevelTypes, LevelsGrow, ToldBothWays, LeftAreOthers
<1>3. \A q1, q2, x : OutputIntersection(q1, q2, x)' = OutputIntersection(q1, q2, x)
  BY DEF OutputIntersection
<1>4. \A R : IsCompatible(R)' <=> IsCompatible(R)
  BY <1>3 DEF IsCompatible
<1>5. IsComplete(rows)' <=> IsComplete(rows)
  OBVIOUS
<1>6. Sound'
  BY <1>1, <1>4, <1>5 DEF RInv, Sound
<1>7. FirstLevel'
  BY <1>1, <1>3 DEF RInv, FirstLevel
<1>8. \A p, x : Separating(p, x)' <=> Separating(p, x)
  BY <1>1, <1>3 DEF Separating, NextPair
<1>9. StopsSettled'
  BY <1>1, <1>8 DEF StopsSettled, Settled
<1>10. LimitSuffices'
  BY DEF LimitSuffices
<1>11. \A q1, q2, tree : rDistinguishes(q1, q2, tree)' <=> rDistinguishes(q1, q2, tree)
  BY DEF rDistinguishes
<1>12. SigmaInv'
  BY <1>1, <1>5, <1>11 DEF RInv, SigmaInv, SigmaTyped
<1> QED BY <1>2, <1>6, <1>7, <1>9, <1>10, <1>12 DEF RInv

(* Whichever way the levels end, nothing more could be told apart. *)
LEMMA EndIsSettled ==
  ASSUME RInv, rPhase = "levels", ~MoreLevels
  PROVE  Settled
<1>1. LevelInv /\ rDist # << >> /\ Len(rDist) \in Nat \ {0}
  BY EmptySeq DEF RInv, LevelInv, LevelTypes
<1>2. CASE ~again
  BY <1>1, <1>2 DEF RInv, StopsSettled
<1>3. CASE again
  <2>1. limit \in Nat /\ Len(rDist) >= limit
    BY <1>1, <1>3, OrderedPairs DEF MoreLevels
  <2> SUFFICES ASSUME NEW p \in State \X State, p[1] # p[2], p \notin Told, NEW x \in In, Separating(p, x)
               PROVE  FALSE
    BY DEF Settled
  <2>2. CASE Told = {}
    <3>1. OutputIntersection(p[1], p[2], x) = {}
      BY <2>2 DEF Separating
    <3> QED BY <1>1, <3>1 DEF RInv, FirstLevel
  <2>3. CASE Cardinality(notRDist) + Len(rDist) <= limit
    <3>1. IsFiniteSet(notRDist)
      <4>1. notRDist \in SUBSET Ordered
        BY <1>1 DEF LevelInv, LeftAreOthers, Ordered
      <4> QED BY <4>1, OrderedPairs, FS_Subset
    <3>2. Cardinality(notRDist) \in Nat
      BY <3>1, FS_CardinalityType
    <3>3. Cardinality(notRDist) = 0
      BY <1>1, <2>1, <2>3, <3>2
    <3>4. notRDist = {}
      BY <3>1, <3>3, FS_EmptySet
    <3>5. p[1] \in Nat /\ p[2] \in Nat /\ Mirror(p) \in State \X State
          /\ Mirror(p)[1] = p[2] /\ Mirror(p)[2] = p[1] /\ Mirror(Mirror(p)) = p
      BY PairFacts
    <3>6. Mirror(p) \notin Told
      BY <1>1, <3>5 DEF LevelInv, ToldBothWays
    <3>7. p \in notRDist \/ Mirror(p) \in notRDist
      BY <1>1, <3>5, <3>6 DEF LevelInv, LeftAreOthers
    <3> QED BY <3>4, <3>7
  <2> QED BY <1>3, <2>2, <2>3 DEF RInv, LimitSuffices
<1> QED BY <1>2, <1>3

LEMMA StartDReachStep ==
  ASSUME RInv, StartDReach
  PROVE  RInv'
<1>1. Settled
  BY EndIsSettled DEF StartDReach
<1>2. CoverInv'
  <2>1. 0 \in State /\ << >> \in Seq(In)
    BY SizeFacts
  <2>2. bfsLst' = <<0>> /\ dReachTrace' = [dReachTrace EXCEPT ![0] = << >>] /\ rows' = rows
    BY DEF StartDReach
  <2>3. bfsLst' \in Seq(State) /\ Len(bfsLst') = 1 /\ bfsLst'[1] = 0
    BY <2>1, <2>2
  <2>4. dReachTrace' \in [State -> Seq(In) \cup {NoTrace}]
    BY <2>1, <2>2 DEF RInv, CoverInv
  <2>5. dReachTrace'[0] = << >> /\ \A q \in State : q # 0 => dReachTrace'[q] = dReachTrace[q]
    BY <2>1, <2>2 DEF RInv, CoverInv
  <2>6. ASSUME NEW q \in State, dReachTrace'[q] # NoTrace PROVE Reached(rows, dReachTrace'[q]) = {q}
    <3>1. CASE q = 0
      BY <2>5, <3>1, ReachedEmpty
    <3>2. CASE q # 0
      BY <2>5, <2>6, <3>2 DEF RInv, CoverInv
    <3> QED BY <3>1, <3>2
  <2>7. \A i \in 1 .. Len(bfsLst') : dReachTrace'[bfsLst'[i]] # NoTrace
    <3>1. << >> # NoTrace
      BY <2>1, NoTraceIsNone
    <3>2. \A i \in 1 .. Len(bfsLst') : i = 1
      BY <2>3
    <3> QED BY <2>3, <2>5, <3>1, <3>2
  <2> QED BY <2>2, <2>3, <2>4, <2>6, <2>7 DEF CoverInv
<1> QED BY <1>1, <1>2, RestKept DEF StartDReach

LEMMA DReachStepKeeps ==
  ASSUME RInv, DReachStep
  PROVE  RInv'
<1> DEFINE q == Head(bfsLst)
           new == {s \in State : dReachTrace[s] = NoTrace /\ \E x \in In : Successors(q, x) = {s}}
           Firsts(s) == {x \in In : Successors(q, x) = {s}}
<1>1. /\ rPhase = "dreach" /\ rPhase' = rPhase /\ bfsLst # << >> /\ rows' = rows
      /\ dReachTrace' = [s \in State |-> IF s \in new THEN Append(dReachTrace[q], Min(Firsts(s))) ELSE dReachTrace[s]]
      /\ \E s \in SetToSeqs(new) : bfsLst' = Tail(bfsLst) \o s
  BY DEF DReachStep
<1>2. PICK s \in SetToSeqs(new) : bfsLst' = Tail(bfsLst) \o s
  BY <1>1
<1>3. s \in [1 .. Cardinality(new) -> new]
  BY DEF SetToSeqs
<1>4. Firsts(0) = Firsts(0) /\ \A u \in new : Firsts(u) \subseteq Nat /\ Firsts(u) # {}
  BY SizeFacts
<1>5. \A u \in new : Min(Firsts(u)) \in In /\ Successors(q, Min(Firsts(u))) = {u}
  <2> SUFFICES ASSUME NEW u \in new PROVE Min(Firsts(u)) \in Firsts(u)
    OBVIOUS
  <2> HIDE DEF Firsts, new
  <2> QED BY <1>4, MinOf
<1>6. new \in SUBSET State /\ \A u \in new : dReachTrace[u] = NoTrace
  OBVIOUS
<1> HIDE DEF q, new, Firsts
<1>7. bfsLst \in Seq(State) /\ Len(bfsLst) \in Nat \ {0} /\ q = bfsLst[1] /\ q \in State
      /\ Tail(bfsLst) \in Seq(State) /\ Len(Tail(bfsLst)) = Len(bfsLst) - 1
      /\ \A i \in 1 .. Len(bfsLst) - 1 : Tail(bfsLst)[i] = bfsLst[i + 1]
  <2>1. bfsLst \in Seq(State)
    BY DEF RInv, CoverInv
  <2>2. Len(bfsLst) \in Nat \ {0}
    BY <1>1, <2>1, EmptySeq
  <2> QED BY <1>1, <2>1, <2>2, HeadTailProperties DEF q
<1>8. s \in Seq(State) /\ \A i \in 1 .. Len(s) : s[i] \in new
  <2>1. Cardinality(new) \in Nat
    <3>1. IsFiniteSet(State)
      BY SizeAssumption, FS_Interval DEF State
    <3> QED BY <1>6, <3>1, FS_Subset, FS_CardinalityType
  <2>2. Len(s) = Cardinality(new)
    BY <1>3, <2>1
  <2> QED BY <1>3, <1>6, <2>1, <2>2
<1>9. dReachTrace[q] \in Seq(In) /\ Reached(rows, dReachTrace[q]) = {q} /\ dReachTrace[q] # NoTrace
  <2>1. 1 \in 1 .. Len(bfsLst)
    BY <1>7
  <2>2. dReachTrace[q] # NoTrace
    BY <1>7, <2>1 DEF RInv, CoverInv
  <2> QED BY <1>7, <2>2 DEF RInv, CoverInv
<1>10. ASSUME NEW u \in new
       PROVE  /\ dReachTrace'[u] \in Seq(In) /\ dReachTrace'[u] # NoTrace
              /\ Reached(rows, dReachTrace'[u]) = {u}
  <2> DEFINE x == Min(Firsts(u))
  <2>1. x \in In /\ Successors(q, x) = {u}
    BY <1>5
  <2> HIDE DEF x
  <2>2. dReachTrace'[u] = Append(dReachTrace[q], x)
    BY <1>1, <1>6 DEF x
  <2>3. Append(dReachTrace[q], x) \in Seq(In)
    BY <1>9, <2>1
  <2>4. Reached(rows, Append(dReachTrace[q], x)) = SuccessorsOf(rows, q, x)
    BY <1>9, <2>1, ReachedAppend
  <2>5. SuccessorsOf(rows, q, x) = {u}
    BY <2>1 DEF Successors, SuccessorsOf
  <2> QED BY <2>2, <2>3, <2>4, <2>5, NoTraceIsNone
<1>11. \A u \in State : u \notin new => dReachTrace'[u] = dReachTrace[u]
  BY <1>1
<1>12. CoverInv'
  <2>1. bfsLst' \in Seq(State)
    BY <1>2, <1>7, <1>8
  <2>2. dReachTrace' \in [State -> Seq(In) \cup {NoTrace}]
    <3>1. \A u \in State : dReachTrace'[u] \in Seq(In) \cup {NoTrace}
      BY <1>10, <1>11 DEF RInv, CoverInv
    <3>2. dReachTrace' = [u \in State |-> dReachTrace'[u]]
      BY <1>1
    <3> QED BY <3>1, <3>2
  <2>3. ASSUME NEW u \in State, dReachTrace'[u] # NoTrace PROVE Reached(rows, dReachTrace'[u]) = {u}
    BY <1>10, <1>11, <2>3 DEF RInv, CoverInv
  <2>4. ASSUME NEW i \in 1 .. Len(bfsLst') PROVE dReachTrace'[bfsLst'[i]] # NoTrace
    <3> DEFINE k == Len(bfsLst) - 1
               a == Tail(bfsLst)
    <3>1. a \in Seq(State) /\ Len(a) = k /\ k \in Nat
      BY <1>7
    <3> HIDE DEF a
    <3>2. /\ Len(a \o s) = Len(a) + Len(s) /\ Len(s) \in Nat
          /\ \A j \in 1 .. Len(a) : (a \o s)[j] = a[j]
          /\ \A j \in 1 .. Len(s) : (a \o s)[Len(a) + j] = s[j]
      BY <1>8, <3>1
    <3>3. CASE i \in 1 .. Len(a)
      <4>1. bfsLst'[i] = bfsLst[i + 1] /\ i + 1 \in 1 .. Len(bfsLst)
        BY <1>2, <1>7, <3>1, <3>2, <3>3 DEF a
      <4>2. bfsLst[i + 1] \in State /\ dReachTrace[bfsLst[i + 1]] # NoTrace
        BY <1>7, <4>1 DEF RInv, CoverInv
      <4> QED BY <1>6, <1>11, <4>1, <4>2
    <3>4. CASE i \notin 1 .. Len(a)
      <4>1. i - Len(a) \in 1 .. Len(s) /\ Len(a) + (i - Len(a)) = i
        BY <1>2, <3>1, <3>2, <3>4 DEF a
      <4>2. bfsLst'[i] = s[i - Len(a)]
        BY <1>2, <3>2, <4>1 DEF a
      <4>3. s[i - Len(a)] \in new
        BY <1>8, <4>1
      <4> QED BY <1>10, <4>2, <4>3
    <3> QED BY <3>3, <3>4
  <2> QED BY <1>1, <2>1, <2>2, <2>3, <2>4 DEF CoverInv
<1>13. Settled
  BY <1>1 DEF RInv, StopsSettled
<1> QED BY <1>1, <1>12, <1>13, RestKept DEF DReachStep

LEMMA EndDReachStep ==
  ASSUME RInv, EndDReach
  PROVE  RInv'
<1>1. Settled
  BY DEF EndDReach, RInv, StopsSettled
<1>2. CoverInv'
  BY CoverKept DEF EndDReach, RInv
<1> QED BY <1>1, <1>2, RestKept DEF EndDReach

LEMMA AnalysisKept ==
  ASSUME RInv, UNCHANGED <<rows, rVars>>
  PROVE  RInv'
<1>1. Told' = Told
  BY DEF Told, rVars
<1>2. LevelInv'
  BY <1>1 DEF RInv, LevelInv, LevelTypes, LevelsGrow, ToldBothWays, LeftAreOthers, rVars
<1>3. \A q1, q2, x : OutputIntersection(q1, q2, x)' = OutputIntersection(q1, q2, x)
  BY DEF OutputIntersection
<1>4. \A R : IsCompatible(R)' <=> IsCompatible(R)
  BY <1>3 DEF IsCompatible
<1>5. IsComplete(rows)' <=> IsComplete(rows)
  OBVIOUS
<1>6. Sound'
  BY <1>1, <1>4, <1>5 DEF RInv, Sound
<1>7. FirstLevel'
  BY <1>1, <1>3 DEF RInv, FirstLevel, rVars
<1>8. \A p, x : Separating(p, x)' <=> Separating(p, x)
  BY <1>1, <1>3 DEF Separating, NextPair
<1>9. StopsSettled'
  BY <1>1, <1>8 DEF RInv, StopsSettled, Settled, rVars
<1>10. LimitSuffices'
  BY <1>1 DEF RInv, LimitSuffices, limit, rVars
<1>11. \A q1, q2, tree : rDistinguishes(q1, q2, tree)' <=> rDistinguishes(q1, q2, tree)
  BY DEF rDistinguishes
<1>12. SigmaInv'
  BY <1>1, <1>5, <1>11 DEF RInv, SigmaInv, SigmaTyped, rVars
<1>13. CoverInv'
  BY CoverKept DEF RInv, rVars
<1> QED BY <1>2, <1>6, <1>7, <1>9, <1>10, <1>12, <1>13 DEF RInv

LEMMA StepRInv == RInv /\ [Next \/ Stop]_vars => RInv'
<1> SUFFICES ASSUME RInv, [Next \/ Stop]_vars PROVE RInv'
  OBVIOUS
<1>1. CASE Analyse
  <2>1. CASE CalcROneDistinguishable
    BY <2>1, FirstLevelStep
  <2>2. CASE CalcRLevel
    BY <2>2, LevelStep
  <2>3. CASE StartDReach
    BY <2>3, StartDReachStep
  <2>4. CASE DReachStep
    BY <2>4, DReachStepKeeps
  <2>5. CASE EndDReach
    BY <2>5, EndDReachStep
  <2> QED BY <1>1, <2>1, <2>2, <2>3, <2>4, <2>5 DEF Analyse, RNext
<1>2. CASE Count
  <2>1. UNCHANGED <<rows, rVars>>
    BY <1>2 DEF Count, CNext, StartCounting, ApplyTraces, Expand
  <2> QED BY <2>1, AnalysisKept
<1>3. CASE Generate
  BY <1>3, AnalysisKept DEF Generate
<1>4. CASE ExecuteSuite
  BY <1>4, AnalysisKept DEF ExecuteSuite
<1>5. CASE Stop \/ UNCHANGED vars
  BY <1>5, AnalysisKept DEF Stop, vars
<1> QED BY <1>1, <1>2, <1>3, <1>4, <1>5 DEF Next

(***************************************************************************)
(* What the invariant says when the levels have ended.                     *)
(***************************************************************************)
LEMMA RInvImplies == RInv => RDistExact
<1> SUFFICES ASSUME RInv PROVE RDistExact
  OBVIOUS
<1>1. LevelInv /\ rows \in Machines
  BY DEF RInv, LevelInv, LevelTypes
<1>2. ASSUME rPhase = "dreach", IsComplete(rows), NEW p \in State \X State
      PROVE  /\ RDistinguishable(p[1], p[2]) <=> p \notin Compatible
             /\ sigma[p] # EmptyTree <=> RDistinguishable(p[1], p[2])
             /\ sigma[p] # EmptyTree => rDistinguishes(p[1], p[2], sigma[p])
  <2>1. RDistinguishable(p[1], p[2]) <=> p \in Told
    BY <1>1, ToldIs, PairFacts
  <2> DEFINE Rest == (State \X State) \ Told
  <2>2. IsCompatible(Rest)
    <3> SUFFICES ASSUME NEW r \in Rest
                 PROVE  /\ DefinedInputs(rows, r[1]) = DefinedInputs(rows, r[2])
                        /\ \A x \in In : \E y \in OutputIntersection(r[1], r[2], x) : NextPair(r, <<x, y>>) \in Rest
      BY DEF IsCompatible, NextPair, DefinedInputs
    <3>1. r \in State \X State /\ r[1] \in State /\ r[2] \in State /\ r \notin Told /\ DOMAIN rows = State
      BY <1>1 DEF Machines
    <3>2. DefinedInputs(rows, r[1]) = DefinedInputs(rows, r[2])
      BY <1>2, <3>1 DEF IsComplete
    <3>3. ASSUME NEW x \in In
          PROVE  \E y \in OutputIntersection(r[1], r[2], x) : NextPair(r, <<x, y>>) \in Rest
      <4>1. CASE r[1] = r[2]
        <5>1. PICK y : y \in OutputIntersection(r[1], r[2], x)
          BY <1>1, <1>2, <3>1, <4>1, CompleteHasOutput DEF OutputIntersection
        <5>2. NextPair(r, <<x, y>>) \in State \X State
              /\ NextPair(r, <<x, y>>)[1] = NextPair(r, <<x, y>>)[2]
          BY <1>1, <3>1, <4>1, <5>1, NextPairTyped
        <5>3. NextPair(r, <<x, y>>) \notin Told
          BY <1>1, <5>2 DEF LevelInv, ToldBothWays
        <5> QED BY <5>1, <5>2, <5>3
      <4>2. CASE r[1] # r[2]
        <5>1. ~Separating(r, x)
          BY <1>2, <3>1, <4>2 DEF RInv, StopsSettled, Settled
        <5>2. PICK y \in OutputIntersection(r[1], r[2], x) : NextPair(r, <<x, y>>) \notin Told
          BY <5>1 DEF Separating
        <5>3. NextPair(r, <<x, y>>) \in State \X State
          BY <1>1, <3>1, NextPairTyped
        <5> QED BY <5>2, <5>3
      <4> QED BY <4>1, <4>2
    <3> QED BY <3>2, <3>3
  <2>3. p \notin Told => p \in Compatible
    BY <2>2 DEF Compatible
  <2>4. p \in Told => p \notin Compatible
    BY <1>2 DEF RInv, Sound, Compatible
  <2>5. p \in Told => sigma[p] # EmptyTree /\ rDistinguishes(p[1], p[2], sigma[p])
    <3> SUFFICES ASSUME p \in Told PROVE sigma[p] # EmptyTree /\ rDistinguishes(p[1], p[2], sigma[p])
      OBVIOUS
    <3>1. HasEdge(sigma[p]) /\ rDistinguishes(p[1], p[2], sigma[p])
      BY <1>2 DEF RInv, SigmaInv
    <3>2. \A e : <<e>> # << >>
      <4>1. \A e : Len(<<e>>) = 1
        OBVIOUS
      <4>2. Len(<< >>) = 0
        OBVIOUS
      <4> QED BY <4>1, <4>2
    <3> QED BY <3>1, <3>2 DEF HasEdge, EmptyTree
  <2>6. p \notin Told => sigma[p] = EmptyTree
    BY DEF RInv, SigmaInv
  <2> QED BY <2>1, <2>3, <2>4, <2>5, <2>6
<1>3. \A q \in dReachableStates : Reached(rows, dReachTrace[q]) = {q}
  BY DEF dReachableStates, RInv, CoverInv
<1> QED BY <1>2, <1>3 DEF RDistExact

(***************************************************************************)
(* On a machine of any size that defines every input in every state,       *)
(* calcRDistinguishableStates finds exactly the pairs of states without a  *)
(* common reduct, within the number of levels it allows itself, and stores *)
(* an adaptive test case for each that tells its states apart; and on      *)
(* every observable machine a trace of the deterministic state cover leads *)
(* to its state only, whatever outputs are chosen.                         *)
(***************************************************************************)
THEOREM RDistinguishabilityExact == Spec => []RDistExact
<1>1. Init => RInv
  BY InitRInv, SpecificationsAssumption DEF Init, Machines
<1> QED BY <1>1, StepRInv, RInvImplies, PTL DEF Spec

-----------------------------------------------------------------------------
(***************************************************************************)
(* The generator of strong-reduction suites: its own search for d-reaching *)
(* sequences and its distinguishing graph.                                 *)
(*                                                                         *)
(* The search walks through the sets of states a trace may lead to, a sink *)
(* standing for an undefined input.                                        *)
(***************************************************************************)
SubOf(xs) == FoldOf(<<"subset", rows>>, {0}, xs)

Subsets == SUBSET (State \cup {Sink})

LEMMA SubEmpty == SubOf(<< >>) = {0}
BY FoldOfEmpty DEF SubOf

LEMMA SubAppend ==
  ASSUME NEW xs \in Seq(In), NEW x \in In
  PROVE  SubOf(Append(xs, x)) = SubsetAfter(SubOf(xs), x)
<1>1. SubOf(Append(xs, x)) = StepOf(<<"subset", rows>>, SubOf(xs), x)
  BY FoldOfAppend DEF SubOf
<1>2. \A q : Successors(q, x) = SuccessorsOf(rows, q, x)
  BY DEF Successors, SuccessorsOf
<1>3. SubsetAfter(SubOf(xs), x) = SubsetsOf(rows, SubOf(xs), x)
  BY <1>2 DEF SubsetAfter, SubsetsOf
<1> QED BY <1>1, <1>3, StepCases

LEMMA SubsetAfterTyped ==
  ASSUME rows \in Machines, NEW S \in Subsets, NEW x \in In
  PROVE  SubsetAfter(S, x) \in Subsets
<1> SUFFICES ASSUME NEW q \in S, q # Sink PROVE Successors(q, x) \subseteq State
  BY DEF SubsetAfter, Subsets
<1>1. q \in State
  BY DEF Subsets
<1> SUFFICES ASSUME NEW y \in PossibleOutputs(rows, q, x) PROVE rows[q][<<x, y>>] \in State
  BY DEF Successors
<1>2. y \in Out /\ rows[q][<<x, y>>] >= 0 /\ <<x, y>> \in IO
  BY DEF PossibleOutputs, IO
<1> QED BY <1>1, <1>2, PostFacts

(* As long as no input is undefined these are the states reached. *)
LEMMA SubReached ==
  ASSUME rows \in Machines, NEW xs \in Seq(In)
  PROVE  SubOf(xs) \in Subsets /\ (Sink \notin SubOf(xs) => Reached(rows, xs) = SubOf(xs))
<1> DEFINE A == {u \in Seq(In) : SubOf(u) \in Subsets /\ (Sink \notin SubOf(u) => Reached(rows, u) = SubOf(u))}
<1>1. << >> \in A
  <2>1. {0} \in Subsets /\ << >> \in Seq(In)
    BY SizeFacts DEF Subsets
  <2> QED BY <2>1, SubEmpty, ReachedEmpty
<1>2. ASSUME NEW u \in Seq(In), NEW x \in In, u \in A PROVE Append(u, x) \in A
  <2>1. Append(u, x) \in Seq(In) /\ SubOf(u) \in Subsets
    BY <1>2
  <2>2. SubOf(Append(u, x)) = SubsetAfter(SubOf(u), x)
    BY SubAppend
  <2>3. SubsetAfter(SubOf(u), x) \in Subsets
    BY <2>1, SubsetAfterTyped
  <2>4. ASSUME Sink \notin SubsetAfter(SubOf(u), x)
        PROVE  Reached(rows, Append(u, x)) = SubsetAfter(SubOf(u), x)
    <3>1. \A q \in SubOf(u) : q # Sink /\ Successors(q, x) # {}
      BY <2>4 DEF SubsetAfter
    <3>2. Reached(rows, u) = SubOf(u)
      BY <1>2, <3>1
    <3>3. Reached(rows, Append(u, x)) = UNION {SuccessorsOf(rows, q, x) : q \in SubOf(u)}
      BY <3>2, ReachedSteps
    <3>4. SubsetAfter(SubOf(u), x) = UNION {Successors(q, x) : q \in SubOf(u)}
      BY <3>1 DEF SubsetAfter
    <3> QED BY <3>3, <3>4 DEF Successors, SuccessorsOf
  <2> QED BY <2>1, <2>2, <2>3, <2>4
<1> HIDE DEF A
<1>3. xs \in A
  BY <1>1, <1>2, SeqInduction
<1> QED BY <1>3 DEF A

(***************************************************************************)
(* The invariant of the search.  Its queue is in the order of lengths,     *)
(* which differ by one at most; the successors of black sets are black or  *)
(* waiting; and so are, as far as the search has come, the sets that       *)
(* traces lead to, so that a set turns black with a shortest trace.        *)
(***************************************************************************)
LenAt(i) == Len(drQueue[i][2])

Waiting(S) == \E i \in 1 .. Len(drQueue) : drQueue[i][1] = S

SearchTypes ==
  /\ rows \in Machines
  /\ drQueue \in Seq(Subsets \X Seq(In))
  /\ drBlack \subseteq Subsets
  /\ dReachingSequences \in [State -> Seq(In) \cup {NoTrace}]
  /\ \A i \in 1 .. Len(drQueue) : drQueue[i][1] = SubOf(drQueue[i][2])

Closed ==
  /\ sPhase # "idle" => {0} \in drBlack \/ Waiting({0})
  /\ \A S \in drBlack, x \in In : SubsetAfter(S, x) \in drBlack \/ Waiting(SubsetAfter(S, x))

ByLength ==
  /\ \A i, j \in 1 .. Len(drQueue) : i <= j => LenAt(i) <= LenAt(j)
  /\ \A i \in 1 .. Len(drQueue) : LenAt(i) <= LenAt(1) + 1
  /\ drQueue # << >> => \A w \in Seq(In) :
       /\ Len(w) < LenAt(1) => SubOf(w) \in drBlack
       /\ Len(w) = LenAt(1) => \/ SubOf(w) \in drBlack
                               \/ \E i \in 1 .. Len(drQueue) : drQueue[i][1] = SubOf(w) /\ LenAt(i) = Len(w)

ShortestRecorded ==
  \A q \in State :
    /\ dReachingSequences[q] # NoTrace <=> {q} \in drBlack
    /\ dReachingSequences[q] # NoTrace =>
         /\ SubOf(dReachingSequences[q]) = {q}
         /\ \A w \in Seq(In) : SubOf(w) = {q} => Len(dReachingSequences[q]) <= Len(w)

QueueUsed ==
  /\ sPhase = "idle" => drQueue = << >> /\ drBlack = {}
  /\ sPhase \notin {"idle", "dreach"} => drQueue = << >>

SearchInv == SearchTypes /\ Closed /\ ByLength /\ ShortestRecorded /\ QueueUsed

LEMMA SearchStarts ==
  ASSUME rows \in Machines, SInit
  PROVE  SearchInv
<1>1. drQueue = << >> /\ drBlack = {} /\ sPhase = "idle" /\ dReachingSequences = [q \in State |-> NoTrace]
  BY DEF SInit
<1>2. drQueue \in Seq(Subsets \X Seq(In)) /\ Len(drQueue) = 0
  BY <1>1
<1>3. dReachingSequences \in [State -> Seq(In) \cup {NoTrace}]
  BY <1>1
<1>4. SearchTypes
  BY <1>1, <1>2, <1>3 DEF SearchTypes
<1>5. ByLength
  BY <1>1, <1>2 DEF ByLength
<1> QED BY <1>1, <1>4, <1>5 DEF SearchInv, Closed, ShortestRecorded, QueueUsed

LEMMA SearchKept ==
  ASSUME SearchInv, rows' = rows, drQueue' = drQueue, drBlack' = drBlack,
         dReachingSequences' = dReachingSequences, sPhase' = "idle" <=> sPhase = "idle",
         sPhase' \notin {"idle", "dreach"} => drQueue = << >>
  PROVE  SearchInv'
<1>1. \A xs : SubOf(xs)' = SubOf(xs)
  BY DEF SubOf
<1>2. \A S, x : SubsetAfter(S, x)' = SubsetAfter(S, x)
  BY DEF SubsetAfter, Successors
<1>3. SearchTypes'
  BY <1>1 DEF SearchInv, SearchTypes
<1>4. \A S : Waiting(S)' <=> Waiting(S)
  BY DEF Waiting
<1>5. Closed'
  BY <1>2, <1>4 DEF SearchInv, Closed
<1>6. \A i : LenAt(i)' = LenAt(i)
  BY DEF LenAt
<1>7. ByLength'
  BY <1>1, <1>6 DEF SearchInv, ByLength
<1>8. ShortestRecorded'
  BY <1>1 DEF SearchInv, ShortestRecorded
<1> QED BY <1>3, <1>5, <1>7, <1>8 DEF SearchInv, QueueUsed

LEMMA SearchStep ==
  ASSUME SearchInv, StartStrong, rows' = rows
  PROVE  SearchInv'
<1>1. /\ sPhase = "idle" /\ sPhase' = "dreach" /\ drQueue' = <<<<{0}, << >>>>>>
      /\ drBlack' = drBlack /\ dReachingSequences' = dReachingSequences
  BY DEF StartStrong
<1>2. drBlack = {}
  BY <1>1 DEF SearchInv, QueueUsed
<1>3. << >> \in Seq(In) /\ {0} \in Subsets
  BY SizeFacts DEF Subsets
<1>4. /\ drQueue' \in Seq(Subsets \X Seq(In)) /\ Len(drQueue') = 1
      /\ drQueue'[1][1] = {0} /\ drQueue'[1][2] = << >>
  <2> DEFINE e == <<{0}, << >>>>
  <2>1. e \in Subsets \X Seq(In) /\ e[1] = {0} /\ e[2] = << >>
    BY <1>3
  <2>2. drQueue' = <<e>>
    BY <1>1
  <2> HIDE DEF e
  <2>3. drQueue' \in Seq(Subsets \X Seq(In)) /\ Len(drQueue') = 1 /\ drQueue'[1] = e
    BY <2>1, <2>2
  <2> QED BY <2>1, <2>3
<1>5. \A xs : SubOf(xs)' = SubOf(xs)
  BY DEF SubOf
<1>6. SearchTypes'
  <2>1. \A i \in 1 .. Len(drQueue') : drQueue'[i][1] = SubOf(drQueue'[i][2])
    <3>1. drQueue'[1][1] = SubOf(drQueue'[1][2])
      BY <1>4, SubEmpty
    <3>2. \A i \in 1 .. Len(drQueue') : i = 1
      BY <1>4
    <3> QED BY <3>1, <3>2
  <2>2. \A i \in 1 .. Len(drQueue') : drQueue'[i][1] = SubOf(drQueue[i][2])'
    BY <2>1 DEF SubOf
  <2> QED BY <1>1, <1>4, <2>2 DEF SearchInv, SearchTypes
<1>7. Waiting({0})'
  BY <1>4 DEF Waiting
<1>8. Closed'
  BY <1>1, <1>2, <1>7 DEF Closed
<1>9. ByLength'
  <2>1. Len(drQueue'[1][2]) = 0 /\ \A i \in 1 .. Len(drQueue') : i = 1
    BY <1>4
  <2>2. ASSUME NEW w \in Seq(In), Len(w) = 0 PROVE SubOf(w) = {0}
    BY <2>2, EmptySeq, SubEmpty
  <2>3. \A w \in Seq(In) : Len(w) \in Nat
    OBVIOUS
  <2>4. \A w \in Seq(In) : ~(Len(w) < 0)
    BY <2>3
  <2>5. \A i \in 1 .. Len(drQueue') : Len(drQueue'[i][2]) = 0
    BY <2>1
  <2>6. 1 \in 1 .. Len(drQueue')
    BY <1>4
  <2>7. \A w \in Seq(In) : Len(w) = 0 => drQueue'[1][1] = SubOf(w)
    BY <1>4, <2>2
  <2>8. \A w \in Seq(In) : Len(w) = 0 =>
          \E i \in 1 .. Len(drQueue') : drQueue'[i][1] = SubOf(w) /\ Len(drQueue'[i][2]) = Len(w)
    BY <2>1, <2>6, <2>7
  <2>9. /\ \A i, j \in 1 .. Len(drQueue') : i <= j => Len(drQueue'[i][2]) <= Len(drQueue'[j][2])
        /\ \A i \in 1 .. Len(drQueue') : Len(drQueue'[i][2]) <= Len(drQueue'[1][2]) + 1
    BY <2>1, <2>5
  <2> QED BY <1>5, <2>1, <2>4, <2>8, <2>9 DEF ByLength, LenAt
<1>10. ShortestRecorded'
  BY <1>1, <1>5 DEF SearchInv, ShortestRecorded
<1> QED BY <1>1, <1>6, <1>8, <1>9, <1>10 DEF SearchInv, QueueUsed

(* One round: the first set of the queue turns black, unless it is black.   *)
LEMMA SearchRound ==
  ASSUME SearchInv, DReachingStep, rows' = rows
  PROVE  SearchInv'
<1> DEFINE S == drQueue[1][1]
           xs == drQueue[1][2]
           K == Len(xs)
           n == Len(drQueue)
           all == [i \in 1 .. maxInput + 1 |-> <<SubsetAfter(S, i - 1), Append(xs, i - 1)>>]
           ext == IF S \in drBlack THEN << >> ELSE all
           queue == drQueue'
           black == drBlack \cup {S}
<1>1. /\ sPhase = "dreach" /\ sPhase' = "dreach" /\ drQueue # << >> /\ Head(drQueue) = drQueue[1]
      /\ drQueue' = IF S \in drBlack THEN Tail(drQueue) ELSE Tail(drQueue) \o all
      /\ drBlack' = black
      /\ dReachingSequences' = IF S \in drBlack THEN dReachingSequences
                               ELSE [q \in State |-> IF S = {q} THEN xs ELSE dReachingSequences[q]]
  <2>1. Head(drQueue) = drQueue[1]
    BY DEF DReachingStep
  <2>2. CASE S \in drBlack
    BY <2>1, <2>2 DEF DReachingStep
  <2>3. CASE S \notin drBlack
    BY <2>1, <2>3 DEF DReachingStep
  <2> QED BY <2>1, <2>2, <2>3 DEF DReachingStep
<1>2. SearchTypes /\ Closed /\ ByLength /\ ShortestRecorded
  BY DEF SearchInv
<1>3. n \in Nat \ {0} /\ drQueue \in Seq(Subsets \X Seq(In)) /\ 1 \in 1 .. n
  <2>1. drQueue \in Seq(Subsets \X Seq(In))
    BY <1>2 DEF SearchTypes
  <2> QED BY <1>1, <2>1, EmptySeq
<1>4. S \in Subsets /\ xs \in Seq(In) /\ K \in Nat /\ S = SubOf(xs) /\ LenAt(1) = K
  <2>1. drQueue[1] \in Subsets \X Seq(In)
    BY <1>3
  <2> QED BY <1>2, <1>3, <2>1 DEF SearchTypes, LenAt
<1>5. \A u : SubOf(u)' = SubOf(u)
  BY DEF SubOf
<1>6. \A T, x : SubsetAfter(T, x)' = SubsetAfter(T, x)
  BY DEF SubsetAfter, Successors
<1>7. maxInput \in Nat /\ \A x \in In : x \in Int /\ x + 1 \in 1 .. maxInput + 1 /\ (x + 1) - 1 = x
  BY SizeAssumption DEF In
<1>8. \A i \in 1 .. maxInput + 1 : i - 1 \in In
  BY <1>7 DEF In
<1>9. /\ all \in Seq(Subsets \X Seq(In)) /\ Len(all) = maxInput + 1
      /\ \A i \in 1 .. Len(all) : all[i][1] = SubOf(all[i][2]) /\ Len(all[i][2]) = K + 1
      /\ \A x \in In : x + 1 \in 1 .. Len(all) /\ all[x + 1][1] = SubsetAfter(S, x)
  <2>1. ASSUME NEW i \in 1 .. maxInput + 1
        PROVE  /\ <<SubsetAfter(S, i - 1), Append(xs, i - 1)>> \in Subsets \X Seq(In)
               /\ SubOf(Append(xs, i - 1)) = SubsetAfter(S, i - 1)
               /\ Len(Append(xs, i - 1)) = K + 1
    <3>1. i - 1 \in In
      BY <1>8
    <3>2. SubsetAfter(S, i - 1) \in Subsets
      BY <1>2, <1>4, <3>1, SubsetAfterTyped DEF SearchTypes
    <3>3. Append(xs, i - 1) \in Seq(In) /\ Len(Append(xs, i - 1)) = K + 1
      BY <1>4, <3>1
    <3>4. SubOf(Append(xs, i - 1)) = SubsetAfter(S, i - 1)
      BY <1>4, <3>1, SubAppend
    <3> QED BY <3>2, <3>3, <3>4
  <2>2. all \in [1 .. maxInput + 1 -> Subsets \X Seq(In)]
    BY <2>1
  <2>3. all \in Seq(Subsets \X Seq(In)) /\ Len(all) = maxInput + 1
    BY <1>7, <2>2
  <2>4. \A i \in 1 .. maxInput + 1 : all[i] = <<SubsetAfter(S, i - 1), Append(xs, i - 1)>>
    OBVIOUS
  <2>5. \A i \in 1 .. maxInput + 1 : all[i][1] = SubOf(all[i][2]) /\ Len(all[i][2]) = K + 1
    BY <2>1, <2>4
  <2>6. \A x \in In : x + 1 \in 1 .. maxInput + 1 /\ all[x + 1][1] = SubsetAfter(S, x)
    BY <1>7, <2>4
  <2> HIDE DEF all
  <2> QED BY <2>3, <2>5, <2>6
<1> HIDE DEF all
<1>10. /\ ext \in Seq(Subsets \X Seq(In)) /\ Len(ext) \in Nat
       /\ \A i \in 1 .. Len(ext) : ext[i][1] = SubOf(ext[i][2]) /\ Len(ext[i][2]) = K + 1
       /\ S \notin drBlack => \A x \in In : x + 1 \in 1 .. Len(ext) /\ ext[x + 1][1] = SubsetAfter(S, x)
  <2>1. CASE S \in drBlack
    <3>1. ext = << >> /\ Len(<< >>) = 0 /\ << >> \in Seq(Subsets \X Seq(In))
      BY <2>1
    <3> HIDE DEF ext
    <3> QED BY <2>1, <3>1
  <2>2. CASE S \notin drBlack
    <3>1. ext = all
      BY <2>2
    <3> HIDE DEF ext
    <3> QED BY <1>9, <3>1
  <2> QED BY <2>1, <2>2
<1>11. /\ Tail(drQueue) \in Seq(Subsets \X Seq(In)) /\ Len(Tail(drQueue)) = n - 1
       /\ \A i \in 1 .. n - 1 : Tail(drQueue)[i] = drQueue[i + 1]
  BY <1>1, <1>3
<1>12. drQueue' = Tail(drQueue) \o ext
  BY <1>1, <1>11
<1> HIDE DEF ext
<1>13. /\ queue \in Seq(Subsets \X Seq(In)) /\ Len(queue) = n - 1 + Len(ext) /\ n - 1 \in Nat /\ Len(queue) \in Nat
       /\ \A i \in 1 .. n - 1 : i \in 1 .. Len(queue) /\ queue[i] = drQueue[i + 1]
       /\ \A i \in 1 .. Len(ext) : n - 1 + i \in 1 .. Len(queue) /\ queue[n - 1 + i] = ext[i]
  <2> DEFINE a == Tail(drQueue)
  <2>1. a \in Seq(Subsets \X Seq(In)) /\ Len(a) = n - 1 /\ n - 1 \in Nat
    BY <1>3, <1>11
  <2>2. \A i \in 1 .. n - 1 : a[i] = drQueue[i + 1]
    BY <1>11
  <2> HIDE DEF a
  <2> DEFINE Items == Subsets \X Seq(In)
  <2>0. a \in Seq(Items) /\ ext \in Seq(Items)
    BY <1>10, <2>1
  <2>3. /\ a \o ext \in Seq(Items) /\ Len(a \o ext) = Len(a) + Len(ext)
        /\ \A i \in 1 .. Len(a) : (a \o ext)[i] = a[i]
        /\ \A i \in 1 .. Len(ext) : (a \o ext)[Len(a) + i] = ext[i]
    <3> HIDE DEF Items
    <3> QED BY <2>0
  <2>4. queue = a \o ext
    BY <1>12 DEF a
  <2>5. n - 1 + Len(ext) \in Nat
    BY <1>10, <2>1
  <2> HIDE DEF queue, n
  <2>6. \A i \in 1 .. n - 1 : i \in 1 .. n - 1 + Len(ext)
    BY <1>10, <2>1
  <2>7. \A i \in 1 .. Len(ext) : n - 1 + i \in 1 .. n - 1 + Len(ext)
    BY <1>10, <2>1
  <2>8. queue \in Seq(Subsets \X Seq(In)) /\ Len(queue) = n - 1 + Len(ext)
    BY <2>1, <2>3, <2>4
  <2>9. \A i \in 1 .. n - 1 : queue[i] = drQueue[i + 1]
    BY <2>1, <2>2, <2>3, <2>4
  <2>10. \A i \in 1 .. Len(ext) : queue[n - 1 + i] = ext[i]
    BY <2>1, <2>3, <2>4
  <2> QED BY <2>1, <2>5, <2>6, <2>7, <2>8, <2>9, <2>10
<1>14. \A i \in 1 .. Len(queue) :
          \/ i \in 1 .. n - 1 /\ i + 1 \in 1 .. n /\ queue[i] = drQueue[i + 1]
          \/ i - (n - 1) \in 1 .. Len(ext) /\ i > n - 1 /\ queue[i] = ext[i - (n - 1)]
  <2> HIDE DEF n, queue
  <2> SUFFICES ASSUME NEW i \in 1 .. Len(queue)
               PROVE  \/ i \in 1 .. n - 1 /\ i + 1 \in 1 .. n /\ queue[i] = drQueue[i + 1]
                      \/ i - (n - 1) \in 1 .. Len(ext) /\ i > n - 1 /\ queue[i] = ext[i - (n - 1)]
    OBVIOUS
  <2>1. CASE i \in 1 .. n - 1
    <3>1. i + 1 \in 1 .. n
      BY <1>3, <2>1
    <3> QED BY <1>13, <2>1, <3>1
  <2>2. CASE i \notin 1 .. n - 1
    <3>1. i \in Int /\ i > n - 1 /\ i <= n - 1 + Len(ext)
      BY <1>10, <1>13, <2>2
    <3>2. i - (n - 1) \in 1 .. Len(ext) /\ n - 1 + (i - (n - 1)) = i
      BY <1>10, <1>13, <3>1
    <3> QED BY <1>13, <3>1, <3>2
  <2> QED BY <2>1, <2>2
<1> DEFINE At(i) == Len(queue[i][2])
<1>15. \A i \in 1 .. Len(queue) : queue[i][1] = SubOf(queue[i][2]) /\ At(i) \in Nat
  <2> SUFFICES ASSUME NEW i \in 1 .. Len(queue) PROVE queue[i][1] = SubOf(queue[i][2]) /\ At(i) \in Nat
    OBVIOUS
  <2>1. queue[i] \in Subsets \X Seq(In)
    BY <1>13
  <2>2. queue[i][1] = SubOf(queue[i][2])
    BY <1>2, <1>10, <1>14 DEF SearchTypes
  <2> QED BY <2>1, <2>2
<1>16. \A i \in 1 .. n : LenAt(i) \in K .. K + 1
  <2> SUFFICES ASSUME NEW i \in 1 .. n PROVE LenAt(i) \in K .. K + 1
    OBVIOUS
  <2>1. drQueue[i] \in Subsets \X Seq(In)
    BY <1>3
  <2>2. LenAt(i) \in Nat
    BY <2>1 DEF LenAt
  <2>3. 1 <= i
    BY <1>3
  <2> QED BY <1>2, <1>3, <1>4, <2>2, <2>3 DEF ByLength
<1>17. \A i \in 1 .. Len(queue) :
          \/ i \in 1 .. n - 1 /\ i + 1 \in 1 .. n /\ At(i) = LenAt(i + 1)
          \/ i > n - 1 /\ At(i) = K + 1
  BY <1>10, <1>14 DEF LenAt
<1>18. \A i \in 1 .. Len(queue) : At(i) \in K .. K + 1
  BY <1>4, <1>16, <1>17
<1>19. \A i, j \in 1 .. Len(queue) : i <= j => At(i) <= At(j)
  <2> SUFFICES ASSUME NEW i \in 1 .. Len(queue), NEW j \in 1 .. Len(queue), i <= j PROVE At(i) <= At(j)
    OBVIOUS
  <2>1. CASE j \in 1 .. n - 1
    <3>1. i \in 1 .. n - 1 /\ i + 1 \in 1 .. n /\ j + 1 \in 1 .. n /\ i + 1 <= j + 1
      BY <1>13, <2>1
    <3>2. At(i) = LenAt(i + 1) /\ At(j) = LenAt(j + 1)
      BY <1>13, <2>1, <3>1 DEF LenAt
    <3> QED BY <1>2, <3>1, <3>2 DEF ByLength
  <2>2. CASE j \notin 1 .. n - 1
    <3>1. At(j) = K + 1
      BY <1>17, <2>2
    <3>2. At(i) \in K .. K + 1
      BY <1>18
    <3> HIDE DEF At
    <3> QED BY <1>4, <3>1, <3>2
  <2> QED BY <2>1, <2>2
<1> HIDE DEF At
<1> DEFINE Waits(T) == \E i \in 1 .. Len(queue) : queue[i][1] = T
<1>20. ASSUME NEW T, T \in drBlack \/ Waiting(T) PROVE T \in black \/ Waits(T)
  <2> SUFFICES ASSUME NEW i \in 1 .. n, drQueue[i][1] = T, T # S PROVE Waits(T)
    BY <1>20 DEF Waiting
  <2>1. i # 1 /\ i - 1 \in 1 .. n - 1 /\ (i - 1) + 1 = i
    BY <1>3
  <2>2. i - 1 \in 1 .. Len(queue) /\ queue[i - 1] = drQueue[i]
    BY <1>13, <2>1
  <2> QED BY <2>2
<1>21. \A T \in black, x \in In : SubsetAfter(T, x) \in black \/ Waits(SubsetAfter(T, x))
  <2> SUFFICES ASSUME NEW T \in black, NEW x \in In PROVE SubsetAfter(T, x) \in black \/ Waits(SubsetAfter(T, x))
    OBVIOUS
  <2>1. CASE T \in drBlack
    BY <1>2, <1>20, <2>1 DEF Closed
  <2>2. CASE T \notin drBlack
    <3>1. T = S /\ S \notin drBlack
      BY <2>2
    <3>2. x + 1 \in 1 .. Len(ext) /\ ext[x + 1][1] = SubsetAfter(S, x)
      BY <1>10, <3>1
    <3>3. n - 1 + (x + 1) \in 1 .. Len(queue) /\ queue[n - 1 + (x + 1)] = ext[x + 1]
      BY <1>13, <3>2
    <3> QED BY <3>1, <3>2, <3>3
  <2> QED BY <2>1, <2>2
<1>22. Closed'
  <2>1. {0} \in black \/ Waits({0})
    BY <1>1, <1>2, <1>20 DEF Closed
  <2>2. \A T : Waiting(T)' <=> Waits(T)
    BY DEF Waiting
  <2> QED BY <1>1, <1>6, <1>21, <2>1, <2>2 DEF Closed
(* what is known of the traces up to the length of the first one waiting *)
<1>23. ASSUME queue # << >>, NEW w \in Seq(In)
       PROVE  /\ Len(w) < At(1) => SubOf(w) \in black
              /\ Len(w) = At(1) => \/ SubOf(w) \in black
                                   \/ \E i \in 1 .. Len(queue) : queue[i][1] = SubOf(w) /\ At(i) = Len(w)
  <2>1. 1 \in 1 .. Len(queue)
    BY <1>13, <1>23, EmptySeq
  <2>2. At(1) \in K .. K + 1 /\ Len(w) \in Nat
    BY <1>18, <2>1
  <2>3. ASSUME NEW v \in Seq(In), Len(v) < K PROVE SubOf(v) \in black
    BY <1>1, <1>2, <1>4, <2>3 DEF ByLength
  <2>4. ASSUME NEW v \in Seq(In), Len(v) = K
        PROVE  \/ SubOf(v) \in black
               \/ \E i \in 1 .. Len(queue) : queue[i][1] = SubOf(v) /\ At(i) = K
    <3> SUFFICES ASSUME SubOf(v) \notin black
                 PROVE  \E i \in 1 .. Len(queue) : queue[i][1] = SubOf(v) /\ At(i) = K
      OBVIOUS
    <3>1. PICK i \in 1 .. n : drQueue[i][1] = SubOf(v) /\ LenAt(i) = K
      BY <1>1, <1>2, <1>4, <2>4 DEF ByLength
    <3>2. i # 1 /\ i - 1 \in 1 .. n - 1 /\ (i - 1) + 1 = i
      BY <1>3, <3>1
    <3>3. i - 1 \in 1 .. Len(queue) /\ queue[i - 1] = drQueue[i]
      BY <1>13, <3>2
    <3>4. At(i - 1) = LenAt(i)
      BY <3>3 DEF At, LenAt
    <3> QED BY <3>1, <3>3, <3>4
  <2>5. CASE At(1) = K
    BY <1>4, <2>3, <2>4, <2>5
  <2>6. CASE At(1) = K + 1
    <3>1. \A i \in 1 .. Len(queue) : At(i) = K + 1
      <4> SUFFICES ASSUME NEW i \in 1 .. Len(queue) PROVE At(i) = K + 1
        OBVIOUS
      <4>1. At(1) <= At(i) /\ At(i) \in K .. K + 1
        <5>1. 1 <= i
          BY <1>13
        <5> QED BY <1>18, <1>19, <2>1, <5>1
      <4> QED BY <1>4, <2>6, <4>1
    <3>2. \A v \in Seq(In) : Len(v) = K => SubOf(v) \in black
      <4>1. K # K + 1
        BY <1>4
      <4> QED BY <2>4, <3>1, <4>1
    <3>3. Len(w) < K + 1 => Len(w) < K \/ Len(w) = K
      BY <1>4, <2>2
    <3>4. ASSUME Len(w) = K + 1
          PROVE  SubOf(w) \in black \/ \E i \in 1 .. Len(queue) : queue[i][1] = SubOf(w) /\ At(i) = K + 1
      <4>1. w # << >>
        BY <1>4, <3>4, EmptySeq
      <4>2. PICK v \in Seq(In), x \in In : w = Append(v, x)
        BY <4>1, SequenceEmptyOrAppend
      <4>3. Len(v) = K
        BY <1>4, <3>4, <4>2
      <4>4. SubOf(v) \in black /\ SubOf(w) = SubsetAfter(SubOf(v), x)
        BY <3>2, <4>2, <4>3, SubAppend
      <4> QED BY <1>21, <3>1, <4>4
    <3> QED BY <2>3, <2>6, <3>2, <3>3, <3>4
  <2> QED BY <1>4, <2>2, <2>5, <2>6
<1>24. ByLength'
  <2>1. \A i : LenAt(i)' = Len(queue[i][2])
    BY DEF LenAt
  <2>2. \A i \in 1 .. Len(queue) : Len(queue[i][2]) <= Len(queue[1][2]) + 1
    <3> SUFFICES ASSUME NEW i \in 1 .. Len(queue) PROVE At(i) <= At(1) + 1
      BY DEF At
    <3>1. 1 \in 1 .. Len(queue)
      BY <1>13
    <3>2. At(i) \in K .. K + 1 /\ At(1) \in K .. K + 1
      BY <1>18, <3>1
    <3> QED BY <1>4, <3>2
  <2>3. \A i, j \in 1 .. Len(queue) : i <= j => Len(queue[i][2]) <= Len(queue[j][2])
    BY <1>19 DEF At
  <2>4. queue # << >> => \A w \in Seq(In) :
          /\ Len(w) < Len(queue[1][2]) => SubOf(w) \in black
          /\ Len(w) = Len(queue[1][2]) =>
               \/ SubOf(w) \in black
               \/ \E i \in 1 .. Len(queue) : queue[i][1] = SubOf(w) /\ Len(queue[i][2]) = Len(w)
    BY <1>23 DEF At
  <2> QED BY <1>1, <1>5, <2>2, <2>3, <2>4 DEF ByLength, LenAt
<1>25. ShortestRecorded'
  <2> SUFFICES ASSUME NEW q \in State
               PROVE  /\ dReachingSequences'[q] # NoTrace <=> {q} \in black
                      /\ dReachingSequences'[q] # NoTrace =>
                           /\ SubOf(dReachingSequences'[q]) = {q}
                           /\ \A w \in Seq(In) : SubOf(w) = {q} => Len(dReachingSequences'[q]) <= Len(w)
    BY <1>1, <1>5 DEF ShortestRecorded
  <2>1. CASE S \in drBlack \/ S # {q}
    <3>1. dReachingSequences'[q] = dReachingSequences[q] /\ ({q} \in black <=> {q} \in drBlack)
      BY <1>1, <2>1
    <3> QED BY <1>2, <3>1 DEF ShortestRecorded
  <2>2. CASE S \notin drBlack /\ S = {q}
    <3>1. dReachingSequences'[q] = xs /\ {q} \in black /\ xs # NoTrace /\ SubOf(xs) = {q}
      BY <1>1, <1>4, <2>2, NoTraceIsNone
    <3>2. ASSUME NEW w \in Seq(In), SubOf(w) = {q} PROVE K <= Len(w)
      <4>1. ~(Len(w) < K)
        BY <1>1, <1>2, <1>4, <2>2, <3>2 DEF ByLength
      <4>2. Len(w) \in Nat
        OBVIOUS
      <4> QED BY <1>4, <4>1, <4>2
    <3> QED BY <3>1, <3>2
  <2> QED BY <2>1, <2>2
<1>26. SearchTypes'
  <2>1. dReachingSequences' \in [State -> Seq(In) \cup {NoTrace}]
    <3>1. dReachingSequences \in [State -> Seq(In) \cup {NoTrace}]
      BY <1>2 DEF SearchTypes
    <3> HIDE DEF S, xs
    <3> QED BY <1>1, <1>4, <3>1
  <2>2. black \subseteq Subsets
    BY <1>2, <1>4 DEF SearchTypes
  <2> QED BY <1>1, <1>2, <1>5, <1>13, <1>15, <2>1, <2>2 DEF SearchTypes
<1> QED BY <1>1, <1>22, <1>24, <1>25, <1>26 DEF SearchInv, QueueUsed

(* The search visits every set that a trace leads to. *)
LEMMA SearchVisitsAll ==
  ASSUME SearchInv, sPhase \notin {"idle", "dreach"}, NEW xs \in Seq(In)
  PROVE  SubOf(xs) \in drBlack
<1> DEFINE A == {u \in Seq(In) : SubOf(u) \in drBlack}
<1>1. drQueue = << >> /\ \A S : ~Waiting(S)
  BY DEF SearchInv, QueueUsed, Waiting
<1>2. << >> \in A
  <2>1. << >> \in Seq(In)
    OBVIOUS
  <2> QED BY <1>1, <2>1, SubEmpty DEF SearchInv, Closed
<1>3. ASSUME NEW u \in Seq(In), NEW x \in In, u \in A PROVE Append(u, x) \in A
  <2>1. Append(u, x) \in Seq(In) /\ SubOf(Append(u, x)) = SubsetAfter(SubOf(u), x)
    BY SubAppend
  <2> QED BY <1>1, <1>3, <2>1 DEF SearchInv, Closed
<1> HIDE DEF A
<1>4. xs \in A
  BY <1>2, <1>3, SeqInduction
<1> QED BY <1>4 DEF A

(* calcDReachableStates goes only where a trace leads to one state and is   *)
(* defined throughout.                                                      *)
DReachSub == \A q \in State : dReachTrace[q] # NoTrace => SubOf(dReachTrace[q]) = {q}

LEMMA DReachStepAdds ==
  ASSUME RInv, DReachStep
  PROVE  \E q \in State :
           /\ dReachTrace[q] \in Seq(In) /\ dReachTrace[q] # NoTrace
           /\ \A u \in State :
                \/ dReachTrace'[u] = dReachTrace[u]
                \/ \E x \in In : Successors(q, x) = {u} /\ dReachTrace'[u] = Append(dReachTrace[q], x)
<1> DEFINE q == Head(bfsLst)
           new == {s \in State : dReachTrace[s] = NoTrace /\ \E x \in In : Successors(q, x) = {s}}
           Firsts(s) == {x \in In : Successors(q, x) = {s}}
<1>1. /\ bfsLst # << >>
      /\ dReachTrace' = [s \in State |-> IF s \in new THEN Append(dReachTrace[q], Min(Firsts(s))) ELSE dReachTrace[s]]
  BY DEF DReachStep
<1>2. \A u \in new : Firsts(u) \subseteq Nat /\ Firsts(u) # {}
  BY SizeFacts
<1>3. \A u \in new : Min(Firsts(u)) \in In /\ Successors(q, Min(Firsts(u))) = {u}
  <2> SUFFICES ASSUME NEW u \in new PROVE Min(Firsts(u)) \in Firsts(u)
    OBVIOUS
  <2> HIDE DEF Firsts, new
  <2> QED BY <1>2, MinOf
<1>4. q \in State /\ dReachTrace[q] \in Seq(In) /\ dReachTrace[q] # NoTrace
  <2>1. bfsLst \in Seq(State) /\ dReachTrace \in [State -> Seq(In) \cup {NoTrace}]
    BY DEF RInv, CoverInv
  <2>2. 1 \in 1 .. Len(bfsLst) /\ q = bfsLst[1] /\ q \in State
    BY <1>1, <2>1
  <2>3. dReachTrace[q] # NoTrace
    BY <2>2 DEF RInv, CoverInv
  <2> QED BY <2>1, <2>2, <2>3
<1> HIDE DEF new, Firsts, q
<1>5. \A u \in State :
        \/ dReachTrace'[u] = dReachTrace[u]
        \/ u \in new /\ dReachTrace'[u] = Append(dReachTrace[q], Min(Firsts(u)))
  BY <1>1
<1> QED BY <1>3, <1>4, <1>5

LEMMA DReachSubKept ==
  ASSUME DReachSub, rows' = rows, dReachTrace' = dReachTrace
  PROVE  DReachSub'
BY DEF DReachSub, SubOf

LEMMA DReachSubStep ==
  ASSUME RInv, DReachSub, RNext
  PROVE  DReachSub'
<1>1. CASE StartDReach
  <2>1. rows' = rows /\ dReachTrace' = [dReachTrace EXCEPT ![0] = << >>]
    BY <1>1 DEF StartDReach
  <2>2. \A u : SubOf(u)' = SubOf(u)
    BY <2>1 DEF SubOf
  <2>3. dReachTrace \in [State -> Seq(In) \cup {NoTrace}]
    BY DEF RInv, CoverInv
  <2>4. \A q \in State : dReachTrace'[q] = IF q = 0 THEN << >> ELSE dReachTrace[q]
    BY <2>1, <2>3
  <2>5. \A q \in State : dReachTrace'[q] # NoTrace => SubOf(dReachTrace'[q]) = {q}
    BY <2>4, SubEmpty DEF DReachSub
  <2> QED BY <2>1, <2>5 DEF DReachSub, SubOf
<1>2. CASE DReachStep
  <2>1. rows' = rows
    BY <1>2 DEF DReachStep
  <2>2. PICK q \in State :
           /\ dReachTrace[q] \in Seq(In) /\ dReachTrace[q] # NoTrace
           /\ \A u \in State :
                \/ dReachTrace'[u] = dReachTrace[u]
                \/ \E x \in In : Successors(q, x) = {u} /\ dReachTrace'[u] = Append(dReachTrace[q], x)
    BY <1>2, DReachStepAdds
  <2>3. ASSUME NEW u \in State, dReachTrace'[u] # NoTrace PROVE SubOf(dReachTrace'[u]) = {u}
    <3>1. CASE dReachTrace'[u] = dReachTrace[u]
      BY <2>3, <3>1 DEF DReachSub
    <3>2. CASE \E x \in In : Successors(q, x) = {u} /\ dReachTrace'[u] = Append(dReachTrace[q], x)
      <4>1. PICK x \in In : Successors(q, x) = {u} /\ dReachTrace'[u] = Append(dReachTrace[q], x)
        BY <3>2
      <4>2. SubOf(dReachTrace'[u]) = SubsetAfter({q}, x)
        BY <2>2, <4>1, SubAppend DEF DReachSub
      <4>3. q # Sink
        BY SizeFacts DEF Sink
      <4>4. SubsetAfter({q}, x) = Successors(q, x)
        BY <4>1, <4>3 DEF SubsetAfter
      <4> QED BY <4>1, <4>2, <4>4
    <3> QED BY <2>2, <3>1, <3>2
  <2> QED BY <2>1, <2>3 DEF DReachSub, SubOf
<1>3. CASE CalcROneDistinguishable \/ CalcRLevel \/ EndDReach
  BY <1>3, DReachSubKept DEF CalcROneDistinguishable, CalcRLevel, EndDReach
<1> QED BY <1>1, <1>2, <1>3 DEF RNext

(* What both searches find, once that of the generator has ended. *)
LEMMA SequencesExact ==
  ASSUME RInv, SearchInv, DReachSub, sPhase \notin {"idle", "dreach"}
  PROVE  /\ \A q \in dReached : Reached(rows, dReachingSequences[q]) = {q}
         /\ \A q \in dReachableStates : q \in dReached /\ Len(dReachingSequences[q]) <= Len(dReachTrace[q])
<1>1. SearchTypes /\ ShortestRecorded /\ rows \in Machines
  BY DEF SearchInv, SearchTypes
<1>2. ASSUME NEW q \in dReached PROVE Reached(rows, dReachingSequences[q]) = {q}
  <2>1. q \in State /\ dReachingSequences[q] \in Seq(In) /\ SubOf(dReachingSequences[q]) = {q}
    BY <1>1 DEF dReached, SearchTypes, ShortestRecorded
  <2>2. Sink \notin {q}
    BY <2>1, SizeFacts DEF Sink
  <2> QED BY <1>1, <2>1, <2>2, SubReached
<1>3. ASSUME NEW q \in dReachableStates
      PROVE  q \in dReached /\ Len(dReachingSequences[q]) <= Len(dReachTrace[q])
  <2>1. q \in State /\ dReachTrace[q] \in Seq(In) /\ SubOf(dReachTrace[q]) = {q}
    BY DEF dReachableStates, RInv, CoverInv, DReachSub
  <2>2. {q} \in drBlack
    BY <2>1, SearchVisitsAll
  <2> QED BY <1>1, <2>1, <2>2 DEF ShortestRecorded, dReached
<1> QED BY <1>2, <1>3

(***************************************************************************)
(* The distinguishing graph.  Every entry rests on entries made before     *)
(* (Grounded, the induction principle of the graph), as far as the rounds  *)
(* have come a pair is in the graph or still listed, and a pair set aside  *)
(* in a round that has found nothing cannot be told apart.                 *)
(***************************************************************************)
SameDefined(p) == DefinedInputs(rows, p[1]) = DefinedInputs(rows, p[2])

GoodEntry(p, e, D) ==
  \/ e = <<NoInput, {}>> /\ ~SameDefined(p)
  \/ \E x \in DefinedInputs(rows, p[1]) \cap DefinedInputs(rows, p[2]) :
       /\ e = <<x, Targets(p, x)>> \/ e = <<x, Targets(Mirror(p), x)>>
       /\ e[2] \subseteq D

(* what Usable is, of any machine and graph *)
UsableIn(M, D, p) ==
  {x \in DefinedInputs(M, p[1]) :
     {<<M[p[1]][<<x, y>>], M[p[2]][<<x, y>>]>> :
        y \in PossibleOutputs(M, p[1], x) \cap PossibleOutputs(M, p[2], x)} \subseteq D}

LEMMA UsableIsIn == \A p : Usable(p) = UsableIn(rows, DOMAIN rDistGraph, p)
BY DEF Usable, UsableIn, Targets, OutputIntersection

Grounded ==
  \A A \in SUBSET (State \X State) :
    (\A p \in DOMAIN rDistGraph : rDistGraph[p][2] \subseteq A => p \in A) => DOMAIN rDistGraph \subseteq A

GraphInv ==
  /\ DOMAIN rDistGraph \subseteq State \X State
  /\ \A p \in DOMAIN rDistGraph :
       Mirror(p) \in DOMAIN rDistGraph /\ GoodEntry(p, rDistGraph[p], DOMAIN rDistGraph)
  /\ \A p \in State \X State : ~SameDefined(p) => p \in DOMAIN rDistGraph
  /\ Grounded

ListInv ==
  /\ graphTodo \in Seq(Ordered) /\ graphNext \in Seq(Ordered)
  /\ \A p \in Ordered : \/ p \in DOMAIN rDistGraph
                        \/ \E i \in 1 .. Len(graphTodo) : graphTodo[i] = p
                        \/ \E i \in 1 .. Len(graphNext) : graphNext[i] = p
  /\ \A i \in 1 .. Len(graphTodo) : graphTodo[i] \notin DOMAIN rDistGraph
  /\ \A i \in 1 .. Len(graphNext) : graphNext[i] \notin DOMAIN rDistGraph
  /\ \A i, j \in 1 .. Len(graphTodo) : graphTodo[i] = graphTodo[j] => i = j
  /\ \A i, j \in 1 .. Len(graphNext) : graphNext[i] = graphNext[j] => i = j
  /\ \A i \in 1 .. Len(graphTodo), j \in 1 .. Len(graphNext) : graphTodo[i] # graphNext[j]
  /\ reachedFixpoint => \A i \in 1 .. Len(graphNext) : UsableIn(rows, DOMAIN rDistGraph, graphNext[i]) = {}

NoneUsable == \A p \in Ordered : p \notin DOMAIN rDistGraph => UsableIn(rows, DOMAIN rDistGraph, p) = {}

LEMMA GraphStarts ==
  ASSUME rows \in Machines, rows' = rows, StartGraph
  PROVE  GraphInv' /\ ListInv'
<1> DEFINE zero == {p \in State \X State : DefinedInputs(rows, p[1]) # DefinedInputs(rows, p[2])}
           left == {p \in State \X State : p[1] < p[2]} \ zero
<1>1. /\ rDistGraph' = [p \in zero |-> <<NoInput, {}>>]
      /\ graphNext' = << >> /\ reachedFixpoint' = TRUE
      /\ \E s \in SetToSeqs(left) : graphTodo' = s
  BY DEF StartGraph
<1>2. zero \subseteq State \X State /\ \A p \in State \X State : p \in zero <=> ~SameDefined(p)
  BY DEF SameDefined
<1>3. left \subseteq Ordered /\ \A p \in Ordered : p \in left <=> p \notin zero
  BY DEF Ordered
<1>4. PICK s \in SetToSeqs(left) : graphTodo' = s
  BY <1>1
<1>5. \A p : SameDefined(p)' <=> SameDefined(p)
  BY DEF SameDefined
<1>6. DOMAIN rDistGraph' = zero /\ \A p \in zero : rDistGraph'[p] = <<NoInput, {}>>
  BY <1>1
<1>7. \A p \in zero : Mirror(p) \in zero
  <2> SUFFICES ASSUME NEW p \in zero PROVE Mirror(p) \in zero
    OBVIOUS
  <2>1. /\ Mirror(p) \in State \X State /\ Mirror(p)[1] = p[2] /\ Mirror(p)[2] = p[1]
    BY <1>2, PairFacts
  <2>2. DefinedInputs(rows, p[1]) # DefinedInputs(rows, p[2])
    OBVIOUS
  <2> QED BY <2>1, <2>2
<1>8. /\ graphTodo' \in Seq(Ordered) /\ Len(graphTodo') \in Nat
      /\ \A p \in left : \E i \in 1 .. Len(graphTodo') : graphTodo'[i] = p
      /\ \A i \in 1 .. Len(graphTodo') : graphTodo'[i] \in left
      /\ \A i, j \in 1 .. Len(graphTodo') : graphTodo'[i] = graphTodo'[j] => i = j
  <2>1. IsFiniteSet(left)
    <3>1. IsFiniteSet(State \X State)
      <4>1. IsFiniteSet(State)
        BY SizeAssumption, FS_Interval DEF State
      <4> QED BY <4>1, FS_Product
    <3> QED BY <3>1, FS_Subset
  <2> DEFINE c == Cardinality(left)
  <2>2. c \in Nat
    BY <2>1, FS_CardinalityType
  <2> HIDE DEF left, c
  <2>3. s \in [1 .. c -> left] /\ \A i, j \in 1 .. c : i # j => s[i] # s[j]
    BY <1>4 DEF SetToSeqs, c, IsInjective
  <2>4. s \in Seq(left) /\ Len(s) = c
    BY <2>2, <2>3
  <2>5. s \in Seq(Ordered)
    BY <1>3, <2>2, <2>3
  <2>6. \A p \in left : \E i \in 1 .. c : s[i] = p
    <3>1. s \in Injection(1 .. c, left)
      BY <2>3 DEF Injection, IsInjective
    <3>2. Cardinality(1 .. c) = c /\ IsFiniteSet(1 .. c)
      BY <2>2, FS_Interval
    <3>3. s \in Surjection(1 .. c, left)
      BY <2>1, <3>1, <3>2, FS_Injection DEF c
    <3> QED BY <3>3 DEF Surjection
  <2> QED BY <1>4, <2>2, <2>3, <2>4, <2>5, <2>6
<1> HIDE DEF zero, left
<1>9. GraphInv'
  <2>1. \A p \in zero : GoodEntry(p, rDistGraph[p], DOMAIN rDistGraph)'
    BY <1>2, <1>5, <1>6 DEF GoodEntry
  <2>2. Grounded'
    BY <1>6 DEF Grounded
  <2> QED BY <1>2, <1>5, <1>6, <1>7, <2>1, <2>2 DEF GraphInv, Mirror
<1>10. ListInv'
  <2>1. graphNext' \in Seq(Ordered) /\ Len(graphNext') = 0
    BY <1>1
  <2> QED BY <1>3, <1>6, <1>8, <2>1 DEF ListInv
<1> QED BY <1>9, <1>10

LEMMA GraphKept ==
  ASSUME GraphInv, rows' = rows, rDistGraph' = rDistGraph
  PROVE  GraphInv'
<1>1. \A p : SameDefined(p)' <=> SameDefined(p)
  BY DEF SameDefined
<1>2. \A p, x : Targets(p, x)' = Targets(p, x)
  BY DEF Targets, OutputIntersection
<1>3. \A p \in DOMAIN rDistGraph : GoodEntry(p, rDistGraph[p], DOMAIN rDistGraph)'
  <2>1. \A p \in DOMAIN rDistGraph : GoodEntry(p, rDistGraph[p], DOMAIN rDistGraph)
    BY DEF GraphInv
  <2> QED BY <1>1, <1>2, <2>1 DEF GoodEntry
<1>4. Grounded'
  BY DEF GraphInv, Grounded
<1>5. \A p \in DOMAIN rDistGraph' :
        Mirror(p) \in DOMAIN rDistGraph' /\ GoodEntry(p, rDistGraph[p], DOMAIN rDistGraph)'
  BY <1>3 DEF GraphInv
<1>6. \A p \in State \X State : ~SameDefined(p)' => p \in DOMAIN rDistGraph'
  BY <1>1 DEF GraphInv
<1> QED BY <1>4, <1>5, <1>6 DEF GraphInv, Mirror

(* Larger graphs keep their entries good. *)
LEMMA GoodGrows ==
  ASSUME NEW p, NEW e, NEW D, NEW E, D \subseteq E, GoodEntry(p, e, D)
  PROVE  GoodEntry(p, e, E)
BY DEF GoodEntry

LEMMA GraphExtended ==
  ASSUME rows \in Machines, GraphInv, NEW p \in Ordered, p \notin DOMAIN rDistGraph, NEW x \in Usable(p),
         rows' = rows,
         rDistGraph' = [r \in DOMAIN rDistGraph \cup {p, <<p[2], p[1]>>} |->
                          IF r \in {p, <<p[2], p[1]>>} THEN <<x, Targets(p, x)>> ELSE rDistGraph[r]]
  PROVE  /\ GraphInv'
         /\ DOMAIN rDistGraph' = DOMAIN rDistGraph \cup {p, Mirror(p)}
<1> DEFINE D == DOMAIN rDistGraph
           e == <<x, Targets(p, x)>>
           E == D \cup {p, Mirror(p)}
<1>1. /\ p \in State \X State /\ Mirror(p) \in State \X State /\ Mirror(Mirror(p)) = p
      /\ Mirror(p)[1] = p[2] /\ Mirror(p)[2] = p[1] /\ Mirror(p) = <<p[2], p[1]>>
  BY PairFacts DEF Ordered, Mirror
<1>2. DOMAIN rDistGraph' = E /\ \A r \in E : rDistGraph'[r] = IF r \in {p, Mirror(p)} THEN e ELSE rDistGraph[r]
  BY <1>1
<1>3. SameDefined(p) /\ x \in DefinedInputs(rows, p[1]) /\ Targets(p, x) \subseteq D
  BY <1>1 DEF GraphInv, Usable
<1>4. Mirror(p) \notin D
  BY <1>1 DEF GraphInv
<1>5. GoodEntry(p, e, D) /\ GoodEntry(Mirror(p), e, D)
  <2>1. x \in DefinedInputs(rows, p[1]) \cap DefinedInputs(rows, p[2])
    BY <1>3 DEF SameDefined
  <2>2. e[2] = Targets(p, x) /\ e[2] \subseteq D
    BY <1>3
  <2> QED BY <1>1, <2>1, <2>2 DEF GoodEntry
<1> HIDE DEF D, e
<1>6. \A r \in E : Mirror(r) \in E /\ GoodEntry(r, rDistGraph'[r], E)
  <2> SUFFICES ASSUME NEW r \in E PROVE Mirror(r) \in E /\ GoodEntry(r, rDistGraph'[r], E)
    OBVIOUS
  <2>1. CASE r \in {p, Mirror(p)}
    BY <1>1, <1>2, <1>5, <2>1, GoodGrows
  <2>2. CASE r \notin {p, Mirror(p)}
    <3>1. r \in D /\ rDistGraph'[r] = rDistGraph[r]
      BY <1>2, <2>2
    <3>2. Mirror(r) \in D /\ GoodEntry(r, rDistGraph[r], D)
      BY <3>1 DEF GraphInv, D
    <3> QED BY <3>1, <3>2, GoodGrows
  <2> QED BY <2>1, <2>2
<1>7. Grounded'
  <2> SUFFICES ASSUME NEW A \in SUBSET (State \X State),
                      \A r \in E : rDistGraph'[r][2] \subseteq A => r \in A
               PROVE  E \subseteq A
    BY <1>2 DEF Grounded
  <2>1. \A r \in D : rDistGraph'[r] = rDistGraph[r]
    BY <1>2, <1>4 DEF D
  <2>2. D \subseteq A
    <3>1. \A r \in D : rDistGraph[r][2] \subseteq A => r \in A
      BY <2>1
    <3> QED BY <3>1 DEF GraphInv, Grounded, D
  <2>3. e[2] \subseteq A
    BY <1>3, <2>2 DEF e
  <2>4. rDistGraph'[p] = e /\ rDistGraph'[Mirror(p)] = e
    BY <1>2
  <2>5. p \in A /\ Mirror(p) \in A
    BY <2>3, <2>4
  <2> QED BY <2>2, <2>5
<1>8. \A r : SameDefined(r)' <=> SameDefined(r)
  BY DEF SameDefined
<1>9. \A r, z : Targets(r, z)' = Targets(r, z)
  BY DEF Targets, OutputIntersection
<1>10. E \subseteq State \X State /\ \A r \in State \X State : ~SameDefined(r) => r \in E
  BY <1>1 DEF GraphInv, D
<1>11. DOMAIN rDistGraph' = E
  BY <1>2
<1> HIDE DEF E
<1>12. \A r \in DOMAIN rDistGraph' : Mirror(r) \in DOMAIN rDistGraph' /\ GoodEntry(r, rDistGraph[r], DOMAIN rDistGraph)'
  BY <1>6, <1>8, <1>9, <1>11 DEF GoodEntry
<1>13. GraphInv'
  BY <1>7, <1>8, <1>10, <1>11, <1>12 DEF GraphInv, SameDefined, Mirror
<1> QED BY <1>11, <1>13 DEF E, D

LEMMA GraphStepKeeps ==
  ASSUME rows \in Machines, GraphInv, ListInv, GraphStep, rows' = rows
  PROVE  GraphInv' /\ ListInv'
<1> DEFINE p == graphTodo[1]
           n == Len(graphTodo)
           k == Len(graphNext)
           D == DOMAIN rDistGraph
<1>1. /\ graphTodo # << >> /\ Head(graphTodo) = p /\ graphTodo' = Tail(graphTodo)
      /\ graphTodo \in Seq(Ordered) /\ graphNext \in Seq(Ordered)
  BY DEF GraphStep, ListInv
<1>2. n \in Nat \ {0} /\ k \in Nat /\ p \in Ordered /\ 1 \in 1 .. n
  <2>1. n \in Nat /\ n # 0 /\ k \in Nat
    BY <1>1, EmptySeq
  <2> QED BY <1>1, <2>1
<1>3. /\ graphTodo' \in Seq(Ordered) /\ Len(graphTodo') = n - 1
      /\ \A i \in 1 .. n - 1 : i + 1 \in 1 .. n /\ graphTodo'[i] = graphTodo[i + 1]
      /\ \A i \in 1 .. n : i # 1 => i - 1 \in 1 .. n - 1 /\ graphTodo'[i - 1] = graphTodo[i]
  <2>1. Tail(graphTodo) \in Seq(Ordered) /\ Len(Tail(graphTodo)) = n - 1
        /\ \A i \in 1 .. n - 1 : Tail(graphTodo)[i] = graphTodo[i + 1]
    BY <1>1
  <2> HIDE DEF n
  <2>2. \A i \in 1 .. n - 1 : i + 1 \in 1 .. n
    BY <1>2
  <2>3. \A i \in 1 .. n : i # 1 => i - 1 \in 1 .. n - 1 /\ (i - 1) + 1 = i
    BY <1>2
  <2>4. graphTodo' = Tail(graphTodo)
    BY <1>1
  <2>5. \A i \in 1 .. n : i # 1 => graphTodo'[i - 1] = graphTodo[i]
    BY <2>1, <2>3, <2>4
  <2> QED BY <2>1, <2>2, <2>3, <2>4, <2>5
<1>4. p \notin D /\ (\A i \in 1 .. n - 1 : graphTodo'[i] # p) /\ \A i \in 1 .. k : graphNext[i] # p
  <2>1. \A i \in 1 .. n - 1 : i + 1 # 1
    OBVIOUS
  <2> QED BY <1>2, <1>3, <2>1 DEF ListInv
<1>5. CASE Usable(p) = {}
  <2>1. rDistGraph' = rDistGraph /\ reachedFixpoint' = reachedFixpoint /\ graphNext' = Append(graphNext, p)
    BY <1>1, <1>5 DEF GraphStep
  <2>2. GraphInv'
    BY <2>1, GraphKept
  <2>3. /\ graphNext' \in Seq(Ordered) /\ Len(graphNext') = k + 1
        /\ graphNext'[k + 1] = p /\ \A i \in 1 .. k : graphNext'[i] = graphNext[i]
        /\ \A i \in 1 .. k + 1 : i = k + 1 \/ i \in 1 .. k
        /\ k + 1 \in 1 .. k + 1 /\ \A i \in 1 .. k : i \in 1 .. k + 1
    <3>1. Append(graphNext, p) \in Seq(Ordered) /\ Len(Append(graphNext, p)) = k + 1
          /\ Append(graphNext, p)[k + 1] = p /\ \A i \in 1 .. k : Append(graphNext, p)[i] = graphNext[i]
      BY <1>1, <1>2
    <3> HIDE DEF k, p
    <3> QED BY <1>2, <2>1, <3>1
  <2> HIDE DEF k, n, p
  <2>4. \A r \in Ordered : \/ r \in D
                           \/ \E i \in 1 .. n - 1 : graphTodo'[i] = r
                           \/ \E i \in 1 .. k + 1 : graphNext'[i] = r
    <3> SUFFICES ASSUME NEW r \in Ordered PROVE \/ r \in D
                                                \/ \E i \in 1 .. n - 1 : graphTodo'[i] = r
                                                \/ \E i \in 1 .. k + 1 : graphNext'[i] = r
      OBVIOUS
    <3>3. CASE r = p
      <4>1. k + 1 \in 1 .. k + 1 /\ graphNext'[k + 1] = r
        BY <2>3, <3>3
      <4> QED BY <1>2, <4>1
    <3>4. CASE r \in D
      BY <3>4
    <3>1. CASE r # p /\ \E i \in 1 .. n : graphTodo[i] = r
      <4>1. PICK i \in 1 .. n : graphTodo[i] = r
        BY <3>1
      <4>2. i # 1
        BY <3>1, <4>1 DEF p
      <4>3. i - 1 \in 1 .. n - 1 /\ graphTodo'[i - 1] = r
        BY <1>3, <4>1, <4>2
      <4> QED BY <4>3
    <3>2. CASE \E i \in 1 .. k : graphNext[i] = r
      <4>1. PICK i \in 1 .. k : graphNext[i] = r
        BY <3>2
      <4>2. i \in 1 .. k + 1 /\ graphNext'[i] = r
        BY <2>3, <4>1
      <4> QED BY <1>2, <4>2
    <3> QED BY <3>1, <3>2, <3>3, <3>4 DEF ListInv, n, k
  <2>5. /\ \A i \in 1 .. n - 1 : graphTodo'[i] \notin D
        /\ \A i \in 1 .. k + 1 : graphNext'[i] \notin D
    BY <1>3, <1>4, <2>3 DEF ListInv, n, k
  <2>6. \A i, j \in 1 .. n - 1 : graphTodo'[i] = graphTodo'[j] => i = j
    <3> SUFFICES ASSUME NEW i \in 1 .. n - 1, NEW j \in 1 .. n - 1, graphTodo'[i] = graphTodo'[j] PROVE i = j
      OBVIOUS
    <3>1. i + 1 = j + 1
      BY <1>3 DEF ListInv, n
    <3> QED BY <3>1
  <2>7. \A i, j \in 1 .. k + 1 : graphNext'[i] = graphNext'[j] => i = j
    BY <1>4, <2>3 DEF ListInv, k
  <2>8. \A i \in 1 .. n - 1, j \in 1 .. k + 1 : graphTodo'[i] # graphNext'[j]
    <3>1. \A i \in 1 .. n - 1, j \in 1 .. k : graphTodo'[i] # graphNext[j]
      BY <1>3 DEF ListInv, n, k
    <3> QED BY <1>4, <2>3, <3>1
  <2>9. reachedFixpoint' => \A i \in 1 .. k + 1 : UsableIn(rows, D, graphNext'[i]) = {}
    <3> SUFFICES ASSUME reachedFixpoint, NEW i \in 1 .. k + 1 PROVE UsableIn(rows, D, graphNext'[i]) = {}
      BY <2>1
    <3>1. CASE i = k + 1
      BY <1>5, <2>3, <3>1, UsableIsIn
    <3>2. CASE i \in 1 .. k
      BY <2>3, <3>2 DEF ListInv, k
    <3> QED BY <2>3, <3>1, <3>2
  <2>10. DOMAIN rDistGraph' = D
    BY <2>1
  <2> DEFINE K == k + 1
             N == n - 1
  <2>11. /\ graphTodo' \in Seq(Ordered) /\ graphNext' \in Seq(Ordered)
         /\ Len(graphTodo') = N /\ Len(graphNext') = K /\ rows' = rows
    BY <1>3, <2>3
  <2>12. ListInv'
    <3> HIDE DEF K, N, D
    <3> QED BY <2>4, <2>5, <2>6, <2>7, <2>8, <2>9, <2>10, <2>11 DEF ListInv, K, N
  <2> QED BY <2>2, <2>12
<1>6. CASE Usable(p) # {}
  <2>1. PICK x \in Usable(p) :
           rDistGraph' = [r \in DOMAIN rDistGraph \cup {p, <<p[2], p[1]>>} |->
                            IF r \in {p, <<p[2], p[1]>>} THEN <<x, Targets(p, x)>> ELSE rDistGraph[r]]
    BY <1>1, <1>6 DEF GraphStep
  <2>2. graphNext' = graphNext /\ reachedFixpoint' = FALSE
    BY <1>1, <1>6 DEF GraphStep
  <2>3. GraphInv' /\ DOMAIN rDistGraph' = D \cup {p, Mirror(p)}
    BY <1>2, <1>4, <2>1, GraphExtended
  <2>4. \A r \in Ordered : r \in DOMAIN rDistGraph' <=> r \in D \/ r = p
    <3> SUFFICES ASSUME NEW r \in Ordered PROVE r # Mirror(p)
      BY <2>3
    <3>1. p[1] \in Nat /\ p[2] \in Nat /\ p[1] < p[2] /\ Mirror(p)[1] = p[2] /\ Mirror(p)[2] = p[1]
      BY <1>2, PairFacts DEF Ordered
    <3>2. r[1] < r[2]
      BY DEF Ordered
    <3> HIDE DEF p
    <3> QED BY <3>1, <3>2
  <2> HIDE DEF k, n, p
  <2>5. \A r \in Ordered : \/ r \in DOMAIN rDistGraph'
                           \/ \E i \in 1 .. n - 1 : graphTodo'[i] = r
                           \/ \E i \in 1 .. k : graphNext'[i] = r
    <3> SUFFICES ASSUME NEW r \in Ordered PROVE \/ r \in DOMAIN rDistGraph'
                                                \/ \E i \in 1 .. n - 1 : graphTodo'[i] = r
                                                \/ \E i \in 1 .. k : graphNext'[i] = r
      OBVIOUS
    <3>3. CASE r \in D \/ r = p
      BY <2>4, <3>3
    <3>1. CASE r # p /\ \E i \in 1 .. n : graphTodo[i] = r
      <4>1. PICK i \in 1 .. n : graphTodo[i] = r
        BY <3>1
      <4>2. i # 1
        BY <3>1, <4>1 DEF p
      <4>3. i - 1 \in 1 .. n - 1 /\ graphTodo'[i - 1] = r
        BY <1>3, <4>1, <4>2
      <4> QED BY <4>3
    <3>2. CASE \E i \in 1 .. k : graphNext[i] = r
      <4>1. PICK i \in 1 .. k : graphNext'[i] = r
        BY <2>2, <3>2
      <4> QED BY <4>1
    <3> QED BY <3>1, <3>2, <3>3 DEF ListInv, n, k
  <2>6. /\ \A i \in 1 .. n - 1 : graphTodo'[i] \in Ordered
        /\ \A i \in 1 .. k : graphNext[i] \in Ordered
    <3>1. \A i \in 1 .. n : graphTodo[i] \in Ordered
      BY <1>1 DEF n
    <3>2. \A i \in 1 .. k : graphNext[i] \in Ordered
      BY <1>1 DEF k
    <3> QED BY <1>3, <3>1, <3>2
  <2>7. /\ \A i \in 1 .. n - 1 : graphTodo'[i] \notin DOMAIN rDistGraph'
        /\ \A i \in 1 .. k : graphNext'[i] \notin DOMAIN rDistGraph'
    BY <1>3, <1>4, <2>2, <2>4, <2>6 DEF ListInv, n, k
  <2>8. \A i, j \in 1 .. n - 1 : graphTodo'[i] = graphTodo'[j] => i = j
    <3> SUFFICES ASSUME NEW i \in 1 .. n - 1, NEW j \in 1 .. n - 1, graphTodo'[i] = graphTodo'[j] PROVE i = j
      OBVIOUS
    <3>1. i + 1 = j + 1
      BY <1>3 DEF ListInv, n
    <3> QED BY <3>1
  <2>9. \A i, j \in 1 .. k : graphNext'[i] = graphNext'[j] => i = j
    BY <2>2 DEF ListInv, k
  <2>10. \A i \in 1 .. n - 1, j \in 1 .. k : graphTodo'[i] # graphNext'[j]
    BY <1>3, <2>2 DEF ListInv, n, k
  <2>11. graphNext' \in Seq(Ordered) /\ Len(graphNext') = k
    BY <1>1, <2>2 DEF k
  <2> QED BY <1>3, <2>2, <2>3, <2>5, <2>7, <2>8, <2>9, <2>10, <2>11 DEF ListInv
<1> QED BY <1>5, <1>6

LEMMA GraphRoundKeeps ==
  ASSUME GraphInv, ListInv, GraphRound, rows' = rows
  PROVE  /\ GraphInv'
         /\ reachedFixpoint => sPhase' = "sets" /\ NoneUsable'
         /\ ~reachedFixpoint => sPhase' = "graph" /\ ListInv'
<1>1. rDistGraph' = rDistGraph /\ graphTodo = << >> /\ Len(graphTodo) = 0
  BY DEF GraphRound
<1>2. GraphInv'
  BY <1>1, GraphKept
<1>3. ASSUME reachedFixpoint PROVE sPhase' = "sets" /\ NoneUsable'
  <2>1. NoneUsable
    BY <1>1, <1>3 DEF ListInv, NoneUsable
  <2>2. NoneUsable'
    BY <1>1, <2>1 DEF NoneUsable
  <2> QED BY <1>3, <2>2 DEF GraphRound
<1>4. ASSUME ~reachedFixpoint PROVE sPhase' = "graph" /\ ListInv'
  <2>1. graphTodo' = graphNext /\ graphNext' = << >> /\ Len(graphNext') = 0 /\ sPhase' = "graph"
    BY <1>4 DEF GraphRound
  <2>2. graphNext' \in Seq(Ordered)
    BY <2>1
  <2> QED BY <1>1, <2>1, <2>2 DEF ListInv
<1> QED BY <1>2, <1>3, <1>4

(***************************************************************************)
(* The pairs of the finished graph are those without a common reduct.      *)
(***************************************************************************)
LEMMA TargetsMirror ==
  ASSUME NEW p \in State \X State, NEW x, NEW r \in Targets(p, x)
  PROVE  Mirror(r) \in Targets(Mirror(p), x)
<1>1. Mirror(p)[1] = p[2] /\ Mirror(p)[2] = p[1]
  BY PairFacts
<1>2. PICK y \in OutputIntersection(p[1], p[2], x) : r = <<rows[p[1]][<<x, y>>], rows[p[2]][<<x, y>>]>>
  BY DEF Targets
<1>3. y \in OutputIntersection(p[2], p[1], x)
  BY <1>2 DEF OutputIntersection
<1>4. Mirror(r) = <<rows[p[2]][<<x, y>>], rows[p[1]][<<x, y>>]>>
  BY <1>2 DEF Mirror
<1> QED BY <1>1, <1>3, <1>4 DEF Targets

LEMMA TargetsTyped ==
  ASSUME rows \in Machines, NEW p \in State \X State, NEW x \in In
  PROVE  Targets(p, x) \subseteq State \X State
<1>1. \A y \in OutputIntersection(p[1], p[2], x) :
        <<rows[p[1]][<<x, y>>], rows[p[2]][<<x, y>>]>> \in State \X State
  BY NextPairTyped DEF NextPair
<1> QED BY <1>1 DEF Targets

LEMMA DefinedAreInputs == \A M, q : DefinedInputs(M, q) \subseteq In
BY DEF DefinedInputs

LEMMA NoReductInGraph ==
  ASSUME rows \in Machines, GraphInv, NEW R \in SUBSET (State \X State), IsCompatible(R)
  PROVE  DOMAIN rDistGraph \cap R = {}
<1> DEFINE A == {p \in State \X State : p \notin R /\ Mirror(p) \notin R}
<1>1. ASSUME NEW p \in DOMAIN rDistGraph, rDistGraph[p][2] \subseteq A
      PROVE  p \in A
  <2>1. p \in State \X State /\ Mirror(p)[1] = p[2] /\ Mirror(p)[2] = p[1] /\ Mirror(p) \in State \X State
        /\ Mirror(Mirror(p)) = p
    BY PairFacts DEF GraphInv
  <2> SUFFICES ASSUME NEW r \in {p, Mirror(p)}, r \in R PROVE FALSE
    BY <2>1
  <2>2. SameDefined(p)
    BY <2>1 DEF IsCompatible, SameDefined
  <2>3. GoodEntry(p, rDistGraph[p], DOMAIN rDistGraph)
    BY DEF GraphInv
  <2>4. PICK x \in DefinedInputs(rows, p[1]) \cap DefinedInputs(rows, p[2]) :
           rDistGraph[p] = <<x, Targets(p, x)>> \/ rDistGraph[p] = <<x, Targets(Mirror(p), x)>>
    BY <2>2, <2>3 DEF GoodEntry
  <2>5. PICK y \in OutputIntersection(r[1], r[2], x) : <<rows[r[1]][<<x, y>>], rows[r[2]][<<x, y>>]>> \in R
    BY <2>1, <2>4 DEF IsCompatible
  <2> DEFINE z == <<rows[r[1]][<<x, y>>], rows[r[2]][<<x, y>>]>>
  <2>6. z \in Targets(r, x) /\ z \in R
    BY <2>5 DEF Targets
  <2>7. x \in In /\ r \in State \X State
    BY <2>1, <2>4, DefinedAreInputs
  <2>8. z \in State \X State /\ Mirror(Mirror(z)) = z
    BY <2>6, <2>7, TargetsTyped, PairFacts
  <2> HIDE DEF z
  <2>9. Mirror(z) \in Targets(Mirror(r), x)
    BY <2>6, <2>7, TargetsMirror
  <2>10. Mirror(r) \in {p, Mirror(p)} /\ (r = p \/ Mirror(r) = p)
    BY <2>1
  <2>11. z \in rDistGraph[p][2] \/ Mirror(z) \in rDistGraph[p][2]
    BY <2>1, <2>4, <2>6, <2>9, <2>10
  <2> QED BY <1>1, <2>6, <2>8, <2>11
<1>2. A \in SUBSET (State \X State)
  OBVIOUS
<1>3. DOMAIN rDistGraph \subseteq A
  BY <1>1, <1>2 DEF GraphInv, Grounded
<1> QED BY <1>3

LEMMA OutsideIsCompatible ==
  ASSUME rows \in Machines, GraphInv, NoneUsable
  PROVE  IsCompatible((State \X State) \ DOMAIN rDistGraph)
<1> DEFINE C == (State \X State) \ DOMAIN rDistGraph
           Diagonal == {p \in State \X State : p[1] = p[2]}
<1>1. ASSUME NEW p \in State \X State, NEW x \in DefinedInputs(rows, p[1]), p[1] = p[2]
      PROVE  \E y \in OutputIntersection(p[1], p[2], x) :
               <<rows[p[1]][<<x, y>>], rows[p[2]][<<x, y>>]>> \in Diagonal
  <2>1. PICK y : y \in PossibleOutputs(rows, p[1], x)
    BY DEF DefinedInputs
  <2>2. y \in OutputIntersection(p[1], p[2], x)
    BY <1>1, <2>1 DEF OutputIntersection
  <2>3. x \in In
    BY DefinedAreInputs
  <2>4. <<rows[p[1]][<<x, y>>], rows[p[2]][<<x, y>>]>> \in State \X State
    BY <2>2, <2>3, NextPairTyped DEF NextPair
  <2> QED BY <1>1, <2>2, <2>4
<1>2. IsCompatible(Diagonal)
  BY <1>1 DEF IsCompatible
<1>3. DOMAIN rDistGraph \cap Diagonal = {}
  BY <1>2, NoReductInGraph
<1>4. ASSUME NEW p \in C PROVE DefinedInputs(rows, p[1]) = DefinedInputs(rows, p[2])
  BY DEF GraphInv, SameDefined
<1>5. ASSUME NEW p \in C PROVE Mirror(p) \in C
  BY PairFacts DEF GraphInv
<1>6. ASSUME NEW p \in C, p[1] < p[2], NEW x \in DefinedInputs(rows, p[1])
      PROVE  \E z \in Targets(p, x) : z \in C
  <2>1. Usable(p) = {}
    BY <1>6, UsableIsIn DEF NoneUsable, Ordered
  <2>2. ~ (Targets(p, x) \subseteq DOMAIN rDistGraph)
    BY <2>1 DEF Usable
  <2>3. Targets(p, x) \subseteq State \X State
    BY TargetsTyped, DefinedAreInputs
  <2> QED BY <2>2, <2>3
<1>7. ASSUME NEW p \in C, NEW x \in DefinedInputs(rows, p[1])
      PROVE  \E y \in OutputIntersection(p[1], p[2], x) :
               <<rows[p[1]][<<x, y>>], rows[p[2]][<<x, y>>]>> \in C
  <2>1. /\ p[1] \in Nat /\ p[2] \in Nat /\ Mirror(p)[1] = p[2] /\ Mirror(p)[2] = p[1]
        /\ Mirror(Mirror(p)) = p
    BY PairFacts
  <2>2. CASE p[1] = p[2]
    BY <1>1, <1>3, <2>2
  <2>3. CASE p[1] # p[2]
    <3>1. \E z \in Targets(p, x) : z \in C
      <4>1. CASE p[1] < p[2]
        BY <1>6, <4>1
      <4>2. CASE p[2] < p[1]
        <5>1. x \in DefinedInputs(rows, Mirror(p)[1]) /\ Mirror(p) \in C
          BY <1>4, <1>5, <2>1
        <5>2. PICK z \in Targets(Mirror(p), x) : z \in C
          BY <1>6, <2>1, <4>2, <5>1
        <5>3. Mirror(z) \in Targets(p, x) /\ Mirror(z) \in C
          BY <1>5, <2>1, <5>1, <5>2, TargetsMirror
        <5> QED BY <5>3
      <4> QED BY <2>1, <2>3, <4>1, <4>2
    <3> QED BY <3>1 DEF Targets
  <2> QED BY <2>2, <2>3
<1> QED BY <1>4, <1>7 DEF IsCompatible

LEMMA GraphIsComplement ==
  ASSUME rows \in Machines, GraphInv, NoneUsable
  PROVE  DOMAIN rDistGraph = (State \X State) \ Compatible
<1>1. DOMAIN rDistGraph \subseteq State \X State
  BY DEF GraphInv
<1>2. \A p \in DOMAIN rDistGraph : p \notin Compatible
  BY NoReductInGraph DEF Compatible
<1>3. (State \X State) \ DOMAIN rDistGraph \subseteq Compatible
  BY OutsideIsCompatible DEF Compatible
<1> QED BY <1>1, <1>2, <1>3

(***************************************************************************)
(* The functions calcRDistinguishingTrees and idRDistinguishedBy recurse   *)
(* into machine and graph, not into data.  That functions with their       *)
(* equations exist follows from the least fixpoint of a monotone function. *)
(***************************************************************************)
LeastFix(D, F) == {d \in D : \A G \in SUBSET D : F[G] \subseteq G => d \in G}

LEMMA LeastFixpoint ==
  ASSUME NEW D, NEW F \in [SUBSET D -> SUBSET D],
         \A G, H \in SUBSET D : G \subseteq H => F[G] \subseteq F[H]
  PROVE  \E K \in SUBSET D : F[K] = K
<1> DEFINE K == LeastFix(D, F)
<1>1. K \in SUBSET D
  BY DEF LeastFix
<1>2. F[K] \subseteq K
  <2> SUFFICES ASSUME NEW d \in F[K], NEW G \in SUBSET D, F[G] \subseteq G PROVE d \in G
    BY <1>1 DEF LeastFix
  <2>1. K \subseteq G
    BY DEF LeastFix
  <2> QED BY <1>1, <2>1
<1>3. K \subseteq F[K]
  <2>1. F[F[K]] \subseteq F[K]
    BY <1>1, <1>2
  <2> QED BY <1>1, <2>1 DEF LeastFix
<1> QED BY <1>1, <1>2, <1>3

Cases == (State \X State) \X SUBSET Seq(In)

LEMMA After1Typed ==
  ASSUME NEW tree \in SUBSET Seq(In), NEW x
  PROVE  After1(tree, x) \in SUBSET Seq(In)
<1>1. ASSUME NEW v \in tree, v # << >> PROVE Tail(v) \in Seq(In)
  BY <1>1
<1> QED BY <1>1 DEF After1

LEMMA ToldExists ==
  ASSUME rows \in Machines
  PROVE  \E K \in SUBSET Cases : \A p \in State \X State, tree \in SUBSET Seq(In) :
            <<p, tree>> \in K <=>
              \/ DefinedInputs(rows, p[1]) # DefinedInputs(rows, p[2])
              \/ \E x \in RootInputs(tree) \cap DefinedInputs(rows, p[1]) :
                   \A r \in Targets(p, x) : <<r, After1(tree, x)>> \in K
<1> DEFINE F == [G \in SUBSET Cases |->
                  {c \in Cases :
                     \/ DefinedInputs(rows, c[1][1]) # DefinedInputs(rows, c[1][2])
                     \/ \E x \in RootInputs(c[2]) \cap DefinedInputs(rows, c[1][1]) :
                          \A r \in Targets(c[1], x) : <<r, After1(c[2], x)>> \in G}]
<1>1. F \in [SUBSET Cases -> SUBSET Cases]
  OBVIOUS
<1>2. \A G, H \in SUBSET Cases : G \subseteq H => F[G] \subseteq F[H]
  OBVIOUS
<1>3. PICK K \in SUBSET Cases : F[K] = K
  <2> HIDE DEF F
  <2> QED BY <1>1, <1>2, LeastFixpoint
<1>4. ASSUME NEW p \in State \X State, NEW tree \in SUBSET Seq(In)
      PROVE  <<p, tree>> \in K <=>
              \/ DefinedInputs(rows, p[1]) # DefinedInputs(rows, p[2])
              \/ \E x \in RootInputs(tree) \cap DefinedInputs(rows, p[1]) :
                   \A r \in Targets(p, x) : <<r, After1(tree, x)>> \in K
  <2> DEFINE c == <<p, tree>>
  <2>1. c \in Cases /\ c[1] = p /\ c[2] = tree
    BY DEF Cases
  <2>2. c \in F[K] <=> \/ DefinedInputs(rows, c[1][1]) # DefinedInputs(rows, c[1][2])
                       \/ \E x \in RootInputs(c[2]) \cap DefinedInputs(rows, c[1][1]) :
                            \A r \in Targets(c[1], x) : <<r, After1(c[2], x)>> \in K
    BY <2>1
  <2> HIDE DEF F
  <2> QED BY <1>3, <2>1, <2>2
<1> QED BY <1>4

IdBody(f, p, tree) ==
  \/ DefinedInputs(rows, p[1]) # DefinedInputs(rows, p[2])
  \/ \E x \in RootInputs(tree) \cap DefinedInputs(rows, p[1]) :
       \A r \in Targets(p, x) : f[<<r, After1(tree, x)>>]

LEMMA IdRDistinguishedIs ==
  ASSUME rows \in Machines
  PROVE  \A p \in State \X State, tree \in SUBSET Seq(In) :
           idRDistinguishedBy[<<p, tree>>] = IdBody(idRDistinguishedBy, p, tree)
<1> DEFINE Is(g) == g = [c \in Cases |-> IdBody(g, c[1], c[2])]
<1>1. \E f : Is(f)
  <2>1. PICK K \in SUBSET Cases : \A p \in State \X State, tree \in SUBSET Seq(In) :
            <<p, tree>> \in K <=>
              \/ DefinedInputs(rows, p[1]) # DefinedInputs(rows, p[2])
              \/ \E x \in RootInputs(tree) \cap DefinedInputs(rows, p[1]) :
                   \A r \in Targets(p, x) : <<r, After1(tree, x)>> \in K
    BY ToldExists
  <2> DEFINE f == [c \in Cases |-> c \in K]
  <2>2. ASSUME NEW c \in Cases PROVE (c \in K) <=> IdBody(f, c[1], c[2])
    <3> DEFINE p == c[1]
               tree == c[2]
    <3>1. p \in State \X State /\ tree \in SUBSET Seq(In) /\ c = <<p, tree>>
      BY DEF Cases
    <3> HIDE DEF p, tree
    <3>2. ASSUME NEW x \in DefinedInputs(rows, p[1]), NEW r \in Targets(p, x)
          PROVE  f[<<r, After1(tree, x)>>] <=> <<r, After1(tree, x)>> \in K
      <4>1. r \in State \X State
        BY <3>1, TargetsTyped, DefinedAreInputs
      <4>2. <<r, After1(tree, x)>> \in Cases
        BY <3>1, <4>1, After1Typed DEF Cases
      <4> QED BY <4>2
    <3>3. (c \in K) <=> IdBody(f, p, tree)
      <4> HIDE DEF f
      <4> QED BY <2>1, <3>1, <3>2 DEF IdBody
    <3> QED BY <3>3 DEF p, tree
  <2>3. \A c \in Cases : (c \in K) = IdBody(f, c[1], c[2])
    <3>1. \A c \in Cases : IdBody(f, c[1], c[2]) \in BOOLEAN
      BY DEF IdBody
    <3> HIDE DEF f
    <3> QED BY <2>2, <3>1
  <2>4. f = [c \in Cases |-> IdBody(f, c[1], c[2])]
    <3> DEFINE g == f
    <3>1. g = f OBVIOUS
    <3> HIDE DEF g
    <3>2. \A c \in Cases : (c \in K) = IdBody(g, c[1], c[2])
      BY <2>3, <3>1
    <3>3. [c \in Cases |-> c \in K] = [c \in Cases |-> IdBody(g, c[1], c[2])]
      BY <3>2, Zenon
    <3> QED BY <3>1, <3>3
  <2> QED BY <2>4
<1>2. idRDistinguishedBy = CHOOSE g : Is(g)
  BY DEF idRDistinguishedBy, IdBody, Cases
<1> HIDE DEF Is
<1>3. Is(idRDistinguishedBy)
  BY <1>1, <1>2
<1> DEFINE g == idRDistinguishedBy
<1> HIDE DEF g
<1>4. Is(g)
  BY <1>3 DEF g
<1>5. ASSUME NEW p \in State \X State, NEW tree \in SUBSET Seq(In)
      PROVE  g[<<p, tree>>] = IdBody(g, p, tree)
  <2> DEFINE c == <<p, tree>>
  <2>1. c \in Cases /\ c[1] = p /\ c[2] = tree
    BY DEF Cases
  <2>2. g[c] = IdBody(g, c[1], c[2])
    BY <1>4, <2>1 DEF Is
  <2> QED BY <2>1, <2>2
<1> QED BY <1>5 DEF g

TreeBody(f, p) ==
  IF rDistGraph[p][1] = NoInput THEN {<< >>}
  ELSE {<< >>, <<rDistGraph[p][1]>>} \cup
         {<<rDistGraph[p][1]>> \o w : w \in UNION {f[r] : r \in rDistGraph[p][2]}}

EntriesTyped ==
  \A p \in DOMAIN rDistGraph :
    /\ rDistGraph[p][1] = NoInput \/ rDistGraph[p][1] \in In
    /\ rDistGraph[p][2] \subseteq DOMAIN rDistGraph

LEMMA GraphTyped ==
  ASSUME GraphInv
  PROVE  EntriesTyped
<1> SUFFICES ASSUME NEW p \in DOMAIN rDistGraph
             PROVE  /\ rDistGraph[p][1] = NoInput \/ rDistGraph[p][1] \in In
                    /\ rDistGraph[p][2] \subseteq DOMAIN rDistGraph
  BY DEF EntriesTyped
<1>1. GoodEntry(p, rDistGraph[p], DOMAIN rDistGraph)
  BY DEF GraphInv
<1>2. CASE rDistGraph[p] = <<NoInput, {}>>
  BY <1>2
<1>3. CASE \E x \in DefinedInputs(rows, p[1]) \cap DefinedInputs(rows, p[2]) :
             /\ rDistGraph[p] = <<x, Targets(p, x)>> \/ rDistGraph[p] = <<x, Targets(Mirror(p), x)>>
             /\ rDistGraph[p][2] \subseteq DOMAIN rDistGraph
  BY <1>3, DefinedAreInputs
<1> QED BY <1>1, <1>2, <1>3 DEF GoodEntry

LEMMA TreesExist ==
  ASSUME EntriesTyped
  PROVE  \E f : /\ f = [p \in DOMAIN rDistGraph |-> TreeBody(f, p)]
                /\ \A p \in DOMAIN rDistGraph : f[p] \in SUBSET Seq(In)
<1> DEFINE D == DOMAIN rDistGraph
           All == D \X Seq(In)
           Row(G, p) == {w \in Seq(In) : <<p, w>> \in G}
           Bod(G, p) == IF rDistGraph[p][1] = NoInput THEN {<< >>}
                        ELSE {<< >>, <<rDistGraph[p][1]>>} \cup
                               {<<rDistGraph[p][1]>> \o w : w \in UNION {Row(G, r) : r \in rDistGraph[p][2]}}
           F == [G \in SUBSET All |-> {c \in All : c[2] \in Bod(G, c[1])}]
<1>1. F \in [SUBSET All -> SUBSET All]
  OBVIOUS
<1>2. ASSUME NEW G \in SUBSET All, NEW H \in SUBSET All, G \subseteq H
      PROVE  F[G] \subseteq F[H]
  <2>1. \A p : Row(G, p) \subseteq Row(H, p)
    BY <1>2
  <2> HIDE DEF Row
  <2>2. \A p : Bod(G, p) \subseteq Bod(H, p)
    BY <2>1
  <2> HIDE DEF Bod
  <2> QED BY <2>2
<1>3. PICK K \in SUBSET All : F[K] = K
  <2> HIDE DEF F
  <2> QED BY <1>1, <1>2, LeastFixpoint
<1> DEFINE f == [p \in D |-> Row(K, p)]
<1>4. ASSUME NEW p \in D
      PROVE  f[p] = TreeBody(f, p) /\ f[p] \in SUBSET Seq(In)
  <2>1. \A r \in rDistGraph[p][2] : f[r] = Row(K, r)
    BY DEF EntriesTyped
  <2>2. TreeBody(f, p) = Bod(K, p)
    <3> HIDE DEF f, Row
    <3> QED BY <2>1 DEF TreeBody
  <2>3. Bod(K, p) \subseteq Seq(In)
    <3>1. << >> \in Seq(In)
      OBVIOUS
    <3>2. CASE rDistGraph[p][1] = NoInput
      BY <3>1, <3>2
    <3>3. CASE rDistGraph[p][1] # NoInput
      <4>1. rDistGraph[p][1] \in In
        BY <3>3 DEF EntriesTyped
      <4> DEFINE x == rDistGraph[p][1]
      <4>2. <<x>> \in Seq(In)
        BY <4>1
      <4>3. \A w \in Seq(In) : <<x>> \o w \in Seq(In)
        BY <4>2
      <4>4. \A r : Row(K, r) \subseteq Seq(In)
        OBVIOUS
      <4> HIDE DEF Row
      <4> DEFINE U == UNION {Row(K, r) : r \in rDistGraph[p][2]}
      <4>5. \A w \in U : w \in Seq(In)
        BY <4>4
      <4>6. Bod(K, p) = {<< >>, <<x>>} \cup {<<x>> \o w : w \in U}
        BY <3>3
      <4> HIDE DEF U, x, Bod
      <4> QED BY <3>1, <4>2, <4>3, <4>5, <4>6
    <3> QED BY <3>2, <3>3
  <2>4. \A w \in Seq(In) : w \in Row(K, p) <=> w \in Bod(K, p)
    <3> SUFFICES ASSUME NEW w \in Seq(In) PROVE <<p, w>> \in K <=> w \in Bod(K, p)
      OBVIOUS
    <3> DEFINE c == <<p, w>>
    <3>1. c \in All /\ c[1] = p /\ c[2] = w
      OBVIOUS
    <3> HIDE DEF Bod, c
    <3>2. c \in F[K] <=> c[2] \in Bod(K, c[1])
      BY <3>1
    <3> HIDE DEF F
    <3>3. c \in K <=> w \in Bod(K, p)
      BY <1>3, <3>1, <3>2
    <3> QED BY <3>3 DEF c
  <2>5. Row(K, p) = Bod(K, p)
    <3>1. Row(K, p) \subseteq Seq(In)
      OBVIOUS
    <3> HIDE DEF Row, Bod
    <3> QED BY <2>3, <2>4, <3>1
  <2>6. f[p] = Row(K, p)
    OBVIOUS
  <2> HIDE DEF Row, Bod, f
  <2> QED BY <2>2, <2>3, <2>5, <2>6
<1>5. f = [p \in D |-> TreeBody(f, p)]
  <2> DEFINE g == f
  <2>1. g = f
    OBVIOUS
  <2>2. f = [p \in D |-> f[p]]
    OBVIOUS
  <2> HIDE DEF f, D
  <2> QED BY <1>4, <2>2
<1> QED BY <1>4, <1>5

LEMMA RDistTreeIs ==
  ASSUME GraphInv
  PROVE  \A p \in DOMAIN rDistGraph : rDistTree[p] = TreeBody(rDistTree, p)
<1> DEFINE Is(g) == g = [p \in DOMAIN rDistGraph |-> TreeBody(g, p)]
<1>1. \E f : Is(f)
  BY GraphTyped, TreesExist
<1>2. rDistTree = CHOOSE g : Is(g)
  BY DEF rDistTree, TreeBody
<1> HIDE DEF Is
<1>3. Is(rDistTree)
  BY <1>1, <1>2
<1> DEFINE g == rDistTree
<1> HIDE DEF g
<1>4. Is(g)
  BY <1>3 DEF g
<1>5. \A p \in DOMAIN rDistGraph : g[p] = TreeBody(g, p)
  BY <1>4 DEF Is
<1> QED BY <1>5 DEF g

(* The trees separate: by the induction principle of the graph. *)
LEMMA BelowTree ==
  ASSUME NEW x \in In, NEW T \in SUBSET Seq(In), NEW tree \in SUBSET Seq(In),
         \A w \in T : <<x>> \o w \in tree
  PROVE  T \subseteq After1(tree, x)
<1> SUFFICES ASSUME NEW w \in T PROVE w \in After1(tree, x)
  OBVIOUS
<1> DEFINE v == <<x>> \o w
<1>1. w \in Seq(In) /\ v \in tree
  OBVIOUS
<1>2. v # << >> /\ Head(v) = x /\ Tail(v) = w
  BY <1>1
<1> HIDE DEF v
<1> QED BY <1>1, <1>2 DEF After1

LEMMA TreesTellApart ==
  ASSUME rows \in Machines, GraphInv
  PROVE  \A p \in DOMAIN rDistGraph : idRDistinguishedBy[<<p, rDistTree[p]>>]
<1> DEFINE D == DOMAIN rDistGraph
           Larger(p) == {tree \in SUBSET Seq(In) : rDistTree[p] \subseteq tree}
           A == {p \in D : /\ rDistTree[p] \subseteq Seq(In)
                           /\ \A tree \in Larger(p) : /\ idRDistinguishedBy[<<p, tree>>]
                                                      /\ idRDistinguishedBy[<<Mirror(p), tree>>]}
<1>1. ASSUME NEW p \in D, rDistGraph[p][2] \subseteq A
      PROVE  p \in A
  <2>1. /\ p \in State \X State /\ Mirror(p) \in State \X State
        /\ Mirror(p)[1] = p[2] /\ Mirror(p)[2] = p[1] /\ Mirror(Mirror(p)) = p
    BY PairFacts DEF GraphInv
  <2>2. GoodEntry(p, rDistGraph[p], D)
    BY DEF GraphInv
  <2>3. rDistTree[p] = TreeBody(rDistTree, p)
    BY RDistTreeIs
  <2>4. CASE rDistGraph[p] = <<NoInput, {}>> /\ ~SameDefined(p)
    <3>1. rDistTree[p] = {<< >>}
      BY <2>3, <2>4 DEF TreeBody
    <3>2. ASSUME NEW tree \in SUBSET Seq(In)
          PROVE  idRDistinguishedBy[<<p, tree>>] /\ idRDistinguishedBy[<<Mirror(p), tree>>]
      <4>1. IdBody(idRDistinguishedBy, p, tree) /\ IdBody(idRDistinguishedBy, Mirror(p), tree)
        BY <2>1, <2>4 DEF IdBody, SameDefined
      <4>2. /\ idRDistinguishedBy[<<p, tree>>] = IdBody(idRDistinguishedBy, p, tree)
            /\ idRDistinguishedBy[<<Mirror(p), tree>>] = IdBody(idRDistinguishedBy, Mirror(p), tree)
        BY <2>1, IdRDistinguishedIs
      <4> QED BY <4>1, <4>2
    <3>3. rDistTree[p] \subseteq Seq(In)
      <4>1. << >> \in Seq(In)
        OBVIOUS
      <4> QED BY <3>1, <4>1
    <3>4. \A tree \in Larger(p) : idRDistinguishedBy[<<p, tree>>] /\ idRDistinguishedBy[<<Mirror(p), tree>>]
      BY <3>2
    <3> HIDE DEF Larger
    <3> QED BY <3>3, <3>4
  <2>6. \A r \in rDistGraph[p][2] : r \in A
    BY <1>1
  <2>5. ASSUME NEW x \in DefinedInputs(rows, p[1]) \cap DefinedInputs(rows, p[2]),
               rDistGraph[p] = <<x, Targets(p, x)>> \/ rDistGraph[p] = <<x, Targets(Mirror(p), x)>>
        PROVE  p \in A
    <3>1. x \in In /\ x # NoInput /\ rDistGraph[p][1] = x
      BY <2>5, DefinedAreInputs, SizeAssumption DEF In, NoInput
    <3> DEFINE targets == rDistGraph[p][2]
               below == UNION {rDistTree[r] : r \in targets}
    <3>2. rDistTree[p] = {<< >>, <<x>>} \cup {<<x>> \o w : w \in below}
      BY <2>3, <3>1 DEF TreeBody
    <3>3. below \subseteq Seq(In)
      BY <1>1
    <3>4. rDistTree[p] \subseteq Seq(In)
      <4>1. \A w \in Seq(In) : <<x>> \o w \in Seq(In)
        BY <3>1
      <4>2. << >> \in Seq(In) /\ <<x>> \in Seq(In)
        BY <3>1
      <4> HIDE DEF below
      <4> QED BY <3>2, <3>3, <4>1, <4>2
    <3>5. ASSUME NEW tree \in Larger(p)
          PROVE  idRDistinguishedBy[<<p, tree>>] /\ idRDistinguishedBy[<<Mirror(p), tree>>]
      <4>1. tree \in SUBSET Seq(In) /\ After1(tree, x) \in SUBSET Seq(In)
        BY After1Typed
      <4>2. x \in RootInputs(tree)
        <5>1. <<x>> \in tree /\ <<x>> # << >> /\ <<x>>[1] = x
          BY <3>2
        <5> QED BY <5>1 DEF RootInputs
      <4>3. ASSUME NEW r \in targets
            PROVE  /\ idRDistinguishedBy[<<r, After1(tree, x)>>]
                   /\ idRDistinguishedBy[<<Mirror(r), After1(tree, x)>>]
        <5>1. r \in A
          BY <1>1
        <5>2. \A w \in rDistTree[r] : <<x>> \o w \in tree
          <6>1. \A w \in rDistTree[r] : w \in below
            OBVIOUS
          <6> HIDE DEF below
          <6> QED BY <3>2, <6>1
        <5>3. rDistTree[r] \subseteq After1(tree, x)
          BY <3>1, <4>1, <5>1, <5>2, BelowTree
        <5>4. After1(tree, x) \in Larger(r)
          BY <4>1, <5>3
        <5> QED BY <5>1, <5>4
      <4>4. ASSUME NEW r PROVE r \in Targets(p, x) => r \in targets \/ Mirror(r) \in targets
        BY <2>1, <2>5, TargetsMirror
      <4>5. ASSUME NEW r \in Targets(p, x) PROVE idRDistinguishedBy[<<r, After1(tree, x)>>]
        <5>1. r \in State \X State /\ Mirror(Mirror(r)) = r
          BY <2>1, <3>1, TargetsTyped, PairFacts
        <5> QED BY <4>3, <4>4, <5>1
      <4>6. ASSUME NEW r \in Targets(Mirror(p), x) PROVE idRDistinguishedBy[<<r, After1(tree, x)>>]
        <5>1. r \in State \X State /\ Mirror(Mirror(r)) = r
          BY <2>1, <3>1, TargetsTyped, PairFacts
        <5>2. Mirror(r) \in Targets(p, x)
          BY <2>1, TargetsMirror
        <5>3. Mirror(r) \in targets \/ r \in targets
          BY <4>4, <5>1, <5>2
        <5> QED BY <4>3, <5>1, <5>3
      <4>7. IdBody(idRDistinguishedBy, p, tree) /\ IdBody(idRDistinguishedBy, Mirror(p), tree)
        BY <2>1, <2>5, <4>2, <4>5, <4>6 DEF IdBody
      <4> QED BY <2>1, <4>1, <4>7, IdRDistinguishedIs
    <3> QED BY <3>4, <3>5
  <2> QED BY <2>2, <2>4, <2>5 DEF GoodEntry
<1>2. A \in SUBSET (State \X State)
  BY DEF GraphInv
<1>3. D \subseteq A
  <2> HIDE DEF A
  <2> QED BY <1>1, <1>2 DEF GraphInv, Grounded
<1> SUFFICES ASSUME NEW p \in D PROVE idRDistinguishedBy[<<p, rDistTree[p]>>]
  OBVIOUS
<1>4. p \in A
  BY <1>3
<1> QED BY <1>4

(***************************************************************************)
(* All of it, through every step of both methods.                          *)
(***************************************************************************)
GraphPhases ==
  /\ sPhase \in {"graph", "sets"} => GraphInv
  /\ sPhase = "graph" => ListInv
  /\ sPhase = "sets" => NoneUsable

StrongInv == RInv /\ SearchInv /\ DReachSub /\ GraphPhases

LEMMA GraphPhasesKept ==
  ASSUME GraphPhases, UNCHANGED <<rows, sVars>>
  PROVE  GraphPhases'
<1>1. rows' = rows /\ rDistGraph' = rDistGraph /\ sPhase' = sPhase
      /\ graphTodo' = graphTodo /\ graphNext' = graphNext /\ reachedFixpoint' = reachedFixpoint
  BY DEF sVars
<1>2. GraphInv => GraphInv'
  BY <1>1, GraphKept
<1>3. ListInv => ListInv'
  BY <1>1 DEF ListInv
<1>4. NoneUsable => NoneUsable'
  BY <1>1 DEF NoneUsable
<1> QED BY <1>1, <1>2, <1>3, <1>4 DEF GraphPhases

LEMMA SearchUnchanged ==
  ASSUME SearchInv, UNCHANGED <<rows, sVars>>
  PROVE  SearchInv'
<1>1. sPhase \notin {"idle", "dreach"} => drQueue = << >>
  BY DEF SearchInv, QueueUsed
<1> QED BY <1>1, SearchKept DEF sVars

LEMMA CalcKeeps ==
  ASSUME RInv, SearchInv, GraphPhases, SCalc, rows' = rows
  PROVE  SearchInv' /\ GraphPhases'
<1>1. rows \in Machines
  BY DEF SearchInv, SearchTypes
<1>2. sPhase \notin {"idle", "dreach"} => drQueue = << >>
  BY DEF SearchInv, QueueUsed
<1>3. CASE StartStrong
  <2>1. sPhase' = "dreach"
    BY <1>3 DEF StartStrong
  <2> QED BY <1>3, <2>1, SearchStep DEF GraphPhases
<1>4. CASE DReachingStep
  <2>1. sPhase' = "dreach"
    BY <1>4 DEF DReachingStep
  <2> QED BY <1>4, <2>1, SearchRound DEF GraphPhases
<1>5. CASE StartGraph
  <2>1. sPhase = "dreach" /\ sPhase' = "graph" /\ drQueue = << >>
        /\ drQueue' = drQueue /\ drBlack' = drBlack /\ dReachingSequences' = dReachingSequences
    BY <1>5 DEF StartGraph
  <2>2. SearchInv'
    BY <2>1, SearchKept
  <2>3. GraphInv' /\ ListInv'
    BY <1>1, <1>5, GraphStarts
  <2> QED BY <2>1, <2>2, <2>3 DEF GraphPhases
<1>6. CASE GraphStep
  <2>1. sPhase = "graph" /\ sPhase' = "graph"
        /\ drQueue' = drQueue /\ drBlack' = drBlack /\ dReachingSequences' = dReachingSequences
    BY <1>6 DEF GraphStep
  <2>2. SearchInv'
    BY <1>2, <2>1, SearchKept
  <2>3. GraphInv' /\ ListInv'
    BY <1>1, <1>6, <2>1, GraphStepKeeps DEF GraphPhases
  <2> QED BY <2>1, <2>2, <2>3 DEF GraphPhases
<1>7. CASE GraphRound
  <2>1. sPhase = "graph"
        /\ drQueue' = drQueue /\ drBlack' = drBlack /\ dReachingSequences' = dReachingSequences
    BY <1>7 DEF GraphRound
  <2>2. /\ GraphInv'
        /\ reachedFixpoint => sPhase' = "sets" /\ NoneUsable'
        /\ ~reachedFixpoint => sPhase' = "graph" /\ ListInv'
    BY <1>7, <2>1, GraphRoundKeeps DEF GraphPhases
  <2>3. SearchInv'
    BY <1>2, <2>1, <2>2, SearchKept
  <2> QED BY <2>2, <2>3 DEF GraphPhases
<1>8. CASE CalcMaximalSets \/ InitialTestSuite \/ \E q \in State : UpdateTestSuite(q)
  <2>1. /\ sPhase \in {"sets", "initial", "update"}
        /\ sPhase' \in {"initial", "update", "undefined", "generated"}
        /\ drQueue' = drQueue /\ drBlack' = drBlack /\ dReachingSequences' = dReachingSequences
    <3>1. CASE CalcMaximalSets \/ InitialTestSuite
      BY <3>1 DEF CalcMaximalSets, InitialTestSuite
    <3>2. CASE \E q \in State : UpdateTestSuite(q)
      BY <3>2, Zenon DEF UpdateTestSuite
    <3> QED BY <1>8, <3>1, <3>2
  <2>2. SearchInv'
    BY <1>2, <2>1, SearchKept
  <2> QED BY <2>1, <2>2 DEF GraphPhases
<1> QED BY <1>3, <1>4, <1>5, <1>6, <1>7, <1>8 DEF SCalc

LEMMA StepStrongInv == StrongInv /\ [Next \/ Stop]_vars => StrongInv'
<1> SUFFICES ASSUME StrongInv, [Next \/ Stop]_vars PROVE StrongInv'
  OBVIOUS
<1>1. RInv'
  BY StepRInv DEF StrongInv
<1>2. CASE Analyse
  <2>1. UNCHANGED <<rows, sVars>> /\ RNext
    BY <1>2 DEF Analyse, RNext, CalcROneDistinguishable, CalcRLevel, StartDReach, DReachStep, EndDReach
  <2> QED BY <1>1, <2>1, SearchUnchanged, GraphPhasesKept, DReachSubStep DEF StrongInv
<1>3. CASE Generate
  <2>1. SCalc /\ rows' = rows /\ dReachTrace' = dReachTrace
    BY <1>3 DEF Generate, rVars
  <2> QED BY <1>1, <2>1, CalcKeeps, DReachSubKept DEF StrongInv
<1>4. CASE ExecuteSuite
  <2>1. /\ rows' = rows /\ dReachTrace' = dReachTrace
        /\ sPhase = "generated" /\ sPhase' \in {"pass", "fail"}
        /\ drQueue' = drQueue /\ drBlack' = drBlack /\ dReachingSequences' = dReachingSequences
    BY <1>4 DEF ExecuteSuite, Execute, rVars
  <2>2. drQueue = << >>
    BY <2>1 DEF StrongInv, SearchInv, QueueUsed
  <2>3. SearchInv'
    BY <2>1, <2>2, SearchKept DEF StrongInv
  <2> QED BY <1>1, <2>1, <2>3, DReachSubKept DEF StrongInv, GraphPhases
<1>5. CASE Count \/ Stop \/ UNCHANGED vars
  <2>1. UNCHANGED <<rows, sVars>> /\ dReachTrace' = dReachTrace
    BY <1>5 DEF Count, Stop, vars, CNext, StartCounting, ApplyTraces, Expand, rVars
  <2> QED BY <1>1, <2>1, SearchUnchanged, GraphPhasesKept, DReachSubKept DEF StrongInv
<1> QED BY <1>2, <1>3, <1>4, <1>5 DEF Next

LEMMA InitStrongInv == Init => StrongInv
<1> SUFFICES ASSUME Init PROVE StrongInv
  OBVIOUS
<1>1. rows \in Machines /\ RInv
  BY InitRInv, SpecificationsAssumption DEF Init, Machines
<1>2. SearchInv
  BY <1>1, SearchStarts DEF Init
<1>3. DReachSub
  BY DEF DReachSub, Init, RInit
<1>4. GraphPhases
  BY DEF GraphPhases, Init, SInit
<1> QED BY <1>1, <1>2, <1>3, <1>4 DEF StrongInv

LEMMA StrongInvImplies == StrongInv => GraphExact
<1> SUFFICES ASSUME StrongInv, sPhase = "sets" PROVE GraphExact
  BY DEF GraphExact
<1>1. rows \in Machines /\ GraphInv /\ NoneUsable
  BY DEF StrongInv, SearchInv, SearchTypes, GraphPhases
<1>2. DOMAIN rDistGraph = (State \X State) \ Compatible
  BY <1>1, GraphIsComplement
<1>3. \A p \in DOMAIN rDistGraph : idRDistinguishedBy[<<p, rDistTree[p]>>]
  BY <1>1, TreesTellApart
<1>4. /\ \A q \in dReached : Reached(rows, dReachingSequences[q]) = {q}
      /\ \A q \in dReachableStates : q \in dReached /\ Len(dReachingSequences[q]) <= Len(dReachTrace[q])
  BY SequencesExact DEF StrongInv
<1> QED BY <1>2, <1>3, <1>4 DEF GraphExact

(***************************************************************************)
(* The graph the suites for strong semi-reduction are built from has an    *)
(* entry for exactly the pairs of states without a common reduct, partial  *)
(* machines included; the traces of the tree of every such pair tell its   *)
(* states apart; and the search for sequences that reach a state whatever  *)
(* outputs are chosen finds one wherever calcDReachableStates does, by a   *)
(* trace no longer.                                                        *)
(***************************************************************************)
THEOREM GraphIsExact == Spec => []GraphExact
BY InitStrongInv, StepStrongInv, StrongInvImplies, PTL DEF Spec

-----------------------------------------------------------------------------
(***************************************************************************)
(* Adaptive state counting.  A trace of the implementation that the        *)
(* specification does not have, taken as short as possible after a         *)
(* response to a trace of the state cover, would lead the implementation   *)
(* through more states than it has, if one of its prefixes were long       *)
(* enough for the method to stop: so all its prefixes are extended, and    *)
(* the trace itself is applied.                                            *)
(***************************************************************************)

(***************************************************************************)
(* Adaptive state counting.  Machines of any size and their traces; the    *)
(* implementation's states are not those of the specification.             *)
(***************************************************************************)
OnStates(k) == [0 .. k - 1 -> [IO -> -1 .. k - 1]]

LEMMA MachinesOnStates == Machines = OnStates(numStates)
<1>1. State \cup {-1} = -1 .. numStates - 1
  BY SizeAssumption DEF State
<1> QED BY <1>1 DEF Machines, OnStates, State

LEMMA TraceTyped ==
  ASSUME NEW k \in Nat, NEW f \in OnStates(k), NEW q \in 0 .. k - 1, NEW io \in Seq(IO)
  PROVE  /\ After(f, q, io) \in -1 .. k - 1
         /\ After(f, q, io) >= 0 => After(f, q, io) \in 0 .. k - 1
         /\ After(f, q, io) < 0 => After(f, q, io) = -1
<1> DEFINE A == {u \in Seq(IO) : After(f, q, u) \in -1 .. k - 1}
<1>1. << >> \in A
  BY AfterEmpty
<1>2. ASSUME NEW u \in Seq(IO), NEW e \in IO, u \in A PROVE Append(u, e) \in A
  <2>1. After(f, q, Append(u, e)) = IF After(f, q, u) < 0 THEN -1 ELSE f[After(f, q, u)][e]
    BY AfterAppend
  <2>2. After(f, q, u) \in -1 .. k - 1
    BY <1>2
  <2>3. \A s \in 0 .. k - 1 : f[s][e] \in -1 .. k - 1
    BY DEF OnStates
  <2>4. After(f, q, u) < 0 \/ After(f, q, u) \in 0 .. k - 1
    BY <2>2
  <2>5. After(f, q, Append(u, e)) \in -1 .. k - 1
    BY <2>1, <2>3, <2>4
  <2> QED BY <2>5
<1> HIDE DEF A
<1>3. io \in A
  BY <1>1, <1>2, SeqInduction
<1> QED BY <1>3 DEF A

LEMMA ConcatAppend ==
  ASSUME NEW X, NEW u \in Seq(X), NEW v \in Seq(X), NEW e \in X
  PROVE  /\ u \o Append(v, e) = Append(u \o v, e)
         /\ u \o << >> = u /\ << >> \o u = u /\ u \o v \in Seq(X)
         /\ Append(u, e) = u \o <<e>>
OBVIOUS

(* what follows a trace starts where it leads to *)
LEMMA TraceConcat ==
  ASSUME NEW k \in Nat, NEW f \in OnStates(k), NEW q \in 0 .. k - 1, NEW u \in Seq(IO), NEW v \in Seq(IO)
  PROVE  After(f, q, u \o v) = IF After(f, q, u) < 0 THEN -1 ELSE After(f, After(f, q, u), v)
<1> DEFINE p == After(f, q, u)
           A == {w \in Seq(IO) : After(f, q, u \o w) = IF p < 0 THEN -1 ELSE After(f, p, w)}
<1>1. p \in -1 .. k - 1 /\ (p < 0 => p = -1)
  BY TraceTyped
<1> HIDE DEF p
<1>2. << >> \in A
  <2>1. After(f, q, u \o << >>) = p
    BY ConcatAppend DEF p
  <2>2. After(f, p, << >>) = p
    BY AfterEmpty
  <2> QED BY <1>1, <2>1, <2>2
<1>3. ASSUME NEW w \in Seq(IO), NEW e \in IO, w \in A PROVE Append(w, e) \in A
  <2>1. u \o Append(w, e) = Append(u \o w, e) /\ u \o w \in Seq(IO)
    BY ConcatAppend
  <2>2. After(f, q, Append(u \o w, e)) = IF After(f, q, u \o w) < 0 THEN -1 ELSE f[After(f, q, u \o w)][e]
    BY <2>1, AfterAppend
  <2>3. After(f, p, Append(w, e)) = IF After(f, p, w) < 0 THEN -1 ELSE f[After(f, p, w)][e]
    BY AfterAppend
  <2>4. After(f, q, u \o w) = IF p < 0 THEN -1 ELSE After(f, p, w)
    BY <1>3
  <2>5. After(f, q, u \o Append(w, e)) = IF p < 0 THEN -1 ELSE After(f, p, Append(w, e))
    BY <2>1, <2>2, <2>3, <2>4
  <2> QED BY <2>5
<1> HIDE DEF A
<1>4. v \in A
  BY <1>2, <1>3, SeqInduction
<1> QED BY <1>4 DEF A, p

(* a trace is one of the machine if and only if its parts are *)
LEMMA TraceParts ==
  ASSUME NEW k \in Nat, NEW f \in OnStates(k), NEW q \in 0 .. k - 1, NEW u \in Seq(IO), NEW v \in Seq(IO)
  PROVE  /\ After(f, q, u \o v) >= 0 <=> After(f, q, u) >= 0 /\ After(f, After(f, q, u), v) >= 0
         /\ After(f, q, u) >= 0 => After(f, q, u) \in 0 .. k - 1
                                   /\ After(f, q, u \o v) = After(f, After(f, q, u), v)
<1>1. After(f, q, u) \in -1 .. k - 1
  BY TraceTyped
<1>2. After(f, q, u \o v) = IF After(f, q, u) < 0 THEN -1 ELSE After(f, After(f, q, u), v)
  BY TraceConcat
<1> QED BY <1>1, <1>2

LEMMA InputsTyped ==
  ASSUME NEW io \in Seq(IO)
  PROVE  Inputs(io) \in Seq(In) /\ Len(Inputs(io)) = Len(io)
         /\ \A i \in 1 .. Len(io) : Inputs(io)[i] = io[i][1] /\ io[i] \in IO /\ io[i][1] \in In
<1>1. \A i \in 1 .. Len(io) : io[i] \in IO /\ io[i][1] \in In
  BY DEF IO
<1> QED BY <1>1 DEF Inputs

LEMMA InputsEmpty == Inputs(<< >>) = << >>
BY DEF Inputs

LEMMA InputsAppend ==
  ASSUME NEW io \in Seq(IO), NEW e \in IO
  PROVE  Inputs(Append(io, e)) = Append(Inputs(io), e[1])
<1> DEFINE a == Inputs(Append(io, e))
           b == Append(Inputs(io), e[1])
<1>1. Append(io, e) \in Seq(IO) /\ e[1] \in In /\ Len(Append(io, e)) = Len(io) + 1
  BY DEF IO
<1>2. a \in Seq(In) /\ b \in Seq(In) /\ Len(a) = Len(io) + 1 /\ Len(b) = Len(io) + 1
  <2>1. a \in Seq(In) /\ Len(a) = Len(io) + 1
    BY <1>1, InputsTyped
  <2>2. Inputs(io) \in Seq(In) /\ Len(Inputs(io)) = Len(io)
    BY InputsTyped
  <2> HIDE DEF a
  <2> QED BY <1>1, <2>1, <2>2
<1>3. ASSUME NEW i \in 1 .. Len(io) + 1 PROVE a[i] = b[i]
  <2>1. a[i] = Append(io, e)[i][1]
    BY <1>1, InputsTyped
  <2>2. Inputs(io) \in Seq(In) /\ Len(Inputs(io)) = Len(io) /\ Len(io) \in Nat
        /\ \A j \in 1 .. Len(io) : Inputs(io)[j] = io[j][1]
    BY InputsTyped
  <2>3. CASE i \in 1 .. Len(io)
    <3>1. Append(io, e)[i] = io[i] /\ b[i] = Inputs(io)[i]
      BY <2>2, <2>3
    <3> QED BY <2>1, <2>2, <2>3, <3>1
  <2>4. CASE i = Len(io) + 1
    <3>1. Append(io, e)[i] = e /\ b[i] = e[1]
      BY <2>2, <2>4
    <3> QED BY <2>1, <3>1
  <2>5. i \in 1 .. Len(io) \/ i = Len(io) + 1
    BY <2>2
  <2> HIDE DEF a, b
  <2> QED BY <2>3, <2>4, <2>5
<1> HIDE DEF a, b
<1>4. a = b
  BY <1>2, <1>3, SeqEqual
<1> QED BY <1>4 DEF a, b

LEMMA InputsConcat ==
  ASSUME NEW u \in Seq(IO), NEW v \in Seq(IO)
  PROVE  Inputs(u \o v) = Inputs(u) \o Inputs(v)
<1> DEFINE A == {w \in Seq(IO) : Inputs(u \o w) = Inputs(u) \o Inputs(w)}
<1>1. << >> \in A
  BY InputsEmpty, InputsTyped, ConcatAppend
<1>2. ASSUME NEW w \in Seq(IO), NEW e \in IO, w \in A PROVE Append(w, e) \in A
  <2>1. u \o Append(w, e) = Append(u \o w, e) /\ u \o w \in Seq(IO) /\ e[1] \in In
    BY ConcatAppend DEF IO
  <2>2. Inputs(u \o Append(w, e)) = Append(Inputs(u) \o Inputs(w), e[1])
    BY <1>2, <2>1, InputsAppend
  <2>3. Inputs(u) \o Append(Inputs(w), e[1]) = Append(Inputs(u) \o Inputs(w), e[1])
    BY <2>1, InputsTyped, ConcatAppend
  <2>4. Inputs(Append(w, e)) = Append(Inputs(w), e[1])
    BY InputsAppend
  <2>5. Inputs(u \o Append(w, e)) = Inputs(u) \o Inputs(Append(w, e))
    BY <2>2, <2>3, <2>4
  <2> QED BY <2>5
<1> HIDE DEF A
<1>3. v \in A
  BY <1>1, <1>2, SeqInduction
<1> QED BY <1>3 DEF A

(* Responses, one input after the other *)
Answered(i, x, y) == Append(i, <<x, y>>)

LEMMA OneMoreIs ==
  ASSUME NEW r, NEW a, NEW x, NEW io, io \in OneMore(r, a, x)
  PROVE  After(r, 0, io) >= 0 /\ \E i \in a : \E y \in Out : io = Answered(i, x, y)
<1> DEFINE S == {Answered(i, x, y) : i \in a, y \in Out}
<1>1. \A j \in S : \E i \in a : \E y \in Out : j = Answered(i, x, y)
  OBVIOUS
<1>2. OneMore(r, a, x) = {j \in S : After(r, 0, j) >= 0}
  BY DEF OneMore, Answered
<1> HIDE DEF S
<1> QED BY <1>1, <1>2

LEMMA IsOneMore ==
  ASSUME NEW r, NEW a, NEW x, NEW i \in a, NEW y \in Out, After(r, 0, Append(i, <<x, y>>)) >= 0
  PROVE  Append(i, <<x, y>>) \in OneMore(r, a, x)
<1> DEFINE S == {Append(j, <<x, z>>) : j \in a, z \in Out}
<1>1. Append(i, <<x, y>>) \in S
  OBVIOUS
<1>2. OneMore(r, a, x) = {j \in S : After(r, 0, j) >= 0}
  BY DEF OneMore
<1> HIDE DEF S
<1> QED BY <1>1, <1>2

LEMMA ResponsesIs ==
  ASSUME NEW r, NEW X, NEW xs \in Seq(X)
  PROVE  Responses(r, xs) = FoldOf(<<"responses", r>>, {<< >>}, xs)
<1> DEFINE k == <<"responses", r>>
           D == DOMAIN xs
           Is(iter) == iter = [s \in SUBSET D |-> IF s = {} THEN {<< >>}
                                ELSE OneMore(r, iter[s \ {Max(s)}], xs[Max(s)])]
<1>1. Responses(r, xs) = (CHOOSE iter : Is(iter))[D]
  BY DEF Responses, FoldLeft, MapThenFoldSet, OneMore
<1>2. \A a, b : StepOf(k, a, b) = OneMore(r, a, b)
  BY StepCases
<1> HIDE DEF k
<1>3. \A iter : Is(iter) <=> IsFold(iter, k, {<< >>}, xs)
  BY <1>2 DEF IsFold
<1> HIDE DEF Is
<1>4. (CHOOSE iter : Is(iter)) = CHOOSE iter : IsFold(iter, k, {<< >>}, xs)
  BY <1>3
<1> QED BY <1>1, <1>4 DEF FoldOf, k

LEMMA ResponsesEmpty == \A r : Responses(r, << >>) = {<< >>}
<1> SUFFICES ASSUME NEW r PROVE Responses(r, << >>) = {<< >>}
  OBVIOUS
<1>1. << >> \in Seq({})
  OBVIOUS
<1>2. Responses(r, << >>) = FoldOf(<<"responses", r>>, {<< >>}, << >>)
  BY <1>1, ResponsesIs
<1> QED BY <1>2, FoldOfEmpty

LEMMA ResponsesAppend ==
  ASSUME NEW r, NEW xs \in Seq(In), NEW x \in In
  PROVE  Responses(r, Append(xs, x)) = OneMore(r, Responses(r, xs), x)
<1> DEFINE k == <<"responses", r>>
<1>1. Append(xs, x) \in Seq(In)
  OBVIOUS
<1>2. Responses(r, Append(xs, x)) = FoldOf(k, {<< >>}, Append(xs, x))
  BY <1>1, ResponsesIs
<1>3. Responses(r, xs) = FoldOf(k, {<< >>}, xs)
  BY ResponsesIs
<1>4. FoldOf(k, {<< >>}, Append(xs, x)) = StepOf(k, FoldOf(k, {<< >>}, xs), x)
  BY FoldOfAppend
<1>5. \A a, b : StepOf(k, a, b) = OneMore(r, a, b)
  BY StepCases
<1> HIDE DEF k
<1> QED BY <1>2, <1>3, <1>4, <1>5

LEMMA LastOfTrace ==
  ASSUME NEW io \in Seq(IO), io # << >>
  PROVE  \E i \in Seq(IO), x \in In, y \in Out :
           /\ io = Append(i, <<x, y>>) /\ <<x, y>> \in IO
           /\ Inputs(io) = Append(Inputs(i), x)
<1>1. PICK i \in Seq(IO), e \in IO : io = Append(i, e)
  BY SequenceEmptyOrAppend
<1>2. PICK x \in In, y \in Out : e = <<x, y>>
  BY DEF IO
<1>3. Inputs(io) = Append(Inputs(i), x)
  BY <1>1, <1>2, InputsAppend
<1> QED BY <1>1, <1>2, <1>3

(* the traces of a machine with the inputs asked for *)
LEMMA ResponsesAre ==
  ASSUME NEW k \in Nat \ {0}, NEW f \in OnStates(k), NEW xs \in Seq(In)
  PROVE  Responses(f, xs) = {io \in Seq(IO) : Inputs(io) = xs /\ After(f, 0, io) >= 0}
<1> DEFINE Of(u) == {io \in Seq(IO) : Inputs(io) = u /\ After(f, 0, io) >= 0}
           A == {u \in Seq(In) : Responses(f, u) = Of(u)}
<1>0. 0 \in 0 .. k - 1
  OBVIOUS
<1>1. << >> \in A
  <2>1. ASSUME NEW io \in Seq(IO), Inputs(io) = << >> PROVE io = << >>
    <3>1. Len(io) = 0
      BY <2>1, InputsTyped
    <3> QED BY <3>1, EmptySeq
  <2>2. << >> \in Of(<< >>)
    BY InputsEmpty, AfterEmpty
  <2>3. Of(<< >>) = {<< >>}
    BY <2>1, <2>2
  <2>4. Responses(f, << >>) = Of(<< >>)
    BY <2>3, ResponsesEmpty
  <2>5. << >> \in Seq(In)
    OBVIOUS
  <2> HIDE DEF Of
  <2> QED BY <2>4, <2>5
<1>2. ASSUME NEW u \in Seq(In), NEW x \in In, u \in A PROVE Append(u, x) \in A
  <2>1. Responses(f, u) = Of(u)
    BY <1>2
  <2>2. Responses(f, Append(u, x)) = OneMore(f, Of(u), x)
    <3>1. Responses(f, Append(u, x)) = OneMore(f, Responses(f, u), x)
      BY ResponsesAppend
    <3> HIDE DEF Of
    <3> QED BY <2>1, <3>1
  <2>3. ASSUME NEW i \in Of(u), NEW y \in Out, After(f, 0, Append(i, <<x, y>>)) >= 0
        PROVE  Append(i, <<x, y>>) \in Of(Append(u, x))
    <3>1. <<x, y>> \in IO /\ Append(i, <<x, y>>) \in Seq(IO)
      BY DEF IO
    <3>2. Inputs(Append(i, <<x, y>>)) = Append(u, x)
      BY <3>1, InputsAppend
    <3> QED BY <2>3, <3>1, <3>2
  <2>4. ASSUME NEW io \in Of(Append(u, x))
        PROVE  \E i \in Of(u), y \in Out : io = Append(i, <<x, y>>)
    <3>1. io \in Seq(IO) /\ Inputs(io) = Append(u, x) /\ After(f, 0, io) >= 0
      OBVIOUS
    <3>2. io # << >>
      BY <3>1, InputsEmpty
    <3>3. PICK i \in Seq(IO), z \in In, y \in Out :
             io = Append(i, <<z, y>>) /\ <<z, y>> \in IO /\ Inputs(io) = Append(Inputs(i), z)
      BY <3>1, <3>2, LastOfTrace
    <3>4. Inputs(i) = u /\ z = x
      <4>1. Inputs(i) \in Seq(In) /\ Append(Inputs(i), z) = Append(u, x)
        BY <3>1, <3>3, InputsTyped
      <4> QED BY <4>1, AppendInjective
    <3>5. After(f, 0, io) = IF After(f, 0, i) < 0 THEN -1 ELSE f[After(f, 0, i)][<<z, y>>]
      BY <3>3, AfterAppend
    <3>6. After(f, 0, i) \in -1 .. k - 1
      BY <1>0, TraceTyped
    <3>7. After(f, 0, i) >= 0
      BY <3>1, <3>5, <3>6
    <3>8. i \in Of(u)
      BY <3>4, <3>7
    <3> QED BY <3>3, <3>4, <3>8
  <2>5. \A io \in Of(Append(u, x)) : After(f, 0, io) >= 0
    OBVIOUS
  <2>6. Responses(f, Append(u, x)) = Of(Append(u, x))
    <3> HIDE DEF Of
    <3>1. ASSUME NEW io \in OneMore(f, Of(u), x) PROVE io \in Of(Append(u, x))
      <4>1. After(f, 0, io) >= 0
        BY OneMoreIs
      <4>2. PICK i \in Of(u) : \E y \in Out : io = Answered(i, x, y)
        BY OneMoreIs
      <4>3. PICK y \in Out : io = Append(i, <<x, y>>)
        BY <4>2 DEF Answered
      <4> QED BY <2>3, <4>1, <4>3
    <3>2. ASSUME NEW io \in Of(Append(u, x)) PROVE io \in OneMore(f, Of(u), x)
      <4>1. PICK i \in Of(u), y \in Out : io = Append(i, <<x, y>>)
        BY <2>4
      <4>2. After(f, 0, Append(i, <<x, y>>)) >= 0
        BY <2>5, <4>1
      <4> QED BY <4>1, <4>2, IsOneMore
    <3>3. OneMore(f, Of(u), x) = Of(Append(u, x))
      BY <3>1, <3>2
    <3> QED BY <2>2, <3>3
  <2>7. Append(u, x) \in Seq(In)
    OBVIOUS
  <2> HIDE DEF Of
  <2> QED BY <2>6, <2>7
<1> HIDE DEF A
<1>3. xs \in A
  BY <1>1, <1>2, SeqInduction
<1> QED BY <1>3 DEF A

LEMMA ImageFinite ==
  ASSUME NEW P, IsFiniteSet(P), NEW g, DOMAIN g = P, NEW T, \A z \in T : \E p \in P : z = g[p]
  PROVE  IsFiniteSet(T) /\ Cardinality(T) <= Cardinality(P)
<1> DEFINE U == {p \in P : g[p] \in T}
           h == [p \in U |-> g[p]]
<1>1. h \in Surjection(U, T)
  <2>1. h \in [U -> T]
    OBVIOUS
  <2>2. \A z \in T : \E p \in U : h[p] = z
    OBVIOUS
  <2> QED BY <2>1, <2>2 DEF Surjection
<1>2. IsFiniteSet(U) /\ Cardinality(U) <= Cardinality(P)
  BY FS_Subset
<1> HIDE DEF U, h
<1>3. IsFiniteSet(T) /\ Cardinality(T) <= Cardinality(U)
  BY <1>1, <1>2, FS_Surjection
<1>4. Cardinality(T) \in Nat /\ Cardinality(U) \in Nat /\ Cardinality(P) \in Nat
  BY <1>2, <1>3, FS_CardinalityType
<1> QED BY <1>2, <1>3, <1>4

LEMMA ResponsesFinite ==
  ASSUME NEW f, NEW xs \in Seq(In)
  PROVE  IsFiniteSet(Responses(f, xs))
<1> DEFINE A == {u \in Seq(In) : IsFiniteSet(Responses(f, u))}
<1>1. << >> \in A
  <2>1. IsFiniteSet(Responses(f, << >>)) /\ << >> \in Seq(In)
    <3>1. Responses(f, << >>) = {<< >>}
      BY ResponsesEmpty
    <3>2. IsFiniteSet({<< >>})
      BY FS_Singleton
    <3>3. << >> \in Seq(In)
      OBVIOUS
    <3> QED BY <3>1, <3>2, <3>3
  <2> QED BY <2>1
<1>2. ASSUME NEW u \in Seq(In), NEW x \in In, u \in A PROVE Append(u, x) \in A
  <2> DEFINE R == Responses(f, u)
             P == R \X Out
             g == [p \in P |-> Append(p[1], <<x, p[2]>>)]
             T == Responses(f, Append(u, x))
  <2>1. IsFiniteSet(Out)
    BY FS_Interval, SizeAssumption DEF Out
  <2>2. IsFiniteSet(P)
    BY <1>2, <2>1, FS_Product
  <2>3. ASSUME NEW io \in T PROVE \E p \in P : io = g[p]
    <3>1. T = OneMore(f, R, x)
      BY ResponsesAppend
    <3> HIDE DEF R, T
    <3>2. PICK i \in R : \E y \in Out : io = Answered(i, x, y)
      BY <3>1, OneMoreIs
    <3>3. PICK y \in Out : io = Append(i, <<x, y>>)
      BY <3>2 DEF Answered
    <3>4. <<i, y>> \in P /\ io = g[<<i, y>>]
      BY <3>3
    <3> QED BY <3>4
  <2>4. DOMAIN g = P
    OBVIOUS
  <2> HIDE DEF P, g, T
  <2>5. IsFiniteSet(T)
    BY <2>2, <2>3, <2>4, ImageFinite
  <2>6. Append(u, x) \in Seq(In)
    OBVIOUS
  <2> QED BY <2>5, <2>6 DEF T
<1> HIDE DEF A
<1>3. xs \in A
  BY <1>1, <1>2, SeqInduction
<1> QED BY <1>3 DEF A

(* a machine that defines every input answers *)
LEMMA CompleteAnswers ==
  ASSUME NEW k \in Nat, NEW f \in OnStates(k), IsComplete(f), NEW q \in 0 .. k - 1, NEW x \in In
  PROVE  PossibleOutputs(f, q, x) # {} /\ \E y \in Out : <<x, y>> \in IO /\ f[q][<<x, y>>] \in 0 .. k - 1
<1>1. DOMAIN f = 0 .. k - 1
  BY DEF OnStates
<1>2. x \in DefinedInputs(f, q)
  BY <1>1 DEF IsComplete
<1>3. PICK y \in PossibleOutputs(f, q, x) : TRUE
  BY <1>2 DEF DefinedInputs
<1>4. y \in Out /\ f[q][<<x, y>>] >= 0
  BY <1>3 DEF PossibleOutputs
<1>5. <<x, y>> \in IO
  BY <1>4 DEF IO
<1>6. f[q][<<x, y>>] \in -1 .. k - 1
  BY <1>5 DEF OnStates
<1>7. f[q][<<x, y>>] \in 0 .. k - 1
  BY <1>4, <1>6
<1> QED BY <1>3, <1>4, <1>5, <1>7

LEMMA ResponsesExist ==
  ASSUME NEW k \in Nat \ {0}, NEW f \in OnStates(k), IsComplete(f), NEW xs \in Seq(In)
  PROVE  Responses(f, xs) # {}
<1> DEFINE A == {u \in Seq(In) : Responses(f, u) # {}}
<1>1. << >> \in A
  <2>1. Responses(f, << >>) = {<< >>} /\ << >> \in Seq(In)
    BY ResponsesEmpty
  <2>2. {<< >>} # {}
    OBVIOUS
  <2> QED BY <2>1, <2>2
<1>2. ASSUME NEW u \in Seq(In), NEW x \in In, u \in A PROVE Append(u, x) \in A
  <2>1. PICK i \in Responses(f, u) : TRUE
    BY <1>2
  <2>2. i \in Seq(IO) /\ Inputs(i) = u /\ After(f, 0, i) >= 0
    BY <2>1, ResponsesAre
  <2>3. After(f, 0, i) \in 0 .. k - 1
    BY <2>2, TraceTyped
  <2>4. PICK y \in Out : <<x, y>> \in IO /\ f[After(f, 0, i)][<<x, y>>] \in 0 .. k - 1
    BY <2>3, CompleteAnswers
  <2>5. After(f, 0, Append(i, <<x, y>>)) = f[After(f, 0, i)][<<x, y>>]
    BY <2>2, <2>3, <2>4, AfterAppend
  <2>6. Append(i, <<x, y>>) \in OneMore(f, Responses(f, u), x)
    <3>1. f[After(f, 0, i)][<<x, y>>] >= 0
      BY <2>4
    <3>2. After(f, 0, Append(i, <<x, y>>)) >= 0
      BY <2>5, <3>1
    <3> QED BY <2>1, <3>2, IsOneMore
  <2>7. Append(u, x) \in Seq(In) /\ Responses(f, Append(u, x)) # {}
    BY <2>6, ResponsesAppend
  <2> QED BY <2>7
<1> HIDE DEF A
<1>3. xs \in A
  BY <1>1, <1>2, SeqInduction
<1> QED BY <1>3 DEF A

(***************************************************************************)
(* The test cases are finite trees, and the d-reaching traces start with   *)
(* the empty one.                                                          *)
(***************************************************************************)
NoLonger(tree, n) == \A io \in tree : Len(io) <= n

TreesBounded == \E n \in Nat : \A p \in State \X State : NoLonger(sigma[p], n)

RootReached == rPhase \in {"dreach", "done"} => dReachTrace[0] = << >>

LEMMA TreeForBounded ==
  ASSUME rows \in Machines, SigmaTyped, NEW n \in Nat, \A p \in State \X State : NoLonger(sigma[p], n),
         NEW q1 \in State, NEW q2 \in State, NEW x \in In
  PROVE  NoLonger(TreeFor(q1, q2, x), n + 1)
<1>1. ASSUME NEW y \in PossibleOutputs(rows, q1, x), NEW v \in Below(q1, q2, x, y)
      PROVE  Len(LedBy(x, y, v)) <= n + 1
  <2>0. y \in Out
    BY DEF PossibleOutputs
  <2>1. rows[q1][<<x, y>>] \in State /\ <<x, y>> \in IO
    BY <2>0, OutputsAre
  <2>2. v \in Seq(IO)
    BY BelowTyped
  <2>3. Len(v) <= n
    <3>1. CASE y \in PossibleOutputs(rows, q2, x)
      <4>1. rows[q2][<<x, y>>] \in State
        BY <2>0, <3>1, OutputsAre
      <4>2. v \in sigma[<<rows[q1][<<x, y>>], rows[q2][<<x, y>>]>>]
        BY <3>1 DEF Below
      <4> QED BY <2>1, <4>1, <4>2 DEF NoLonger
    <3>2. CASE y \notin PossibleOutputs(rows, q2, x)
      <4>1. v = << >>
        BY <3>2 DEF Below, EmptyTree
      <4> QED BY <4>1
    <3> QED BY <3>1, <3>2
  <2>4. Len(LedBy(x, y, v)) = Len(v) + 1
    BY <2>1, <2>2 DEF LedBy
  <2> QED BY <2>2, <2>3, <2>4
<1>2. ASSUME NEW io \in TreeFor(q1, q2, x) PROVE Len(io) <= n + 1
  <2>1. io = << >> \/ \E y \in PossibleOutputs(rows, q1, x) : \E v \in Below(q1, q2, x, y) : io = LedBy(x, y, v)
    BY TreeForIs
  <2> QED BY <1>1, <2>1
<1> QED BY <1>2 DEF NoLonger

(* what becomes of a test case in a step of the analysis *)
TreesFrom ==
  \A p \in State \X State :
    \/ sigma'[p] = sigma[p] \/ sigma'[p] = EmptyTree
    \/ \E q1 \in State, q2 \in State, x \in In : sigma'[p] = TreeFor(q1, q2, x)

LEMMA FirstTrees ==
  ASSUME RInv, CalcROneDistinguishable
  PROVE  TreesFrom
<1> DEFINE found == {p \in notRDist : \E x \in In : OutputIntersection(p[1], p[2], x) = {}}
           Sep(p) == {x \in In : OutputIntersection(p[1], p[2], x) = {}}
<1>1. DOMAIN sigma = State \X State /\ \A p \in notRDist : p \in State \X State
  BY DEF RInv, SigmaInv, SigmaTyped, LevelInv, LeftAreOthers
<1>2. sigma' = [p \in State \X State |->
                  IF p \in found THEN TreeFor(p[1], p[2], Min(Sep(p)))
                  ELSE IF p \in Both(found) THEN TreeFor(p[1], p[2], Min(Sep(Mirror(p))))
                  ELSE EmptyTree]
  BY <1>1 DEF CalcROneDistinguishable, Both, Mirror
<1>3. ASSUME NEW p \in found PROVE Min(Sep(p)) \in In /\ p \in State \X State
  <2>1. Sep(p) \subseteq Nat /\ Sep(p) # {} /\ Sep(p) \subseteq In
    BY SizeFacts
  <2> HIDE DEF Sep
  <2>2. Min(Sep(p)) \in Sep(p)
    BY <2>1, MinOf
  <2> QED BY <1>1, <2>1, <2>2
<1> HIDE DEF found, Sep
<1>4. ASSUME NEW p \in State \X State, p \in Both(found) \ found PROVE Mirror(p) \in found
  BY <1>3, <1>4, PairFacts DEF Both
<1>5. ASSUME NEW p \in State \X State
      PROVE  sigma'[p] = EmptyTree \/ \E q1 \in State, q2 \in State, x \in In : sigma'[p] = TreeFor(q1, q2, x)
  <2>0. p[1] \in State /\ p[2] \in State
    OBVIOUS
  <2>1. CASE p \in found
    <3>1. sigma'[p] = TreeFor(p[1], p[2], Min(Sep(p))) /\ Min(Sep(p)) \in In
      BY <1>2, <1>3, <2>1
    <3> QED BY <2>0, <3>1
  <2>2. CASE p \in Both(found) \ found
    <3>1. sigma'[p] = TreeFor(p[1], p[2], Min(Sep(Mirror(p)))) /\ Min(Sep(Mirror(p))) \in In
      BY <1>2, <1>3, <1>4, <2>2
    <3> QED BY <2>0, <3>1
  <2>3. CASE p \notin found /\ p \notin Both(found)
    BY <1>2, <2>3
  <2> QED BY <2>1, <2>2, <2>3
<1> QED BY <1>5 DEF TreesFrom

LEMMA LevelTrees ==
  ASSUME RInv, CalcRLevel
  PROVE  TreesFrom
<1> DEFINE found == {p \in notRDist : \E x \in In : Separates(p, x)}
           Least(p) == CHOOSE x \in In : Separates(p, x) /\ \A z \in In : Separates(p, z) => x <= z
<1>1. DOMAIN sigma = State \X State /\ \A p \in notRDist : p \in State \X State
  BY DEF RInv, SigmaInv, SigmaTyped, LevelInv, LeftAreOthers
<1>2. sigma' = [p \in State \X State |->
                  IF sigma[p] # EmptyTree THEN sigma[p]
                  ELSE IF p \in found THEN TreeFor(p[1], p[2], Least(p))
                  ELSE IF p \in Both(found) THEN TreeFor(p[1], p[2], Least(Mirror(p)))
                  ELSE EmptyTree]
  BY <1>1 DEF CalcRLevel, Level, Both, Mirror
<1>3. ASSUME NEW p \in found PROVE Least(p) \in In /\ p \in State \X State
  <2> DEFINE T == {x \in In : Separates(p, x)}
  <2>1. T \subseteq Nat /\ T # {}
    BY SizeFacts
  <2>2. \E x \in T : \A z \in T : x <= z
    <3> HIDE DEF T
    <3> QED BY <2>1, LeastElement
  <2>3. \E x \in In : Separates(p, x) /\ \A z \in In : Separates(p, z) => x <= z
    BY <2>2
  <2> QED BY <1>1, <2>3
<1> HIDE DEF found, Least
<1>4. ASSUME NEW p \in State \X State, p \in Both(found) \ found PROVE Mirror(p) \in found
  BY <1>3, <1>4, PairFacts DEF Both
<1>5. ASSUME NEW p \in State \X State
      PROVE  \/ sigma'[p] = sigma[p] \/ sigma'[p] = EmptyTree
             \/ \E q1 \in State, q2 \in State, x \in In : sigma'[p] = TreeFor(q1, q2, x)
  <2>0. p[1] \in State /\ p[2] \in State
    OBVIOUS
  <2>a. CASE sigma[p] # EmptyTree
    BY <1>2, <2>a
  <2>1. CASE sigma[p] = EmptyTree /\ p \in found
    <3>1. sigma'[p] = TreeFor(p[1], p[2], Least(p)) /\ Least(p) \in In
      BY <1>2, <1>3, <2>1
    <3> QED BY <2>0, <3>1
  <2>2. CASE sigma[p] = EmptyTree /\ p \in Both(found) \ found
    <3>1. sigma'[p] = TreeFor(p[1], p[2], Least(Mirror(p))) /\ Least(Mirror(p)) \in In
      BY <1>2, <1>3, <1>4, <2>2
    <3> QED BY <2>0, <3>1
  <2>3. CASE sigma[p] = EmptyTree /\ p \notin found /\ p \notin Both(found)
    BY <1>2, <2>3
  <2> QED BY <2>a, <2>1, <2>2, <2>3
<1> QED BY <1>5 DEF TreesFrom

LEMMA TreesStayBounded ==
  ASSUME RInv, TreesBounded, TreesFrom
  PROVE  TreesBounded'
<1>1. PICK n \in Nat : \A p \in State \X State : NoLonger(sigma[p], n)
  BY DEF TreesBounded
<1>2. rows \in Machines /\ SigmaTyped
  BY DEF RInv, LevelInv, LevelTypes, SigmaInv
<1>3. ASSUME NEW p \in State \X State PROVE NoLonger(sigma'[p], n + 1)
  <2>1. CASE sigma'[p] = sigma[p]
    <3>1. \A io \in sigma[p] : io \in Seq(IO) /\ Len(io) <= n
      BY <1>1, <1>2 DEF NoLonger, SigmaTyped
    <3>2. \A io \in sigma[p] : Len(io) <= n + 1
      BY <3>1
    <3> QED BY <2>1, <3>2 DEF NoLonger
  <2>2. CASE sigma'[p] = EmptyTree
    <3>1. \A io \in EmptyTree : Len(io) <= n + 1
      BY DEF EmptyTree
    <3> QED BY <2>2, <3>1 DEF NoLonger
  <2>3. CASE \E q1 \in State, q2 \in State, x \in In : sigma'[p] = TreeFor(q1, q2, x)
    <3>1. PICK q1 \in State, q2 \in State, x \in In : sigma'[p] = TreeFor(q1, q2, x)
      BY <2>3
    <3>2. NoLonger(TreeFor(q1, q2, x), n + 1)
      BY <1>1, <1>2, TreeForBounded
    <3> QED BY <3>1, <3>2
  <2> QED BY <2>1, <2>2, <2>3 DEF TreesFrom
<1>4. n + 1 \in Nat
  OBVIOUS
<1> QED BY <1>3, <1>4 DEF TreesBounded, NoLonger

LEMMA TreesInit ==
  ASSUME RInit
  PROVE  TreesBounded /\ RootReached
<1>1. \A p \in State \X State : NoLonger(sigma[p], 0)
  BY DEF RInit, NoLonger, EmptyTree
<1>2. TreesBounded
  BY <1>1 DEF TreesBounded
<1> QED BY <1>2 DEF RInit, RootReached

LEMMA TreesStep ==
  ASSUME RInv, TreesBounded, RootReached, RNext
  PROVE  TreesBounded' /\ RootReached'
<1>1. CASE CalcROneDistinguishable
  <2>1. rPhase' = "levels"
    BY <1>1 DEF CalcROneDistinguishable
  <2> QED BY <1>1, <2>1, FirstTrees, TreesStayBounded DEF RootReached
<1>2. CASE CalcRLevel
  <2>1. rPhase' = "levels"
    BY <1>2 DEF CalcRLevel
  <2> QED BY <1>2, <2>1, LevelTrees, TreesStayBounded DEF RootReached
<1>3. CASE StartDReach
  <2>1. sigma' = sigma /\ dReachTrace \in [State -> Seq(In) \cup {NoTrace}]
        /\ dReachTrace' = [dReachTrace EXCEPT ![0] = << >>]
    BY <1>3 DEF StartDReach, RInv, CoverInv
  <2>2. 0 \in State
    BY SizeFacts
  <2>3. dReachTrace'[0] = << >>
    BY <2>1, <2>2
  <2> QED BY <2>1, <2>3 DEF TreesBounded, NoLonger, RootReached
<1>4. CASE DReachStep
  <2>1. sigma' = sigma /\ rPhase = "dreach" /\ dReachTrace[0] = << >>
    BY <1>4 DEF DReachStep, RootReached
  <2>2. dReachTrace[0] # NoTrace
    <3>1. << >> \in Seq(In)
      OBVIOUS
    <3> QED BY <2>1, <3>1, NoTraceIsNone
  <2>3. dReachTrace'[0] = dReachTrace[0]
    BY <1>4, <2>2, SizeFacts DEF DReachStep
  <2> QED BY <2>1, <2>3 DEF TreesBounded, NoLonger, RootReached
<1>5. CASE EndDReach
  BY <1>5 DEF EndDReach, TreesBounded, NoLonger, RootReached
<1> QED BY <1>1, <1>2, <1>3, <1>4, <1>5 DEF RNext

(***************************************************************************)
(* What a complete machine of any size answers to a test case.             *)
(***************************************************************************)
AskedBy(tree, w) == \E io \in tree \ {<< >>} : \E y \in Out : w = Changed(io, y)

LeafOf(tree, w) == \A io \in tree : ~(Len(io) = Len(w) + 1 /\ IsPrefix(w, io))

LEMMA AskedTyped ==
  ASSUME NEW tree \in SUBSET Seq(IO), NEW w, AskedBy(tree, w)
  PROVE  /\ w \in Seq(IO)
         /\ \A n \in Nat : NoLonger(tree, n) => Len(w) <= n
<1>1. PICK io \in tree \ {<< >>} : \E y \in Out : w = Changed(io, y)
  BY DEF AskedBy
<1>2. PICK y \in Out : w = Changed(io, y)
  BY <1>1
<1>3. w \in Seq(IO) /\ Len(w) = Len(io)
  BY <1>1, <1>2, ChangedTyped
<1> QED BY <1>3 DEF NoLonger

LEMMA AnswersOnStates ==
  ASSUME NEW k \in Nat, NEW f \in OnStates(k), IsComplete(f), NEW q \in 0 .. k - 1,
         NEW tree \in SUBSET Seq(IO)
  PROVE  \A w : w \in PossibleIOTraces(f, q, tree) <=>
                  AskedBy(tree, w) /\ After(f, q, w) >= 0 /\ LeafOf(tree, w)
<1> DEFINE All == UNION {{Append(Front(io), <<Last(io)[1], y>>) : y \in Out} : io \in tree \ {<< >>}}
<1>1. \A w : w \in All <=> AskedBy(tree, w)
  BY DEF Changed, AskedBy
<1>2. \A w \in All : w \in Seq(IO)
  BY <1>1, AskedTyped
<1>3. ASSUME NEW w \in Seq(IO), After(f, q, w) >= 0, NEW io \in tree, Len(io) = Len(w) + 1
      PROVE  PossibleOutputs(f, After(f, q, w), Last(io)[1]) # {}
  <2>1. After(f, q, w) \in 0 .. k - 1
    BY <1>3, TraceTyped
  <2>2. io \in Seq(IO) /\ io # << >>
    BY <1>3
  <2>3. PICK y : y \in Out
    BY SizeAssumption DEF Out
  <2>4. Last(io)[1] \in In
    BY <2>2, <2>3, ChangedTyped
  <2> QED BY <2>1, <2>4, CompleteAnswers
<1>4. \A w : w \in PossibleIOTraces(f, q, tree) <=>
         /\ w \in All /\ After(f, q, w) >= 0
         /\ \A io \in tree : Len(io) = Len(w) + 1 /\ IsPrefix(w, io)
                              => PossibleOutputs(f, After(f, q, w), Last(io)[1]) = {}
  BY DEF PossibleIOTraces
<1> HIDE DEF All
<1>5. ASSUME NEW w, w \in All, After(f, q, w) >= 0
      PROVE  (\A io \in tree : Len(io) = Len(w) + 1 /\ IsPrefix(w, io)
                              => PossibleOutputs(f, After(f, q, w), Last(io)[1]) = {}) <=> LeafOf(tree, w)
  BY <1>2, <1>3, <1>5 DEF LeafOf
<1> QED BY <1>1, <1>4, <1>5

(* a trace of the test case is an answer, or one more input is asked for *)
LEMMA NextInput ==
  ASSUME NEW tree \in SUBSET Seq(IO), NEW w \in Seq(IO), ~LeafOf(tree, w)
  PROVE  \E x \in In : \A y \in Out : <<x, y>> \in IO /\ AskedBy(tree, Append(w, <<x, y>>))
<1>1. PICK io \in tree : Len(io) = Len(w) + 1 /\ IsPrefix(w, io)
  BY DEF LeafOf
<1>2. io \in Seq(IO) /\ io # << >>
  BY <1>1
<1>3. PICK u \in Seq(IO), e \in IO : io = Append(u, e)
  BY <1>2, SequenceEmptyOrAppend
<1>4. u = w
  <2>1. Len(u) = Len(w)
    BY <1>1, <1>3
  <2>2. \A i \in 1 .. Len(w) : u[i] = io[i] /\ w[i] = io[i]
    <3>1. \A i \in 1 .. Len(w) : w[i] = io[i]
      BY <1>1, <1>2, PrefixIs
    <3>2. \A i \in 1 .. Len(u) : io[i] = u[i]
      BY <1>3
    <3> QED BY <2>1, <3>1, <3>2
  <2>3. \A i \in 1 .. Len(w) : u[i] = w[i]
    BY <2>2
  <2> QED BY <2>1, <2>3, SeqEqual
<1>5. e[1] \in In
  BY DEF IO
<1>6. ASSUME NEW y \in Out PROVE <<e[1], y>> \in IO /\ AskedBy(tree, Append(w, <<e[1], y>>))
  <2>1. <<e[1], y>> \in IO
    BY <1>5 DEF IO
  <2>2. Changed(io, y) = Append(w, <<e[1], y>>)
    BY <1>3, <1>4, ChangedAppend
  <2> QED BY <1>1, <1>2, <2>1, <2>2 DEF AskedBy
<1> QED BY <1>5, <1>6

(* The longest continuation of a trace of the test case is an answer.       *)
LEMMA AnswerExtends ==
  ASSUME NEW k \in Nat, NEW f \in OnStates(k), IsComplete(f), NEW p \in 0 .. k - 1,
         NEW tree \in SUBSET Seq(IO), NEW n \in Nat, NoLonger(tree, n),
         NEW w \in Seq(IO), AskedBy(tree, w), After(f, p, w) >= 0
  PROVE  \E z \in Seq(IO) : w \o z \in PossibleIOTraces(f, p, tree) /\ w \o z \in Seq(IO)
<1> DEFINE Goes(z) == AskedBy(tree, w \o z) /\ After(f, p, w \o z) >= 0
           Left == {n - Len(w \o z) : z \in {z \in Seq(IO) : Goes(z)}}
<1>1. \A z \in Seq(IO) : w \o z \in Seq(IO)
  OBVIOUS
<1>2. \A z \in Seq(IO) : Goes(z) => n - Len(w \o z) \in Nat
  <2> SUFFICES ASSUME NEW z \in Seq(IO), Goes(z) PROVE n - Len(w \o z) \in Nat
    OBVIOUS
  <2>1. Len(w \o z) <= n
    BY AskedTyped
  <2>2. Len(w \o z) \in Nat
    BY <1>1
  <2> QED BY <2>1, <2>2
<1>3. Left \subseteq Nat /\ Left # {}
  <2>1. << >> \in Seq(IO) /\ w \o << >> = w
    OBVIOUS
  <2>2. Goes(<< >>)
    BY <2>1
  <2> HIDE DEF Goes
  <2> QED BY <1>2, <2>1, <2>2
<1>4. PICK d \in Left : \A e \in Left : d <= e
  BY <1>3, LeastElement
<1>5. PICK z \in Seq(IO) : Goes(z) /\ d = n - Len(w \o z)
  OBVIOUS
<1>6. ASSUME ~LeafOf(tree, w \o z) PROVE FALSE
  <2>1. PICK x \in In : \A y \in Out : <<x, y>> \in IO /\ AskedBy(tree, Append(w \o z, <<x, y>>))
    BY <1>1, <1>6, NextInput
  <2>2. After(f, p, w \o z) \in 0 .. k - 1
    BY <1>1, <1>5, TraceTyped
  <2>3. PICK y \in Out : <<x, y>> \in IO /\ f[After(f, p, w \o z)][<<x, y>>] \in 0 .. k - 1
    BY <2>2, CompleteAnswers
  <2>4. w \o Append(z, <<x, y>>) = Append(w \o z, <<x, y>>) /\ Append(z, <<x, y>>) \in Seq(IO)
    BY <2>3, ConcatAppend
  <2>5. After(f, p, Append(w \o z, <<x, y>>)) = f[After(f, p, w \o z)][<<x, y>>]
    <3>1. w \o z \in Seq(IO) /\ <<x, y>> \in IO
      BY <1>1, <2>3
    <3>2. After(f, p, Append(w \o z, <<x, y>>)) =
            IF After(f, p, w \o z) < 0 THEN -1 ELSE f[After(f, p, w \o z)][<<x, y>>]
      BY <3>1, AfterAppend
    <3> QED BY <2>2, <3>2
  <2>6. After(f, p, w \o Append(z, <<x, y>>)) >= 0
    <3>1. f[After(f, p, w \o z)][<<x, y>>] >= 0
      BY <2>3
    <3> QED BY <2>4, <2>5, <3>1
  <2>7. Goes(Append(z, <<x, y>>))
    BY <2>1, <2>4, <2>6
  <2>8. Len(w \o Append(z, <<x, y>>)) = Len(w \o z) + 1 /\ Len(w \o z) \in Nat
    BY <1>1, <2>3, <2>4
  <2> HIDE DEF Goes
  <2>9. n - Len(w \o Append(z, <<x, y>>)) \in Left
    BY <2>4, <2>7
  <2>10. d <= n - Len(w \o Append(z, <<x, y>>))
    BY <1>4, <2>9
  <2> QED BY <1>5, <2>8, <2>10
<1>7. w \o z \in PossibleIOTraces(f, p, tree)
  BY <1>5, <1>6, AnswersOnStates
<1> QED BY <1>1, <1>7

(***************************************************************************)
(* Two states told apart cannot both allow what one state of a complete    *)
(* machine answers to the test cases in use.                               *)
(***************************************************************************)
LEMMA ToldSeparates ==
  ASSUME RInv, TreesBounded, IsComplete(rows), omega \in AdaptiveRCharacterisationSets,
         NEW k \in Nat, NEW f \in OnStates(k), IsComplete(f), NEW p \in 0 .. k - 1,
         NEW q1 \in State, NEW q2 \in State, <<q1, q2>> \in Told,
         AdaptiveTraces(f, p) \subseteq AdaptiveTraces(rows, q1),
         AdaptiveTraces(f, p) \subseteq AdaptiveTraces(rows, q2)
  PROVE  FALSE
<1> DEFINE T == sigma[<<q1, q2>>]
<1>1. /\ SigmaTyped /\ rows \in Machines /\ T \in SUBSET Seq(IO)
      /\ HasEdge(T) /\ rDistinguishes(q1, q2, T)
  BY DEF RInv, LevelInv, LevelTypes, SigmaInv, SigmaTyped
<1>2. PICK n \in Nat : \A r \in State \X State : NoLonger(sigma[r], n)
  BY DEF TreesBounded
<1>3. NoLonger(T, n)
  BY <1>2
<1>4. DOMAIN sigma = State \X State
  BY <1>1 DEF SigmaTyped
<1>5. T \in AllTests
  <2>1. T # EmptyTree
    <3>1. PICK e \in IO : <<e>> \in T
      BY <1>1 DEF HasEdge
    <3>2. <<e>> # << >>
      OBVIOUS
    <3> QED BY <3>1, <3>2 DEF EmptyTree
  <2> QED BY <1>4, <2>1 DEF AllTests
<1>6. PICK other \in omega : T \subseteq other
  BY <1>5 DEF AdaptiveRCharacterisationSets, Covered
<1>7. \A tree \in omega : tree \in SUBSET Seq(IO) /\ NoLonger(tree, n)
  <2>1. \A tree \in omega : \E r \in State \X State : tree = sigma[r]
    BY <1>4 DEF AdaptiveRCharacterisationSets, AllTests
  <2> QED BY <1>1, <1>2, <2>1 DEF SigmaTyped
<1>s. State = 0 .. numStates - 1 /\ rows \in OnStates(numStates) /\ numStates \in Nat
  BY <1>1, MachinesOnStates, SizeAssumption DEF State
<1> HIDE DEF T
<1>8. PICK e \in IO : <<e>> \in T
  BY <1>1 DEF HasEdge
<1>9. e[1] \in In
  BY DEF IO
<1>10. PICK y \in Out : <<e[1], y>> \in IO /\ f[p][<<e[1], y>>] \in 0 .. k - 1
  BY <1>9, CompleteAnswers
<1> DEFINE u == << <<e[1], y>> >>
<1>11. u \in Seq(IO) /\ AskedBy(T, u)
  <2>1. << >> \in Seq(IO) /\ Append(<< >>, e) = <<e>> /\ Append(<< >>, <<e[1], y>>) = u /\ <<e>> # << >>
    OBVIOUS
  <2>2. Changed(<<e>>, y) = u
    BY <2>1, ChangedAppend
  <2>3. u \in Seq(IO)
    BY <1>10
  <2> HIDE DEF u
  <2> QED BY <1>8, <2>1, <2>2, <2>3 DEF AskedBy
<1>12. After(f, p, u) >= 0
  <2>1. << >> \in Seq(IO) /\ Append(<< >>, <<e[1], y>>) = u
    OBVIOUS
  <2>2. After(f, p, u) = f[p][<<e[1], y>>]
    <3>1. After(f, p, << >>) = p /\ ~(p < 0)
      BY AfterEmpty
    <3>2. After(f, p, Append(<< >>, <<e[1], y>>)) =
            IF After(f, p, << >>) < 0 THEN -1 ELSE f[After(f, p, << >>)][<<e[1], y>>]
      BY <1>10, <2>1, AfterAppend
    <3> QED BY <2>1, <3>1, <3>2
  <2>3. f[p][<<e[1], y>>] >= 0
    BY <1>10
  <2> QED BY <2>2, <2>3
<1> HIDE DEF u
<1>13. PICK z \in Seq(IO) : u \o z \in PossibleIOTraces(f, p, T) /\ u \o z \in Seq(IO)
  BY <1>1, <1>3, <1>11, <1>12, AnswerExtends
<1> DEFINE w == u \o z
<1>14. w \in Seq(IO) /\ AskedBy(T, w) /\ After(f, p, w) >= 0 /\ LeafOf(T, w)
  BY <1>1, <1>13, AnswersOnStates
<1> HIDE DEF w
<1>15. AskedBy(other, w)
  BY <1>6, <1>14 DEF AskedBy
<1>16. other \in SUBSET Seq(IO) /\ NoLonger(other, n)
  BY <1>7
<1>17. PICK v \in Seq(IO) : w \o v \in PossibleIOTraces(f, p, other) /\ w \o v \in Seq(IO)
  BY <1>14, <1>15, <1>16, AnswerExtends
<1>18. w \o v \in AdaptiveTraces(f, p)
  BY <1>17 DEF AdaptiveTraces
<1>19. ASSUME NEW q \in State, w \o v \in AdaptiveTraces(rows, q) PROVE w \in PossibleIOTraces(rows, q, T)
  <2>1. PICK tree \in omega : w \o v \in PossibleIOTraces(rows, q, tree)
    BY <1>19 DEF AdaptiveTraces
  <2>2. After(rows, q, w \o v) >= 0
    BY <2>1 DEF PossibleIOTraces
  <2>3. After(rows, q, w) >= 0
    BY <1>s, <1>14, <1>17, <2>2, TraceParts
  <2> QED BY <1>1, <1>s, <1>14, <2>3, AnswersOnStates
<1>20. w \in PossibleIOTraces(rows, q1, T) /\ w \in PossibleIOTraces(rows, q2, T)
  BY <1>18, <1>19
<1> QED BY <1>1, <1>20 DEF rDistinguishes

(***************************************************************************)
(* The sets of pairwise r-distinguishable states.                          *)
(***************************************************************************)
LEMMA FoldInvariant ==
  ASSUME NEW k, NEW base, NEW X, NEW A, base \in A,
         \A a \in A, x \in X : StepOf(k, a, x) \in A, NEW xs \in Seq(X)
  PROVE  FoldOf(k, base, xs) \in A
<1> DEFINE B == {u \in Seq(X) : FoldOf(k, base, u) \in A}
<1>1. << >> \in B
  <2>1. FoldOf(k, base, << >>) \in A /\ << >> \in Seq(X)
    BY FoldOfEmpty
  <2> QED BY <2>1
<1>2. ASSUME NEW u \in Seq(X), NEW x \in X, u \in B PROVE Append(u, x) \in B
  <2>1. FoldOf(k, base, Append(u, x)) = StepOf(k, FoldOf(k, base, u), x)
    BY FoldOfAppend
  <2>2. FoldOf(k, base, Append(u, x)) \in A /\ Append(u, x) \in Seq(X)
    BY <1>2, <2>1
  <2> QED BY <2>2
<1> HIDE DEF B
<1>3. xs \in B
  BY <1>1, <1>2, SeqInduction
<1> QED BY <1>3 DEF B

LEMMA MaxOf ==
  ASSUME NEW n \in Nat, NEW T, T \subseteq 0 .. n, T # {}
  PROVE  Max(T) \in T /\ \A y \in T : y <= Max(T)
<1> DEFINE D == {n - x : x \in T}
<1>1. D \subseteq Nat /\ D # {}
  OBVIOUS
<1>2. PICK d \in D : \A e \in D : d <= e
  <2> HIDE DEF D
  <2> QED BY <1>1, LeastElement
<1>3. PICK x \in T : d = n - x
  BY <1>2
<1>4. ASSUME NEW y \in T PROVE x >= y
  <2>1. n - y \in D
    OBVIOUS
  <2>2. d <= n - y
    BY <1>2, <2>1
  <2>3. x \in 0 .. n /\ y \in 0 .. n
    OBVIOUS
  <2> QED BY <1>3, <2>2, <2>3
<1>5. Max(T) \in T /\ \A y \in T : Max(T) >= y
  BY <1>4 DEF Max
<1>6. \A y \in T : y \in Int
  OBVIOUS
<1> QED BY <1>5, <1>6

StatesInOrder == [i \in 1 .. numStates |-> i - 1]

LEMMA StatesInOrderIs ==
  /\ StatesInOrder \in Seq(State) /\ DOMAIN StatesInOrder = 1 .. numStates
  /\ \A T \in SUBSET (1 .. numStates) : T # {} => StatesInOrder[Max(T)] \in State
<1>1. \A i \in 1 .. numStates : i - 1 \in State
  BY SizeAssumption DEF State
<1>2. StatesInOrder \in [1 .. numStates -> State]
  BY <1>1 DEF StatesInOrder
<1>3. StatesInOrder \in Seq(State)
  BY <1>2, SizeAssumption
<1>4. ASSUME NEW T \in SUBSET (1 .. numStates), T # {} PROVE StatesInOrder[Max(T)] \in State
  <2>1. T \subseteq 0 .. numStates /\ numStates \in Nat
    BY SizeAssumption
  <2>2. Max(T) \in T
    BY <1>4, <2>1, MaxOf
  <2> QED BY <1>2, <2>2
<1> QED BY <1>2, <1>3, <1>4

LEMMA SetForIs ==
  ASSUME LevelInv, NEW q
  PROVE  SetFor(q) = FoldOf(<<"set", q, Told>>, {q}, StatesInOrder)
<1> DEFINE k == <<"set", q, Told>>
           Add(a, b) == IF b # q /\ \A s \in a : RDistinguishable(b, s) THEN a \cup {b} ELSE a
           D == DOMAIN StatesInOrder
           Is(iter) == iter = [s \in SUBSET D |-> IF s = {} THEN {q}
                                ELSE Add(iter[s \ {Max(s)}], StatesInOrder[Max(s)])]
<1>1. SetFor(q) = (CHOOSE iter : Is(iter))[D]
  BY DEF SetFor, FoldLeft, MapThenFoldSet, StatesInOrder
<1>2. \A a, b : StepOf(k, a, b) = Add(a, b)
  <2>1. \A a, b : StepOf(k, a, b) = AddApart(q, Told, a, b)
    BY StepCases
  <2>2. \A b, s : RDistinguishable(b, s) <=> <<b, s>> \in Told
    BY ToldIs
  <2> HIDE DEF k
  <2> QED BY <2>1, <2>2 DEF AddApart
<1> HIDE DEF k, Add
<1>3. \A iter : Is(iter) <=> IsFold(iter, k, {q}, StatesInOrder)
  BY <1>2 DEF IsFold
<1> HIDE DEF Is
<1>4. (CHOOSE iter : Is(iter)) = CHOOSE iter : IsFold(iter, k, {q}, StatesInOrder)
  BY <1>3
<1> QED BY <1>1, <1>4 DEF FoldOf, k

LEMMA MaximalSetsIs ==
  MaximalSets = FoldOf(<<"sets", [q \in State |-> SetFor(q)]>>, {}, StatesInOrder)
<1> DEFINE F == [q \in State |-> SetFor(q)]
           k == <<"sets", F>>
           Add(a, b) == IF b \in UNION a THEN a ELSE a \cup {SetFor(b)}
           D == DOMAIN StatesInOrder
           Is(iter) == iter = [s \in SUBSET D |-> IF s = {} THEN {}
                                ELSE Add(iter[s \ {Max(s)}], StatesInOrder[Max(s)])]
<1>1. MaximalSets = (CHOOSE iter : Is(iter))[D]
  BY DEF MaximalSets, FoldLeft, MapThenFoldSet, StatesInOrder
<1>2. \A a : \A b \in State : StepOf(k, a, b) = Add(a, b)
  <2>1. \A a, b : StepOf(k, a, b) = AddSet(F, a, b)
    BY StepCases
  <2>2. \A b \in State : F[b] = SetFor(b)
    OBVIOUS
  <2> HIDE DEF k, F
  <2> QED BY <2>1, <2>2 DEF AddSet
<1>3. \A s \in SUBSET D : s # {} => StatesInOrder[Max(s)] \in State
  BY StatesInOrderIs
<1> HIDE DEF k, Add, F
<1>4. ASSUME NEW iter PROVE Is(iter) <=> IsFold(iter, k, {}, StatesInOrder)
  <2>1. \A s \in SUBSET D :
          (IF s = {} THEN {} ELSE Add(iter[s \ {Max(s)}], StatesInOrder[Max(s)]))
          = (IF s = {} THEN {} ELSE StepOf(k, iter[s \ {Max(s)}], StatesInOrder[Max(s)]))
    BY <1>2, <1>3
  <2> HIDE DEF D
  <2>2. [s \in SUBSET D |-> IF s = {} THEN {} ELSE Add(iter[s \ {Max(s)}], StatesInOrder[Max(s)])]
        = [s \in SUBSET D |-> IF s = {} THEN {} ELSE StepOf(k, iter[s \ {Max(s)}], StatesInOrder[Max(s)])]
    BY <2>1
  <2> QED BY <2>2 DEF IsFold, D
<1> HIDE DEF Is
<1>5. (CHOOSE iter : Is(iter)) = CHOOSE iter : IsFold(iter, k, {}, StatesInOrder)
  BY <1>4
<1> QED BY <1>1, <1>5 DEF FoldOf, k, F

Told2(S) == \A a, b \in S : a # b => <<a, b>> \in Told

LEMMA MaximalSetsTold ==
  ASSUME LevelInv, NEW S \in MaximalSets
  PROVE  S \in SUBSET State /\ Told2(S)
<1> DEFINE G == {T \in SUBSET State : Told2(T)}
           F == [q \in State |-> SetFor(q)]
<1>1. \A p \in Told : p \in State \X State /\ <<p[2], p[1]>> \in Told
  BY DEF LevelInv, ToldBothWays, Mirror
<1>2. ASSUME NEW q \in State PROVE SetFor(q) \in G
  <2>1. {q} \in G
    BY DEF Told2
  <2>2. ASSUME NEW a \in G, NEW b \in State PROVE StepOf(<<"set", q, Told>>, a, b) \in G
    <3>1. StepOf(<<"set", q, Told>>, a, b) = AddApart(q, Told, a, b)
      BY StepCases
    <3>2. ASSUME \A s \in a : <<b, s>> \in Told PROVE a \cup {b} \in G
      <4>1. \A s \in a : <<s, b>> \in Told
        BY <1>1, <3>2
      <4> QED BY <3>2, <4>1 DEF Told2
    <3> QED BY <3>1, <3>2 DEF AddApart
  <2>3. StatesInOrder \in Seq(State)
    BY StatesInOrderIs
  <2> HIDE DEF G
  <2>4. FoldOf(<<"set", q, Told>>, {q}, StatesInOrder) \in G
    BY <2>1, <2>2, <2>3, FoldInvariant
  <2> QED BY <2>4, SetForIs
<1>3. MaximalSets \in SUBSET G
  <2> HIDE DEF G
  <2>1. {} \in SUBSET G
    OBVIOUS
  <2>2. ASSUME NEW a \in SUBSET G, NEW b \in State PROVE StepOf(<<"sets", F>>, a, b) \in SUBSET G
    <3>1. StepOf(<<"sets", F>>, a, b) = AddSet(F, a, b)
      BY StepCases
    <3>2. F[b] \in G
      BY <1>2
    <3> HIDE DEF F
    <3> QED BY <3>1, <3>2 DEF AddSet
  <2>3. StatesInOrder \in Seq(State)
    BY StatesInOrderIs
  <2> HIDE DEF F
  <2>4. FoldOf(<<"sets", F>>, {}, StatesInOrder) \in SUBSET G
    BY <2>1, <2>2, <2>3, FoldInvariant
  <2> QED BY <2>4, MaximalSetsIs DEF F
<1> QED BY <1>3

(***************************************************************************)
(* Counting: the visits to the states of a set, and states that differ.    *)
(***************************************************************************)
Prefix(io, n) == SubSeq(io, 1, n)

LEMMA VisitsAre ==
  ASSUME NEW q, NEW base, NEW io, NEW w
  PROVE  w \in Visits(q, base, io) <=>
           \E n \in Len(base) + 1 .. Len(io) : w = Prefix(io, n) /\ After(rows, 0, w) = q
<1> DEFINE N == {n \in Len(base) + 1 .. Len(io) : After(rows, 0, Prefix(io, n)) = q}
<1>1. Visits(q, base, io) = {Prefix(io, n) : n \in N}
  BY DEF Visits, Prefix
<1>2. w \in {Prefix(io, n) : n \in N} <=> \E n \in N : w = Prefix(io, n)
  BY Zenon
<1> QED BY <1>1, <1>2

LEMMA VisitsFinite ==
  ASSUME NEW q, NEW base \in Seq(IO), NEW io \in Seq(IO)
  PROVE  IsFiniteSet(Visits(q, base, io))
<1> DEFINE P == Len(base) + 1 .. Len(io)
           g == [n \in P |-> Prefix(io, n)]
           T == Visits(q, base, io)
<1>1. IsFiniteSet(P)
  <2>1. Len(base) + 1 \in Int /\ Len(io) \in Int
    OBVIOUS
  <2> QED BY <2>1, FS_Interval
<1>2. ASSUME NEW z \in T PROVE \E p \in P : z = g[p]
  <2>1. PICK n \in P : z = Prefix(io, n)
    BY VisitsAre
  <2> QED BY <2>1
<1>3. DOMAIN g = P
  OBVIOUS
<1> HIDE DEF P, g, T
<1>4. IsFiniteSet(T)
  BY <1>1, <1>2, <1>3, ImageFinite
<1> QED BY <1>4 DEF T

AllVisits(s, base, io) == UNION {Visits(q, base, io) : q \in s}

LEMMA AllVisitsFinite ==
  ASSUME NEW s, IsFiniteSet(s), NEW base \in Seq(IO), NEW io \in Seq(IO)
  PROVE  IsFiniteSet(AllVisits(s, base, io))
<1> DEFINE g == [q \in s |-> Visits(q, base, io)]
           T == {Visits(q, base, io) : q \in s}
<1>1. \A z \in T : \E q \in s : z = g[q]
  OBVIOUS
<1>2. \A z \in T : IsFiniteSet(z)
  BY VisitsFinite
<1>3. DOMAIN g = s
  OBVIOUS
<1> HIDE DEF g, T
<1>4. IsFiniteSet(T)
  BY <1>1, <1>3, ImageFinite
<1>5. IsFiniteSet(UNION T)
  BY <1>2, <1>4, FS_UNION
<1> QED BY <1>5 DEF AllVisits, T

(* no trace visits two states *)
LEMMA AllVisitsSplit ==
  ASSUME NEW s, IsFiniteSet(s), NEW x \in s, NEW base \in Seq(IO), NEW io \in Seq(IO)
  PROVE  Cardinality(AllVisits(s, base, io))
           = Cardinality(Visits(x, base, io)) + Cardinality(AllVisits(s \ {x}, base, io))
<1> DEFINE V == Visits(x, base, io)
           R == AllVisits(s \ {x}, base, io)
<1>1. AllVisits(s, base, io) = V \cup R
  BY DEF AllVisits
<1>2. V \cap R = {}
  <2> SUFFICES ASSUME NEW w \in V, NEW q \in s \ {x}, w \in Visits(q, base, io) PROVE FALSE
    BY DEF AllVisits
  <2>1. After(rows, 0, w) = x /\ After(rows, 0, w) = q
    BY VisitsAre
  <2> QED BY <2>1
<1>3. IsFiniteSet(V) /\ IsFiniteSet(R)
  <2>1. IsFiniteSet(s \ {x})
    BY FS_RemoveElement
  <2> QED BY <2>1, VisitsFinite, AllVisitsFinite
<1> HIDE DEF V, R
<1>4. Cardinality(V \cup R) = Cardinality(V) + Cardinality(R) - Cardinality(V \cap R)
  BY <1>3, FS_Union
<1>5. Cardinality(V \cap R) = 0 /\ Cardinality(V) \in Nat /\ Cardinality(R) \in Nat
  BY <1>2, <1>3, FS_EmptySet, FS_CardinalityType
<1> QED BY <1>1, <1>4, <1>5 DEF V, R

LEMMA VisitsSum ==
  ASSUME NEW S, IsFiniteSet(S), NEW base \in Seq(IO), NEW io \in Seq(IO)
  PROVE  MapThenSumSet(LAMBDA q : Cardinality(Visits(q, base, io)), S) = Cardinality(AllVisits(S, base, io))
<1> DEFINE V(q) == Cardinality(Visits(q, base, io))
           Elt(s) == CHOOSE x \in s : TRUE
           Is(iter) == iter = [s \in SUBSET S |-> IF s = {} THEN 0 ELSE V(Elt(s)) + iter[s \ {Elt(s)}]]
           g == [s \in SUBSET S |-> Cardinality(AllVisits(s, base, io))]
<1>1. MapThenSumSet(LAMBDA q : Cardinality(Visits(q, base, io)), S) = (CHOOSE iter : Is(iter))[S]
  BY DEF MapThenSumSet, MapThenFoldSet
<1>2. \A s \in SUBSET S : s # {} => Elt(s) \in s
  OBVIOUS
<1>3. \A s \in SUBSET S : s # {} =>
        Cardinality(AllVisits(s, base, io)) = V(Elt(s)) + Cardinality(AllVisits(s \ {Elt(s)}, base, io))
  <2> SUFFICES ASSUME NEW s \in SUBSET S, s # {}
               PROVE  Cardinality(AllVisits(s, base, io))
                        = V(Elt(s)) + Cardinality(AllVisits(s \ {Elt(s)}, base, io))
    OBVIOUS
  <2>1. Elt(s) \in s /\ IsFiniteSet(s)
    BY <1>2, FS_Subset
  <2> HIDE DEF Elt
  <2> QED BY <2>1, AllVisitsSplit
<1>4. Cardinality(AllVisits({}, base, io)) = 0
  <2>1. AllVisits({}, base, io) = {}
    BY DEF AllVisits
  <2> QED BY <2>1, FS_EmptySet
<1> HIDE DEF V, Elt
<1>5. Is(g)
  <2>1. ASSUME NEW s \in SUBSET S
        PROVE  Cardinality(AllVisits(s, base, io)) = IF s = {} THEN 0 ELSE V(Elt(s)) + g[s \ {Elt(s)}]
    <3>1. s \ {Elt(s)} \in SUBSET S
      OBVIOUS
    <3>2. g[s \ {Elt(s)}] = Cardinality(AllVisits(s \ {Elt(s)}, base, io))
      BY <3>1
    <3> HIDE DEF g
    <3> QED BY <1>3, <1>4, <3>2
  <2> DEFINE h == [s \in SUBSET S |-> IF s = {} THEN 0 ELSE V(Elt(s)) + g[s \ {Elt(s)}]]
  <2>2. g = h
    <3> HIDE DEF V, Elt
    <3> QED BY <2>1
  <2> QED BY <2>2
<1> DEFINE it == CHOOSE iter : Is(iter)
<1>6. Is(it)
  BY <1>5
<1>7. \A s \in SUBSET S : it[s] = IF s = {} THEN 0 ELSE V(Elt(s)) + it[s \ {Elt(s)}]
  <2> HIDE DEF it
  <2> QED BY <1>6
<1> HIDE DEF Is, it, g
<1> DEFINE A == {n \in Nat : \A s \in SUBSET S : Cardinality(s) = n => it[s] = Cardinality(AllVisits(s, base, io))}
<1>8. 0 \in A
  <2> SUFFICES ASSUME NEW s \in SUBSET S, Cardinality(s) = 0 PROVE it[s] = Cardinality(AllVisits(s, base, io))
    OBVIOUS
  <2>1. s = {}
    BY FS_Subset, FS_EmptySet
  <2> QED BY <1>4, <1>7, <2>1
<1>9. ASSUME NEW n \in Nat, n \in A PROVE n + 1 \in A
  <2> SUFFICES ASSUME NEW s \in SUBSET S, Cardinality(s) = n + 1
               PROVE  it[s] = Cardinality(AllVisits(s, base, io))
    OBVIOUS
  <2>1. IsFiniteSet(s) /\ s # {}
    <3>1. IsFiniteSet(s)
      BY FS_Subset
    <3>2. n + 1 # 0
      OBVIOUS
    <3> QED BY <3>1, <3>2, FS_EmptySet
  <2>2. Elt(s) \in s
    BY <1>2, <2>1
  <2>3. Cardinality(s \ {Elt(s)}) = n
    <3>1. Cardinality(s \ {Elt(s)}) = Cardinality(s) - 1
      BY <2>1, <2>2, FS_RemoveElement
    <3> QED BY <3>1
  <2>4. it[s \ {Elt(s)}] = Cardinality(AllVisits(s \ {Elt(s)}, base, io))
    BY <1>9, <2>3
  <2> QED BY <1>3, <1>7, <2>1, <2>4
<1> HIDE DEF A
<1>10. Nat \subseteq A
  BY <1>8, <1>9, SetInduction
<1>11. it[S] = Cardinality(AllVisits(S, base, io))
  BY <1>10, FS_CardinalityType DEF A
<1> QED BY <1>1, <1>11 DEF it

LEMMA FamilySize ==
  ASSUME NEW X, NEW p, DOMAIN p = X, NEW T, IsFiniteSet(T),
         \A a \in X : p[a] \in T, \A z \in T : \E a \in X : z = p[a],
         \A a1, a2 \in X : p[a1] = p[a2] => a1 = a2
  PROVE  Cardinality(X) = Cardinality(T) /\ Cardinality(X) \in Nat
<1> DEFINE pp == [a \in X |-> p[a]]
<1>1. pp \in Injection(X, T) /\ pp \in Surjection(X, T)
  <2>1. pp \in [X -> T]
    OBVIOUS
  <2>2. \A a1, a2 \in X : pp[a1] = pp[a2] => a1 = a2
    OBVIOUS
  <2>3. \A z \in T : \E a \in X : pp[a] = z
    OBVIOUS
  <2> QED BY <2>1, <2>2, <2>3 DEF Injection, Surjection, IsInjective
<1> HIDE DEF pp
<1>2. IsFiniteSet(X) /\ Cardinality(X) = Cardinality(T)
  BY <1>1, FS_Injection
<1> QED BY <1>2, FS_CardinalityType

(* three families of different states of a machine with k states *)
LEMMA DifferentStates ==
  ASSUME NEW k \in Nat, NEW A, NEW B, NEW C, NEW f, NEW g, NEW h,
         DOMAIN f = A, DOMAIN g = B, DOMAIN h = C,
         \A a \in A : f[a] \in 0 .. k - 1, \A b \in B : g[b] \in 0 .. k - 1, \A c \in C : h[c] \in 0 .. k - 1,
         \A a1, a2 \in A : f[a1] = f[a2] => a1 = a2,
         \A b1, b2 \in B : g[b1] = g[b2] => b1 = b2,
         \A c1, c2 \in C : h[c1] = h[c2] => c1 = c2,
         \A a \in A, b \in B : f[a] # g[b],
         \A a \in A, c \in C : f[a] # h[c],
         \A b \in B, c \in C : g[b] # h[c]
  PROVE  Cardinality(A) + Cardinality(B) + Cardinality(C) <= k
<1> DEFINE K == 0 .. k - 1
           FA == {f[a] : a \in A}
           GB == {g[b] : b \in B}
           HC == {h[c] : c \in C}
<1>1. FA \in SUBSET K /\ GB \in SUBSET K /\ HC \in SUBSET K
  OBVIOUS
<1>2. FA \cap GB = {} /\ FA \cap HC = {} /\ GB \cap HC = {}
  OBVIOUS
<1>3. /\ \A z \in FA : \E a \in A : z = f[a]
      /\ \A z \in GB : \E b \in B : z = g[b]
      /\ \A z \in HC : \E c \in C : z = h[c]
      /\ \A a \in A : f[a] \in FA
      /\ \A b \in B : g[b] \in GB
      /\ \A c \in C : h[c] \in HC
  OBVIOUS
<1> HIDE DEF FA, GB, HC
<1>f. IsFiniteSet(FA) /\ IsFiniteSet(GB) /\ IsFiniteSet(HC)
  <2>1. IsFiniteSet(K)
    BY FS_Interval
  <2> HIDE DEF K
  <2> QED BY <1>1, <2>1, FS_Subset
<1>4. /\ Cardinality(A) = Cardinality(FA) /\ Cardinality(A) \in Nat
      /\ Cardinality(B) = Cardinality(GB) /\ Cardinality(B) \in Nat
      /\ Cardinality(C) = Cardinality(HC) /\ Cardinality(C) \in Nat
  <2>1. Cardinality(A) = Cardinality(FA) /\ Cardinality(A) \in Nat
    BY <1>3, <1>f, FamilySize
  <2>2. Cardinality(B) = Cardinality(GB) /\ Cardinality(B) \in Nat
    BY <1>3, <1>f, FamilySize
  <2>3. Cardinality(C) = Cardinality(HC) /\ Cardinality(C) \in Nat
    BY <1>3, <1>f, FamilySize
  <2> QED BY <2>1, <2>2, <2>3
<1>5. IsFiniteSet(K) /\ Cardinality(K) = k
  BY FS_Interval
<1>6. IsFiniteSet(FA \cup GB) /\ Cardinality(FA \cup GB) = Cardinality(FA) + Cardinality(GB)
  <2>1. Cardinality(FA \cup GB) = Cardinality(FA) + Cardinality(GB) - Cardinality(FA \cap GB) /\ IsFiniteSet(FA \cup GB)
    BY <1>f, FS_Union
  <2>2. Cardinality(FA \cap GB) = 0
    BY <1>2, FS_EmptySet
  <2> QED BY <1>4, <2>1, <2>2
<1>7. IsFiniteSet(FA \cup GB \cup HC)
      /\ Cardinality(FA \cup GB \cup HC) = Cardinality(FA) + Cardinality(GB) + Cardinality(HC)
  <2>1. (FA \cup GB) \cap HC = {}
    BY <1>2
  <2>2. Cardinality((FA \cup GB) \cup HC) = Cardinality(FA \cup GB) + Cardinality(HC) - Cardinality((FA \cup GB) \cap HC)
        /\ IsFiniteSet((FA \cup GB) \cup HC)
    BY <1>f, <1>6, FS_Union
  <2>3. Cardinality((FA \cup GB) \cap HC) = 0
    BY <2>1, FS_EmptySet
  <2> QED BY <1>4, <1>6, <2>2, <2>3
<1>8. Cardinality(FA \cup GB \cup HC) <= k
  <2>1. FA \cup GB \cup HC \in SUBSET K
    BY <1>1
  <2> HIDE DEF K
  <2> QED BY <1>5, <2>1, FS_Subset
<1> QED BY <1>4, <1>7, <1>8

(***************************************************************************)
(* Mixed radices.                                                          *)
(***************************************************************************)
LEMMA DivisionIs ==
  ASSUME NEW a \in Nat, NEW b \in Nat \ {0}
  PROVE  /\ a \div b \in Nat /\ a % b \in 0 .. b - 1
         /\ a = b * (a \div b) + (a % b)
<1>1. a = b * (a \div b) + (a % b)
  OBVIOUS
<1>2. a % b \in 0 .. b - 1
  OBVIOUS
<1>3. a \div b \in Int
  OBVIOUS
<1>4. a \div b >= 0
  OBVIOUS
<1> QED BY <1>1, <1>2, <1>3, <1>4

LEMMA QuotientUnique ==
  ASSUME NEW b \in Nat \ {0}, NEW q \in Nat, NEW r \in Nat, r < b, NEW p \in Nat, NEW s \in Nat, s < b,
         b * q + r = b * p + s
  PROVE  q = p /\ r = s
<1>1. ASSUME q < p PROVE FALSE
  <2>1. PICK d \in Nat : p = q + 1 + d
    <3>1. p - q - 1 \in Nat /\ p = q + 1 + (p - q - 1)
      BY <1>1
    <3> QED BY <3>1
  <2>2. b * p = b * q + b + b * d /\ b * d \in Nat /\ b * q \in Nat
    BY <2>1
  <2> QED BY <2>2
<1>2. ASSUME p < q PROVE FALSE
  <2>1. PICK d \in Nat : q = p + 1 + d
    <3>1. q - p - 1 \in Nat /\ q = p + 1 + (q - p - 1)
      BY <1>2
    <3> QED BY <3>1
  <2>2. b * q = b * p + b + b * d /\ b * d \in Nat /\ b * p \in Nat
    BY <2>1
  <2> QED BY <2>2
<1>3. q = p
  BY <1>1, <1>2
<1>4. b * q \in Nat
  OBVIOUS
<1> QED BY <1>3, <1>4

LEMMA DivisionUnique ==
  ASSUME NEW b \in Nat \ {0}, NEW q \in Nat, NEW r \in Nat, r < b
  PROVE  (b * q + r) \div b = q /\ (b * q + r) % b = r
<1> DEFINE a == b * q + r
<1>1. a \in Nat
  OBVIOUS
<1>2. a \div b \in Nat /\ a % b \in 0 .. b - 1 /\ a = b * (a \div b) + (a % b)
  BY <1>1, DivisionIs
<1>3. a % b \in Nat /\ a % b < b
  BY <1>2
<1> DEFINE u == a \div b
           v == a % b
<1>4. a = b * q + r /\ u \in Nat /\ v \in Nat /\ v < b /\ a = b * u + v
  BY <1>2, <1>3
<1> HIDE DEF a, u, v
<1>5. q = u /\ r = v
  BY <1>4, QuotientUnique
<1> QED BY <1>5 DEF a, u, v

LEMMA NestedQuotient ==
  ASSUME NEW a \in Nat, NEW p \in Nat \ {0}, NEW l \in Nat \ {0}
  PROVE  a \div (l * p) = (a \div p) \div l
<1> DEFINE c == a \div p
           r == a % p
           q == c \div l
           d == c % l
<1>1. c \in Nat /\ r \in Nat /\ r < p /\ a = p * c + r
  BY DivisionIs
<1> HIDE DEF c, r
<1>2. q \in Nat /\ d \in Nat /\ d < l /\ c = l * q + d
  BY <1>1, DivisionIs
<1> HIDE DEF q, d
<1>3. l * p \in Nat \ {0} /\ p * d + r \in Nat /\ p * d + r < l * p
  <2>1. PICK e \in Nat : l = d + 1 + e
    <3>1. l - d - 1 \in Nat /\ l = d + 1 + (l - d - 1)
      BY <1>2
    <3> QED BY <3>1
  <2>2. l * p = p * d + p + p * e /\ p * e \in Nat /\ p * d \in Nat
    BY <1>2, <2>1
  <2> QED BY <1>1, <2>2
<1>4. a = (l * p) * q + (p * d + r)
  <2>1. p * c = p * (l * q) + p * d
    BY <1>2
  <2>2. p * (l * q) = (l * p) * q
    BY <1>2
  <2> QED BY <1>1, <1>2, <2>1, <2>2
<1> DEFINE b == l * p
           s == p * d + r
<1>5. b \in Nat \ {0} /\ s \in Nat /\ s < b /\ a = b * q + s
  BY <1>3, <1>4
<1> HIDE DEF b, s
<1>6. a \div b = q
  BY <1>2, <1>5, DivisionUnique
<1> QED BY <1>6 DEF b, q, c

Radices(n, L, P) ==
  /\ n \in Nat /\ L \in [1 .. n -> Nat \ {0}] /\ P \in [0 .. n -> Nat]
  /\ P[n] = 1 /\ \A i \in 1 .. n : P[i - 1] = L[i] * P[i]

Digit(L, P, a, i) == (a \div P[i]) % L[i]

LEMMA RadixPositive ==
  ASSUME NEW n, NEW L, NEW P, Radices(n, L, P), NEW i \in 0 .. n
  PROVE  P[i] \in Nat \ {0}
<1> DEFINE A == {j \in Nat : j <= n => P[n - j] \in Nat \ {0}}
<1>1. 0 \in A
  BY DEF Radices
<1>2. ASSUME NEW j \in Nat, j \in A PROVE j + 1 \in A
  <2> SUFFICES ASSUME j + 1 <= n PROVE P[n - (j + 1)] \in Nat \ {0}
    OBVIOUS
  <2>1. n - j \in 1 .. n /\ n - (j + 1) = (n - j) - 1
    BY DEF Radices
  <2>2. P[n - j] \in Nat \ {0}
    BY <1>2, <2>1 DEF Radices
  <2>3. P[(n - j) - 1] = L[n - j] * P[n - j] /\ L[n - j] \in Nat \ {0}
    BY <2>1 DEF Radices
  <2> DEFINE u == L[n - j]
             v == P[n - j]
  <2>4. u \in Nat \ {0} /\ v \in Nat \ {0} /\ P[n - (j + 1)] = u * v
    BY <2>1, <2>2, <2>3
  <2> HIDE DEF u, v
  <2> QED BY <2>4
<1> HIDE DEF A
<1>3. n - i \in Nat /\ n - i <= n /\ n - (n - i) = i
  BY DEF Radices
<1>4. n - i \in A
  BY <1>1, <1>2, <1>3, SetInduction
<1> QED BY <1>3, <1>4 DEF A

LEMMA RadixStep ==
  ASSUME NEW n, NEW L, NEW P, Radices(n, L, P), NEW i \in 1 .. n, NEW a \in Nat
  PROVE  /\ a \div P[i] = L[i] * (a \div P[i - 1]) + Digit(L, P, a, i)
         /\ a \div P[i - 1] = (a \div P[i]) \div L[i]
         /\ a \div P[i] \in Nat /\ a \div P[i - 1] \in Nat
         /\ Digit(L, P, a, i) \in 0 .. L[i] - 1
<1> DEFINE l == L[i]
           p == P[i]
           b == P[i - 1]
<1>1. l \in Nat \ {0} /\ p \in Nat \ {0} /\ b = l * p /\ b \in Nat \ {0}
  <2>1. i \in 0 .. n /\ i - 1 \in 0 .. n
    BY DEF Radices
  <2> QED BY <2>1, RadixPositive DEF Radices
<1> HIDE DEF l, p, b
<1>2. a \div b = (a \div p) \div l
  BY <1>1, NestedQuotient
<1> DEFINE c == a \div p
<1>3. c \in Nat /\ a \div b \in Nat
  BY <1>1, DivisionIs
<1> HIDE DEF c
<1>4. c = l * (c \div l) + (c % l) /\ c % l \in 0 .. l - 1
  BY <1>1, <1>3, DivisionIs
<1>5. Digit(L, P, a, i) = c % l
  BY DEF Digit, c, l, p
<1> QED BY <1>2, <1>3, <1>4, <1>5 DEF c, l, p, b

(* every sequence of digits is one of a number with the quotient asked for *)
LEMMA RadixOnto ==
  ASSUME NEW n, NEW L, NEW P, Radices(n, L, P), NEW d, \A i \in 1 .. n : d[i] \in 0 .. L[i] - 1,
         NEW c \in Nat
  PROVE  \E a \in Nat : a \div P[0] = c /\ \A i \in 1 .. n : Digit(L, P, a, i) = d[i]
<1> DEFINE Good(a, i, e) == a \div P[i] = e /\ \A j \in i + 1 .. n : Digit(L, P, a, j) = d[j]
           A == {j \in Nat : j <= n => \A e \in Nat : \E a \in Nat : Good(a, n - j, e)}
<1>1. 0 \in A
  <2> SUFFICES ASSUME NEW e \in Nat PROVE \E a \in Nat : Good(a, n - 0, e)
    OBVIOUS
  <2>1. P[n - 0] = 1 /\ n \in Nat /\ n - 0 = n
    BY DEF Radices
  <2>2. e \div 1 = e
    <3>1. 1 * e + 0 = e
      OBVIOUS
    <3>2. (1 * e + 0) \div 1 = e
      BY DivisionUnique
    <3> QED BY <3>1, <3>2
  <2>3. (n - 0) + 1 .. n = {}
    BY <2>1
  <2>4. Good(e, n - 0, e)
    BY <2>1, <2>2, <2>3
  <2> QED BY <2>4
<1>2. ASSUME NEW j \in Nat, j \in A PROVE j + 1 \in A
  <2> SUFFICES ASSUME j + 1 <= n, NEW e \in Nat PROVE \E a \in Nat : Good(a, n - (j + 1), e)
    OBVIOUS
  <2> DEFINE i == n - j
  <2>1. i \in 1 .. n /\ n - (j + 1) = i - 1 /\ n \in Nat
    BY DEF Radices
  <2>2. d[i] \in 0 .. L[i] - 1 /\ L[i] \in Nat \ {0}
    BY <2>1 DEF Radices
  <2> DEFINE f == L[i] * e + d[i]
  <2>3. f \in Nat /\ f \div L[i] = e /\ f % L[i] = d[i]
    <3> DEFINE l == L[i]
               r == d[i]
    <3>1. l \in Nat \ {0} /\ r \in Nat /\ r < l
      BY <2>2
    <3> HIDE DEF l, r
    <3>2. (l * e + r) \div l = e /\ (l * e + r) % l = r
      BY <3>1, DivisionUnique
    <3>3. l * e + r \in Nat
      BY <3>1
    <3> QED BY <3>2, <3>3 DEF l, r
  <2> HIDE DEF f
  <2>4. PICK a \in Nat : Good(a, i, f)
    BY <1>2, <2>1, <2>3
  <2>5. a \div P[i - 1] = e
    BY <2>1, <2>3, <2>4, RadixStep
  <2>6. Digit(L, P, a, i) = d[i]
    BY <2>3, <2>4 DEF Digit
  <2>7. \A h \in (i - 1) + 1 .. n : h = i \/ h \in i + 1 .. n
    BY <2>1
  <2>8. Good(a, i - 1, e)
    <3>1. \A h \in i + 1 .. n : Digit(L, P, a, h) = d[h]
      BY <2>4
    <3>2. \A h \in (i - 1) + 1 .. n : Digit(L, P, a, h) = d[h]
      BY <2>6, <2>7, <3>1
    <3> QED BY <2>5, <3>2
  <2> QED BY <2>1, <2>8
<1> HIDE DEF A
<1>3. n \in Nat /\ n - n = 0
  BY DEF Radices
<1>4. n \in A
  BY <1>1, <1>2, <1>3, SetInduction
<1>5. PICK a \in Nat : Good(a, n - n, c)
  BY <1>3, <1>4 DEF A
<1>6. \A i \in 1 .. n : i \in (n - n) + 1 .. n
  BY <1>3
<1>7. \A i \in 1 .. n : Digit(L, P, a, i) = d[i]
  BY <1>5, <1>6
<1>8. a \div P[0] = c
  BY <1>3, <1>5
<1> QED BY <1>7, <1>8

LEMMA RadixSame ==
  ASSUME NEW n, NEW L, NEW P, Radices(n, L, P), NEW a \in Nat, NEW b \in Nat,
         a \div P[0] = b \div P[0], \A i \in 1 .. n : Digit(L, P, a, i) = Digit(L, P, b, i)
  PROVE  a = b
<1> DEFINE A == {j \in Nat : j <= n => a \div P[j] = b \div P[j]}
<1>1. 0 \in A
  OBVIOUS
<1>2. ASSUME NEW j \in Nat, j \in A PROVE j + 1 \in A
  <2> SUFFICES ASSUME j + 1 <= n PROVE a \div P[j + 1] = b \div P[j + 1]
    OBVIOUS
  <2>1. j + 1 \in 1 .. n /\ (j + 1) - 1 = j /\ n \in Nat
    BY DEF Radices
  <2>2. a \div P[j] = b \div P[j]
    BY <1>2, <2>1
  <2>3. a \div P[j + 1] = L[j + 1] * (a \div P[j]) + Digit(L, P, a, j + 1)
    BY <2>1, RadixStep
  <2>4. b \div P[j + 1] = L[j + 1] * (b \div P[j]) + Digit(L, P, b, j + 1)
    BY <2>1, RadixStep
  <2> QED BY <2>1, <2>2, <2>3, <2>4
<1> HIDE DEF A
<1>3. n \in Nat
  BY DEF Radices
<1>4. n \in A
  BY <1>1, <1>2, <1>3, SetInduction
<1>5. a \div P[n] = b \div P[n] /\ P[n] = 1
  BY <1>3, <1>4 DEF A, Radices
<1>6. \A x \in Nat : x \div 1 = x
  <2> SUFFICES ASSUME NEW x \in Nat PROVE x \div 1 = x
    OBVIOUS
  <2>1. 1 * x + 0 = x
    OBVIOUS
  <2>2. (1 * x + 0) \div 1 = x
    BY DivisionUnique
  <2> QED BY <2>1, <2>2
<1> QED BY <1>5, <1>6

(* the number of all choices has the digits of 0 *)
LEMMA RadixTop ==
  ASSUME NEW n, NEW L, NEW P, Radices(n, L, P), NEW i \in 1 .. n
  PROVE  Digit(L, P, P[0], i) = 0 /\ Digit(L, P, 0, i) = 0
<1> DEFINE A == {j \in Nat : j <= n => \E q \in Nat : P[0] = P[j] * q}
<1>1. 0 \in A
  <2>1. P[0] \in Nat
    BY DEF Radices
  <2>2. P[0] = P[0] * 1
    BY <2>1
  <2> QED BY <2>2
<1>2. ASSUME NEW j \in Nat, j \in A PROVE j + 1 \in A
  <2> SUFFICES ASSUME j + 1 <= n PROVE \E q \in Nat : P[0] = P[j + 1] * q
    OBVIOUS
  <2>1. j + 1 \in 1 .. n /\ j + 1 \in 0 .. n /\ (j + 1) - 1 = j /\ n \in Nat /\ j <= n
    BY DEF Radices
  <2>2. PICK q \in Nat : P[0] = P[j] * q
    BY <1>2, <2>1
  <2>3. P[j] = L[j + 1] * P[j + 1] /\ L[j + 1] \in Nat /\ P[j + 1] \in Nat
    BY <2>1 DEF Radices
  <2>4. P[0] = P[j + 1] * (L[j + 1] * q) /\ L[j + 1] * q \in Nat
    <3> DEFINE l == L[j + 1]
               p == P[j + 1]
    <3>1. l \in Nat /\ p \in Nat /\ P[0] = (l * p) * q
      BY <2>2, <2>3
    <3> HIDE DEF l, p
    <3>2. (l * p) * q = p * (l * q) /\ l * q \in Nat
      BY <3>1
    <3> QED BY <3>1, <3>2 DEF l, p
  <2> QED BY <2>4
<1> HIDE DEF A
<1>3. i - 1 \in A /\ i - 1 <= n /\ n \in Nat
  <2>1. i - 1 \in Nat /\ i - 1 <= n /\ n \in Nat
    BY DEF Radices
  <2> QED BY <1>1, <1>2, <2>1, SetInduction
<1>4. PICK q \in Nat : P[0] = P[i - 1] * q
  BY <1>3 DEF A
<1> DEFINE l == L[i]
           p == P[i]
<1>5. l \in Nat \ {0} /\ p \in Nat \ {0} /\ P[i - 1] = l * p
  <2>1. i \in 0 .. n
    BY DEF Radices
  <2> QED BY <2>1, RadixPositive DEF Radices
<1>d. \A a : Digit(L, P, a, i) = (a \div p) % l
  BY DEF Digit
<1> HIDE DEF l, p
<1>6. P[0] = p * (l * q) + 0 /\ l * q \in Nat /\ l * q = l * q + 0 /\ 0 = p * 0 + 0 /\ 0 = l * 0 + 0
  BY <1>4, <1>5
<1>7. P[0] \div p = l * q + 0
  <2>1. (p * (l * q) + 0) \div p = l * q
    BY <1>5, <1>6, DivisionUnique
  <2> QED BY <1>6, <2>1
<1>8. (l * q + 0) % l = 0
  BY <1>5, DivisionUnique
<1>9. (p * 0 + 0) \div p = 0 /\ (l * 0 + 0) % l = 0
  BY <1>5, DivisionUnique
<1> QED BY <1>d, <1>6, <1>7, <1>8, <1>9

(***************************************************************************)
(* The choices of responses that VPrimeLazy enumerates.                    *)
(***************************************************************************)
LEMMA SetToSeqIs ==
  ASSUME NEW S, IsFiniteSet(S)
  PROVE  /\ SetToSeq(S) \in [1 .. Cardinality(S) -> S]
         /\ \A i, j \in 1 .. Cardinality(S) : SetToSeq(S)[i] = SetToSeq(S)[j] => i = j
         /\ \A x \in S : \E i \in 1 .. Cardinality(S) : SetToSeq(S)[i] = x
         /\ Len(SetToSeq(S)) = Cardinality(S) /\ Cardinality(S) \in Nat
<1> DEFINE n == Cardinality(S)
           g == SetToSeq(S)
<1>1. n \in Nat /\ ExistsBijection(1 .. n, S)
  BY FS_CardinalityType
<1>2. \E f \in [1 .. n -> S] : IsInjective(f)
  <2>1. PICK f \in Bijection(1 .. n, S) : TRUE
    BY <1>1 DEF ExistsBijection
  <2> QED BY <2>1 DEF Bijection, Injection, Surjection, IsInjective
<1>3. g \in [1 .. n -> S] /\ IsInjective(g)
  BY <1>2 DEF SetToSeq
<1> HIDE DEF g
<1>4. \A i, j \in 1 .. n : g[i] = g[j] => i = j
  BY <1>3 DEF IsInjective
<1>5. g \in Injection(1 .. n, S)
  BY <1>3, <1>4 DEF Injection, IsInjective
<1>6. IsFiniteSet(1 .. n) /\ Cardinality(1 .. n) = n
  BY <1>1, FS_Interval
<1>7. g \in Surjection(1 .. n, S)
  BY <1>5, <1>6, FS_Injection
<1>8. Len(g) = n
  BY <1>1, <1>3
<1> QED BY <1>1, <1>3, <1>4, <1>7, <1>8 DEF Surjection, g

(* the products of the numbers of responses *)
Ahead(i, l) == [j \in 1 .. l |-> i + j]

LEMMA AheadIs ==
  ASSUME NEW i \in Nat, NEW l \in Nat
  PROVE  /\ Ahead(i, l) \in Seq(Nat) /\ Len(Ahead(i, l)) = l
         /\ Ahead(i, l + 1) = Append(Ahead(i, l), i + l + 1)
         /\ Ahead(i, 0) = << >>
<1>1. Ahead(i, l) \in Seq(Nat) /\ Len(Ahead(i, l)) = l
  BY DEF Ahead
<1>2. Ahead(i, l + 1) \in Seq(Nat) /\ Len(Ahead(i, l + 1)) = l + 1
  BY DEF Ahead
<1>3. i + l + 1 \in Nat
  OBVIOUS
<1>4. Append(Ahead(i, l), i + l + 1) \in Seq(Nat) /\ Len(Append(Ahead(i, l), i + l + 1)) = l + 1
  BY <1>1, <1>3
<1> DEFINE u == Ahead(i, l)
           v == Append(Ahead(i, l), i + l + 1)
           w == Ahead(i, l + 1)
<1>5. /\ \A j \in 1 .. l : u[j] = i + j
      /\ \A j \in 1 .. l + 1 : w[j] = i + j
  BY DEF Ahead
<1>6. (\A j \in 1 .. l : v[j] = u[j]) /\ v[l + 1] = i + l + 1
  <2> HIDE DEF u
  <2>1. u \in Seq(Nat) /\ Len(u) = l /\ v = Append(u, i + l + 1)
    BY <1>1 DEF u
  <2> HIDE DEF v
  <2> QED BY <1>3, <2>1
<1>8. w = v
  <2>1. w \in Seq(Nat) /\ v \in Seq(Nat) /\ Len(w) = l + 1 /\ Len(v) = l + 1
    BY <1>2, <1>4
  <2> HIDE DEF u, v, w
  <2>2. ASSUME NEW j \in 1 .. l + 1 PROVE w[j] = v[j]
    <3>1. CASE j \in 1 .. l
      BY <1>5, <1>6, <3>1
    <3>2. CASE j = l + 1
      <4>1. w[l + 1] = i + (l + 1)
        BY <1>5
      <4> QED BY <1>6, <3>2, <4>1
    <3> QED BY <3>1, <3>2
  <2> QED BY <2>1, <2>2, SeqEqual
<1>7. Ahead(i, 0) = << >>
  BY DEF Ahead
<1> QED BY <1>1, <1>7, <1>8

LEMMA RadixIs ==
  ASSUME NEW all, NEW i \in Nat, NEW l \in Nat, l = Len(all) - i
  PROVE  Radix(all, i) = FoldOf(<<"radix", all>>, 1, Ahead(i, l))
<1> DEFINE k == <<"radix", all>>
           u == Ahead(i, l)
           D == DOMAIN u
           Is(iter) == iter = [s \in SUBSET D |-> IF s = {} THEN 1
                                ELSE iter[s \ {Max(s)}] * Len(all[u[Max(s)]])]
<1>1. Radix(all, i) = (CHOOSE iter : Is(iter))[D]
  BY DEF Radix, FoldLeft, MapThenFoldSet, Ahead
<1>2. \A a, b : StepOf(k, a, b) = a * Len(all[b])
  BY StepCases
<1> HIDE DEF k, u
<1>3. \A iter : Is(iter) <=> IsFold(iter, k, 1, u)
  BY <1>2 DEF IsFold
<1> HIDE DEF Is
<1>4. (CHOOSE iter : Is(iter)) = CHOOSE iter : IsFold(iter, k, 1, u)
  BY <1>3
<1> QED BY <1>1, <1>4 DEF FoldOf, k, u

LEMMA RadixesAre ==
  ASSUME NEW all, NEW n \in Nat, Len(all) = n, \A i \in 1 .. n : Len(all[i]) \in Nat \ {0}
  PROVE  Radices(n, [i \in 1 .. n |-> Len(all[i])], [i \in 0 .. n |-> Radix(all, i)])
<1> DEFINE k == <<"radix", all>>
           L == [i \in 1 .. n |-> Len(all[i])]
           Prod(i, l) == FoldOf(k, 1, Ahead(i, l))
<1>1. ASSUME NEW i \in Nat, NEW l \in Nat
      PROVE  Prod(i, l + 1) = Prod(i, l) * Len(all[i + l + 1])
  <2>1. Ahead(i, l + 1) = Append(Ahead(i, l), i + l + 1) /\ Ahead(i, l) \in Seq(Nat) /\ i + l + 1 \in Nat
    <3>1. Ahead(i, l + 1) = Append(Ahead(i, l), i + l + 1)
      BY AheadIs
    <3>2. Ahead(i, l) \in Seq(Nat)
      BY AheadIs
    <3> QED BY <3>1, <3>2
  <2>2. FoldOf(k, 1, Append(Ahead(i, l), i + l + 1)) = StepOf(k, FoldOf(k, 1, Ahead(i, l)), i + l + 1)
    BY <2>1, FoldOfAppend
  <2>3. \A a, b : StepOf(k, a, b) = a * Len(all[b])
    BY StepCases
  <2> HIDE DEF k
  <2> QED BY <2>1, <2>2, <2>3
<1>2. \A i \in Nat : Prod(i, 0) = 1
  BY AheadIs, FoldOfEmpty
<1> HIDE DEF Prod
<1> DEFINE A == {l \in Nat : \A i \in Nat : i + l <= n => Prod(i, l) \in Nat}
           B == {l \in Nat : \A i \in Nat : i + l + 1 <= n => Prod(i, l + 1) = Len(all[i + 1]) * Prod(i + 1, l)}
<1>3. Nat \subseteq A
  <2>1. 0 \in A
    BY <1>2
  <2>2. ASSUME NEW l \in Nat, l \in A PROVE l + 1 \in A
    <3> SUFFICES ASSUME NEW i \in Nat, i + (l + 1) <= n PROVE Prod(i, l + 1) \in Nat
      OBVIOUS
    <3>1. i + l <= n /\ i + l + 1 \in 1 .. n
      OBVIOUS
    <3>2. Prod(i, l) \in Nat /\ Len(all[i + l + 1]) \in Nat
      BY <2>2, <3>1
    <3>3. Prod(i, l + 1) = Prod(i, l) * Len(all[i + l + 1])
      BY <1>1
    <3> QED BY <3>2, <3>3
  <2> HIDE DEF A
  <2> QED BY <2>1, <2>2, SetInduction
<1>4. Nat \subseteq B
  <2>1. 0 \in B
    <3> SUFFICES ASSUME NEW i \in Nat, i + 0 + 1 <= n PROVE Prod(i, 0 + 1) = Len(all[i + 1]) * Prod(i + 1, 0)
      OBVIOUS
    <3>1. Prod(i, 0 + 1) = Prod(i, 0) * Len(all[i + 0 + 1])
      BY <1>1
    <3>2. Prod(i, 0) = 1 /\ Prod(i + 1, 0) = 1 /\ i + 0 + 1 = i + 1
      BY <1>2
    <3>3. Len(all[i + 1]) \in Nat
      OBVIOUS
    <3> QED BY <3>1, <3>2, <3>3
  <2>2. ASSUME NEW l \in Nat, l \in B PROVE l + 1 \in B
    <3> SUFFICES ASSUME NEW i \in Nat, i + (l + 1) + 1 <= n
                 PROVE  Prod(i, (l + 1) + 1) = Len(all[i + 1]) * Prod(i + 1, l + 1)
      OBVIOUS
    <3>1. Prod(i, (l + 1) + 1) = Prod(i, l + 1) * Len(all[i + (l + 1) + 1])
      BY <1>1
    <3>2. Prod(i, l + 1) = Len(all[i + 1]) * Prod(i + 1, l)
      BY <2>2
    <3>3. Prod(i + 1, l + 1) = Prod(i + 1, l) * Len(all[(i + 1) + l + 1])
      BY <1>1
    <3>4. (i + 1) + l + 1 = i + (l + 1) + 1 /\ i + (l + 1) + 1 \in 1 .. n /\ i + 1 \in 1 .. n
      OBVIOUS
    <3>5. Prod(i + 1, l) \in Nat
      <4>1. l \in A
        BY <1>3
      <4> QED BY <4>1
    <3> DEFINE a == Len(all[i + 1])
               b == Prod(i + 1, l)
               c == Len(all[i + (l + 1) + 1])
    <3>6. a \in Nat /\ b \in Nat /\ c \in Nat
      BY <3>4, <3>5
    <3>7. Prod(i, (l + 1) + 1) = (a * b) * c /\ Prod(i + 1, l + 1) = b * c
      BY <3>1, <3>2, <3>3, <3>4
    <3> HIDE DEF a, b, c
    <3>8. (a * b) * c = a * (b * c)
      BY <3>6
    <3> QED BY <3>7, <3>8 DEF a
  <2> HIDE DEF B
  <2> QED BY <2>1, <2>2, SetInduction
<1>5. ASSUME NEW i \in 0 .. n PROVE Radix(all, i) = Prod(i, n - i) /\ Radix(all, i) \in Nat
  <2>1. i \in Nat /\ n - i \in Nat /\ i + (n - i) <= n /\ n - i = Len(all) - i
    OBVIOUS
  <2>2. Radix(all, i) = Prod(i, n - i)
    BY <2>1, RadixIs DEF Prod
  <2>3. n - i \in A
    BY <1>3, <2>1
  <2> QED BY <2>1, <2>2, <2>3
<1>6. Radix(all, n) = 1
  <2>1. n \in 0 .. n /\ n - n = 0
    OBVIOUS
  <2> QED BY <1>2, <1>5, <2>1
<1>7. ASSUME NEW i \in 1 .. n PROVE Radix(all, i - 1) = Len(all[i]) * Radix(all, i)
  <2>1. i - 1 \in 0 .. n /\ i \in 0 .. n /\ i - 1 \in Nat /\ n - i \in Nat /\ n - (i - 1) = (n - i) + 1 /\ (i - 1) + 1 = i
        /\ (i - 1) + (n - i) + 1 <= n
    OBVIOUS
  <2>2. Radix(all, i - 1) = Prod(i - 1, (n - i) + 1) /\ Radix(all, i) = Prod(i, n - i)
    BY <1>5, <2>1
  <2>3. n - i \in B
    BY <1>4, <2>1
  <2>4. Prod(i - 1, (n - i) + 1) = Len(all[(i - 1) + 1]) * Prod((i - 1) + 1, n - i)
    BY <2>1, <2>3
  <2> QED BY <2>1, <2>2, <2>4
<1> HIDE DEF A, B
<1> DEFINE P == [i \in 0 .. n |-> Radix(all, i)]
<1>8. L \in [1 .. n -> Nat \ {0}] /\ \A i \in 1 .. n : L[i] = Len(all[i])
  OBVIOUS
<1>9. P \in [0 .. n -> Nat] /\ \A i \in 0 .. n : P[i] = Radix(all, i)
  BY <1>5
<1>10. P[n] = 1
  BY <1>6, <1>9
<1>11. ASSUME NEW i \in 1 .. n PROVE P[i - 1] = L[i] * P[i]
  <2>1. i - 1 \in 0 .. n /\ i \in 0 .. n
    OBVIOUS
  <2>2. P[i - 1] = Radix(all, i - 1) /\ P[i] = Radix(all, i) /\ L[i] = Len(all[i])
    BY <1>8, <1>9, <2>1
  <2> QED BY <1>7, <2>2
<1> HIDE DEF P, L
<1>12. Radices(n, L, P)
  BY <1>8, <1>9, <1>10, <1>11 DEF Radices
<1> QED BY <1>12 DEF P, L

(***************************************************************************)
(* VPrime has every choice of responses.                                   *)
(***************************************************************************)
IutFits == \E k \in Nat \ {0} : iut \in OnStates(k) /\ IsComplete(iut)

(* which may also be partial *)
IutTyped == \E k \in Nat \ {0} : iut \in OnStates(k)

CoverFits == IsFiniteSet(detStateCover) /\ detStateCover \subseteq Seq(In)

ResponseAt(all, a, i) == all[i][((a \div Radix(all, i)) % Len(all[i])) + 1]

CoverResponses == UNION {Responses(iut, xs) : xs \in detStateCover}

ChoiceFunctions ==
  {f \in [detStateCover -> CoverResponses] : \A xs \in detStateCover : Inputs(f[xs]) = xs}

Chosen(f) == {f[xs] : xs \in detStateCover}

LEMMA CoverResponsesAre ==
  ASSUME IutFits, CoverFits, NEW io, NEW xs \in detStateCover
  PROVE  io \in Responses(iut, xs) <=> io \in CoverResponses /\ Inputs(io) = xs
<1>1. PICK k \in Nat \ {0} : iut \in OnStates(k)
  BY DEF IutFits
<1>2. \A ys \in detStateCover : Responses(iut, ys) = {j \in Seq(IO) : Inputs(j) = ys /\ After(iut, 0, j) >= 0}
  BY <1>1, ResponsesAre DEF CoverFits
<1>3. ASSUME io \in Responses(iut, xs) PROVE io \in CoverResponses /\ Inputs(io) = xs
  BY <1>2, <1>3 DEF CoverResponses
<1>4. ASSUME io \in CoverResponses, Inputs(io) = xs PROVE io \in Responses(iut, xs)
  <2>1. PICK ys \in detStateCover : io \in Responses(iut, ys)
    BY <1>4 DEF CoverResponses
  <2> QED BY <1>2, <1>4, <2>1
<1> QED BY <1>3, <1>4

LEMMA AllTracesAre ==
  ASSUME IutFits, CoverFits
  PROVE  /\ Cardinality(detStateCover) \in Nat
         /\ Len(allPossibleTraces) = Cardinality(detStateCover)
         /\ DOMAIN allPossibleTraces = 1 .. Cardinality(detStateCover)
         /\ \A i \in 1 .. Cardinality(detStateCover) :
              /\ SetToSeq(detStateCover)[i] \in detStateCover
              /\ allPossibleTraces[i] = SetToSeq(Responses(iut, SetToSeq(detStateCover)[i]))
<1> DEFINE cover == SetToSeq(detStateCover)
           n == Cardinality(detStateCover)
<1>1. n \in Nat /\ cover \in [1 .. n -> detStateCover]
  BY SetToSeqIs DEF CoverFits
<1> HIDE DEF cover, n
<1>2. allPossibleTraces = [i \in DOMAIN cover |-> SetToSeq(Responses(iut, cover[i]))]
  BY DEF allPossibleTraces, cover
<1>3. DOMAIN cover = 1 .. n
  BY <1>1
<1>4. allPossibleTraces = [i \in 1 .. n |-> SetToSeq(Responses(iut, cover[i]))]
  BY <1>2, <1>3
<1>5. Len(allPossibleTraces) = n
  BY <1>1, <1>4
<1> QED BY <1>1, <1>4, <1>5 DEF cover, n

LEMMA EachTraceHasResponses ==
  ASSUME IutFits, CoverFits, NEW i \in 1 .. Cardinality(detStateCover)
  PROVE  LET xs == SetToSeq(detStateCover)[i]
             n == Cardinality(Responses(iut, xs))
             all == allPossibleTraces
         IN  /\ Len(all[i]) = n /\ n \in Nat \ {0}
             /\ \A j \in 1 .. n : all[i][j] \in Responses(iut, xs)
             /\ \A j, h \in 1 .. n : all[i][j] = all[i][h] => j = h
             /\ \A io \in Responses(iut, xs) : \E j \in 1 .. n : all[i][j] = io
<1> DEFINE xs == SetToSeq(detStateCover)[i]
           R == Responses(iut, xs)
<1>1. xs \in detStateCover /\ allPossibleTraces[i] = SetToSeq(R)
  BY AllTracesAre
<1>2. xs \in Seq(In)
  BY <1>1 DEF CoverFits
<1> HIDE DEF xs
<1>3. IsFiniteSet(R) /\ R # {}
  BY <1>2, ResponsesFinite, ResponsesExist DEF IutFits
<1> HIDE DEF R
<1>4. /\ SetToSeq(R) \in [1 .. Cardinality(R) -> R]
      /\ \A j, h \in 1 .. Cardinality(R) : SetToSeq(R)[j] = SetToSeq(R)[h] => j = h
      /\ \A x \in R : \E j \in 1 .. Cardinality(R) : SetToSeq(R)[j] = x
      /\ Len(SetToSeq(R)) = Cardinality(R) /\ Cardinality(R) \in Nat
  BY <1>3, SetToSeqIs
<1>5. Cardinality(R) # 0
  BY <1>3, FS_EmptySet
<1> QED BY <1>1, <1>4, <1>5 DEF R, xs

(* the radices, for the rest *)
CoverSize == Cardinality(detStateCover)
Sizes == [i \in 1 .. CoverSize |-> Len(allPossibleTraces[i])]
Powers == [i \in 0 .. CoverSize |-> Radix(allPossibleTraces, i)]

LEMMA PowersAre ==
  ASSUME IutFits, CoverFits
  PROVE  /\ Radices(CoverSize, Sizes, Powers)
         /\ Powers[0] = length(allPossibleTraces) /\ Powers[0] \in Nat \ {0}
         /\ \A a, i : i \in 1 .. CoverSize =>
              /\ ResponseAt(allPossibleTraces, a, i) = allPossibleTraces[i][Digit(Sizes, Powers, a, i) + 1]
              /\ Sizes[i] = Len(allPossibleTraces[i])
<1>1. CoverSize \in Nat /\ Len(allPossibleTraces) = CoverSize
  BY AllTracesAre DEF CoverSize
<1>2. \A i \in 1 .. CoverSize : Len(allPossibleTraces[i]) \in Nat \ {0}
  BY EachTraceHasResponses DEF CoverSize
<1>3. Radices(CoverSize, Sizes, Powers)
  BY <1>1, <1>2, RadixesAre DEF Sizes, Powers
<1>4. 0 \in 0 .. CoverSize
  BY <1>1
<1>5. Powers[0] \in Nat \ {0}
  BY <1>3, <1>4, RadixPositive
<1>6. Powers[0] = length(allPossibleTraces)
  BY <1>4 DEF Powers, length
<1>7. ASSUME NEW a, NEW i \in 1 .. CoverSize
      PROVE  /\ ResponseAt(allPossibleTraces, a, i) = allPossibleTraces[i][Digit(Sizes, Powers, a, i) + 1]
             /\ Sizes[i] = Len(allPossibleTraces[i])
  <2>1. i \in 0 .. CoverSize
    BY <1>1
  <2>2. Powers[i] = Radix(allPossibleTraces, i)
    BY <2>1 DEF Powers
  <2>3. Sizes[i] = Len(allPossibleTraces[i])
    BY DEF Sizes
  <2>4. Digit(Sizes, Powers, a, i) = (a \div Radix(allPossibleTraces, i)) % Len(allPossibleTraces[i])
    BY <2>2, <2>3 DEF Digit
  <2> QED BY <2>3, <2>4 DEF ResponseAt
<1> QED BY <1>3, <1>5, <1>6, <1>7

LEMMA NumberedIs ==
  ASSUME IutFits, CoverFits, NEW a
  PROVE  \A w : w \in getVDoublePrime(allPossibleTraces, a) <=>
                  \E i \in 1 .. CoverSize : w = ResponseAt(allPossibleTraces, a, i)
<1> DEFINE all == allPossibleTraces
<1>1. DOMAIN all = 1 .. CoverSize
  BY AllTracesAre DEF CoverSize
<1>2. getVDoublePrime(all, a) = {ResponseAt(all, a, i) : i \in DOMAIN all}
  BY DEF getVDoublePrime, ResponseAt
<1> HIDE DEF all
<1>3. getVDoublePrime(all, a) = {ResponseAt(all, a, i) : i \in 1 .. CoverSize}
  BY <1>1, <1>2
<1>4. \A w : w \in getVDoublePrime(all, a) <=> \E i \in 1 .. CoverSize : w = ResponseAt(all, a, i)
  BY <1>3
<1> QED BY <1>4 DEF all

LEMMA ResponseAtIs ==
  ASSUME IutFits, CoverFits, NEW a \in Nat, NEW i \in 1 .. CoverSize
  PROVE  /\ ResponseAt(allPossibleTraces, a, i) \in CoverResponses
         /\ Inputs(ResponseAt(allPossibleTraces, a, i)) = SetToSeq(detStateCover)[i]
         /\ SetToSeq(detStateCover)[i] \in detStateCover
<1>1. Digit(Sizes, Powers, a, i) \in 0 .. Sizes[i] - 1
  BY PowersAre, RadixStep
<1>2. Sizes[i] = Len(allPossibleTraces[i])
      /\ ResponseAt(allPossibleTraces, a, i) = allPossibleTraces[i][Digit(Sizes, Powers, a, i) + 1]
  BY PowersAre
<1> DEFINE xs == SetToSeq(detStateCover)[i]
           h == Cardinality(Responses(iut, xs))
<1>3. Len(allPossibleTraces[i]) = h /\ h \in Nat /\ \A j \in 1 .. h : allPossibleTraces[i][j] \in Responses(iut, xs)
  BY EachTraceHasResponses DEF CoverSize
<1>4. Digit(Sizes, Powers, a, i) + 1 \in 1 .. h
  BY <1>1, <1>2, <1>3
<1>5. ResponseAt(allPossibleTraces, a, i) \in Responses(iut, xs)
  BY <1>2, <1>3, <1>4
<1>6. xs \in detStateCover
  BY AllTracesAre DEF CoverSize
<1> QED BY <1>5, <1>6, CoverResponsesAre

LEMMA NumberIsChoice ==
  ASSUME IutFits, CoverFits, NEW a \in Nat
  PROVE  \E f \in ChoiceFunctions : getVDoublePrime(allPossibleTraces, a) = Chosen(f)
<1> DEFINE cover == SetToSeq(detStateCover)
           Index(xs) == CHOOSE i \in 1 .. CoverSize : cover[i] = xs
           f == [xs \in detStateCover |-> ResponseAt(allPossibleTraces, a, Index(xs))]
<1>1. /\ \A i, j \in 1 .. CoverSize : cover[i] = cover[j] => i = j
      /\ \A xs \in detStateCover : \E i \in 1 .. CoverSize : cover[i] = xs
  BY SetToSeqIs DEF CoverFits, CoverSize
<1>2. \A xs \in detStateCover : Index(xs) \in 1 .. CoverSize /\ cover[Index(xs)] = xs
  BY <1>1
<1>3. \A i \in 1 .. CoverSize : cover[i] \in detStateCover /\ Index(cover[i]) = i
  <2> SUFFICES ASSUME NEW i \in 1 .. CoverSize PROVE cover[i] \in detStateCover /\ Index(cover[i]) = i
    OBVIOUS
  <2>1. cover[i] \in detStateCover
    BY AllTracesAre DEF CoverSize
  <2>2. Index(cover[i]) \in 1 .. CoverSize /\ cover[Index(cover[i])] = cover[i]
    BY <1>2, <2>1
  <2> HIDE DEF Index
  <2> QED BY <1>1, <2>1, <2>2
<1> HIDE DEF Index
<1>4. ASSUME NEW xs \in detStateCover PROVE f[xs] \in CoverResponses /\ Inputs(f[xs]) = xs
  BY <1>2, ResponseAtIs
<1>5. f \in ChoiceFunctions
  BY <1>4 DEF ChoiceFunctions
<1>6. ASSUME NEW w \in getVDoublePrime(allPossibleTraces, a) PROVE w \in Chosen(f)
  <2>1. PICK i \in 1 .. CoverSize : w = ResponseAt(allPossibleTraces, a, i)
    BY NumberedIs
  <2>2. f[cover[i]] = w
    BY <1>3, <2>1
  <2> QED BY <1>3, <2>2 DEF Chosen
<1>7. ASSUME NEW w \in Chosen(f) PROVE w \in getVDoublePrime(allPossibleTraces, a)
  <2>1. PICK xs \in detStateCover : w = f[xs]
    BY DEF Chosen
  <2>2. w = ResponseAt(allPossibleTraces, a, Index(xs))
    BY <2>1
  <2> QED BY <1>2, <2>2, NumberedIs
<1> HIDE DEF f
<1>8. getVDoublePrime(allPossibleTraces, a) = Chosen(f)
  BY <1>6, <1>7
<1> QED BY <1>5, <1>8

LEMMA ChoiceHasNumber ==
  ASSUME IutFits, CoverFits, NEW f \in ChoiceFunctions
  PROVE  \E a \in 0 .. length(allPossibleTraces) - 1 : getVDoublePrime(allPossibleTraces, a) = Chosen(f)
<1> DEFINE cover == SetToSeq(detStateCover)
           all == allPossibleTraces
           Index(i) == CHOOSE j \in 1 .. Sizes[i] : all[i][j] = f[cover[i]]
           d == [i \in 1 .. CoverSize |-> Index(i) - 1]
<1>1. \A xs \in detStateCover : \E i \in 1 .. CoverSize : cover[i] = xs
  BY SetToSeqIs DEF CoverFits, CoverSize
<1>2. ASSUME NEW i \in 1 .. CoverSize
      PROVE  Index(i) \in 1 .. Sizes[i] /\ all[i][Index(i)] = f[cover[i]] /\ cover[i] \in detStateCover
             /\ Sizes[i] \in Nat
  <2>1. cover[i] \in detStateCover
    BY AllTracesAre DEF CoverSize
  <2>2. f[cover[i]] \in Responses(iut, cover[i])
    BY <2>1, CoverResponsesAre DEF ChoiceFunctions
  <2>3. Sizes[i] = Cardinality(Responses(iut, cover[i])) /\ Sizes[i] \in Nat
    <3>1. Sizes[i] = Len(all[i])
      BY PowersAre
    <3> QED BY <3>1, EachTraceHasResponses DEF CoverSize
  <2>4. \E j \in 1 .. Sizes[i] : all[i][j] = f[cover[i]]
    BY <2>2, <2>3, EachTraceHasResponses DEF CoverSize
  <2> HIDE DEF all, cover
  <2> QED BY <2>1, <2>3, <2>4
<1> HIDE DEF Index
<1>3. \A i \in 1 .. CoverSize : d[i] \in 0 .. Sizes[i] - 1 /\ d[i] + 1 = Index(i)
  <2> SUFFICES ASSUME NEW i \in 1 .. CoverSize PROVE d[i] \in 0 .. Sizes[i] - 1 /\ d[i] + 1 = Index(i)
    OBVIOUS
  <2>1. d[i] = Index(i) - 1
    OBVIOUS
  <2> HIDE DEF d
  <2> QED BY <1>2, <2>1
<1> HIDE DEF d
<1>0. Radices(CoverSize, Sizes, Powers) /\ Powers[0] \in Nat \ {0} /\ Powers[0] = length(allPossibleTraces)
  BY PowersAre
<1>10. \A i \in 1 .. CoverSize : d[i] \in 0 .. Sizes[i] - 1
  BY <1>3
<1>4. PICK a \in Nat : a \div Powers[0] = 0 /\ \A i \in 1 .. CoverSize : Digit(Sizes, Powers, a, i) = d[i]
  BY <1>0, <1>10, RadixOnto
<1>5. a \in 0 .. length(all) - 1
  <2>1. Powers[0] = length(all) /\ Powers[0] \in Nat \ {0}
    BY PowersAre
  <2>2. a = Powers[0] * (a \div Powers[0]) + (a % Powers[0]) /\ a % Powers[0] \in 0 .. Powers[0] - 1
    BY <2>1, DivisionIs
  <2>3. a \in 0 .. Powers[0] - 1
    <3> DEFINE p == Powers[0]
               r == a % Powers[0]
    <3>1. p \in Nat \ {0} /\ a = p * 0 + r /\ r \in 0 .. p - 1
      BY <1>4, <2>1, <2>2
    <3> HIDE DEF p, r
    <3>2. a \in 0 .. p - 1
      BY <3>1
    <3> QED BY <3>2 DEF p
  <2> QED BY <2>1, <2>3
<1>6. \A i \in 1 .. CoverSize : ResponseAt(all, a, i) = f[cover[i]]
  <2> SUFFICES ASSUME NEW i \in 1 .. CoverSize PROVE ResponseAt(all, a, i) = f[cover[i]]
    OBVIOUS
  <2>1. ResponseAt(all, a, i) = all[i][Digit(Sizes, Powers, a, i) + 1]
    BY PowersAre
  <2> QED BY <1>2, <1>3, <1>4, <2>1
<1>7. ASSUME NEW w \in getVDoublePrime(all, a) PROVE w \in Chosen(f)
  <2>1. PICK i \in 1 .. CoverSize : w = ResponseAt(all, a, i)
    BY NumberedIs
  <2>2. w = f[cover[i]] /\ cover[i] \in detStateCover
    BY <1>2, <1>6, <2>1
  <2> QED BY <2>2 DEF Chosen
<1>8. ASSUME NEW w \in Chosen(f) PROVE w \in getVDoublePrime(all, a)
  <2>1. PICK xs \in detStateCover : w = f[xs]
    BY DEF Chosen
  <2>2. PICK i \in 1 .. CoverSize : cover[i] = xs
    BY <1>1
  <2>3. w = ResponseAt(all, a, i)
    BY <1>6, <2>1, <2>2
  <2> QED BY <2>3, NumberedIs
<1>9. getVDoublePrime(all, a) = Chosen(f)
  BY <1>7, <1>8
<1> QED BY <1>5, <1>9

(***************************************************************************)
(* Number length names the same choice as number 0, and two numbers below  *)
(* it name different ones.                                                 *)
(***************************************************************************)
AllChoices == {Chosen(f) : f \in ChoiceFunctions}

LEMMA TopIsBottom ==
  ASSUME IutFits, CoverFits
  PROVE  getVDoublePrime(allPossibleTraces, length(allPossibleTraces)) = getVDoublePrime(allPossibleTraces, 0)
<1> DEFINE all == allPossibleTraces
           l == length(allPossibleTraces)
<1>1. ASSUME NEW i \in 1 .. CoverSize PROVE ResponseAt(all, l, i) = ResponseAt(all, 0, i)
  <2>1. Radices(CoverSize, Sizes, Powers) /\ Powers[0] = l
    BY PowersAre
  <2>2. Digit(Sizes, Powers, Powers[0], i) = 0 /\ Digit(Sizes, Powers, 0, i) = 0
    BY <2>1, RadixTop
  <2>3. ResponseAt(all, l, i) = all[i][Digit(Sizes, Powers, l, i) + 1]
    BY PowersAre
  <2>4. ResponseAt(all, 0, i) = all[i][Digit(Sizes, Powers, 0, i) + 1]
    BY PowersAre
  <2> QED BY <2>1, <2>2, <2>3, <2>4
<1>2. \A w : w \in getVDoublePrime(all, l) <=> \E i \in 1 .. CoverSize : w = ResponseAt(all, l, i)
  BY NumberedIs
<1>3. \A w : w \in getVDoublePrime(all, 0) <=> \E i \in 1 .. CoverSize : w = ResponseAt(all, 0, i)
  BY NumberedIs
<1> HIDE DEF all, l
<1>4. \A w : w \in getVDoublePrime(all, l) <=> w \in getVDoublePrime(all, 0)
  BY <1>1, <1>2, <1>3
<1>5. getVDoublePrime(all, l) = getVDoublePrime(all, 0)
  BY <1>4
<1> QED BY <1>5 DEF all, l

LEMMA NumbersDiffer ==
  ASSUME IutFits, CoverFits,
         NEW a \in 0 .. length(allPossibleTraces) - 1, NEW b \in 0 .. length(allPossibleTraces) - 1,
         getVDoublePrime(allPossibleTraces, a) = getVDoublePrime(allPossibleTraces, b)
  PROVE  a = b
<1> DEFINE all == allPossibleTraces
           cover == SetToSeq(detStateCover)
<1>1. Radices(CoverSize, Sizes, Powers) /\ Powers[0] \in Nat \ {0} /\ Powers[0] = length(all)
  BY PowersAre
<1>2. a \in Nat /\ b \in Nat /\ a < Powers[0] /\ b < Powers[0]
  BY <1>1
<1>3. a \div Powers[0] = 0 /\ b \div Powers[0] = 0
  <2> DEFINE p == Powers[0]
  <2>1. p \in Nat \ {0} /\ a < p /\ b < p /\ a \in Nat /\ b \in Nat
    BY <1>1, <1>2
  <2> HIDE DEF p
  <2>2. p * 0 + a = a /\ p * 0 + b = b
    BY <2>1
  <2>3. (p * 0 + a) \div p = 0 /\ (p * 0 + b) \div p = 0
    BY <2>1, DivisionUnique
  <2>4. a \div p = 0 /\ b \div p = 0
    BY <2>2, <2>3
  <2> QED BY <2>4 DEF p
<1>4. \A i, j \in 1 .. CoverSize : cover[i] = cover[j] => i = j
  BY SetToSeqIs DEF CoverFits, CoverSize
<1>5. ASSUME NEW i \in 1 .. CoverSize PROVE ResponseAt(all, a, i) = ResponseAt(all, b, i)
  <2>1. ResponseAt(all, a, i) \in getVDoublePrime(all, b)
    BY NumberedIs
  <2>2. PICK j \in 1 .. CoverSize : ResponseAt(all, a, i) = ResponseAt(all, b, j)
    BY <2>1, NumberedIs
  <2>3. Inputs(ResponseAt(all, a, i)) = cover[i]
    BY <1>2, ResponseAtIs
  <2>4. Inputs(ResponseAt(all, b, j)) = cover[j]
    BY <1>2, ResponseAtIs
  <2>5. i = j
    BY <1>4, <2>2, <2>3, <2>4
  <2> QED BY <2>2, <2>5
<1>6. ASSUME NEW i \in 1 .. CoverSize PROVE Digit(Sizes, Powers, a, i) = Digit(Sizes, Powers, b, i)
  <2> DEFINE da == Digit(Sizes, Powers, a, i)
             db == Digit(Sizes, Powers, b, i)
             n == Sizes[i]
  <2>1. da \in 0 .. n - 1 /\ db \in 0 .. n - 1
    BY <1>1, <1>2, RadixStep
  <2>2. ResponseAt(all, a, i) = all[i][da + 1] /\ n = Len(all[i])
    BY PowersAre
  <2>3. ResponseAt(all, b, i) = all[i][db + 1]
    BY PowersAre
  <2>4. all[i][da + 1] = all[i][db + 1]
    BY <1>5, <2>2, <2>3
  <2>5. Len(all[i]) \in Nat \ {0}
        /\ \A j, h \in 1 .. Len(all[i]) : all[i][j] = all[i][h] => j = h
    BY EachTraceHasResponses DEF CoverSize
  <2> HIDE DEF da, db, n
  <2>6. da + 1 \in 1 .. Len(all[i]) /\ db + 1 \in 1 .. Len(all[i]) /\ da \in Int /\ db \in Int
    BY <2>1, <2>2, <2>5
  <2>7. da + 1 = db + 1
    BY <2>4, <2>5, <2>6
  <2>8. da = db
    BY <2>6, <2>7
  <2> QED BY <2>8 DEF da, db
<1> QED BY <1>1, <1>2, <1>3, <1>6, RadixSame

LEMMA VPrimeHasAll ==
  ASSUME IutFits, CoverFits
  PROVE  VPrime = AllChoices /\ Cardinality(AllChoices) = length(allPossibleTraces)
<1> DEFINE all == allPossibleTraces
           l == length(allPossibleTraces)
           g == [a \in 0 .. l - 1 |-> getVDoublePrime(all, a)]
<1>1. l \in Nat \ {0}
  BY PowersAre
<1>2. VPrime = {getVDoublePrime(all, a) : a \in 1 .. l}
  BY DEF VPrime
<1>3. getVDoublePrime(all, l) = getVDoublePrime(all, 0)
  BY TopIsBottom
<1>4. \A a \in Nat : getVDoublePrime(all, a) \in AllChoices
  BY NumberIsChoice DEF AllChoices
<1>5. \A c \in AllChoices : \E a \in 0 .. l - 1 : getVDoublePrime(all, a) = c
  BY ChoiceHasNumber DEF AllChoices
<1>6. \A a, b \in 0 .. l - 1 : getVDoublePrime(all, a) = getVDoublePrime(all, b) => a = b
  BY NumbersDiffer
<1> HIDE DEF all, l
<1>7. VPrime = AllChoices
  <2>1. ASSUME NEW c \in VPrime PROVE c \in AllChoices
    BY <1>1, <1>2, <1>4, <2>1
  <2>2. ASSUME NEW c \in AllChoices PROVE c \in VPrime
    <3>1. PICK a \in 0 .. l - 1 : getVDoublePrime(all, a) = c
      BY <1>5
    <3>2. a = 0 \/ a \in 1 .. l
      BY <1>1
    <3>3. l \in 1 .. l
      BY <1>1
    <3> QED BY <1>2, <1>3, <3>1, <3>2, <3>3
  <2> QED BY <2>1, <2>2
<1>8. Cardinality(AllChoices) = l
  <2>1. IsFiniteSet(0 .. l - 1) /\ Cardinality(0 .. l - 1) = l
    BY <1>1, FS_Interval
  <2>2. \A a \in 0 .. l - 1 : g[a] = getVDoublePrime(all, a)
    OBVIOUS
  <2>3. DOMAIN g = 0 .. l - 1
    OBVIOUS
  <2>4. \A c \in AllChoices : \E a \in 0 .. l - 1 : c = g[a]
    BY <1>5, <2>2
  <2>5. \A a \in 0 .. l - 1 : g[a] \in AllChoices
    BY <1>1, <1>4, <2>2
  <2>6. \A a1, a2 \in 0 .. l - 1 : g[a1] = g[a2] => a1 = a2
    BY <1>6, <2>2
  <2> DEFINE X == 0 .. l - 1
  <2> HIDE DEF g
  <2>7. IsFiniteSet(AllChoices)
    BY <2>1, <2>3, <2>4, ImageFinite
  <2>8. /\ DOMAIN g = X
        /\ \A a \in X : g[a] \in AllChoices
        /\ \A c \in AllChoices : \E a \in X : c = g[a]
        /\ \A a1, a2 \in X : g[a1] = g[a2] => a1 = a2
    BY <2>3, <2>4, <2>5, <2>6
  <2>9. Cardinality(X) = l
    BY <2>1
  <2> HIDE DEF X
  <2>10. Cardinality(X) = Cardinality(AllChoices)
    BY <2>7, <2>8, FamilySize
  <2> QED BY <2>9, <2>10
<1> QED BY <1>7, <1>8 DEF l

(* the third conjunct of the verdict *)
LEMMA EveryChoiceCounted ==
  ASSUME IutFits, CoverFits
  PROVE  LET responses == UNION {Responses(iut, xs) : xs \in detStateCover}
             choices == {{f[xs] : xs \in detStateCover} :
                           f \in {f \in [detStateCover -> responses] : \A xs \in detStateCover : Inputs(f[xs]) = xs}}
         IN  VPrime = choices /\ Cardinality(choices) = length(allPossibleTraces)
<1>1. AllChoices = {{f[xs] : xs \in detStateCover} :
                   f \in {f \in [detStateCover -> CoverResponses] : \A xs \in detStateCover : Inputs(f[xs]) = xs}}
  BY DEF AllChoices, Chosen, ChoiceFunctions
<1> QED BY <1>1, VPrimeHasAll DEF CoverResponses

(***************************************************************************)
(* Parts of traces.                                                        *)
(***************************************************************************)
Rest(io, n) == SubSeq(io, n + 1, Len(io))

LEMMA PartsAre ==
  ASSUME NEW X, NEW io \in Seq(X), NEW n \in 0 .. Len(io)
  PROVE  /\ Prefix(io, n) \in Seq(X) /\ Len(Prefix(io, n)) = n
         /\ Rest(io, n) \in Seq(X) /\ Len(Rest(io, n)) = Len(io) - n
         /\ \A i \in 1 .. n : Prefix(io, n)[i] = io[i]
         /\ \A i \in 1 .. Len(io) - n : Rest(io, n)[i] = io[n + i]
<1>1. Len(io) \in Nat
  OBVIOUS
<1> QED BY <1>1 DEF Prefix, Rest

LEMMA PartsJoin ==
  ASSUME NEW X, NEW io \in Seq(X), NEW n \in 0 .. Len(io)
  PROVE  Prefix(io, n) \o Rest(io, n) = io
<1> DEFINE a == Prefix(io, n)
           b == Rest(io, n)
           l == Len(io)
<1>1. /\ a \in Seq(X) /\ Len(a) = n /\ b \in Seq(X) /\ Len(b) = l - n
      /\ \A i \in 1 .. n : a[i] = io[i]
      /\ \A i \in 1 .. l - n : b[i] = io[n + i]
  BY PartsAre
<1>2. l \in Nat /\ n \in 0 .. l
  OBVIOUS
<1> HIDE DEF a, b
<1>3. Len(a \o b) = l /\ a \o b \in Seq(X)
  BY <1>1, <1>2
<1>4. ASSUME NEW i \in 1 .. l PROVE (a \o b)[i] = io[i]
  <2>1. CASE i <= n
    <3>1. (a \o b)[i] = IF i <= Len(a) THEN a[i] ELSE b[i - Len(a)]
      BY <1>1, <1>2, ConcatProperties
    <3>2. i \in 1 .. n
      BY <1>2, <2>1
    <3> QED BY <1>1, <2>1, <3>1, <3>2
  <2>2. CASE i > n
    <3>0. (a \o b)[i] = IF i <= Len(a) THEN a[i] ELSE b[i - Len(a)]
      BY <1>1, <1>2, ConcatProperties
    <3>1. (a \o b)[i] = b[i - n]
      BY <1>1, <1>2, <2>2, <3>0
    <3>2. i - n \in 1 .. l - n
      BY <1>2, <2>2
    <3>3. b[i - n] = io[n + (i - n)]
      BY <1>1, <3>2
    <3>4. n + (i - n) = i
      BY <1>2
    <3> QED BY <3>1, <3>3, <3>4
  <2>3. i <= n \/ i > n
    BY <1>2
  <2> QED BY <2>1, <2>2, <2>3
<1>5. a \o b = io
  BY <1>3, <1>4, SeqEqual
<1> QED BY <1>5 DEF a, b

LEMMA PartsOfJoined ==
  ASSUME NEW X, NEW v \in Seq(X), NEW u \in Seq(X), NEW n \in 0 .. Len(u)
  PROVE  /\ v \o u \in Seq(X) /\ Len(v \o u) = Len(v) + Len(u)
         /\ Prefix(v \o u, Len(v) + n) = v \o Prefix(u, n)
         /\ Rest(v \o u, Len(v) + n) = Rest(u, n)
         /\ v \o u = (v \o Prefix(u, n)) \o Rest(u, n)
<1> DEFINE a == Prefix(u, n)
           b == Rest(u, n)
           w == v \o a
           io == v \o u
<1>1. a \in Seq(X) /\ Len(a) = n /\ b \in Seq(X) /\ Len(b) = Len(u) - n /\ u = a \o b
  BY PartsAre, PartsJoin
<1> HIDE DEF a, b
<1>2. io = w \o b /\ w \in Seq(X) /\ Len(w) = Len(v) + n /\ io \in Seq(X) /\ Len(io) = Len(v) + Len(u)
  <2>1. v \o (a \o b) = (v \o a) \o b
    BY <1>1, ConcatAssociative
  <2>2. io = w \o b
    BY <1>1, <2>1
  <2> QED BY <1>1, <2>2, ConcatProperties
<1> HIDE DEF io, w
<1>3. Prefix(io, Len(w)) = w /\ Rest(io, Len(w)) = b
  <2> DEFINE p == Prefix(io, Len(w))
             r == Rest(io, Len(w))
  <2>1. Len(w) \in 0 .. Len(io) /\ Len(io) = Len(w) + Len(b)
    BY <1>1, <1>2
  <2>2. /\ p \in Seq(X) /\ Len(p) = Len(w) /\ r \in Seq(X) /\ Len(r) = Len(io) - Len(w)
        /\ \A i \in 1 .. Len(w) : p[i] = io[i]
        /\ \A i \in 1 .. Len(io) - Len(w) : r[i] = io[Len(w) + i]
    BY <1>2, <2>1, PartsAre
  <2>3. \A i \in 1 .. Len(w) : io[i] = w[i]
    BY <1>1, <1>2
  <2>4. \A i \in 1 .. Len(b) : io[Len(w) + i] = b[i]
    BY <1>1, <1>2
  <2> HIDE DEF p, r
  <2>5. p = w
    BY <1>2, <2>2, <2>3, SeqEqual
  <2>6. Len(io) - Len(w) = Len(b)
    BY <1>1, <1>2, <2>1
  <2>7. r = b
    BY <1>1, <2>2, <2>4, <2>6, SeqEqual
  <2> QED BY <2>5, <2>7 DEF p, r
<1>4. Len(w) = Len(v) + n
  BY <1>2
<1>5. Prefix(io, Len(v) + n) = w /\ Rest(io, Len(v) + n) = b
  BY <1>3, <1>4
<1> QED BY <1>2, <1>5 DEF io, w, a, b

LEMMA JoinedPrefix ==
  \A v, p \in Seq(IO) : \A i \in 0 .. Len(p) :
     /\ v \o p \in Seq(IO) /\ Len(v \o p) = Len(v) + Len(p)
     /\ Prefix(v \o p, Len(v) + i) = v \o Prefix(p, i)
<1> TAKE v, p \in Seq(IO)
<1> TAKE i \in 0 .. Len(p)
<1> QED BY PartsOfJoined

LEMMA InputsOfPrefix ==
  ASSUME NEW io \in Seq(IO), NEW n \in 0 .. Len(io)
  PROVE  Inputs(Prefix(io, n)) = Prefix(Inputs(io), n)
<1> DEFINE p == Prefix(io, n)
           xs == Inputs(io)
<1>1. p \in Seq(IO) /\ Len(p) = n /\ \A i \in 1 .. n : p[i] = io[i]
  BY PartsAre
<1>2. xs \in Seq(In) /\ Len(xs) = Len(io) /\ \A i \in 1 .. Len(io) : xs[i] = io[i][1]
  BY InputsTyped
<1> HIDE DEF p, xs
<1>3. Inputs(p) \in Seq(In) /\ Len(Inputs(p)) = n /\ \A i \in 1 .. n : Inputs(p)[i] = p[i][1]
  BY <1>1, InputsTyped
<1>4. Prefix(xs, n) \in Seq(In) /\ Len(Prefix(xs, n)) = n /\ \A i \in 1 .. n : Prefix(xs, n)[i] = xs[i]
  BY <1>2, PartsAre
<1>5. \A i \in 1 .. n : i \in 1 .. Len(io)
  OBVIOUS
<1>6. \A i \in 1 .. n : Inputs(p)[i] = Prefix(xs, n)[i]
  BY <1>1, <1>2, <1>3, <1>4, <1>5
<1>7. Inputs(p) = Prefix(xs, n)
  BY <1>3, <1>4, <1>6
<1> QED BY <1>7 DEF p, xs

LEMMA PrefixMeans ==
  ASSUME NEW X, NEW s \in Seq(X), NEW v \in Seq(X)
  PROVE  IsPrefix(s, v) <=> Len(s) <= Len(v) /\ Prefix(v, Len(s)) = s
<1>1. SubSeq(s, 1, Len(s)) = s
  OBVIOUS
<1> QED BY <1>1 DEF IsPrefix, Prefix

(* the longest trace of the state cover that is a prefix of xs *)
LEMMA MaxPrefixIs ==
  ASSUME CoverFits, << >> \in detStateCover, NEW xs \in Seq(In)
  PROVE  /\ MaxPrefixInV(xs) \in detStateCover
         /\ IsPrefix(MaxPrefixInV(xs), xs)
         /\ \A u \in detStateCover : IsPrefix(u, xs) => Len(u) <= Len(MaxPrefixInV(xs))
<1> DEFINE Fits(v) == IsPrefix(v, xs)
           L == {Len(v) : v \in {u \in detStateCover : Fits(u)}}
<1>1. Fits(<< >>)
  <2>1. << >> \in Seq(In) /\ Len(<< >>) = 0 /\ Prefix(xs, 0) = << >> /\ 0 <= Len(xs)
    BY DEF Prefix
  <2> QED BY <2>1, PrefixMeans
<1>2. Len(xs) \in Nat /\ L \subseteq 0 .. Len(xs)
  <2> SUFFICES ASSUME NEW v \in detStateCover, Fits(v) PROVE Len(v) \in 0 .. Len(xs)
    OBVIOUS
  <2>1. v \in Seq(In)
    BY DEF CoverFits
  <2>2. Len(v) <= Len(xs)
    BY <2>1, PrefixMeans
  <2> QED BY <2>1, <2>2
<1>3. L # {}
  BY <1>1
<1>4. Max(L) \in L /\ \A y \in L : y <= Max(L)
  BY <1>2, <1>3, MaxOf
<1>5. PICK v \in detStateCover : Fits(v) /\ Len(v) = Max(L)
  BY <1>4
<1>6. \A u \in detStateCover : Fits(u) => Len(u) \in L
  OBVIOUS
<1> HIDE DEF L
<1>7. \A u \in detStateCover : Fits(u) => Len(u) <= Len(v)
  BY <1>4, <1>5, <1>6
<1>8. \E w \in detStateCover : IsPrefix(w, xs) /\ \A u \in detStateCover : IsPrefix(u, xs) => Len(u) <= Len(w)
  BY <1>5, <1>7
<1> QED BY <1>8 DEF MaxPrefixInV

(***************************************************************************)
(* What the state reached by a trace has to do with the states reached by  *)
(* its inputs.                                                             *)
(***************************************************************************)
LEMMA TraceReaches ==
  ASSUME rows \in Machines, NEW io \in Seq(IO), After(rows, 0, io) >= 0
  PROVE  After(rows, 0, io) \in Reached(rows, Inputs(io))
<1> DEFINE A == {u \in Seq(IO) : After(rows, 0, u) >= 0 => After(rows, 0, u) \in Reached(rows, Inputs(u))}
<1>1. << >> \in A
  BY AfterEmpty, ReachedEmpty, InputsEmpty
<1>2. ASSUME NEW u \in Seq(IO), NEW e \in IO, u \in A PROVE Append(u, e) \in A
  <2> DEFINE q == After(rows, 0, u)
             x == e[1]
             y == e[2]
  <2>0. 0 \in State
    BY SizeFacts
  <2>1. After(rows, 0, Append(u, e)) = IF q < 0 THEN -1 ELSE rows[q][e]
    BY AfterAppend
  <2>2. x \in In /\ y \in Out /\ e = <<x, y>>
    BY DEF IO
  <2>3. Inputs(Append(u, e)) = Append(Inputs(u), x) /\ Inputs(u) \in Seq(In)
    BY InputsAppend, InputsTyped
  <2>4. Append(u, e) \in Seq(IO)
    OBVIOUS
  <2>5. q \in State \cup {-1} /\ (q >= 0 <=> q \in State)
    BY <2>0, AfterTyped
  <2> HIDE DEF q, x, y
  <2> SUFFICES ASSUME After(rows, 0, Append(u, e)) >= 0
               PROVE  After(rows, 0, Append(u, e)) \in Reached(rows, Inputs(Append(u, e)))
    BY <2>4
  <2>6. q \in State /\ After(rows, 0, Append(u, e)) = rows[q][e] /\ rows[q][e] >= 0
    <3>1. ~(q < 0)
      BY <2>1
    <3>2. q \in State
      BY <2>5, <3>1, SizeFacts
    <3> QED BY <2>1, <3>1, <3>2
  <2>7. q \in Reached(rows, Inputs(u))
    <3>1. After(rows, 0, u) >= 0
      BY <2>5, <2>6 DEF q
    <3> QED BY <1>2, <3>1 DEF q
  <2>8. rows[q][e] \in SuccessorsOf(rows, q, x)
    BY <2>2, <2>6 DEF SuccessorsOf, PossibleOutputs
  <2>9. Reached(rows, Append(Inputs(u), x)) = UNION {SuccessorsOf(rows, s, x) : s \in Reached(rows, Inputs(u))}
    <3> DEFINE xs == Inputs(u)
    <3>1. xs \in Seq(In)
      BY <2>3
    <3> HIDE DEF xs
    <3>2. Reached(rows, Append(xs, x)) = UNION {SuccessorsOf(rows, s, x) : s \in Reached(rows, xs)}
      BY <2>2, <3>1, ReachedSteps
    <3> QED BY <3>2 DEF xs
  <2>10. rows[q][e] \in Reached(rows, Append(Inputs(u), x))
    BY <2>7, <2>8, <2>9
  <2> QED BY <2>3, <2>6, <2>10
<1>3. io \in A
  <2> HIDE DEF A
  <2> QED BY <1>1, <1>2, SeqInduction
<1> QED BY <1>3

(***************************************************************************)
(* Pairs of states reached together, and what tells that the               *)
(* implementation is no reduction: a trace of its own only.                *)
(***************************************************************************)
BadTrace(w) == w \in Seq(IO) /\ After(iut, 0, w) >= 0 /\ After(rows, 0, w) < 0

Shared(u) == After(rows, 0, u) >= 0 /\ After(iut, 0, u) >= 0
PairAfter(u) == <<After(rows, 0, u), After(iut, 0, u)>>
PairsWithin(n) == {PairAfter(u) : u \in {v \in Seq(IO) : Len(v) <= n /\ Shared(v)}}

NextPairs(S) ==
  S \cup {pr \in {<<rows[s[1]][l], iut[s[2]][l]>> : s \in S, l \in IO} : pr[1] >= 0 /\ pr[2] >= 0}

LEMMA PairsWithinIs ==
  ASSUME NEW n, NEW pr
  PROVE  pr \in PairsWithin(n) <=> \E u \in Seq(IO) : Len(u) <= n /\ Shared(u) /\ pr = PairAfter(u)
BY DEF PairsWithin

LEMMA SharedAppend ==
  ASSUME rows \in Machines, IutTyped, NEW u \in Seq(IO), NEW l \in IO
  PROVE  /\ Shared(Append(u, l)) => Shared(u)
         /\ Shared(u) => /\ PairAfter(Append(u, l)) = <<rows[After(rows, 0, u)][l], iut[After(iut, 0, u)][l]>>
                         /\ Shared(Append(u, l)) <=> rows[After(rows, 0, u)][l] >= 0 /\ iut[After(iut, 0, u)][l] >= 0
                         /\ PairAfter(u)[1] = After(rows, 0, u) /\ PairAfter(u)[2] = After(iut, 0, u)
<1> DEFINE a == After(rows, 0, u)
           b == After(iut, 0, u)
<1>1. After(rows, 0, Append(u, l)) = IF a < 0 THEN -1 ELSE rows[a][l]
  BY AfterAppend
<1>2. After(iut, 0, Append(u, l)) = IF b < 0 THEN -1 ELSE iut[b][l]
  BY AfterAppend
<1>3. a \in Int
  <2>1. a \in State \cup {-1}
    BY SizeFacts, AfterTyped
  <2>2. a \in Nat \/ a = -1
    BY <2>1, SizeFacts
  <2> HIDE DEF a
  <2> QED BY <2>2
<1>4. b \in Int
  <2>1. PICK k \in Nat \ {0} : iut \in OnStates(k)
    BY DEF IutTyped
  <2>2. b \in -1 .. k - 1
    BY <2>1, TraceTyped
  <2> QED BY <2>2
<1> HIDE DEF a, b
<1>5. a >= 0 <=> ~(a < 0)
  BY <1>3
<1>6. b >= 0 <=> ~(b < 0)
  BY <1>4
<1>7. /\ Shared(Append(u, l)) <=> After(rows, 0, Append(u, l)) >= 0 /\ After(iut, 0, Append(u, l)) >= 0
      /\ Shared(u) <=> a >= 0 /\ b >= 0
      /\ PairAfter(u) = <<a, b>>
      /\ PairAfter(Append(u, l)) = <<After(rows, 0, Append(u, l)), After(iut, 0, Append(u, l))>>
  BY DEF Shared, PairAfter, a, b
<1>8. Shared(u) => After(rows, 0, Append(u, l)) = rows[a][l] /\ After(iut, 0, Append(u, l)) = iut[b][l]
  BY <1>1, <1>2, <1>5, <1>6, <1>7
<1>9. Shared(Append(u, l)) => Shared(u)
  BY <1>1, <1>2, <1>5, <1>6, <1>7
<1>10. Shared(u) => /\ PairAfter(Append(u, l)) = <<rows[a][l], iut[b][l]>>
                    /\ Shared(Append(u, l)) <=> rows[a][l] >= 0 /\ iut[b][l] >= 0
                    /\ PairAfter(u)[1] = a /\ PairAfter(u)[2] = b
  BY <1>7, <1>8
<1> QED BY <1>9, <1>10 DEF a, b

LEMMA NextPairsIs ==
  ASSUME NEW S, NEW pr
  PROVE  pr \in NextPairs(S) <=>
           pr \in S \/ \E s \in S, l \in IO : /\ pr = <<rows[s[1]][l], iut[s[2]][l]>>
                                              /\ rows[s[1]][l] >= 0 /\ iut[s[2]][l] >= 0
BY DEF NextPairs

LEMMA PairsGrow ==
  ASSUME rows \in Machines, IutTyped, NEW n \in Nat
  PROVE  NextPairs(PairsWithin(n)) = PairsWithin(n + 1)
<1>1. ASSUME NEW pr \in NextPairs(PairsWithin(n)) PROVE pr \in PairsWithin(n + 1)
  <2>1. CASE pr \in PairsWithin(n)
    <3>1. PICK u \in Seq(IO) : Len(u) <= n /\ Shared(u) /\ pr = PairAfter(u)
      BY <2>1, PairsWithinIs
    <3>2. Len(u) <= n + 1
      BY <3>1
    <3> QED BY <3>1, <3>2, PairsWithinIs
  <2>2. ASSUME NEW s \in PairsWithin(n), NEW l \in IO,
               pr = <<rows[s[1]][l], iut[s[2]][l]>>, rows[s[1]][l] >= 0, iut[s[2]][l] >= 0
        PROVE  pr \in PairsWithin(n + 1)
    <3>1. PICK u \in Seq(IO) : Len(u) <= n /\ Shared(u) /\ s = PairAfter(u)
      BY PairsWithinIs
    <3>2. s[1] = After(rows, 0, u) /\ s[2] = After(iut, 0, u)
      BY <3>1, SharedAppend
    <3>3. Shared(Append(u, l)) /\ PairAfter(Append(u, l)) = pr
      BY <2>2, <3>1, <3>2, SharedAppend
    <3>4. Append(u, l) \in Seq(IO) /\ Len(Append(u, l)) <= n + 1
      BY <3>1
    <3> QED BY <3>3, <3>4, PairsWithinIs
  <2> QED BY <1>1, <2>1, <2>2, NextPairsIs
<1>2. ASSUME NEW pr \in PairsWithin(n + 1) PROVE pr \in NextPairs(PairsWithin(n))
  <2>1. PICK u \in Seq(IO) : Len(u) <= n + 1 /\ Shared(u) /\ pr = PairAfter(u)
    BY <1>2, PairsWithinIs
  <2>2. CASE Len(u) <= n
    BY <2>1, <2>2, PairsWithinIs, NextPairsIs
  <2>3. CASE ~(Len(u) <= n)
    <3>1. u # << >>
      BY <2>3
    <3>2. PICK v \in Seq(IO), l \in IO : u = Append(v, l)
      BY <3>1, SequenceEmptyOrAppend
    <3>3. Len(v) <= n
      BY <2>1, <3>2
    <3>4. Shared(v)
      BY <2>1, <3>2, SharedAppend
    <3>5. PairAfter(v) \in PairsWithin(n)
      BY <3>3, <3>4, PairsWithinIs
    <3>6. /\ pr = <<rows[PairAfter(v)[1]][l], iut[PairAfter(v)[2]][l]>>
          /\ rows[PairAfter(v)[1]][l] >= 0 /\ iut[PairAfter(v)[2]][l] >= 0
      BY <2>1, <3>2, <3>4, SharedAppend
    <3> QED BY <3>5, <3>6, NextPairsIs
  <2> QED BY <2>2, <2>3
<1> QED BY <1>1, <1>2

LEMMA ReachedPairsAre ==
  ASSUME rows \in Machines, IutTyped
  PROVE  \A s \in ReachedPairs(iut) : \E u \in Seq(IO) : Shared(u) /\ s = PairAfter(u)
<1> DEFINE Is(f) == f = [n \in Nat |-> IF n = 0 THEN {<<0, 0>>} ELSE NextPairs(f[n - 1])]
           N == numStates * Cardinality(DOMAIN iut)
           g == [n \in Nat |-> PairsWithin(n)]
           h == CHOOSE f : Is(f)
<1>1. ReachedPairs(iut) = h[N]
  BY DEF ReachedPairs, NextPairs
<1>2. N \in Nat
  <2>1. PICK k \in Nat \ {0} : iut \in OnStates(k)
    BY DEF IutTyped
  <2>2. DOMAIN iut = 0 .. k - 1
    BY <2>1 DEF OnStates
  <2>3. Cardinality(0 .. k - 1) \in Nat
    BY <2>1, FS_Interval
  <2> QED BY <2>2, <2>3, SizeAssumption
<1>3. PairsWithin(0) = {<<0, 0>>}
  <2>1. Shared(<< >>) /\ PairAfter(<< >>) = <<0, 0>> /\ << >> \in Seq(IO) /\ Len(<< >>) = 0
    BY AfterEmpty DEF Shared, PairAfter
  <2>2. \A u \in Seq(IO) : Len(u) <= 0 => u = << >>
    <3> SUFFICES ASSUME NEW u \in Seq(IO), Len(u) <= 0 PROVE u = << >>
      OBVIOUS
    <3>1. Len(u) = 0
      OBVIOUS
    <3> QED BY <3>1, EmptySeq
  <2>3. <<0, 0>> \in PairsWithin(0)
    <3>1. Len(<< >>) <= 0
      BY <2>1
    <3> QED BY <2>1, <3>1, PairsWithinIs
  <2>4. ASSUME NEW pr \in PairsWithin(0) PROVE pr = <<0, 0>>
    <3>1. PICK u \in Seq(IO) : Len(u) <= 0 /\ pr = PairAfter(u)
      BY PairsWithinIs
    <3>2. u = << >>
      BY <2>2, <3>1
    <3> QED BY <2>1, <3>1, <3>2
  <2> QED BY <2>3, <2>4
<1>4. ASSUME NEW n \in Nat PROVE g[n] = IF n = 0 THEN {<<0, 0>>} ELSE NextPairs(g[n - 1])
  <2>1. CASE n = 0
    BY <1>3, <2>1
  <2>2. CASE n # 0
    <3>1. n - 1 \in Nat /\ (n - 1) + 1 = n
      BY <2>2
    <3>2. NextPairs(PairsWithin(n - 1)) = PairsWithin(n)
      BY <3>1, PairsGrow
    <3> QED BY <2>2, <3>1, <3>2
  <2> QED BY <2>1, <2>2
<1>5. Is(g)
  <2> DEFINE r == [n \in Nat |-> IF n = 0 THEN {<<0, 0>>} ELSE NextPairs(g[n - 1])]
  <2>1. DOMAIN g = Nat /\ DOMAIN r = Nat
    OBVIOUS
  <2>2. \A n \in Nat : r[n] = IF n = 0 THEN {<<0, 0>>} ELSE NextPairs(g[n - 1])
    OBVIOUS
  <2>3. g = [n \in Nat |-> g[n]] /\ r = [n \in Nat |-> r[n]]
    OBVIOUS
  <2> HIDE DEF g
  <2>4. \A n \in Nat : g[n] = r[n]
    BY <1>4, <2>2
  <2> HIDE DEF r
  <2>5. g = r
    BY <2>3, <2>4
  <2> QED BY <2>5 DEF r
<1> HIDE DEF Is, g
<1>6. Is(h)
  BY <1>5
<1> HIDE DEF h
<1> DEFINE A == {n \in Nat : h[n] \subseteq PairsWithin(n)}
<1>7. h = [n \in Nat |-> IF n = 0 THEN {<<0, 0>>} ELSE NextPairs(h[n - 1])]
  BY <1>6 DEF Is
<1>8. \A n \in Nat : h[n] = IF n = 0 THEN {<<0, 0>>} ELSE NextPairs(h[n - 1])
  BY <1>7
<1>9. 0 \in A
  BY <1>3, <1>8
<1>10. ASSUME NEW n \in Nat, n \in A PROVE n + 1 \in A
  <2>1. h[n + 1] = NextPairs(h[n])
    <3>1. n + 1 \in Nat /\ n + 1 # 0 /\ (n + 1) - 1 = n
      OBVIOUS
    <3> QED BY <1>8, <3>1
  <2>2. h[n] \subseteq PairsWithin(n)
    BY <1>10
  <2>3. ASSUME NEW pr \in h[n + 1] PROVE pr \in NextPairs(PairsWithin(n))
    BY <2>1, <2>2, <2>3, NextPairsIs
  <2>4. h[n + 1] \subseteq PairsWithin(n + 1)
    BY <2>3, PairsGrow
  <2> QED BY <2>4
<1>11. N \in A
  <2> HIDE DEF A, N
  <2> QED BY <1>2, <1>9, <1>10, SetInduction
<1> QED BY <1>1, <1>11, PairsWithinIs

LEMMA NotReductionShows ==
  ASSUME rows \in Machines, IutFits, ~IsReduction
  PROVE  \E w : BadTrace(w)
<1>0. IutTyped
  BY DEF IutFits, IutTyped
<1>1. PICK s \in ReachedPairs(iut), l \in IO : iut[s[2]][l] >= 0 /\ ~(rows[s[1]][l] >= 0)
  BY DEF IsReduction
<1>2. PICK u \in Seq(IO) : Shared(u) /\ s = PairAfter(u)
  BY <1>0, ReachedPairsAre
<1> DEFINE w == Append(u, l)
<1>3. s[1] = After(rows, 0, u) /\ s[2] = After(iut, 0, u) /\ s[1] >= 0 /\ s[2] >= 0
  BY <1>0, <1>2, SharedAppend DEF Shared
<1>4. After(rows, 0, w) = IF After(rows, 0, u) < 0 THEN -1 ELSE rows[After(rows, 0, u)][l]
  BY AfterAppend
<1>5. After(iut, 0, w) = IF After(iut, 0, u) < 0 THEN -1 ELSE iut[After(iut, 0, u)][l]
  BY AfterAppend
<1>6. s[1] \in State
  BY <1>3, AfterTyped, SizeFacts
<1>7. rows[s[1]][l] \in State \cup {-1}
  BY <1>6 DEF Machines
<1>8. s[2] \in Nat
  <2>1. PICK k \in Nat \ {0} : iut \in OnStates(k)
    BY DEF IutFits
  <2> QED BY <1>3, <2>1, TraceTyped
<1>9. After(iut, 0, w) = iut[s[2]][l]
  <2>1. ~(s[2] < 0)
    BY <1>8
  <2> QED BY <1>3, <1>5, <2>1
<1>10. After(rows, 0, w) = rows[s[1]][l]
  <2>0. s[1] \in Nat
    BY <1>6, SizeFacts
  <2>1. ~(s[1] < 0)
    BY <2>0
  <2> QED BY <1>3, <1>4, <2>1
<1>11. rows[s[1]][l] < 0
  <2>1. rows[s[1]][l] \in Nat \/ rows[s[1]][l] = -1
    BY <1>7, SizeFacts
  <2> QED BY <1>1, <2>1
<1>12. w \in Seq(IO)
  OBVIOUS
<1>13. BadTrace(w)
  BY <1>1, <1>9, <1>10, <1>11, <1>12 DEF BadTrace
<1> QED BY <1>13

(***************************************************************************)
(* What a test without failure says, and why a trace that is long enough   *)
(* need not be extended.                                                   *)
(***************************************************************************)
AnswersOf(k) == {AdaptiveTraces(iut, s) : s \in 0 .. k - 1}

Tested(k) ==
  /\ RInv /\ TreesBounded /\ RootReached /\ rPhase = "done" /\ IsComplete(rows)
  /\ k \in Nat \ {0} /\ k <= m /\ iut \in OnStates(k) /\ IsComplete(iut)
  /\ omega \in AdaptiveRCharacterisationSets

SeenAfter(base, io, states, vDoublePrime) ==
  {bOmegaOf(v) : v \in UNION {VisitsPlus(q, base, io, vDoublePrime) : q \in states}}
BoundWith(base, io, states, vDoublePrime, seen) ==
  Cardinality(AllVisits(states, base, io))
  + Cardinality(states \cap dReachableStates)
  + Cardinality(seen \ SeenAfter(base, io, states, vDoublePrime))

(* n inputs are the longest prefix in the state cover *)
IsBase(io, n) ==
  /\ Prefix(Inputs(io), n) \in detStateCover
  /\ \A xs \in detStateCover : IsPrefix(xs, Inputs(io)) => Len(xs) <= n

ToldSets == {S \in SUBSET State : Told2(S)}

LongEnough(io, seen) ==
  \E n \in 0 .. Len(io), c \in AllChoices, states \in ToldSets :
    /\ IsBase(io, n) /\ Prefix(io, n) \in c
    /\ BoundWith(Prefix(io, n), io, states, c, seen) > m

LEMMA TestedFacts ==
  ASSUME NEW k, Tested(k)
  PROVE  /\ rows \in Machines /\ rows \in OnStates(numStates) /\ LevelInv /\ RInv
         /\ IutFits /\ CoverFits /\ << >> \in detStateCover
         /\ dReachableStates \subseteq State
         /\ \A q \in dReachableStates : dReachTrace[q] \in detStateCover /\ Reached(rows, dReachTrace[q]) = {q}
<1>1. rows \in Machines /\ LevelInv /\ RInv
  BY DEF Tested, RInv, LevelInv, LevelTypes
<1>2. rows \in OnStates(numStates)
  BY <1>1, MachinesOnStates
<1>3. IutFits
  BY DEF Tested, IutFits
<1>4. dReachTrace \in [State -> Seq(In) \cup {NoTrace}] /\ dReachTrace[0] = << >> /\ 0 \in State
  BY SizeFacts DEF Tested, RInv, CoverInv, RootReached
<1>5. \A q \in dReachableStates : q \in State /\ dReachTrace[q] # NoTrace
  BY DEF dReachableStates
<1>6. \A q \in dReachableStates : dReachTrace[q] \in detStateCover
  BY DEF detStateCover
<1>7. 0 \in dReachableStates
  <2>1. << >> \in Seq(In)
    OBVIOUS
  <2>2. << >> # NoTrace
    BY <2>1, NoTraceIsNone
  <2> QED BY <1>4, <2>2 DEF dReachableStates
<1>8. CoverFits
  <2>1. detStateCover \subseteq Seq(In)
    BY <1>4, <1>5 DEF detStateCover
  <2>2. IsFiniteSet(detStateCover)
    <3> DEFINE g == [q \in State |-> dReachTrace[q]]
    <3>1. IsFiniteSet(State)
      BY FS_Interval, SizeAssumption DEF State
    <3>2. \A z \in detStateCover : \E q \in State : z = g[q]
      BY <1>5 DEF detStateCover
    <3>3. DOMAIN g = State
      OBVIOUS
    <3> HIDE DEF g
    <3> QED BY <3>1, <3>2, <3>3, ImageFinite
  <2> QED BY <2>1, <2>2 DEF CoverFits
<1>9. \A q \in dReachableStates : Reached(rows, dReachTrace[q]) = {q}
  BY <1>1, <1>5 DEF RInv, CoverInv
<1> QED BY <1>1, <1>2, <1>3, <1>4, <1>5, <1>6, <1>7, <1>8, <1>9

LEMMA MeetsIsLongEnough ==
  ASSUME NEW k, Tested(k), NEW io \in Seq(IO), MeetsCriteria(io, VPrime, MaximalSets)
  PROVE  LongEnough(io, bOmegaT)
<1> DEFINE xs == Inputs(io)
           mp == MaxPrefixInV(xs)
           n == Len(mp)
           base == Prefix(io, n)
<1>1. xs \in Seq(In) /\ Len(xs) = Len(io)
  BY InputsTyped
<1>2. CoverFits /\ << >> \in detStateCover /\ IutFits /\ LevelInv
  BY TestedFacts
<1>3. /\ mp \in detStateCover /\ IsPrefix(mp, xs)
      /\ \A y \in detStateCover : IsPrefix(y, xs) => Len(y) <= Len(mp)
  BY <1>1, <1>2, MaxPrefixIs
<1>4. mp \in Seq(In)
  BY <1>2, <1>3 DEF CoverFits
<1>5. n <= Len(xs) /\ Prefix(xs, n) = mp
  BY <1>1, <1>3, <1>4, PrefixMeans
<1>6. n \in 0 .. Len(io)
  BY <1>1, <1>4, <1>5
<1>7. IsBase(io, n)
  BY <1>3, <1>5 DEF IsBase
<1>8. base = SubSeq(io, 1, n)
  BY DEF Prefix
<1>9. PICK c \in VPrime, S \in MaximalSets : base \in c /\ lowerBound(base, io, S, c) > m
  BY <1>8 DEF MeetsCriteria
<1>10. VPrime = AllChoices
  BY <1>2, VPrimeHasAll
<1>11. S \in SUBSET State /\ Told2(S)
  BY <1>2, <1>9, MaximalSetsTold
<1>12. S \in ToldSets
  BY <1>11 DEF ToldSets
<1>13. base \in Seq(IO)
  BY <1>6, PartsAre
<1> HIDE DEF xs, mp, n, base
<1>14. IsFiniteSet(S)
  <2>1. IsFiniteSet(State)
    BY FS_Interval, SizeAssumption DEF State
  <2> QED BY <1>11, <2>1, FS_Subset
<1>15. MapThenSumSet(LAMBDA q : Cardinality(Visits(q, base, io)), S) = Cardinality(AllVisits(S, base, io))
  BY <1>13, <1>14, VisitsSum
<1>16. lowerBound(base, io, S, c) = BoundWith(base, io, S, c, bOmegaT)
  BY <1>15 DEF lowerBound, BoundWith, SeenAfter
<1>17. BoundWith(base, io, S, c, bOmegaT) > m
  BY <1>9, <1>16
<1>18. base = Prefix(io, n)
  BY DEF base
<1> QED BY <1>6, <1>7, <1>9, <1>10, <1>12, <1>17, <1>18 DEF LongEnough

LEMMA NoFailureMeans ==
  ASSUME NEW k, Tested(k), NEW io \in Seq(IO), Failures(Inputs(io)) = {}, After(iut, 0, io) >= 0
  PROVE  /\ After(rows, 0, io) >= 0 /\ After(rows, 0, io) \in State
         /\ After(iut, 0, io) \in 0 .. k - 1
         /\ AdaptiveTraces(iut, After(iut, 0, io)) \subseteq AdaptiveTraces(rows, After(rows, 0, io))
<1> DEFINE xs == Inputs(io)
           p == After(iut, 0, io)
           q == After(rows, 0, io)
<1>1. xs \in Seq(In)
  BY InputsTyped
<1>2. k \in Nat \ {0} /\ iut \in OnStates(k) /\ rows \in Machines
  BY TestedFacts DEF Tested
<1>3. io \in Responses(iut, xs)
  BY <1>1, <1>2, ResponsesAre
<1>4. \A j \in Responses(iut, xs) :
        (IF After(rows, 0, j) < 0 THEN {j}
         ELSE {j \o w : w \in AdaptiveTraces(iut, After(iut, 0, j)) \ AdaptiveTraces(rows, After(rows, 0, j))}) = {}
  BY DEF Failures
<1>5. (IF q < 0 THEN {io} ELSE {io \o w : w \in AdaptiveTraces(iut, p) \ AdaptiveTraces(rows, q)}) = {}
  BY <1>3, <1>4
<1>6. q \in State \cup {-1} /\ (q >= 0 <=> q \in State) /\ (q < 0 <=> q = -1)
  BY <1>2, SizeFacts, AfterTyped
<1>7. p \in 0 .. k - 1
  <2>1. 0 \in 0 .. k - 1
    BY <1>2
  <2> QED BY <1>2, <2>1, TraceTyped
<1> HIDE DEF p, q
<1>8. ~(q < 0)
  BY <1>5
<1>9. q \in State
  BY <1>6, <1>8
<1>10. AdaptiveTraces(iut, p) \ AdaptiveTraces(rows, q) = {}
  BY <1>5, <1>8
<1> QED BY <1>6, <1>7, <1>9, <1>10 DEF p, q

(* after two traces that lead to the same states what follows is the same *)
LEMMA SwapTraces ==
  ASSUME NEW k, Tested(k), NEW a \in Seq(IO), NEW b \in Seq(IO), NEW z \in Seq(IO),
         After(iut, 0, a) = After(iut, 0, b), After(rows, 0, a) = After(rows, 0, b), BadTrace(b \o z)
  PROVE  BadTrace(a \o z)
<1>1. k \in Nat \ {0} /\ iut \in OnStates(k) /\ rows \in OnStates(numStates) /\ numStates \in Nat \ {0}
  BY TestedFacts, SizeAssumption DEF Tested
<1>2. 0 \in 0 .. k - 1 /\ 0 \in 0 .. numStates - 1
  BY <1>1
<1>3. \A w \in Seq(IO) : After(iut, 0, w \o z) = IF After(iut, 0, w) < 0 THEN -1 ELSE After(iut, After(iut, 0, w), z)
  BY <1>1, <1>2, TraceConcat
<1>4. \A w \in Seq(IO) : After(rows, 0, w \o z) = IF After(rows, 0, w) < 0 THEN -1 ELSE After(rows, After(rows, 0, w), z)
  BY <1>1, <1>2, TraceConcat
<1>5. After(iut, 0, a \o z) = After(iut, 0, b \o z)
  BY <1>3
<1>6. After(rows, 0, a \o z) = After(rows, 0, b \o z)
  BY <1>4
<1>7. a \o z \in Seq(IO)
  OBVIOUS
<1> QED BY <1>5, <1>6, <1>7 DEF BadTrace

(* what leads iut to one state leads to one state of a set of r-distinguishable ones *)
LEMMA SameSpecState ==
  ASSUME NEW k, Tested(k), NEW S \in ToldSets, NEW a \in Seq(IO), NEW b \in Seq(IO),
         Failures(Inputs(a)) = {}, Failures(Inputs(b)) = {},
         After(iut, 0, a) >= 0, After(iut, 0, a) = After(iut, 0, b),
         After(rows, 0, a) \in S, After(rows, 0, b) \in S
  PROVE  After(rows, 0, a) = After(rows, 0, b)
<1> DEFINE p == After(iut, 0, a)
           q1 == After(rows, 0, a)
           q2 == After(rows, 0, b)
<1> SUFFICES ASSUME q1 # q2 PROVE FALSE
  OBVIOUS
<1>1. p \in 0 .. k - 1 /\ q1 \in State /\ AdaptiveTraces(iut, p) \subseteq AdaptiveTraces(rows, q1)
  BY NoFailureMeans
<1>2. q2 \in State /\ AdaptiveTraces(iut, p) \subseteq AdaptiveTraces(rows, q2)
  BY NoFailureMeans
<1>3. <<q1, q2>> \in Told
  <2>2. Told2(S)
    BY DEF ToldSets
  <2> QED BY <2>2 DEF Told2
<1> HIDE DEF p, q1, q2
<1>4. RInv /\ TreesBounded /\ IsComplete(rows) /\ omega \in AdaptiveRCharacterisationSets
      /\ k \in Nat /\ iut \in OnStates(k) /\ IsComplete(iut)
  BY DEF Tested
<1> QED BY <1>1, <1>2, <1>3, <1>4, ToldSeparates

(***************************************************************************)
(* A trace of iut only that takes fewest steps after a response to a trace *)
(* of the state cover: none of its prefixes is long enough.                *)
(***************************************************************************)
NoCoverFailure == \A xs \in detStateCover : Failures(xs) = {}

Shortest(k, v, u) ==
  /\ Tested(k) /\ NoCoverFailure
  /\ v \in CoverResponses /\ u \in Seq(IO) /\ BadTrace(v \o u)
  /\ \A b \in CoverResponses, z \in Seq(IO) : BadTrace(b \o z) => Len(u) <= Len(z)

LEMMA CoverResponseIs ==
  ASSUME NEW k, Tested(k), NEW v
  PROVE  v \in CoverResponses <=> v \in Seq(IO) /\ Inputs(v) \in detStateCover /\ After(iut, 0, v) >= 0
<1>1. k \in Nat \ {0} /\ iut \in OnStates(k) /\ detStateCover \subseteq Seq(In)
  BY TestedFacts DEF Tested, CoverFits
<1>2. \A xs \in detStateCover : Responses(iut, xs) = {io \in Seq(IO) : Inputs(io) = xs /\ After(iut, 0, io) >= 0}
  BY <1>1, ResponsesAre
<1> QED BY <1>2 DEF CoverResponses

LEMMA PartShown ==
  ASSUME NEW k, NEW v, NEW u, Shortest(k, v, u), NEW i \in 0 .. Len(u)
  PROVE  /\ v \in Seq(IO) /\ v \o Prefix(u, i) \in Seq(IO) /\ Len(v \o Prefix(u, i)) = Len(v) + i
         /\ Rest(u, i) \in Seq(IO) /\ Len(Rest(u, i)) = Len(u) - i
         /\ Prefix(u, i) \in Seq(IO) /\ Len(Prefix(u, i)) = i
         /\ BadTrace((v \o Prefix(u, i)) \o Rest(u, i))
         /\ After(iut, 0, v \o Prefix(u, i)) >= 0
<1>1. v \in Seq(IO) /\ u \in Seq(IO) /\ Tested(k) /\ BadTrace(v \o u)
  BY CoverResponseIs DEF Shortest
<1> DEFINE a == Prefix(u, i)
           b == Rest(u, i)
<1>2. a \in Seq(IO) /\ Len(a) = i /\ b \in Seq(IO) /\ Len(b) = Len(u) - i /\ v \o u = (v \o a) \o b
  <2>1. a \in Seq(IO) /\ Len(a) = i /\ b \in Seq(IO) /\ Len(b) = Len(u) - i
    BY <1>1, PartsAre
  <2>2. v \o u = (v \o a) \o b
    BY <1>1, PartsOfJoined
  <2> QED BY <2>1, <2>2
<1> HIDE DEF a, b
<1>3. v \o a \in Seq(IO) /\ Len(v \o a) = Len(v) + i
  <2>1. v \in Seq(IO) /\ a \in Seq(IO)
    BY <1>1, <1>2
  <2>2. v \o a \in Seq(IO) /\ Len(v \o a) = Len(v) + Len(a)
    BY <2>1, ConcatProperties
  <2> QED BY <1>2, <2>2
<1>4. BadTrace((v \o a) \o b)
  BY <1>1, <1>2
<1>5. k \in Nat /\ iut \in OnStates(k) /\ 0 \in 0 .. k - 1
  BY <1>1 DEF Tested
<1>6. After(iut, 0, v \o a) >= 0
  BY <1>2, <1>3, <1>4, <1>5, TraceParts DEF BadTrace
<1> QED BY <1>1, <1>2, <1>3, <1>4, <1>6 DEF a, b

LEMMA PrefixOfPrefix ==
  ASSUME NEW X, NEW u \in Seq(X), NEW j \in 0 .. Len(u), NEW d \in 0 .. j
  PROVE  Prefix(Prefix(u, j), d) = Prefix(u, d)
<1> DEFINE p == Prefix(u, j)
<1>1. p \in Seq(X) /\ Len(p) = j /\ (\A i \in 1 .. j : p[i] = u[i])
  BY PartsAre
<1>0. d \in 0 .. Len(u) /\ \A i \in 1 .. d : i \in 1 .. j
  OBVIOUS
<1> HIDE DEF p
<1>2. Prefix(p, d) \in Seq(X) /\ Len(Prefix(p, d)) = d /\ \A i \in 1 .. d : Prefix(p, d)[i] = p[i]
  BY <1>1, PartsAre
<1>3. Prefix(u, d) \in Seq(X) /\ Len(Prefix(u, d)) = d /\ \A i \in 1 .. d : Prefix(u, d)[i] = u[i]
  BY <1>0, PartsAre
<1>4. \A i \in 1 .. d : Prefix(p, d)[i] = Prefix(u, d)[i]
  BY <1>0, <1>1, <1>2, <1>3
<1>5. Prefix(p, d) = Prefix(u, d)
  BY <1>2, <1>3, <1>4, SeqEqual
<1> QED BY <1>5 DEF p

LEMMA BaseIs ==
  ASSUME NEW k, NEW v, NEW u, Shortest(k, v, u), NEW j \in 0 .. Len(u),
         NEW n \in 0 .. Len(v \o Prefix(u, j)), IsBase(v \o Prefix(u, j), n)
  PROVE  Prefix(v \o Prefix(u, j), n) = v
<1> DEFINE p == Prefix(u, j)
           io == v \o p
           xs == Inputs(io)
           d == n - Len(v)
<1>1. Tested(k) /\ u \in Seq(IO) /\ v \in Seq(IO) /\ Inputs(v) \in detStateCover
  BY CoverResponseIs DEF Shortest
<1>2. p \in Seq(IO) /\ Len(p) = j /\ io \in Seq(IO) /\ Len(io) = Len(v) + j
  BY PartShown
<1>3. xs \in Seq(In) /\ Len(xs) = Len(io)
  BY <1>2, InputsTyped
<1>5. /\ Prefix(xs, n) \in detStateCover
      /\ \A y \in detStateCover : IsPrefix(y, xs) => Len(y) <= n
  BY DEF IsBase
<1>4. n \in 0 .. Len(io)
  OBVIOUS
<1> HIDE DEF p
<1>6. Prefix(io, Len(v)) = v
  <2>1. 0 \in 0 .. Len(p) /\ Len(v) + 0 = Len(v)
    BY <1>1, <1>2
  <2>2. Prefix(io, Len(v) + 0) = v \o Prefix(p, 0)
    <3>0. v \in Seq(IO) /\ p \in Seq(IO)
      BY <1>1, <1>2
    <3> QED BY <2>1, <3>0, PartsOfJoined
  <2>3. Prefix(p, 0) = << >>
    BY DEF Prefix
  <2>4. v \o << >> = v
    BY <1>1
  <2> QED BY <2>1, <2>2, <2>3, <2>4
<1> HIDE DEF io, xs
<1>7. Len(v) \in 0 .. Len(io) /\ Len(v) \in Nat
  BY <1>1, <1>2
<1>8. Prefix(xs, Len(v)) = Inputs(v)
  BY <1>2, <1>6, <1>7, InputsOfPrefix DEF xs
<1>9. Inputs(v) \in Seq(In) /\ Len(Inputs(v)) = Len(v)
  BY <1>1, InputsTyped
<1>10. IsPrefix(Inputs(v), xs)
  <2>1. Len(Inputs(v)) <= Len(xs)
    BY <1>3, <1>7, <1>9
  <2> QED BY <1>3, <1>8, <1>9, <2>1, PrefixMeans
<1>13. Len(v) <= n
  BY <1>1, <1>5, <1>9, <1>10
<1>14. d \in 0 .. j /\ n = Len(v) + d
  BY <1>2, <1>4, <1>7, <1>13
<1> HIDE DEF d
<1>15. Prefix(io, n) = v \o Prefix(u, d)
  <2>1. d \in 0 .. Len(p)
    BY <1>2, <1>14
  <2>2. Prefix(io, Len(v) + d) = v \o Prefix(p, d)
    <3>0. v \in Seq(IO) /\ p \in Seq(IO)
      BY <1>1, <1>2
    <3>1. Prefix(v \o p, Len(v) + d) = v \o Prefix(p, d)
      BY <2>1, <3>0, PartsOfJoined
    <3> QED BY <3>1 DEF io
  <2>3. Prefix(p, d) = Prefix(u, d)
    BY <1>1, <1>14, PrefixOfPrefix DEF p
  <2> QED BY <1>14, <2>2, <2>3
<1>16. Inputs(v \o Prefix(u, d)) \in detStateCover
  <2>1. Inputs(Prefix(io, n)) = Prefix(xs, n)
    BY <1>2, <1>4, InputsOfPrefix DEF xs
  <2> QED BY <1>5, <1>15, <2>1
<1>17. d \in 0 .. Len(u)
  BY <1>1, <1>14
<1>18. /\ v \o Prefix(u, d) \in Seq(IO) /\ Rest(u, d) \in Seq(IO) /\ Len(Rest(u, d)) = Len(u) - d
       /\ BadTrace((v \o Prefix(u, d)) \o Rest(u, d))
       /\ After(iut, 0, v \o Prefix(u, d)) >= 0
  BY <1>17, PartShown
<1>19. v \o Prefix(u, d) \in CoverResponses
  BY <1>1, <1>16, <1>18, CoverResponseIs
<1>20. Len(u) <= Len(Rest(u, d))
  BY <1>18, <1>19 DEF Shortest
<1>21. d = 0
  BY <1>1, <1>17, <1>18, <1>20
<1>22. n = Len(v)
  BY <1>1, <1>14, <1>21
<1>23. Prefix(io, n) = v
  BY <1>6, <1>22
<1> QED BY <1>23 DEF io, p

(* two visits, and a visit and a response of the cover, lead iut to different states *)
LEMMA VisitsDiffer ==
  ASSUME NEW k, NEW v, NEW u, Shortest(k, v, u), NEW S \in ToldSets,
         NEW i \in 0 .. Len(u), NEW a \in 0 .. Len(u),
         Failures(Inputs(v \o Prefix(u, i))) = {}, Failures(Inputs(v \o Prefix(u, a))) = {},
         After(rows, 0, v \o Prefix(u, i)) \in S, After(rows, 0, v \o Prefix(u, a)) \in S,
         After(iut, 0, v \o Prefix(u, i)) = After(iut, 0, v \o Prefix(u, a))
  PROVE  i >= a
<1> DEFINE x == v \o Prefix(u, i)
           y == v \o Prefix(u, a)
           z == Rest(u, a)
           c == Prefix(u, i)
<1>1. /\ v \in Seq(IO) /\ c \in Seq(IO) /\ Len(c) = i /\ x \in Seq(IO) /\ After(iut, 0, x) >= 0
  BY PartShown
<1>2. /\ y \in Seq(IO) /\ z \in Seq(IO) /\ Len(z) = Len(u) - a /\ BadTrace(y \o z)
  BY PartShown
<1>3. Tested(k) /\ v \in CoverResponses /\ u \in Seq(IO)
  BY DEF Shortest
<1>4. After(rows, 0, x) = After(rows, 0, y)
  BY <1>1, <1>2, <1>3, SameSpecState
<1>5. BadTrace(x \o z)
  BY <1>1, <1>2, <1>3, <1>4, SwapTraces
<1> HIDE DEF z, c
<1>6. x = v \o c
  BY DEF c
<1>7. x \o z = v \o (c \o z)
  <2>0. v \in Seq(IO) /\ c \in Seq(IO) /\ z \in Seq(IO)
    BY <1>1, <1>2
  <2>1. (v \o c) \o z = v \o (c \o z)
    BY <2>0, ConcatAssociative
  <2> QED BY <1>6, <2>1
<1>8. c \o z \in Seq(IO) /\ Len(c \o z) = i + (Len(u) - a)
  <2>0. c \in Seq(IO) /\ z \in Seq(IO)
    BY <1>1, <1>2
  <2>1. c \o z \in Seq(IO) /\ Len(c \o z) = Len(c) + Len(z)
    BY <2>0, ConcatProperties
  <2> QED BY <1>1, <1>2, <2>1
<1>9. Len(u) <= i + (Len(u) - a)
  <2>1. BadTrace(v \o (c \o z))
    BY <1>5, <1>7
  <2>2. Len(u) <= Len(c \o z)
    BY <1>3, <1>8, <2>1 DEF Shortest
  <2> QED BY <1>8, <2>2
<1> QED BY <1>3, <1>9

LEMMA CoverVisitDiffer ==
  ASSUME NEW k, NEW v, NEW u, Shortest(k, v, u), NEW S \in ToldSets,
         NEW r \in CoverResponses, NEW a \in 1 .. Len(u),
         Failures(Inputs(v \o Prefix(u, a))) = {},
         After(rows, 0, r) \in S, After(rows, 0, v \o Prefix(u, a)) \in S,
         After(iut, 0, r) = After(iut, 0, v \o Prefix(u, a))
  PROVE  FALSE
<1> DEFINE y == v \o Prefix(u, a)
           z == Rest(u, a)
<1>0. a \in 0 .. Len(u)
  OBVIOUS
<1>1. /\ y \in Seq(IO) /\ z \in Seq(IO) /\ Len(z) = Len(u) - a /\ BadTrace(y \o z)
  BY <1>0, PartShown
<1>2. Tested(k) /\ u \in Seq(IO) /\ NoCoverFailure
  BY DEF Shortest
<1>3. r \in Seq(IO) /\ Inputs(r) \in detStateCover /\ After(iut, 0, r) >= 0
  BY <1>2, CoverResponseIs
<1>4. Failures(Inputs(r)) = {}
  BY <1>2, <1>3 DEF NoCoverFailure
<1>5. After(rows, 0, r) = After(rows, 0, y)
  BY <1>1, <1>2, <1>3, <1>4, SameSpecState
<1>6. BadTrace(r \o z)
  BY <1>1, <1>2, <1>3, <1>5, SwapTraces
<1>7. Len(u) <= Len(z)
  BY <1>1, <1>6 DEF Shortest
<1> QED BY <1>1, <1>2, <1>7

(***************************************************************************)
(* The three families of states of iut the bound counts.                   *)
(***************************************************************************)
LEMMA VisitIsPart ==
  ASSUME NEW k, NEW v, NEW u, Shortest(k, v, u), NEW j \in 0 .. Len(u), NEW q, NEW w,
         w \in Visits(q, v, v \o Prefix(u, j))
  PROVE  \E i \in 1 .. j : w = v \o Prefix(u, i) /\ After(rows, 0, w) = q
<1> DEFINE p == Prefix(u, j)
<1>1. v \in Seq(IO) /\ u \in Seq(IO) /\ p \in Seq(IO) /\ Len(p) = j /\ Len(v \o p) = Len(v) + j
  BY PartShown DEF Shortest
<1>2. PICK n \in Len(v) + 1 .. Len(v \o p) : w = Prefix(v \o p, n) /\ After(rows, 0, w) = q
  BY VisitsAre
<1> DEFINE i == n - Len(v)
<1>3. i \in 1 .. j /\ Len(v) + i = n /\ i \in 0 .. Len(p) /\ Len(v) \in Nat
  BY <1>1, <1>2
<1> HIDE DEF i, p
<1>4. v \in Seq(IO) /\ p \in Seq(IO)
  BY <1>1
<1>5. Prefix(v \o p, Len(v) + i) = v \o Prefix(p, i)
  BY <1>3, <1>4, JoinedPrefix
<1>6. Prefix(p, i) = Prefix(u, i)
  <2>1. i \in 0 .. j
    BY <1>3
  <2> QED BY <1>1, <2>1, PrefixOfPrefix DEF p
<1> QED BY <1>2, <1>3, <1>5, <1>6

(* a response of the cover for each d-reachable state *)
LEMMA ChosenReaches ==
  ASSUME NEW k, Tested(k), NoCoverFailure, NEW f \in ChoiceFunctions, NEW q \in dReachableStates
  PROVE  /\ f[dReachTrace[q]] \in CoverResponses /\ f[dReachTrace[q]] \in Chosen(f)
         /\ Inputs(f[dReachTrace[q]]) = dReachTrace[q]
         /\ f[dReachTrace[q]] \in Seq(IO)
         /\ Failures(dReachTrace[q]) = {}
         /\ After(iut, 0, f[dReachTrace[q]]) \in 0 .. k - 1
         /\ After(rows, 0, f[dReachTrace[q]]) = q
<1> DEFINE xs == dReachTrace[q]
           r == f[xs]
<1>1. xs \in detStateCover /\ Reached(rows, xs) = {q} /\ rows \in Machines
  BY TestedFacts
<1>2. r \in CoverResponses /\ Inputs(r) = xs /\ r \in Chosen(f)
  BY <1>1 DEF ChoiceFunctions, Chosen
<1>3. r \in Seq(IO) /\ After(iut, 0, r) >= 0
  BY <1>2, CoverResponseIs
<1>4. Failures(xs) = {}
  BY <1>1 DEF NoCoverFailure
<1> HIDE DEF r
<1>5. After(rows, 0, r) >= 0 /\ After(iut, 0, r) \in 0 .. k - 1
  BY <1>2, <1>3, <1>4, NoFailureMeans
<1>6. After(rows, 0, r) \in Reached(rows, Inputs(r))
  BY <1>1, <1>3, <1>5, TraceReaches
<1>7. After(rows, 0, r) = q
  BY <1>1, <1>2, <1>6
<1> QED BY <1>2, <1>3, <1>4, <1>5, <1>7 DEF r

LEMMA SeenIs ==
  ASSUME NEW base, NEW io, NEW S, NEW c, NEW q \in S, NEW w, After(iut, 0, w) \in Nat,
         w \in Visits(q, base, io) \/ (w \in c /\ q \in dReachableStates /\ Inputs(w) = dReachTrace[q])
  PROVE  AdaptiveTraces(iut, After(iut, 0, w)) \in SeenAfter(base, io, S, c)
<1>1. w \in VisitsPlus(q, base, io, c)
  BY DEF VisitsPlus
<1>2. bOmegaOf(w) \in SeenAfter(base, io, S, c)
  BY <1>1 DEF SeenAfter
<1>3. bOmegaOf(w) = AdaptiveTraces(iut, After(iut, 0, w))
  BY DEF bOmegaOf
<1> QED BY <1>2, <1>3

LEMMA BoundHolds ==
  ASSUME NEW k, NEW v, NEW u, Shortest(k, v, u), NEW j \in 0 .. Len(u),
         \A i \in 0 .. j : Failures(Inputs(v \o Prefix(u, i))) = {},
         NEW S \in ToldSets, NEW f \in ChoiceFunctions, NEW seen \in SUBSET AnswersOf(k)
  PROVE  /\ BoundWith(v, v \o Prefix(u, j), S, Chosen(f), seen) <= k
         /\ BoundWith(v, v \o Prefix(u, j), S, Chosen(f), seen) \in Nat
<1> DEFINE io == v \o Prefix(u, j)
           A == AllVisits(S, v, io)
           B == S \cap dReachableStates
           C == seen \ SeenAfter(v, io, S, Chosen(f))
           fa == [w \in A |-> After(iut, 0, w)]
           resp(q) == f[dReachTrace[q]]
           fb == [q \in B |-> After(iut, 0, resp(q))]
           state(c) == CHOOSE s \in 0 .. k - 1 : AdaptiveTraces(iut, s) = c
           fc == [c \in C |-> state(c)]
<1>1. /\ Tested(k) /\ NoCoverFailure /\ u \in Seq(IO) /\ v \in Seq(IO) /\ io \in Seq(IO)
      /\ k \in Nat \ {0} /\ Len(u) \in Nat
  BY PartShown DEF Shortest, Tested
<1>2. S \in SUBSET State /\ IsFiniteSet(S)
  <2>1. S \in SUBSET State
    BY DEF ToldSets
  <2>2. IsFiniteSet(State)
    BY FS_Interval, SizeAssumption DEF State
  <2> QED BY <2>1, <2>2, FS_Subset
<1> HIDE DEF io
<1>21. IsFiniteSet(A) /\ IsFiniteSet(B)
  BY <1>1, <1>2, AllVisitsFinite, FS_Subset
<1>22. IsFiniteSet(C)
  <2> DEFINE g == [s \in 0 .. k - 1 |-> AdaptiveTraces(iut, s)]
  <2>1. \A z \in AnswersOf(k) : \E s \in 0 .. k - 1 : z = g[s]
    BY DEF AnswersOf
  <2>2. DOMAIN g = 0 .. k - 1 /\ IsFiniteSet(0 .. k - 1)
    BY <1>1, FS_Interval
  <2> HIDE DEF g
  <2>3. IsFiniteSet(AnswersOf(k))
    BY <2>1, <2>2, ImageFinite
  <2>4. C \subseteq AnswersOf(k)
    OBVIOUS
  <2> QED BY <2>3, <2>4, FS_Subset
<1>23. Cardinality(A) \in Nat /\ Cardinality(B) \in Nat /\ Cardinality(C) \in Nat
  BY <1>21, <1>22, FS_CardinalityType
<1>4. BoundWith(v, io, S, Chosen(f), seen) = Cardinality(A) + Cardinality(B) + Cardinality(C)
  BY DEF BoundWith
<1>5. ASSUME NEW w \in A
      PROVE  /\ \E i \in 1 .. j : w = v \o Prefix(u, i)
             /\ After(iut, 0, w) \in 0 .. k - 1
             /\ After(rows, 0, w) \in S
             /\ AdaptiveTraces(iut, After(iut, 0, w)) \in SeenAfter(v, io, S, Chosen(f))
  <2>1. PICK q \in S : w \in Visits(q, v, io)
    BY DEF AllVisits
  <2>2. PICK i \in 1 .. j : w = v \o Prefix(u, i) /\ After(rows, 0, w) = q
    BY <2>1, VisitIsPart DEF io
  <2>3. i \in 0 .. Len(u) /\ i \in 0 .. j
    BY <1>1
  <2>4. w \in Seq(IO) /\ After(iut, 0, w) >= 0
    BY <2>2, <2>3, PartShown
  <2>5. Failures(Inputs(w)) = {}
    BY <2>2, <2>3
  <2>6. After(iut, 0, w) \in 0 .. k - 1
    BY <1>1, <2>4, <2>5, NoFailureMeans
  <2>7. After(iut, 0, w) \in Nat
    BY <2>6
  <2>8. AdaptiveTraces(iut, After(iut, 0, w)) \in SeenAfter(v, io, S, Chosen(f))
    BY <2>1, <2>7, SeenIs
  <2> QED BY <2>2, <2>6, <2>8
<1>6. ASSUME NEW q \in B
      PROVE  /\ resp(q) \in CoverResponses
             /\ After(iut, 0, resp(q)) \in 0 .. k - 1
             /\ After(rows, 0, resp(q)) = q /\ q \in S
             /\ resp(q) \in Seq(IO) /\ Failures(Inputs(resp(q))) = {}
             /\ AdaptiveTraces(iut, After(iut, 0, resp(q))) \in SeenAfter(v, io, S, Chosen(f))
  <2>1. q \in dReachableStates /\ q \in S
    OBVIOUS
  <2>2. /\ resp(q) \in CoverResponses /\ resp(q) \in Chosen(f)
        /\ Inputs(resp(q)) = dReachTrace[q]
        /\ resp(q) \in Seq(IO)
        /\ Failures(dReachTrace[q]) = {}
        /\ After(iut, 0, resp(q)) \in 0 .. k - 1
        /\ After(rows, 0, resp(q)) = q
    BY <1>1, <2>1, ChosenReaches
  <2> HIDE DEF resp
  <2>3. After(iut, 0, resp(q)) \in Nat
    BY <2>2
  <2>4. AdaptiveTraces(iut, After(iut, 0, resp(q))) \in SeenAfter(v, io, S, Chosen(f))
    BY <2>1, <2>2, <2>3, SeenIs
  <2> QED BY <2>1, <2>2, <2>4
<1>7. ASSUME NEW c \in C PROVE state(c) \in 0 .. k - 1 /\ AdaptiveTraces(iut, state(c)) = c
  BY DEF AnswersOf
<1> HIDE DEF resp, state, A, B, C
<1>8. DOMAIN fa = A /\ DOMAIN fb = B /\ DOMAIN fc = C
  OBVIOUS
<1>9. /\ \A w \in A : fa[w] = After(iut, 0, w)
      /\ \A q \in B : fb[q] = After(iut, 0, resp(q))
      /\ \A c \in C : fc[c] = state(c)
  OBVIOUS
<1> HIDE DEF fa, fb, fc
<1>10. /\ \A w \in A : fa[w] \in 0 .. k - 1
       /\ \A q \in B : fb[q] \in 0 .. k - 1
       /\ \A c \in C : fc[c] \in 0 .. k - 1
  BY <1>5, <1>6, <1>7, <1>9
<1>11. ASSUME NEW w1 \in A, NEW w2 \in A, fa[w1] = fa[w2] PROVE w1 = w2
  <2>1. PICK i1 \in 1 .. j : w1 = v \o Prefix(u, i1)
    BY <1>5
  <2>2. PICK i2 \in 1 .. j : w2 = v \o Prefix(u, i2)
    BY <1>5
  <2>3. i1 \in 0 .. Len(u) /\ i2 \in 0 .. Len(u) /\ i1 \in 0 .. j /\ i2 \in 0 .. j
    BY <1>1
  <2>4. Failures(Inputs(w1)) = {} /\ Failures(Inputs(w2)) = {}
    BY <2>1, <2>2, <2>3
  <2>5. After(rows, 0, w1) \in S /\ After(rows, 0, w2) \in S /\ After(iut, 0, w1) = After(iut, 0, w2)
    BY <1>5, <1>9, <1>11
  <2>6. i1 >= i2
    BY <2>1, <2>2, <2>3, <2>4, <2>5, VisitsDiffer
  <2>7. i2 >= i1
    BY <2>1, <2>2, <2>3, <2>4, <2>5, VisitsDiffer
  <2>8. i1 = i2
    BY <2>3, <2>6, <2>7
  <2> QED BY <2>1, <2>2, <2>8
<1>12. ASSUME NEW q1 \in B, NEW q2 \in B, fb[q1] = fb[q2] PROVE q1 = q2
  <2>1. After(iut, 0, resp(q1)) = After(iut, 0, resp(q2)) /\ After(iut, 0, resp(q1)) >= 0
    BY <1>6, <1>9, <1>12
  <2>2. After(rows, 0, resp(q1)) = After(rows, 0, resp(q2))
    BY <1>1, <1>6, <2>1, SameSpecState
  <2> QED BY <1>6, <2>2
<1>13. ASSUME NEW c1 \in C, NEW c2 \in C, fc[c1] = fc[c2] PROVE c1 = c2
  <2>1. AdaptiveTraces(iut, fc[c1]) = c1 /\ AdaptiveTraces(iut, fc[c2]) = c2
    BY <1>7, <1>9
  <2> QED BY <1>13, <2>1
<1>14. ASSUME NEW w \in A, NEW q \in B, fa[w] = fb[q] PROVE FALSE
  <2>1. PICK i \in 1 .. j : w = v \o Prefix(u, i)
    BY <1>5
  <2>2. i \in 1 .. Len(u) /\ i \in 0 .. j
    BY <1>1
  <2>3. Failures(Inputs(v \o Prefix(u, i))) = {} /\ After(rows, 0, v \o Prefix(u, i)) \in S
    BY <1>5, <2>1, <2>2
  <2>4. resp(q) \in CoverResponses /\ After(rows, 0, resp(q)) \in S
        /\ After(iut, 0, resp(q)) = After(iut, 0, v \o Prefix(u, i))
    BY <1>6, <1>9, <1>14, <2>1
  <2> QED BY <2>2, <2>3, <2>4, CoverVisitDiffer
<1>15. ASSUME NEW w \in A, NEW c \in C PROVE fa[w] # fc[c]
  <2> SUFFICES ASSUME fa[w] = fc[c] PROVE FALSE
    OBVIOUS
  <2>1. AdaptiveTraces(iut, fa[w]) = c
    BY <1>7, <1>9
  <2>2. c \in SeenAfter(v, io, S, Chosen(f))
    BY <1>5, <1>9, <2>1
  <2> QED BY <2>2 DEF C
<1>16. ASSUME NEW q \in B, NEW c \in C PROVE fb[q] # fc[c]
  <2> SUFFICES ASSUME fb[q] = fc[c] PROVE FALSE
    OBVIOUS
  <2>1. AdaptiveTraces(iut, fb[q]) = c
    BY <1>7, <1>9
  <2>2. c \in SeenAfter(v, io, S, Chosen(f))
    BY <1>6, <1>9, <2>1
  <2> QED BY <2>2 DEF C
<1>17. \A w \in A, q \in B : fa[w] # fb[q]
  BY <1>14
<1>18. k \in Nat
  BY <1>1
<1>19. Cardinality(A) + Cardinality(B) + Cardinality(C) <= k
  BY <1>8, <1>10, <1>11, <1>12, <1>13, <1>15, <1>16, <1>17, <1>18, DifferentStates
<1>20. BoundWith(v, io, S, Chosen(f), seen) <= k /\ BoundWith(v, io, S, Chosen(f), seen) \in Nat
  BY <1>4, <1>19, <1>23
<1> QED BY <1>20 DEF io

LEMMA NotLongEnough ==
  ASSUME NEW k, NEW v, NEW u, Shortest(k, v, u), NEW j \in 0 .. Len(u),
         \A i \in 0 .. j : Failures(Inputs(v \o Prefix(u, i))) = {},
         NEW seen \in SUBSET AnswersOf(k)
  PROVE  ~LongEnough(v \o Prefix(u, j), seen)
<1> DEFINE io == v \o Prefix(u, j)
<1> SUFFICES ASSUME LongEnough(io, seen) PROVE FALSE
  OBVIOUS
<1>1. PICK n \in 0 .. Len(io), c \in AllChoices, S \in ToldSets :
        IsBase(io, n) /\ BoundWith(Prefix(io, n), io, S, c, seen) > m
  BY DEF LongEnough
<1>2. Prefix(io, n) = v
  BY <1>1, BaseIs
<1>3. Tested(k) /\ k \in Nat /\ k <= m
  BY DEF Shortest, Tested
<1>5. PICK f \in ChoiceFunctions : c = Chosen(f)
  BY DEF AllChoices
<1>6. BoundWith(v, io, S, Chosen(f), seen) <= k /\ BoundWith(v, io, S, Chosen(f), seen) \in Nat
  BY BoundHolds
<1>7. BoundWith(v, io, S, Chosen(f), seen) > m
  BY <1>1, <1>2, <1>5
<1>8. m \in Nat
  BY ImplementationsAssumption
<1> HIDE DEF io
<1> QED BY <1>3, <1>6, <1>7, <1>8

(***************************************************************************)
(* Once every trace applied has either all its extensions applied or       *)
(* responses that are long enough, no trace of iut is missed.              *)
(***************************************************************************)
TreatedIn(T, xs, k) ==
  \/ \A x \in In : Append(xs, x) \in T
  \/ \E seen \in SUBSET AnswersOf(k) : \A io \in Responses(iut, xs) : LongEnough(io, seen)

LEMMA PassIsReduction ==
  ASSUME NEW k, Tested(k), NEW T \in SUBSET Seq(In), detStateCover \subseteq T,
         \A xs \in T : Failures(xs) = {} /\ TreatedIn(T, xs, k)
  PROVE  IsReduction
<1> SUFFICES ASSUME ~IsReduction PROVE FALSE
  OBVIOUS
<1>1. rows \in Machines /\ IutFits /\ << >> \in detStateCover /\ k \in Nat \ {0} /\ iut \in OnStates(k)
  BY TestedFacts DEF Tested
<1>2. PICK w : BadTrace(w)
  BY <1>1, NotReductionShows
<1>3. << >> \in CoverResponses
  <2>1. After(iut, 0, << >>) = 0 /\ << >> \in Seq(IO) /\ Inputs(<< >>) = << >>
    BY AfterEmpty, InputsEmpty
  <2> QED BY <1>1, <2>1, CoverResponseIs
<1> DEFINE Bad(v, z) == v \in CoverResponses /\ z \in Seq(IO) /\ BadTrace(v \o z)
           N == {n \in Nat : \E v, z : Bad(v, z) /\ Len(z) = n}
<1>4. N # {}
  <2>1. w \in Seq(IO) /\ Len(w) \in Nat /\ << >> \o w = w
    BY <1>2 DEF BadTrace
  <2>2. Bad(<< >>, w)
    BY <1>2, <1>3, <2>1
  <2> HIDE DEF Bad
  <2> QED BY <2>1, <2>2
<1>5. PICK n \in N : \A y \in N : n <= y
  <2>1. N \subseteq Nat
    OBVIOUS
  <2> HIDE DEF N
  <2> QED BY <1>4, <2>1, LeastElement
<1>6. PICK v, u : Bad(v, u) /\ Len(u) = n
  BY <1>5
<1>7. \A b \in CoverResponses, z \in Seq(IO) : BadTrace(b \o z) => Len(u) <= Len(z)
  <2> SUFFICES ASSUME NEW b \in CoverResponses, NEW z \in Seq(IO), BadTrace(b \o z) PROVE Len(u) <= Len(z)
    OBVIOUS
  <2>1. Bad(b, z) /\ Len(z) \in Nat
    OBVIOUS
  <2> HIDE DEF Bad
  <2>2. Len(z) \in N
    BY <2>1
  <2> QED BY <1>5, <1>6, <2>2
<1>8. NoCoverFailure
  BY DEF NoCoverFailure
<1>9. Shortest(k, v, u)
  BY <1>6, <1>7, <1>8 DEF Shortest
<1>10. u \in Seq(IO) /\ v \in Seq(IO) /\ Len(u) \in Nat /\ Inputs(v) \in detStateCover
  BY <1>9, CoverResponseIs DEF Shortest
<1> HIDE DEF Bad, N
<1> DEFINE A == {j \in Nat : j <= Len(u) => \A i \in 0 .. j : Inputs(v \o Prefix(u, i)) \in T}
<1>11. 0 \in A
  <2>1. Prefix(u, 0) = << >> /\ v \o << >> = v
    BY <1>10 DEF Prefix
  <2>2. Inputs(v \o Prefix(u, 0)) \in T
    BY <1>10, <2>1
  <2> QED BY <2>2
<1>12. ASSUME NEW j \in Nat, j \in A PROVE j + 1 \in A
  <2> SUFFICES ASSUME j + 1 <= Len(u) PROVE \A i \in 0 .. j + 1 : Inputs(v \o Prefix(u, i)) \in T
    OBVIOUS
  <2>1. j \in 0 .. Len(u) /\ j <= Len(u) /\ j + 1 \in 1 .. Len(u) /\ j + 1 \in 0 .. Len(u)
    BY <1>10
  <2>2. \A i \in 0 .. j : Inputs(v \o Prefix(u, i)) \in T
    BY <1>12, <2>1
  <2> DEFINE io == v \o Prefix(u, j)
             xs == Inputs(io)
             e == u[j + 1]
  <2>3. io \in Seq(IO) /\ After(iut, 0, io) >= 0
    BY <1>9, <2>1, PartShown
  <2>4. xs \in T /\ xs \in Seq(In)
    BY <2>1, <2>2, <2>3, InputsTyped
  <2>5. v \o Prefix(u, j + 1) = Append(io, e) /\ e \in IO
    <3>1. e \in IO
      BY <1>10, <2>1
    <3>2. Prefix(u, j) \in Seq(IO) /\ Len(Prefix(u, j)) = j /\ \A i \in 1 .. j : Prefix(u, j)[i] = u[i]
      BY <1>10, <2>1, PartsAre
    <3>3. Prefix(u, j + 1) \in Seq(IO) /\ Len(Prefix(u, j + 1)) = j + 1
          /\ \A i \in 1 .. j + 1 : Prefix(u, j + 1)[i] = u[i]
      BY <1>10, <2>1, PartsAre
    <3>4. Prefix(u, j + 1) = Append(Prefix(u, j), e)
      <4> DEFINE a == Prefix(u, j)
                 b == Prefix(u, j + 1)
      <4>1. Append(a, e) \in Seq(IO) /\ Len(Append(a, e)) = j + 1
        BY <3>1, <3>2
      <4>2. \A i \in 1 .. j + 1 : Append(a, e)[i] = u[i]
        BY <3>1, <3>2, <2>1
      <4> HIDE DEF a, b
      <4>3. b \in Seq(IO) /\ Len(b) = j + 1 /\ \A i \in 1 .. j + 1 : b[i] = u[i]
        BY <3>3 DEF b
      <4>4. b = Append(a, e)
        BY <4>1, <4>2, <4>3, SeqEqual
      <4> QED BY <4>4 DEF a, b
    <3>5. v \o Append(Prefix(u, j), e) = Append(v \o Prefix(u, j), e)
      BY <1>10, <3>1, <3>2, ConcatAppend
    <3> QED BY <3>1, <3>4, <3>5
  <2>6. Inputs(v \o Prefix(u, j + 1)) = Append(xs, e[1])
    BY <2>3, <2>5, InputsAppend
  <2>7. e[1] \in In
    BY <2>5 DEF IO
  <2>8. ASSUME NEW seen \in SUBSET AnswersOf(k), \A o \in Responses(iut, xs) : LongEnough(o, seen) PROVE FALSE
    <3>0. \A ys \in Seq(In) : Responses(iut, ys) = {o \in Seq(IO) : Inputs(o) = ys /\ After(iut, 0, o) >= 0}
      BY <1>1, ResponsesAre
    <3>1. io \in Responses(iut, xs)
      <4> HIDE DEF io
      <4>1. Responses(iut, xs) = {o \in Seq(IO) : Inputs(o) = xs /\ After(iut, 0, o) >= 0}
        BY <2>4, <3>0
      <4> QED BY <2>3, <4>1
    <3>2. \A i \in 0 .. j : Failures(Inputs(v \o Prefix(u, i))) = {}
      BY <2>2
    <3>3. ~LongEnough(io, seen)
      BY <1>9, <2>1, <3>2, NotLongEnough
    <3> QED BY <2>8, <3>1, <3>3
  <2>9. \A x \in In : Append(xs, x) \in T
    BY <2>4, <2>8 DEF TreatedIn
  <2>10. Inputs(v \o Prefix(u, j + 1)) \in T
    BY <2>6, <2>7, <2>9
  <2>11. \A i \in 0 .. j + 1 : i \in 0 .. j \/ i = j + 1
    OBVIOUS
  <2> QED BY <2>2, <2>10, <2>11
<1>13. Len(u) \in A
  <2> HIDE DEF A
  <2> QED BY <1>10, <1>11, <1>12, SetInduction
<1> DEFINE l == Len(u)
           io == v \o Prefix(u, l)
<1>14. l \in 0 .. Len(u) /\ Inputs(io) \in T
  BY <1>10, <1>13
<1>15. io = v \o u
  <2>1. Prefix(u, l) = u
    BY <1>10 DEF Prefix
  <2> QED BY <2>1
<1>16. io \in Seq(IO) /\ After(iut, 0, io) >= 0 /\ After(rows, 0, io) < 0
  BY <1>9, <1>15 DEF Shortest, BadTrace
<1>17. Failures(Inputs(io)) = {}
  BY <1>14
<1> HIDE DEF io
<1>18. After(rows, 0, io) \in State /\ After(rows, 0, io) \in Nat
  BY <1>16, <1>17, NoFailureMeans, SizeFacts
<1> QED BY <1>16, <1>18

(***************************************************************************)
(* A failure is a trace of iut only.                                       *)
(***************************************************************************)
LEMMA TestsTyped ==
  ASSUME RInv, omega \in AdaptiveRCharacterisationSets, NEW tree \in omega
  PROVE  tree \in SUBSET Seq(IO)
<1>1. SigmaTyped
  BY DEF RInv, SigmaInv
<1>2. tree \in AllTests
  BY DEF AdaptiveRCharacterisationSets
<1> QED BY <1>1, <1>2 DEF AllTests, SigmaTyped

LEMMA FailureShows ==
  ASSUME NEW k, Tested(k), NEW xs \in Seq(In), NEW w \in Failures(xs)
  PROVE  After(iut, 0, w) >= 0 /\ After(rows, 0, w) < 0
<1>1. /\ k \in Nat \ {0} /\ iut \in OnStates(k) /\ IsComplete(iut) /\ IsComplete(rows)
      /\ rows \in OnStates(numStates) /\ rows \in Machines /\ RInv /\ omega \in AdaptiveRCharacterisationSets
      /\ numStates \in Nat \ {0} /\ 0 \in 0 .. k - 1 /\ 0 \in 0 .. numStates - 1
  BY TestedFacts, SizeAssumption DEF Tested
<1>2. PICK io \in Responses(iut, xs) :
        w \in IF After(rows, 0, io) < 0 THEN {io}
              ELSE {io \o z : z \in AdaptiveTraces(iut, After(iut, 0, io)) \ AdaptiveTraces(rows, After(rows, 0, io))}
  BY DEF Failures
<1>3. io \in Seq(IO) /\ After(iut, 0, io) >= 0
  BY <1>1, ResponsesAre
<1>4. CASE After(rows, 0, io) < 0
  BY <1>2, <1>3, <1>4
<1>5. CASE ~(After(rows, 0, io) < 0)
  <2> DEFINE p == After(iut, 0, io)
             q == After(rows, 0, io)
  <2>1. PICK z : z \in AdaptiveTraces(iut, p) /\ z \notin AdaptiveTraces(rows, q) /\ w = io \o z
    BY <1>2, <1>5
  <2>2. PICK tree \in omega : z \in PossibleIOTraces(iut, p, tree)
    BY <2>1 DEF AdaptiveTraces
  <2>3. z \notin PossibleIOTraces(rows, q, tree)
    BY <2>1, <2>2 DEF AdaptiveTraces
  <2>4. tree \in SUBSET Seq(IO)
    BY <1>1, TestsTyped
  <2>5. p \in 0 .. k - 1
    BY <1>1, <1>3, TraceTyped
  <2>6. q \in 0 .. numStates - 1
    <3>1. q \in State \cup {-1} /\ (q < 0 <=> q = -1)
      BY <1>1, <1>3, SizeFacts, AfterTyped
    <3> QED BY <1>5, <3>1 DEF State
  <2> HIDE DEF p, q
  <2>7. AskedBy(tree, z) /\ After(iut, p, z) >= 0 /\ LeafOf(tree, z)
    BY <1>1, <2>2, <2>4, <2>5, AnswersOnStates
  <2>8. ~(After(rows, q, z) >= 0)
    BY <1>1, <2>3, <2>4, <2>6, <2>7, AnswersOnStates
  <2>9. z \in Seq(IO)
    BY <2>4, <2>7, AskedTyped
  <2>10. After(rows, q, z) < 0
    <3>1. After(rows, q, z) \in -1 .. numStates - 1
      BY <1>1, <2>6, <2>9, TraceTyped
    <3> QED BY <1>1, <2>8, <3>1
  <2>11. After(iut, 0, io \o z) = After(iut, p, z)
    <3>1. After(iut, 0, io \o z) = IF p < 0 THEN -1 ELSE After(iut, p, z)
      BY <1>1, <1>3, <2>9, TraceConcat DEF p
    <3> QED BY <2>5, <3>1
  <2>12. After(rows, 0, io \o z) = After(rows, q, z)
    <3>1. After(rows, 0, io \o z) = IF q < 0 THEN -1 ELSE After(rows, q, z)
      BY <1>1, <1>3, <2>9, TraceConcat DEF q
    <3> QED BY <2>6, <3>1
  <2> QED BY <2>1, <2>7, <2>10, <2>11, <2>12
<1> QED BY <1>4, <1>5

(***************************************************************************)
(* The same notions as operators of what they depend on, to follow them    *)
(* from one state to the next.                                             *)
(***************************************************************************)
AnswersIn(o, f, q) == UNION {PossibleIOTraces(f, q, tree) : tree \in o}
AnswerSets(o, f) == {AnswersIn(o, f, s) : s \in DOMAIN f}
AnswerAfter(o, f, io) == LET q == After(f, 0, io) IN IF q < 0 THEN {} ELSE AnswersIn(o, f, q)
AnswersSeen(o, f, T) ==
  IF o = {} THEN {} ELSE {AnswerAfter(o, f, io) : io \in UNION {Responses(f, xs) : xs \in T}}

FailuresIn(r, f, o, xs) ==
  UNION {IF After(r, 0, io) < 0 THEN {io}
         ELSE {io \o w : w \in AnswersIn(o, f, After(f, 0, io)) \ AnswersIn(o, r, After(r, 0, io))} :
         io \in Responses(f, xs)}

DStates(d) == {q \in State : d[q] # NoTrace}
CoverOf(d) == {d[q] : q \in DStates(d)}
ChoicesOf(f, cover) ==
  {{g[xs] : xs \in cover} :
     g \in {h \in [cover -> UNION {Responses(f, xs) : xs \in cover}] : \A xs \in cover : Inputs(h[xs]) = xs}}
SetsOf(told) == {S \in SUBSET State : \A a, b \in S : a # b => <<a, b>> \in told}

VisitsOf(r, q, base, io) ==
  {SubSeq(io, 1, k) : k \in {k \in Len(base) + 1 .. Len(io) : After(r, 0, SubSeq(io, 1, k)) = q}}
SeenOf(r, f, o, d, base, io, S, c) ==
  {AnswerAfter(o, f, v) :
     v \in UNION {VisitsOf(r, q, base, io) \cup {v \in c : q \in DStates(d) /\ Inputs(v) = d[q]} : q \in S}}
BoundOf(r, f, o, d, base, io, S, c, seen) ==
  Cardinality(UNION {VisitsOf(r, q, base, io) : q \in S})
  + Cardinality(S \cap DStates(d))
  + Cardinality(seen \ SeenOf(r, f, o, d, base, io, S, c))
LongIn(r, f, o, told, d, io, seen) ==
  \E n \in 0 .. Len(io), c \in ChoicesOf(f, CoverOf(d)), S \in SetsOf(told) :
    /\ Prefix(Inputs(io), n) \in CoverOf(d)
    /\ \A xs \in CoverOf(d) : IsPrefix(xs, Inputs(io)) => Len(xs) <= n
    /\ Prefix(io, n) \in c
    /\ BoundOf(r, f, o, d, Prefix(io, n), io, S, c, seen) > m
EnoughIn(r, f, o, told, d, xs) ==
  \E seen \in SUBSET AnswerSets(o, f) : \A io \in Responses(f, xs) : LongIn(r, f, o, told, d, io, seen)
Treated(T, r, f, o, told, d, xs) ==
  (\A x \in In : Append(xs, x) \in T) \/ EnoughIn(r, f, o, told, d, xs)

LEMMA AnswersInAre ==
  /\ \A f, q : AdaptiveTraces(f, q) = AnswersIn(omega, f, q)
  /\ \A io : bOmegaOf(io) = AnswerAfter(omega, iut, io)
  /\ \A T : bOmega(T) = AnswersSeen(omega, iut, T)
  /\ \A xs : Failures(xs) = FailuresIn(rows, iut, omega, xs)
<1>1. \A f, q : AdaptiveTraces(f, q) = AnswersIn(omega, f, q)
  BY DEF AdaptiveTraces, AnswersIn
<1>2. \A io : bOmegaOf(io) = AnswerAfter(omega, iut, io)
  BY <1>1 DEF bOmegaOf, AnswerAfter
<1>3. \A T : bOmega(T) = AnswersSeen(omega, iut, T)
  BY <1>2 DEF bOmega, AnswersSeen
<1>4. \A xs : Failures(xs) = FailuresIn(rows, iut, omega, xs)
  BY DEF Failures, FailuresIn, AdaptiveTraces, AnswersIn
<1> QED BY <1>1, <1>2, <1>3, <1>4

LEMMA CoverPartsAre ==
  /\ dReachableStates = DStates(dReachTrace)
  /\ detStateCover = CoverOf(dReachTrace)
  /\ AllChoices = ChoicesOf(iut, CoverOf(dReachTrace))
  /\ ToldSets = SetsOf(Told)
<1>1. dReachableStates = DStates(dReachTrace)
  BY DEF dReachableStates, DStates
<1>2. detStateCover = CoverOf(dReachTrace)
  BY <1>1 DEF detStateCover, CoverOf
<1>3. AllChoices = ChoicesOf(iut, detStateCover)
  BY DEF AllChoices, ChoiceFunctions, Chosen, CoverResponses, ChoicesOf
<1>4. ToldSets = SetsOf(Told)
  BY DEF ToldSets, SetsOf, Told2
<1> QED BY <1>1, <1>2, <1>3, <1>4

LEMMA BoundIs ==
  ASSUME NEW base, NEW io, NEW S, NEW c, NEW seen
  PROVE  BoundWith(base, io, S, c, seen) = BoundOf(rows, iut, omega, dReachTrace, base, io, S, c, seen)
<1>1. \A q : Visits(q, base, io) = VisitsOf(rows, q, base, io)
  BY DEF Visits, VisitsOf
<1>2. AllVisits(S, base, io) = UNION {VisitsOf(rows, q, base, io) : q \in S}
  BY <1>1 DEF AllVisits
<1>3. \A q : VisitsPlus(q, base, io, c)
             = VisitsOf(rows, q, base, io) \cup {v \in c : q \in DStates(dReachTrace) /\ Inputs(v) = dReachTrace[q]}
  BY <1>1, CoverPartsAre DEF VisitsPlus
<1>4. SeenAfter(base, io, S, c) = SeenOf(rows, iut, omega, dReachTrace, base, io, S, c)
  BY <1>3, AnswersInAre DEF SeenAfter, SeenOf
<1> QED BY <1>2, <1>4, CoverPartsAre DEF BoundWith, BoundOf

LEMMA LongIs ==
  ASSUME NEW io, NEW seen
  PROVE  LongEnough(io, seen) <=> LongIn(rows, iut, omega, Told, dReachTrace, io, seen)
<1>1. \A n : IsBase(io, n) <=> /\ Prefix(Inputs(io), n) \in CoverOf(dReachTrace)
                               /\ \A xs \in CoverOf(dReachTrace) : IsPrefix(xs, Inputs(io)) => Len(xs) <= n
  BY CoverPartsAre DEF IsBase
<1>2. \A n, S, c : BoundWith(Prefix(io, n), io, S, c, seen)
                   = BoundOf(rows, iut, omega, dReachTrace, Prefix(io, n), io, S, c, seen)
  BY BoundIs
<1> QED BY <1>1, <1>2, CoverPartsAre DEF LongEnough, LongIn

LEMMA ResponsesSeen ==
  ASSUME NEW k \in Nat \ {0}, NEW f \in OnStates(k), NEW o, NEW T \in SUBSET Seq(In)
  PROVE  AnswersSeen(o, f, T) \subseteq AnswerSets(o, f)
<1> SUFFICES ASSUME NEW b \in AnswersSeen(o, f, T) PROVE b \in AnswerSets(o, f)
  OBVIOUS
<1>0. PICK io \in UNION {Responses(f, xs) : xs \in T} : b = AnswerAfter(o, f, io)
  BY DEF AnswersSeen
<1>1. PICK xs \in T : io \in Responses(f, xs) /\ b = AnswerAfter(o, f, io)
  BY <1>0
<1>2. io \in Seq(IO) /\ After(f, 0, io) >= 0
  BY <1>1, ResponsesAre
<1>3. After(f, 0, io) \in 0 .. k - 1
  BY <1>2, TraceTyped
<1>4. b = AnswersIn(o, f, After(f, 0, io))
  BY <1>1, <1>3 DEF AnswerAfter
<1>5. DOMAIN f = 0 .. k - 1
  BY DEF OnStates
<1> QED BY <1>3, <1>4, <1>5 DEF AnswerSets

(***************************************************************************)
(* The inductive invariant of the traces applied.                          *)
(***************************************************************************)
CountInv ==
  /\ cPhase \in {"idle", "apply", "expand", "pass", "fail"}
  /\ cPhase # "idle" =>
       /\ rPhase = "done" /\ IsComplete(rows)
       /\ iut \in Implementations /\ IsComplete(iut) /\ omega \in AdaptiveRCharacterisationSets
       /\ CoverOf(dReachTrace) \subseteq t /\ t \in SUBSET Seq(In) /\ tC \in SUBSET t
       /\ bOmegaT \subseteq AnswerSets(omega, iut)
       /\ cPhase = "apply" => \A xs \in t \ tC : FailuresIn(rows, iut, omega, xs) = {}
       /\ cPhase \in {"expand", "pass"} => \A xs \in t : FailuresIn(rows, iut, omega, xs) = {}
       /\ cPhase \in {"apply", "expand"} =>
            \A xs \in t \ tC : Treated(t, rows, iut, omega, Told, dReachTrace, xs)
       /\ cPhase = "pass" => \A xs \in t : Treated(t, rows, iut, omega, Told, dReachTrace, xs)
       /\ cPhase = "fail" => After(iut, 0, failTrace) >= 0 /\ After(rows, 0, failTrace) < 0

AllInv == RInv /\ TreesBounded /\ RootReached /\ CountInv

LEMMA CountTested ==
  ASSUME AllInv, cPhase # "idle"
  PROVE  \E k \in Nat \ {0} : Tested(k) /\ AnswersOf(k) = AnswerSets(omega, iut) /\ iut \in OnStates(k)
<1>1. PICK k \in 1 .. m : iut \in [0 .. k - 1 -> [IO -> -1 .. k - 1]]
  BY ImplementationsAssumption DEF AllInv, CountInv
<1>2. m \in Nat /\ k \in Nat \ {0} /\ k <= m
  BY ImplementationsAssumption
<1>3. iut \in OnStates(k) /\ DOMAIN iut = 0 .. k - 1
  BY <1>1 DEF OnStates
<1>4. Tested(k)
  BY <1>2, <1>3 DEF Tested, AllInv, CountInv
<1>5. AnswersOf(k) = AnswerSets(omega, iut)
  BY <1>3, AnswersInAre DEF AnswersOf, AnswerSets
<1> QED BY <1>2, <1>3, <1>4, <1>5

LEMMA CountImplies ==
  ASSUME AllInv
  PROVE  CountingVerdict
<1>1. CASE cPhase = "idle"
  BY <1>1 DEF CountingVerdict
<1>2. CASE cPhase # "idle"
  <2>1. PICK k \in Nat \ {0} : Tested(k) /\ AnswersOf(k) = AnswerSets(omega, iut)
    BY <1>2, CountTested
  <2>2. IutFits /\ CoverFits
    BY <2>1, TestedFacts
  <2>3. cPhase = "fail" => After(iut, 0, failTrace) >= 0 /\ After(rows, 0, failTrace) < 0
    BY <1>2 DEF AllInv, CountInv
  <2>4. ASSUME cPhase = "pass" PROVE IsReduction
    <3>1. detStateCover \subseteq t /\ t \in SUBSET Seq(In)
      BY <1>2, CoverPartsAre DEF AllInv, CountInv
    <3>2. \A xs \in t : FailuresIn(rows, iut, omega, xs) = {}
      BY <2>4 DEF AllInv, CountInv
    <3>3. \A xs \in t : Treated(t, rows, iut, omega, Told, dReachTrace, xs)
      BY <2>4 DEF AllInv, CountInv
    <3>4. ASSUME NEW xs \in t PROVE Failures(xs) = {} /\ TreatedIn(t, xs, k)
      <4>1. Failures(xs) = {}
        BY <3>2, AnswersInAre
      <4>2. CASE \A x \in In : Append(xs, x) \in t
        BY <4>1, <4>2 DEF TreatedIn
      <4>3. CASE EnoughIn(rows, iut, omega, Told, dReachTrace, xs)
        <5>1. PICK seen \in SUBSET AnswersOf(k) :
                \A io \in Responses(iut, xs) : LongIn(rows, iut, omega, Told, dReachTrace, io, seen)
          BY <2>1, <4>3 DEF EnoughIn
        <5>2. \A io \in Responses(iut, xs) : LongEnough(io, seen)
          BY <5>1, LongIs
        <5> QED BY <4>1, <5>2 DEF TreatedIn
      <4> QED BY <3>3, <4>2, <4>3 DEF Treated
    <3> QED BY <2>1, <3>1, <3>4, PassIsReduction
  <2> HIDE DEF IsReduction
  <2>5. CASE cPhase = "apply"
    BY <2>2, <2>3, <2>4, <2>5, EveryChoiceCounted DEF CountingVerdict
  <2>6. CASE cPhase # "apply"
    BY <2>3, <2>4, <2>6 DEF CountingVerdict
  <2> QED BY <2>5, <2>6
<1> QED BY <1>1, <1>2

LEMMA StartCountingStep ==
  ASSUME AllInv, IsComplete(rows), StartCounting
  PROVE  CountInv'
<1>1. /\ rPhase = "done" /\ UNCHANGED <<rows, rVars>>
      /\ iut' \in Implementations /\ IsComplete(iut') /\ omega' \in AdaptiveRCharacterisationSets
      /\ t' = detStateCover /\ tC' = detStateCover /\ cPhase' = "apply"
      /\ bOmegaT' = bOmega(detStateCover)'
  BY DEF StartCounting
<1>2. /\ rPhase' = "done" /\ IsComplete(rows') /\ IsComplete(iut') /\ dReachTrace' = dReachTrace
      /\ rows' = rows /\ sigma' = sigma /\ CoverOf(dReachTrace') = detStateCover
  BY <1>1, CoverPartsAre DEF rVars
<1>3. AdaptiveRCharacterisationSets' = AdaptiveRCharacterisationSets
  BY <1>2 DEF AdaptiveRCharacterisationSets, AllTests
<1>4. dReachTrace \in [State -> Seq(In) \cup {NoTrace}]
  BY DEF AllInv, RInv, CoverInv
<1>5. detStateCover \in SUBSET Seq(In)
  BY <1>4 DEF detStateCover, dReachableStates
<1>6. bOmegaT' = AnswersSeen(omega', iut', detStateCover)
  <2>1. detStateCover' = detStateCover
    BY <1>2 DEF detStateCover, dReachableStates
  <2>2. bOmega(detStateCover)' = AnswersSeen(omega', iut', detStateCover')
    BY DEF bOmega, AnswersSeen, bOmegaOf, AnswerAfter, AdaptiveTraces, AnswersIn
  <2> QED BY <1>1, <2>1, <2>2
<1>7. PICK k \in 1 .. m : iut' \in [0 .. k - 1 -> [IO -> -1 .. k - 1]]
  BY <1>1, ImplementationsAssumption
<1>8. k \in Nat \ {0} /\ iut' \in OnStates(k)
  BY <1>7, ImplementationsAssumption DEF OnStates
<1>9. bOmegaT' \subseteq AnswerSets(omega', iut')
  BY <1>5, <1>6, <1>8, ResponsesSeen
<1>10. t' \ tC' = {}
  BY <1>1
<1>11. cPhase' = "apply"
  BY <1>1
<1> QED BY <1>1, <1>2, <1>3, <1>5, <1>9, <1>10, <1>11 DEF CountInv

LEMMA ApplyStep ==
  ASSUME AllInv, ApplyTraces
  PROVE  CountInv'
<1> DEFINE failures == UNION {Failures(xs) : xs \in tC}
<1>1. /\ cPhase = "apply"
      /\ IF failures = {} THEN cPhase' = "expand" /\ UNCHANGED failTrace
         ELSE cPhase' = "fail" /\ failTrace' \in failures
      /\ UNCHANGED <<rows, rVars, iut, omega, t, tC, bOmegaT>>
  BY DEF ApplyTraces
<1>2. /\ rows' = rows /\ rPhase' = rPhase /\ dReachTrace' = dReachTrace /\ sigma' = sigma /\ rDist' = rDist
      /\ iut' = iut /\ omega' = omega /\ t' = t /\ tC' = tC /\ bOmegaT' = bOmegaT
  BY <1>1 DEF rVars
<1>3. AdaptiveRCharacterisationSets' = AdaptiveRCharacterisationSets
  BY <1>2 DEF AdaptiveRCharacterisationSets, AllTests
<1>4. Told' = Told
  BY <1>2 DEF Told
<1>5. /\ rPhase = "done" /\ IsComplete(rows)
      /\ iut \in Implementations /\ IsComplete(iut) /\ omega \in AdaptiveRCharacterisationSets
      /\ CoverOf(dReachTrace) \subseteq t /\ t \in SUBSET Seq(In) /\ tC \in SUBSET t
      /\ bOmegaT \subseteq AnswerSets(omega, iut)
      /\ \A xs \in t \ tC : FailuresIn(rows, iut, omega, xs) = {}
      /\ \A xs \in t \ tC : Treated(t, rows, iut, omega, Told, dReachTrace, xs)
  BY <1>1 DEF AllInv, CountInv
<1>6. CASE failures = {}
  <2>1. cPhase' = "expand"
    BY <1>1, <1>6
  <2>2. \A xs \in tC : Failures(xs) = {}
    BY <1>6
  <2>3. \A xs \in t : FailuresIn(rows, iut, omega, xs) = {}
    BY <1>5, <2>2, AnswersInAre
  <2> QED BY <1>2, <1>3, <1>4, <1>5, <2>1, <2>3 DEF CountInv
<1>7. CASE failures # {}
  <2>1. cPhase' = "fail" /\ failTrace' \in failures
    BY <1>1, <1>7
  <2>2. PICK xs \in tC : failTrace' \in Failures(xs)
    BY <2>1
  <2>3. PICK k : Tested(k)
    BY <1>1, CountTested
  <2>4. xs \in Seq(In)
    BY <1>5
  <2>5. After(iut, 0, failTrace') >= 0 /\ After(rows, 0, failTrace') < 0
    BY <2>2, <2>3, <2>4, FailureShows
  <2> HIDE DEF failures
  <2>6. cPhase' = "fail"
    BY <2>1
  <2> QED BY <1>2, <1>3, <1>5, <2>5, <2>6 DEF CountInv
<1> QED BY <1>6, <1>7

LEMMA ExpandStep ==
  ASSUME AllInv, Expand
  PROVE  CountInv'
<1> DEFINE newTC == {xs \in tC : \E io \in Responses(iut, xs) : ~MeetsCriteria(io, VPrime, MaximalSets)}
           expanded == {Append(xs, x) : xs \in newTC, x \in In}
<1>1. /\ cPhase = "expand"
      /\ t' = t \cup expanded /\ tC' = expanded \ t
      /\ bOmegaT' = bOmegaT \cup bOmega(expanded \ t)
      /\ cPhase' = IF expanded \subseteq t THEN "pass" ELSE "apply"
      /\ UNCHANGED <<rows, rVars, iut, omega, failTrace>>
  BY DEF Expand
<1>2. /\ rows' = rows /\ rPhase' = rPhase /\ dReachTrace' = dReachTrace /\ sigma' = sigma /\ rDist' = rDist
      /\ iut' = iut /\ omega' = omega
  BY <1>1 DEF rVars
<1>3. AdaptiveRCharacterisationSets' = AdaptiveRCharacterisationSets
  BY <1>2 DEF AdaptiveRCharacterisationSets, AllTests
<1>4. Told' = Told
  BY <1>2 DEF Told
<1>5. /\ rPhase = "done" /\ IsComplete(rows)
      /\ iut \in Implementations /\ IsComplete(iut) /\ omega \in AdaptiveRCharacterisationSets
      /\ CoverOf(dReachTrace) \subseteq t /\ t \in SUBSET Seq(In) /\ tC \in SUBSET t
      /\ bOmegaT \subseteq AnswerSets(omega, iut)
      /\ \A xs \in t : FailuresIn(rows, iut, omega, xs) = {}
      /\ \A xs \in t \ tC : Treated(t, rows, iut, omega, Told, dReachTrace, xs)
  BY <1>1 DEF AllInv, CountInv
<1>6. PICK k \in Nat \ {0} : Tested(k) /\ AnswersOf(k) = AnswerSets(omega, iut) /\ iut \in OnStates(k)
  BY <1>1, CountTested
<1>7. \A xs \in newTC, x \in In : Append(xs, x) \in expanded
  OBVIOUS
<1>8. expanded \in SUBSET Seq(In)
  BY <1>5
<1>9. ASSUME NEW xs \in tC, xs \notin newTC PROVE EnoughIn(rows, iut, omega, Told, dReachTrace, xs)
  <2>1. xs \in Seq(In)
    BY <1>5
  <2>2. ASSUME NEW io \in Responses(iut, xs) PROVE LongIn(rows, iut, omega, Told, dReachTrace, io, bOmegaT)
    <3>1. MeetsCriteria(io, VPrime, MaximalSets)
      BY <1>9
    <3>2. io \in Seq(IO)
      BY <1>6, <2>1, ResponsesAre
    <3>3. LongEnough(io, bOmegaT)
      BY <1>6, <3>1, <3>2, MeetsIsLongEnough
    <3> QED BY <3>3, LongIs
  <2> QED BY <1>5, <2>2 DEF EnoughIn
<1> HIDE DEF newTC, expanded
<1>10. t' \in SUBSET Seq(In) /\ tC' \in SUBSET t' /\ t \subseteq t'
  BY <1>1, <1>5, <1>8
<1>11. ASSUME NEW xs \in t PROVE Treated(t', rows, iut, omega, Told, dReachTrace, xs)
  <2>1. CASE xs \notin tC
    <3>1. Treated(t, rows, iut, omega, Told, dReachTrace, xs)
      BY <1>5, <2>1
    <3> QED BY <1>10, <3>1 DEF Treated
  <2>2. CASE xs \in newTC
    <3>1. \A x \in In : Append(xs, x) \in t'
      BY <1>1, <1>7, <2>2
    <3> QED BY <3>1 DEF Treated
  <2>3. CASE xs \in tC /\ xs \notin newTC
    BY <1>9, <2>3 DEF Treated
  <2> QED BY <2>1, <2>2, <2>3
<1>12. bOmegaT' \subseteq AnswerSets(omega', iut')
  <2>1. bOmega(expanded \ t) = AnswersSeen(omega, iut, expanded \ t)
    BY AnswersInAre
  <2>2. expanded \ t \in SUBSET Seq(In)
    BY <1>8
  <2>3. AnswersSeen(omega, iut, expanded \ t) \subseteq AnswerSets(omega, iut)
    BY <1>6, <2>2, ResponsesSeen
  <2> QED BY <1>1, <1>2, <1>5, <2>1, <2>3
<1>13. \A xs \in t : Treated(t', rows', iut', omega', Told', dReachTrace', xs)
  BY <1>2, <1>4, <1>11
<1>14. \A xs \in t : FailuresIn(rows', iut', omega', xs) = {}
  BY <1>2, <1>5
<1>15. /\ rPhase' = "done" /\ IsComplete(rows') /\ iut' \in Implementations /\ IsComplete(iut')
       /\ omega' \in AdaptiveRCharacterisationSets' /\ CoverOf(dReachTrace') \subseteq t'
  BY <1>2, <1>3, <1>5, <1>10
<1>16. CASE expanded \subseteq t
  <2>1. cPhase' = "pass" /\ t' = t
    BY <1>1, <1>16
  <2> QED BY <1>10, <1>12, <1>13, <1>14, <1>15, <2>1 DEF CountInv
<1>17. CASE ~(expanded \subseteq t)
  <2>1. cPhase' = "apply"
    BY <1>1, <1>17
  <2>2. t' \ tC' = t
    BY <1>1
  <2> QED BY <1>10, <1>12, <1>13, <1>14, <1>15, <2>1, <2>2 DEF CountInv
<1> QED BY <1>16, <1>17

LEMMA CountKept ==
  ASSUME CountInv, UNCHANGED <<rows, rVars, cVars>>
  PROVE  CountInv'
<1>1. /\ rows' = rows /\ rPhase' = rPhase /\ dReachTrace' = dReachTrace /\ sigma' = sigma /\ rDist' = rDist
      /\ iut' = iut /\ omega' = omega /\ t' = t /\ tC' = tC /\ bOmegaT' = bOmegaT
      /\ cPhase' = cPhase /\ failTrace' = failTrace
  BY DEF rVars, cVars
<1>2. AdaptiveRCharacterisationSets' = AdaptiveRCharacterisationSets
  BY <1>1 DEF AdaptiveRCharacterisationSets, AllTests
<1>3. Told' = Told
  BY <1>1 DEF Told
<1> QED BY <1>1, <1>2, <1>3 DEF CountInv

LEMMA InitAllInv == Init => AllInv
<1> SUFFICES ASSUME Init PROVE AllInv
  OBVIOUS
<1>1. RInv
  BY InitRInv, SpecificationsAssumption DEF Init, Machines
<1>2. TreesBounded /\ RootReached
  BY TreesInit DEF Init
<1>3. CountInv
  BY DEF Init, CInit, CountInv
<1> QED BY <1>1, <1>2, <1>3 DEF AllInv

LEMMA TreesKept ==
  ASSUME TreesBounded, RootReached, UNCHANGED <<rows, rVars>>
  PROVE  TreesBounded' /\ RootReached'
<1>1. sigma' = sigma /\ rPhase' = rPhase /\ dReachTrace' = dReachTrace
  BY DEF rVars
<1> QED BY <1>1 DEF TreesBounded, RootReached

LEMMA StepAllInv == AllInv /\ [Next \/ Stop]_vars => AllInv'
<1> SUFFICES ASSUME AllInv, [Next \/ Stop]_vars PROVE AllInv'
  OBVIOUS
<1>1. RInv'
  BY StepRInv DEF AllInv
<1>2. CASE Analyse
  <2>1. TreesBounded' /\ RootReached'
    BY <1>2, TreesStep DEF AllInv, Analyse
  <2>2. rPhase # "done"
    BY <1>2 DEF Analyse, RNext, CalcROneDistinguishable, CalcRLevel, StartDReach, DReachStep, EndDReach
  <2>3. cPhase = "idle" /\ cPhase' = cPhase
    BY <1>2, <2>2 DEF AllInv, CountInv, Analyse, cVars
  <2>4. CountInv'
    BY <2>3 DEF CountInv
  <2> QED BY <1>1, <2>1, <2>4 DEF AllInv
<1>3. CASE Count
  <2>1. UNCHANGED <<rows, rVars>>
    BY <1>3 DEF Count, CNext, StartCounting, ApplyTraces, Expand
  <2>2. TreesBounded' /\ RootReached'
    BY <2>1, TreesKept DEF AllInv
  <2>3. CountInv'
    <3>1. IsComplete(rows) /\ (StartCounting \/ ApplyTraces \/ Expand)
      BY <1>3 DEF Count, CNext
    <3> QED BY <3>1, StartCountingStep, ApplyStep, ExpandStep
  <2> QED BY <1>1, <2>2, <2>3 DEF AllInv
<1>4. CASE Generate
  <2>1. UNCHANGED <<rows, rVars, cVars>>
    BY <1>4 DEF Generate
  <2> QED BY <1>1, <2>1, TreesKept, CountKept DEF AllInv
<1>5. CASE ExecuteSuite
  <2>1. UNCHANGED <<rows, rVars>> /\ cPhase = "idle" /\ cPhase' = cPhase
    BY <1>5 DEF ExecuteSuite, Execute
  <2>2. CountInv'
    BY <2>1 DEF CountInv
  <2> QED BY <1>1, <2>1, <2>2, TreesKept DEF AllInv
<1>6. CASE Stop \/ UNCHANGED vars
  <2>1. UNCHANGED <<rows, rVars, cVars>>
    BY <1>6 DEF Stop, vars
  <2> QED BY <1>1, <2>1, TreesKept, CountKept DEF AllInv
<1> QED BY <1>2, <1>3, <1>4, <1>5, <1>6 DEF Next

(***************************************************************************)
(* The verdict of adaptive state counting is right, for every complete     *)
(* observable specification, every complete implementation with at most m  *)
(* states and every set of adaptive test cases                             *)
(* getAdaptiveRCharacterisationSet may return: "pass" only for a           *)
(* reduction, "fail" only with a trace of the implementation that the      *)
(* specification does not have.  And VPrimeLazy, which starts with number  *)
(* 1, still produces every choice of responses to the state cover, none of *)
(* them twice.                                                             *)
(***************************************************************************)
THEOREM CountingVerdictHolds == Spec => []CountingVerdict
<1>1. AllInv => CountingVerdict
  BY CountImplies
<1> QED BY <1>1, InitAllInv, StepAllInv, PTL DEF Spec
=============================================================================
