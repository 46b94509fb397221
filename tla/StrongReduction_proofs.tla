----------------------- MODULE StrongReduction_proofs -----------------------
(***************************************************************************)
(* Proofs about the suites for strong semi-reduction: they are complete.   *)
(*                                                                         *)
(* A suite has the traces of every traversal and tells apart, for each of  *)
(* them, whatever it visits in its set and the d-reached states of the     *)
(* set.  A fault as near as possible to a d-reached state that the suite   *)
(* does not show would lie behind a whole traversal; its visits would lead *)
(* the implementation to as many states as the traversal has, which are    *)
(* more than m together with those at the d-reached states of the set.     *)
(***************************************************************************)
EXTENDS ReductionTesting_proofs

IsFlat(f, s, n) == f = [i \in 1 .. n |-> IF i = 1 THEN s[i] ELSE f[i - 1] \o s[i]]

(* FlattenSeq, as the recursive function it is defined by: one more. *)
LEMMA FlatNext ==
  ASSUME NEW s, NEW n \in Nat, NEW f, IsFlat(f, s, n)
  PROVE  \E g : IsFlat(g, s, n + 1)
<1> DEFINE last == IF n + 1 = 1 THEN s[n + 1] ELSE f[n] \o s[n + 1]
           g == [i \in 1 .. n + 1 |-> IF i = n + 1 THEN last ELSE f[i]]
           h == [i \in 1 .. n + 1 |-> IF i = 1 THEN s[i] ELSE g[i - 1] \o s[i]]
<1>1. \A i \in 1 .. n : f[i] = IF i = 1 THEN s[i] ELSE f[i - 1] \o s[i]
  BY DEF IsFlat
<1>2. ASSUME NEW i \in 1 .. n + 1 PROVE g[i] = h[i]
  <2>1. CASE i = n + 1
    BY <2>1
  <2>2. CASE i # n + 1
    <3>1. i \in 1 .. n /\ g[i] = f[i] /\ (i # 1 => i - 1 \in 1 .. n + 1 /\ i - 1 # n + 1 /\ g[i - 1] = f[i - 1])
      BY <2>2
    <3> HIDE DEF g
    <3> QED BY <1>1, <3>1
  <2> QED BY <2>1, <2>2
<1>3. g = h
  <2>1. g = [i \in 1 .. n + 1 |-> g[i]] /\ h = [i \in 1 .. n + 1 |-> h[i]]
    OBVIOUS
  <2> HIDE DEF g, h
  <2> QED BY <1>2, <2>1
<1>4. IsFlat(g, s, n + 1)
  <2> HIDE DEF g
  <2> QED BY <1>3 DEF IsFlat
<1> QED BY <1>4

(* There is such a function. *)
LEMMA FlatExists ==
  ASSUME NEW s, NEW n \in Nat
  PROVE  \E f : IsFlat(f, s, n)
<1> DEFINE A == {k \in Nat : \E f : IsFlat(f, s, k)}
<1>1. 0 \in A
  <2> DEFINE f == << >>
  <2>1. \A g, h : [i \in 1 .. 0 |-> g] = [i \in 1 .. 0 |-> h]
    OBVIOUS
  <2>2. f = [i \in 1 .. 0 |-> IF i = 1 THEN s[i] ELSE f[i - 1] \o s[i]]
    OBVIOUS
  <2>3. IsFlat(f, s, 0)
    BY <2>2 DEF IsFlat
  <2> QED BY <2>3
<1>2. ASSUME NEW k \in Nat, k \in A PROVE k + 1 \in A
  BY <1>2, FlatNext
<1> HIDE DEF A
<1>3. Nat \subseteq A
  BY <1>1, <1>2, SetInduction
<1> QED BY <1>3 DEF A

(* FlattenSeq is the last value of it. *)
LEMMA FlattenSeqIs ==
  ASSUME NEW X, NEW s \in Seq(X), s # << >>
  PROVE  \E f : IsFlat(f, s, Len(s)) /\ FlattenSeq(s) = f[Len(s)]
<1> DEFINE n == Len(s)
           f == CHOOSE g : IsFlat(g, s, n)
<1>1. n \in Nat /\ n # 0
  BY EmptySeq
<1>2. IsFlat(f, s, n)
  BY <1>1, FlatExists
<1>3. FlattenSeq(s) = f[n]
  BY <1>1 DEF FlattenSeq, IsFlat
<1> QED BY <1>2, <1>3

(* What two sequences have, one behind the other. *)
LEMMA ConcatRange ==
  ASSUME NEW X, NEW a \in Seq(X), NEW b \in Seq(X)
  PROVE  Range(a \o b) = Range(a) \cup Range(b) /\ a \o b \in Seq(X)
<1>1. a \o b \in Seq(X) /\ Len(a \o b) = Len(a) + Len(b) /\ Len(a) \in Nat /\ Len(b) \in Nat
  OBVIOUS
<1>2. DOMAIN (a \o b) = 1 .. Len(a) + Len(b) /\ DOMAIN a = 1 .. Len(a) /\ DOMAIN b = 1 .. Len(b)
  BY <1>1
<1>3. \A i \in 1 .. Len(a) + Len(b) : (a \o b)[i] = IF i <= Len(a) THEN a[i] ELSE b[i - Len(a)]
  BY <1>1
<1>4. ASSUME NEW e \in Range(a \o b) PROVE e \in Range(a) \cup Range(b)
  <2>1. PICK i \in 1 .. Len(a) + Len(b) : e = (a \o b)[i]
    BY <1>2 DEF Range
  <2>2. CASE i <= Len(a)
    <3>1. i \in DOMAIN a /\ e = a[i]
      BY <1>1, <1>2, <1>3, <2>1, <2>2
    <3> QED BY <3>1 DEF Range
  <2>3. CASE ~(i <= Len(a))
    <3>1. i - Len(a) \in DOMAIN b /\ e = b[i - Len(a)]
      BY <1>1, <1>2, <1>3, <2>1, <2>3
    <3> QED BY <3>1 DEF Range
  <2> QED BY <2>2, <2>3
<1>5. ASSUME NEW e \in Range(a) PROVE e \in Range(a \o b)
  <2>1. PICK i \in 1 .. Len(a) : e = a[i]
    BY <1>2 DEF Range
  <2>2. i \in DOMAIN (a \o b) /\ e = (a \o b)[i]
    BY <1>1, <1>2, <1>3, <2>1
  <2> QED BY <2>2 DEF Range
<1>6. ASSUME NEW e \in Range(b) PROVE e \in Range(a \o b)
  <2>1. PICK i \in 1 .. Len(b) : e = b[i]
    BY <1>2 DEF Range
  <2>2. /\ Len(a) + i \in 1 .. Len(a) + Len(b)
        /\ ~(Len(a) + i <= Len(a)) /\ (Len(a) + i) - Len(a) = i
    BY <1>1
  <2>3. Len(a) + i \in DOMAIN (a \o b) /\ e = (a \o b)[Len(a) + i]
    BY <1>2, <1>3, <2>1, <2>2
  <2> QED BY <2>3 DEF Range
<1> QED BY <1>1, <1>4, <1>5, <1>6

(* It has all their elements, and only these. *)
LEMMA FlattenHas ==
  ASSUME NEW X, NEW s \in Seq(Seq(X))
  PROVE  /\ FlattenSeq(s) \in Seq(X)
         /\ Range(FlattenSeq(s)) = UNION {Range(s[i]) : i \in DOMAIN s}
<1>1. CASE s = << >>
  <2>0. Len(s) = 0 /\ DOMAIN s = {} /\ << >> \in Seq(X)
    BY <1>1
  <2>1. FlattenSeq(s) = s /\ s \in Seq(X)
    BY <1>1, <2>0 DEF FlattenSeq
  <2>2. Range(s) = {} /\ UNION {Range(s[i]) : i \in DOMAIN s} = {}
    BY <2>0 DEF Range
  <2> HIDE <1>1
  <2> QED BY <2>1, <2>2
<1>2. CASE s # << >>
  <2>1. PICK f : IsFlat(f, s, Len(s)) /\ FlattenSeq(s) = f[Len(s)]
    BY <1>2, FlattenSeqIs
  <2> DEFINE n == Len(s)
             Has(k) == f[k] \in Seq(X) /\ Range(f[k]) = UNION {Range(s[i]) : i \in 1 .. k}
             A == {k \in Nat : k + 1 \in 1 .. n => Has(k + 1)}
  <2>2. n \in Nat \ {0} /\ DOMAIN s = 1 .. n /\ \A i \in 1 .. n : s[i] \in Seq(X)
    BY <1>2, EmptySeq
  <2>3. \A i \in 1 .. n : f[i] = IF i = 1 THEN s[i] ELSE f[i - 1] \o s[i]
    BY <2>1 DEF IsFlat
  <2>4. 0 \in A
    <3>1. f[1] = s[1] /\ 1 .. 1 = {1} /\ s[1] \in Seq(X)
      BY <2>2, <2>3
    <3>2. UNION {Range(s[i]) : i \in 1 .. 1} = Range(s[1])
      BY <3>1
    <3>3. Has(0 + 1)
      BY <3>1, <3>2
    <3> HIDE DEF Has
    <3> QED BY <3>3
  <2>5. ASSUME NEW k \in Nat, k \in A PROVE k + 1 \in A
    <3> SUFFICES ASSUME k + 2 \in 1 .. n PROVE Has(k + 2)
      <4>1. (k + 1) + 1 = k + 2 /\ k + 1 \in Nat
        OBVIOUS
      <4> HIDE DEF Has
      <4> QED BY <4>1
    <3>0. k + 1 \in 1 .. n
      BY <2>2
    <3>1. Has(k + 1)
      <4>1. k \in A
        BY <2>5
      <4> HIDE DEF Has
      <4> QED BY <3>0, <4>1
    <3> DEFINE a == f[k + 1]
               b == s[k + 2]
    <3>2. f[k + 2] = a \o b /\ b \in Seq(X) /\ a \in Seq(X)
      <4>1. (k + 2) - 1 = k + 1 /\ k + 2 # 1
        OBVIOUS
      <4> QED BY <2>2, <2>3, <3>0, <3>1, <4>1
    <3>3. Range(a) = UNION {Range(s[i]) : i \in 1 .. k + 1}
      BY <3>1
    <3> HIDE DEF a
    <3>4. Range(a \o b) = Range(a) \cup Range(b) /\ a \o b \in Seq(X)
      <4> HIDE DEF b
      <4> QED BY <3>2, ConcatRange
    <3>5. 1 .. k + 2 = (1 .. k + 1) \cup {k + 2}
      OBVIOUS
    <3>6. UNION {Range(s[i]) : i \in 1 .. k + 2} = (UNION {Range(s[i]) : i \in 1 .. k + 1}) \cup Range(b)
      BY <3>5
    <3> QED BY <3>2, <3>3, <3>4, <3>6
  <2> HIDE DEF A
  <2>6. Nat \subseteq A
    BY <2>4, <2>5, SetInduction
  <2>7. n - 1 \in Nat /\ (n - 1) + 1 = n
    BY <2>2
  <2>8. Has(n)
    <3>1. n - 1 \in A
      BY <2>6, <2>7
    <3> QED BY <2>2, <2>7, <3>1 DEF A
  <2> QED BY <2>1, <2>2, <2>8
<1> QED BY <1>1, <1>2

LEMMA RangeAppend ==
  ASSUME NEW X, NEW u \in Seq(X), NEW x \in X
  PROVE  Range(Append(u, x)) = Range(u) \cup {x}
<1>1. Range(<<x>>) = {x} /\ <<x>> \in Seq(X)
  <2>1. DOMAIN <<x>> = {1} /\ <<x>>[1] = x
    OBVIOUS
  <2> QED BY <2>1 DEF Range
<1>2. Append(u, x) = u \o <<x>>
  OBVIOUS
<1> DEFINE b == <<x>>
<1> HIDE DEF b
<1>3. Range(u \o b) = Range(u) \cup Range(b)
  BY <1>1, ConcatRange DEF b
<1> QED BY <1>1, <1>2, <1>3 DEF b

(***************************************************************************)
(* The pairs a suite is extended for.                                      *)
(***************************************************************************)
LEMMA WithinIs ==
  ASSUME NEW R, NEW X, NEW s \in Seq(X)
  PROVE  Within(s, R) = FoldOf(<<"within", R>>, << >>, s)
<1> DEFINE k == <<"within", R>>
           D == DOMAIN s
           Is(iter) == iter = [u \in SUBSET D |-> IF u = {} THEN << >>
                                ELSE AddWithin(R, iter[u \ {Max(u)}], s[Max(u)])]
<1>1. Within(s, R) = (CHOOSE iter : Is(iter))[D]
  BY DEF Within, FoldLeft, MapThenFoldSet, AddWithin
<1>2. \A a, b : StepOf(k, a, b) = AddWithin(R, a, b)
  BY StepCases
<1> HIDE DEF k
<1>3. \A iter : Is(iter) <=> IsFold(iter, k, << >>, s)
  BY <1>2 DEF IsFold
<1> HIDE DEF Is
<1>4. (CHOOSE iter : Is(iter)) = CHOOSE iter : IsFold(iter, k, << >>, s)
  BY <1>3
<1> QED BY <1>1, <1>4 DEF FoldOf, k

LEMMA WithinHas ==
  ASSUME NEW R, NEW X, NEW s \in Seq(X)
  PROVE  /\ Within(s, R) \in Seq({e \in X : e[2] \in R})
         /\ Range(Within(s, R)) = {e \in Range(s) : e[2] \in R}
<1> DEFINE k == <<"within", R>>
           Y == {e \in X : e[2] \in R}
           A == {u \in Seq(X) : /\ FoldOf(k, << >>, u) \in Seq(Y)
                                /\ Range(FoldOf(k, << >>, u)) = {e \in Range(u) : e[2] \in R}}
<1>1. << >> \in A
  <2>1. FoldOf(k, << >>, << >>) = << >>
    BY FoldOfEmpty
  <2>2. << >> \in Seq(X) /\ << >> \in Seq(Y) /\ Range(<< >>) = {}
    BY DEF Range
  <2> QED BY <2>1, <2>2
<1>2. ASSUME NEW u \in Seq(X), NEW x \in X, u \in A PROVE Append(u, x) \in A
  <2> DEFINE a == FoldOf(k, << >>, u)
  <2>1. FoldOf(k, << >>, Append(u, x)) = AddWithin(R, a, x)
    BY FoldOfAppend, StepCases
  <2>2. a \in Seq(Y) /\ Range(a) = {e \in Range(u) : e[2] \in R}
    BY <1>2
  <2>3. Append(u, x) \in Seq(X) /\ Range(Append(u, x)) = Range(u) \cup {x}
    BY RangeAppend
  <2> HIDE DEF a
  <2>4. CASE x[2] \in R
    <3>1. x \in Y
      BY <2>4
    <3> HIDE DEF Y
    <3>2. AddWithin(R, a, x) = Append(a, x) /\ Append(a, x) \in Seq(Y) /\ Range(Append(a, x)) = Range(a) \cup {x}
      BY <2>2, <2>4, <3>1, RangeAppend DEF AddWithin
    <3> QED BY <2>1, <2>2, <2>3, <2>4, <3>2
  <2>5. CASE x[2] \notin R
    BY <2>1, <2>2, <2>3, <2>5 DEF AddWithin
  <2> QED BY <2>4, <2>5
<1>3. s \in A
  <2> HIDE DEF A
  <2> QED BY <1>1, <1>2, SeqInduction
<1> QED BY <1>3, WithinIs

(* an element with those of a sequence, and the later elements of a sequence *)
Paired(x, s) == [j \in DOMAIN s |-> <<x, s[j]>>]

LEMMA PairedHas ==
  ASSUME NEW X, NEW s \in Seq(X), NEW x \in X
  PROVE  Paired(x, s) \in Seq(X \X X) /\ \A e \in Range(s) : <<x, e>> \in Range(Paired(x, s))
<1>1. DOMAIN s = 1 .. Len(s) /\ Len(s) \in Nat /\ \A j \in DOMAIN s : s[j] \in X
  OBVIOUS
<1>2. Paired(x, s) \in Seq(X \X X)
  BY <1>1 DEF Paired
<1>3. \A j \in DOMAIN s : <<x, s[j]>> \in Range(Paired(x, s))
  BY DEF Paired, Range
<1> QED BY <1>2, <1>3 DEF Range

LEMMA LaterHas ==
  ASSUME NEW X, NEW s \in Seq(X), NEW i \in DOMAIN s
  PROVE  Later(s, i) \in Seq(X) /\ \A j \in DOMAIN s : i < j => s[j] \in Range(Later(s, i))
<1>1. DOMAIN s = 1 .. Len(s) /\ Len(s) \in Nat /\ i \in Nat
  OBVIOUS
<1>2. Later(s, i) \in Seq(X) /\ Len(Later(s, i)) = Len(s) - i
      /\ \A j \in 1 .. Len(s) - i : Later(s, i)[j] = s[i + j]
  BY <1>1 DEF Later
<1>3. ASSUME NEW j \in DOMAIN s, i < j PROVE s[j] \in Range(Later(s, i))
  <2>1. j - i \in 1 .. Len(s) - i /\ i + (j - i) = j
    BY <1>1, <1>3
  <2>2. DOMAIN Later(s, i) = 1 .. Len(s) - i
    BY <1>1, <1>2
  <2>3. Later(s, i)[j - i] = s[j] /\ j - i \in DOMAIN Later(s, i)
    BY <1>2, <2>1, <2>2
  <2> QED BY <2>3 DEF Range
<1> QED BY <1>2, <1>3

AllPairs(a, d) ==
  FlattenSeq([i \in DOMAIN a |-> Paired(a[i], Later(a, i) \o d)])
  \o FlattenSeq([i \in DOMAIN d |-> Paired(d[i], Later(d, i))])

LEMMA AllPairsHave ==
  ASSUME NEW X, NEW a \in Seq(X), NEW d \in Seq(X)
  PROVE  /\ AllPairs(a, d) \in Seq(X \X X)
         /\ \A x, y \in Range(a) \cup Range(d) :
              x # y => <<x, y>> \in Range(AllPairs(a, d)) \/ <<y, x>> \in Range(AllPairs(a, d))
<1> DEFINE f == [i \in DOMAIN a |-> Paired(a[i], Later(a, i) \o d)]
           g == [i \in DOMAIN d |-> Paired(d[i], Later(d, i))]
<1>0. /\ DOMAIN a = 1 .. Len(a) /\ DOMAIN d = 1 .. Len(d) /\ Len(a) \in Nat /\ Len(d) \in Nat
      /\ \A i \in DOMAIN a : a[i] \in X
      /\ \A i \in DOMAIN d : d[i] \in X
  OBVIOUS
<1>1. ASSUME NEW i \in DOMAIN a
      PROVE  /\ Later(a, i) \o d \in Seq(X)
             /\ Range(Later(a, i) \o d) = Range(Later(a, i)) \cup Range(d)
             /\ f[i] \in Seq(X \X X)
             /\ \A e \in Range(Later(a, i) \o d) : <<a[i], e>> \in Range(f[i])
  <2>1. Later(a, i) \in Seq(X)
    BY LaterHas
  <2>2. Later(a, i) \o d \in Seq(X) /\ Range(Later(a, i) \o d) = Range(Later(a, i)) \cup Range(d)
    BY <2>1, ConcatRange
  <2>3. f[i] = Paired(a[i], Later(a, i) \o d) /\ a[i] \in X
    BY <1>0
  <2> HIDE DEF f
  <2> QED BY <2>2, <2>3, PairedHas
<1>2. ASSUME NEW i \in DOMAIN d
      PROVE  g[i] \in Seq(X \X X) /\ \A e \in Range(Later(d, i)) : <<d[i], e>> \in Range(g[i])
  <2>1. Later(d, i) \in Seq(X)
    BY LaterHas
  <2>2. g[i] = Paired(d[i], Later(d, i)) /\ d[i] \in X
    BY <1>0
  <2> HIDE DEF g
  <2> QED BY <2>1, <2>2, PairedHas
<1>3. f \in Seq(Seq(X \X X)) /\ DOMAIN f = DOMAIN a
  <2>1. f = [i \in 1 .. Len(a) |-> f[i]]
    BY <1>0
  <2> HIDE DEF f
  <2> QED BY <1>0, <1>1, <2>1
<1>4. g \in Seq(Seq(X \X X)) /\ DOMAIN g = DOMAIN d
  <2>1. g = [i \in 1 .. Len(d) |-> g[i]]
    BY <1>0
  <2> HIDE DEF g
  <2> QED BY <1>0, <1>2, <2>1
<1>5. AllPairs(a, d) = FlattenSeq(f) \o FlattenSeq(g)
  BY DEF AllPairs
<1> HIDE DEF f, g
<1>6. /\ FlattenSeq(f) \in Seq(X \X X) /\ Range(FlattenSeq(f)) = UNION {Range(f[i]) : i \in DOMAIN a}
      /\ FlattenSeq(g) \in Seq(X \X X) /\ Range(FlattenSeq(g)) = UNION {Range(g[i]) : i \in DOMAIN d}
  BY <1>3, <1>4, FlattenHas
<1>7. /\ AllPairs(a, d) \in Seq(X \X X)
      /\ Range(AllPairs(a, d)) = Range(FlattenSeq(f)) \cup Range(FlattenSeq(g))
  BY <1>5, <1>6, ConcatRange
<1> DEFINE P == Range(AllPairs(a, d))
<1> HIDE DEF P
<1>8. \A i, j \in DOMAIN a : i < j => <<a[i], a[j]>> \in P
  <2> SUFFICES ASSUME NEW i \in DOMAIN a, NEW j \in DOMAIN a, i < j PROVE <<a[i], a[j]>> \in P
    OBVIOUS
  <2>1. a[j] \in Range(Later(a, i))
    BY LaterHas
  <2> QED BY <1>1, <1>6, <1>7, <2>1 DEF P
<1>9. \A i \in DOMAIN a, e \in Range(d) : <<a[i], e>> \in P
  BY <1>1, <1>6, <1>7 DEF P
<1>10. \A i, j \in DOMAIN d : i < j => <<d[i], d[j]>> \in P
  <2> SUFFICES ASSUME NEW i \in DOMAIN d, NEW j \in DOMAIN d, i < j PROVE <<d[i], d[j]>> \in P
    OBVIOUS
  <2>1. d[j] \in Range(Later(d, i))
    BY LaterHas
  <2> QED BY <1>2, <1>6, <1>7, <2>1 DEF P
<1>11. ASSUME NEW x \in Range(a) \cup Range(d), NEW y \in Range(a) \cup Range(d), x # y
       PROVE  <<x, y>> \in P \/ <<y, x>> \in P
  <2>1. CASE x \in Range(a) /\ y \in Range(a)
    <3>1. PICK i \in DOMAIN a, j \in DOMAIN a : x = a[i] /\ y = a[j]
      BY <2>1 DEF Range
    <3>2. i < j \/ j < i
      BY <1>0, <1>11, <3>1
    <3> QED BY <1>8, <3>1, <3>2
  <2>2. CASE x \in Range(a) /\ y \in Range(d)
    BY <1>9, <2>2 DEF Range
  <2>3. CASE x \in Range(d) /\ y \in Range(a)
    BY <1>9, <2>3 DEF Range
  <2>4. CASE x \in Range(d) /\ y \in Range(d)
    <3>1. PICK i \in DOMAIN d, j \in DOMAIN d : x = d[i] /\ y = d[j]
      BY <2>4 DEF Range
    <3>2. i < j \/ j < i
      BY <1>0, <1>11, <3>1
    <3> QED BY <1>10, <3>1, <3>2
  <2> QED BY <2>1, <2>2, <2>3, <2>4
<1> QED BY <1>7, <1>11 DEF P

LEMMA PairsOfIs ==
  ASSUME NEW q, NEW tr
  PROVE  PairsOf(q, tr) = AllPairs(Reaching(q, tr), DRRD(tr))
BY DEF PairsOf, AllPairs, Paired

(* A set of subsets that has a finite set whenever it has what is left of  *)
(* it without an element.                                                  *)
LEMMA FiniteInduction ==
  ASSUME NEW S, IsFiniteSet(S), NEW A, {} \in A,
         \A s \in SUBSET S : s # {} /\ (\A x \in s : s \ {x} \in A) => s \in A
  PROVE  S \in A
<1> DEFINE B == {n \in Nat : \A s \in SUBSET S : Cardinality(s) = n => s \in A}
<1>1. 0 \in B
  <2> SUFFICES ASSUME NEW s \in SUBSET S, Cardinality(s) = 0 PROVE s \in A
    OBVIOUS
  <2>1. s = {}
    BY FS_Subset, FS_EmptySet
  <2> QED BY <2>1
<1>2. ASSUME NEW n \in Nat, n \in B PROVE n + 1 \in B
  <2> SUFFICES ASSUME NEW s \in SUBSET S, Cardinality(s) = n + 1 PROVE s \in A
    OBVIOUS
  <2>1. IsFiniteSet(s)
    BY FS_Subset
  <2>2. s # {}
    <3>1. n + 1 # 0
      OBVIOUS
    <3> QED BY <2>1, <3>1, FS_EmptySet
  <2>3. ASSUME NEW x \in s PROVE s \ {x} \in A
    <3>1. Cardinality(s \ {x}) = Cardinality(s) - 1
      BY <2>1, FS_RemoveElement
    <3>2. Cardinality(s \ {x}) = n /\ s \ {x} \in SUBSET S
      BY <3>1
    <3> QED BY <1>2, <3>2
  <2> QED BY <2>2, <2>3
<1> HIDE DEF B
<1>3. Nat \subseteq B
  BY <1>1, <1>2, SetInduction
<1> QED BY <1>3, FS_CardinalityType DEF B

(* what is below a trace in a tree *)
LEMMA SubTreeIs ==
  ASSUME NEW tree \in SUBSET Seq(In), NEW xs \in Seq(In), NEW w
  PROVE  w \in SubTreeAfter(tree, xs) <=> w \in Seq(In) /\ xs \o w \in tree
<1> DEFINE n == Len(xs)
<1>0. n \in Nat
  OBVIOUS
<1>1. ASSUME w \in SubTreeAfter(tree, xs) PROVE w \in Seq(In) /\ xs \o w \in tree
  <2>1. PICK v \in tree : IsPrefix(xs, v) /\ w = Rest(v, n)
    BY <1>1 DEF SubTreeAfter, Rest
  <2>2. v \in Seq(In) /\ n <= Len(v) /\ Prefix(v, n) = xs
    BY <2>1, PrefixMeans
  <2>3. n \in 0 .. Len(v)
    BY <1>0, <2>2
  <2> HIDE DEF n
  <2>4. w \in Seq(In)
    BY <2>1, <2>2, <2>3, PartsAre
  <2>5. Prefix(v, n) \o Rest(v, n) = v
    BY <2>2, <2>3, PartsJoin
  <2> QED BY <2>1, <2>2, <2>4, <2>5
<1>2. ASSUME w \in Seq(In), xs \o w \in tree PROVE w \in SubTreeAfter(tree, xs)
  <2> DEFINE v == xs \o w
  <2>1. v \in Seq(In) /\ Len(v) = n + Len(w) /\ Len(w) \in Nat
    BY <1>2
  <2>2. /\ \A i \in 1 .. n : v[i] = xs[i]
        /\ \A i \in 1 .. Len(w) : v[n + i] = w[i]
    BY <1>0, <1>2
  <2> HIDE DEF v
  <2>3. n \in 0 .. Len(v)
    BY <1>0, <2>1
  <2>n. Len(xs) = n /\ xs \in Seq(In)
    OBVIOUS
  <2> HIDE DEF n
  <2>4. /\ Prefix(v, n) \in Seq(In) /\ Len(Prefix(v, n)) = n
        /\ Rest(v, n) \in Seq(In) /\ Len(Rest(v, n)) = Len(w)
        /\ \A i \in 1 .. n : Prefix(v, n)[i] = v[i]
        /\ \A i \in 1 .. Len(w) : Rest(v, n)[i] = v[n + i]
    <3>1. Len(v) - n = Len(w)
      BY <1>0, <2>1
    <3>2. /\ Prefix(v, n) \in Seq(In) /\ Len(Prefix(v, n)) = n
          /\ Rest(v, n) \in Seq(In) /\ Len(Rest(v, n)) = Len(v) - n
          /\ \A i \in 1 .. n : Prefix(v, n)[i] = v[i]
          /\ \A i \in 1 .. Len(v) - n : Rest(v, n)[i] = v[n + i]
      BY <2>1, <2>3, PartsAre
    <3> QED BY <3>1, <3>2
  <2>5. Prefix(v, n) = xs
    BY <2>2, <2>4, <2>n, SeqEqual
  <2>6. Rest(v, n) = w
    BY <1>2, <2>2, <2>4, SeqEqual
  <2>7. IsPrefix(xs, v)
    <3>1. n <= Len(v)
      BY <1>0, <2>1
    <3> QED BY <2>1, <2>5, <2>n, <3>1, PrefixMeans
  <2>8. v \in tree
    BY <1>2 DEF v
  <2> QED BY <2>6, <2>7, <2>8, <2>n DEF SubTreeAfter, Rest
<1> QED BY <1>1, <1>2

LEMMA SharedAre ==
  ASSUME NEW tree \in SUBSET Seq(In), NEW xs \in Seq(In), NEW zs \in Seq(In)
  PROVE  /\ SharedExtensions(tree, xs, zs) = {w \in Seq(In) : xs \o w \in tree /\ zs \o w \in tree}
         /\ SharedExtensions(tree, xs, zs) \in SUBSET Seq(In)
BY SubTreeIs DEF SharedExtensions

(* what is below an input *)
LEMMA After1Is ==
  ASSUME NEW tree \in SUBSET Seq(In), NEW x \in In, NEW w
  PROVE  w \in After1(tree, x) <=> w \in Seq(In) /\ <<x>> \o w \in tree
<1>1. ASSUME w \in After1(tree, x) PROVE w \in Seq(In) /\ <<x>> \o w \in tree
  <2>1. PICK v \in tree : v # << >> /\ Head(v) = x /\ w = Tail(v)
    BY <1>1 DEF After1
  <2>2. v \in Seq(In)
    OBVIOUS
  <2>3. Tail(v) \in Seq(In) /\ v = <<Head(v)>> \o Tail(v)
    BY <2>1, <2>2
  <2> QED BY <2>1, <2>3
<1>2. ASSUME w \in Seq(In), <<x>> \o w \in tree PROVE w \in After1(tree, x)
  <2> DEFINE v == <<x>> \o w
  <2>1. v # << >> /\ Head(v) = x /\ Tail(v) = w
    BY <1>2
  <2>2. v \in tree
    BY <1>2
  <2> HIDE DEF v
  <2> QED BY <2>1, <2>2 DEF After1
<1> QED BY <1>1, <1>2

(***************************************************************************)
(* Bounded trees, and what tells states apart in a larger one.             *)
(***************************************************************************)
LEMMA After1Shorter ==
  ASSUME NEW tree \in SUBSET Seq(In), NEW x \in In, NEW n \in Nat, NoLonger(tree, n + 1)
  PROVE  NoLonger(After1(tree, x), n) /\ After1(tree, x) \in SUBSET Seq(In)
<1> SUFFICES ASSUME NEW w \in After1(tree, x) PROVE Len(w) <= n
  BY After1Typed DEF NoLonger
<1>1. w \in Seq(In) /\ <<x>> \o w \in tree
  BY After1Is
<1>2. Len(<<x>> \o w) = 1 + Len(w) /\ Len(w) \in Nat
  BY <1>1
<1>3. Len(<<x>> \o w) <= n + 1
  BY <1>1 DEF NoLonger
<1> QED BY <1>2, <1>3

LEMMA RootIs ==
  ASSUME NEW tree \in SUBSET Seq(In), NEW x \in RootInputs(tree)
  PROVE  x \in In /\ \E w \in tree : w \in Seq(In) /\ w # << >> /\ w[1] = x /\ Len(w) >= 1
<1>1. PICK w \in tree \ {<< >>} : x = w[1]
  BY DEF RootInputs
<1>2. w \in Seq(In) /\ w # << >>
  BY <1>1
<1>3. Len(w) >= 1 /\ w[1] \in In
  BY <1>2, EmptySeq
<1> QED BY <1>1, <1>2, <1>3

LEMMA ToldGrows ==
  ASSUME rows \in Machines, NEW n \in Nat
  PROVE  \A p \in State \X State, T, U \in SUBSET Seq(In) :
           NoLonger(T, n) /\ T \subseteq U /\ idRDistinguishedBy[<<p, T>>] => idRDistinguishedBy[<<p, U>>]
<1> DEFINE A == {j \in Nat : \A p \in State \X State, T, U \in SUBSET Seq(In) :
                   NoLonger(T, j) /\ T \subseteq U /\ idRDistinguishedBy[<<p, T>>] => idRDistinguishedBy[<<p, U>>]}
<1>1. ASSUME NEW p \in State \X State, NEW T \in SUBSET Seq(In), NEW U \in SUBSET Seq(In),
             T \subseteq U, idRDistinguishedBy[<<p, T>>],
             ~(DefinedInputs(rows, p[1]) # DefinedInputs(rows, p[2]))
      PROVE  \E x \in RootInputs(T) \cap DefinedInputs(rows, p[1]) :
               /\ x \in In /\ x \in RootInputs(U)
               /\ Targets(p, x) \subseteq State \X State
               /\ \A r \in Targets(p, x) : idRDistinguishedBy[<<r, After1(T, x)>>]
               /\ After1(T, x) \subseteq After1(U, x)
               /\ After1(T, x) \in SUBSET Seq(In) /\ After1(U, x) \in SUBSET Seq(In)
  <2>1. IdBody(idRDistinguishedBy, p, T)
    BY <1>1, IdRDistinguishedIs
  <2>2. PICK x \in RootInputs(T) \cap DefinedInputs(rows, p[1]) :
           \A r \in Targets(p, x) : idRDistinguishedBy[<<r, After1(T, x)>>]
    BY <1>1, <2>1 DEF IdBody
  <2>3. x \in In
    BY RootIs
  <2>4. x \in RootInputs(U) /\ After1(T, x) \subseteq After1(U, x)
    BY <1>1 DEF RootInputs, After1
  <2> QED BY <2>2, <2>3, <2>4, TargetsTyped, After1Typed
<1>2. ASSUME NEW p \in State \X State, NEW U \in SUBSET Seq(In), DefinedInputs(rows, p[1]) # DefinedInputs(rows, p[2])
      PROVE  idRDistinguishedBy[<<p, U>>]
  <2>1. IdBody(idRDistinguishedBy, p, U)
    BY <1>2 DEF IdBody
  <2> QED BY <2>1, IdRDistinguishedIs
<1>3. 0 \in A
  <2> SUFFICES ASSUME NEW p \in State \X State, NEW T \in SUBSET Seq(In), NEW U \in SUBSET Seq(In),
                      NoLonger(T, 0), T \subseteq U, idRDistinguishedBy[<<p, T>>]
               PROVE  idRDistinguishedBy[<<p, U>>]
    OBVIOUS
  <2>1. CASE DefinedInputs(rows, p[1]) # DefinedInputs(rows, p[2])
    BY <1>2, <2>1
  <2>2. CASE ~(DefinedInputs(rows, p[1]) # DefinedInputs(rows, p[2]))
    <3>1. PICK x \in RootInputs(T) : TRUE
      BY <1>1, <2>2
    <3>2. PICK w \in T : Len(w) >= 1 /\ w \in Seq(In)
      BY RootIs
    <3>3. Len(w) <= 0 /\ Len(w) \in Nat
      BY <3>2 DEF NoLonger
    <3> QED BY <3>2, <3>3
  <2> QED BY <2>1, <2>2
<1>4. ASSUME NEW j \in Nat, j \in A PROVE j + 1 \in A
  <2> SUFFICES ASSUME NEW p \in State \X State, NEW T \in SUBSET Seq(In), NEW U \in SUBSET Seq(In),
                      NoLonger(T, j + 1), T \subseteq U, idRDistinguishedBy[<<p, T>>]
               PROVE  idRDistinguishedBy[<<p, U>>]
    OBVIOUS
  <2>1. CASE DefinedInputs(rows, p[1]) # DefinedInputs(rows, p[2])
    BY <1>2, <2>1
  <2>2. CASE ~(DefinedInputs(rows, p[1]) # DefinedInputs(rows, p[2]))
    <3>1. PICK x \in RootInputs(T) \cap DefinedInputs(rows, p[1]) :
               /\ x \in In /\ x \in RootInputs(U)
               /\ Targets(p, x) \subseteq State \X State
               /\ \A r \in Targets(p, x) : idRDistinguishedBy[<<r, After1(T, x)>>]
               /\ After1(T, x) \subseteq After1(U, x)
               /\ After1(T, x) \in SUBSET Seq(In) /\ After1(U, x) \in SUBSET Seq(In)
      BY <1>1, <2>2
    <3>2. NoLonger(After1(T, x), j)
      BY <3>1, After1Shorter
    <3>3. \A r \in Targets(p, x) : idRDistinguishedBy[<<r, After1(U, x)>>]
      BY <1>4, <3>1, <3>2
    <3>4. IdBody(idRDistinguishedBy, p, U)
      BY <3>1, <3>3 DEF IdBody
    <3> QED BY <3>4, IdRDistinguishedIs
  <2> QED BY <2>1, <2>2
<1> HIDE DEF A
<1>5. n \in A
  BY <1>3, <1>4, SetInduction
<1> QED BY <1>5 DEF A

LEMMA PrefixGrows ==
  ASSUME NEW X, NEW z \in Seq(X), NEW n \in 1 .. Len(z)
  PROVE  /\ Prefix(z, n) = Append(Prefix(z, n - 1), z[n])
         /\ Prefix(z, n - 1) \in Seq(X) /\ z[n] \in X
<1> DEFINE a == Prefix(z, n)
           b == Prefix(z, n - 1)
<1>1. n - 1 \in 0 .. Len(z) /\ n \in 0 .. Len(z) /\ n \in Nat /\ z[n] \in X
  OBVIOUS
<1>2. a \in Seq(X) /\ Len(a) = n /\ \A i \in 1 .. n : a[i] = z[i]
  BY <1>1, PartsAre
<1>3. b \in Seq(X) /\ Len(b) = n - 1 /\ \A i \in 1 .. n - 1 : b[i] = z[i]
  BY <1>1, PartsAre
<1> HIDE DEF a, b
<1> DEFINE c == Append(b, z[n])
<1>4. c \in Seq(X) /\ Len(c) = n /\ \A i \in 1 .. n : c[i] = z[i]
  BY <1>1, <1>3
<1> HIDE DEF c
<1>5. a = c
  BY <1>2, <1>4, SeqEqual
<1> QED BY <1>1, <1>3, <1>5 DEF a, b, c

(***************************************************************************)
(* Test suites: bounded and with the prefixes of their tests.              *)
(***************************************************************************)
Limited(tree) == \E n \in Nat : NoLonger(tree, n)
PrefixesIn(tree) == \A w \in Seq(In), x \in In : Append(w, x) \in tree => w \in tree
Suites == {tree \in SUBSET Seq(In) : Limited(tree) /\ PrefixesIn(tree)}

LEMMA LimitedUnion ==
  ASSUME NEW a, NEW b, Limited(a), Limited(b), \A w \in a \cup b : Len(w) \in Nat
  PROVE  Limited(a \cup b)
<1>1. PICK i \in Nat : NoLonger(a, i)
  BY DEF Limited
<1>2. PICK j \in Nat : NoLonger(b, j)
  BY DEF Limited
<1>3. NoLonger(a \cup b, i + j)
  BY <1>1, <1>2 DEF NoLonger
<1> QED BY <1>3 DEF Limited

LEMMA AddAfterIs ==
  ASSUME NEW tree, NEW xs, NEW traces, NEW w
  PROVE  w \in AddAfter(tree, xs, traces)
           <=> w \in tree \/ \E z \in traces : \E n \in 0 .. Len(z) : w = xs \o Prefix(z, n)
<1> DEFINE Sh(z) == {xs \o v : v \in Prefixes(z)}
<1>1. AddAfter(tree, xs, traces) = tree \cup UNION {Sh(z) : z \in traces}
  BY DEF AddAfter
<1>2. ASSUME NEW z \in traces PROVE w \in Sh(z) <=> \E n \in 0 .. Len(z) : w = xs \o Prefix(z, n)
  <2>1. \A v : v \in Prefixes(z) <=> \E n \in 0 .. Len(z) : v = Prefix(z, n)
    BY DEF Prefixes, Prefix
  <2> QED BY <2>1
<1> HIDE DEF Sh
<1>3. w \in UNION {Sh(z) : z \in traces} <=> \E z \in traces : w \in Sh(z)
  OBVIOUS
<1> QED BY <1>1, <1>2, <1>3

LEMMA AddAfterSuite ==
  ASSUME NEW tree \in Suites, NEW xs \in tree, NEW traces \in SUBSET Seq(In), Limited(traces)
  PROVE  /\ AddAfter(tree, xs, traces) \in Suites
         /\ tree \subseteq AddAfter(tree, xs, traces)
         /\ \A z \in traces : xs \o z \in AddAfter(tree, xs, traces)
<1> DEFINE T == AddAfter(tree, xs, traces)
<1>0. xs \in Seq(In) /\ tree \in SUBSET Seq(In) /\ PrefixesIn(tree) /\ Len(xs) \in Nat
  BY DEF Suites
<1>1. \A w : w \in T <=> w \in tree \/ \E z \in traces : \E n \in 0 .. Len(z) : w = xs \o Prefix(z, n)
  BY AddAfterIs
<1> HIDE DEF T
<1>2. ASSUME NEW z \in traces, NEW n \in 0 .. Len(z)
      PROVE  xs \o Prefix(z, n) \in Seq(In) /\ Len(xs \o Prefix(z, n)) = Len(xs) + n
  <2>1. Prefix(z, n) \in Seq(In) /\ Len(Prefix(z, n)) = n
    BY PartsAre
  <2> QED BY <1>0, <2>1
<1>3. T \in SUBSET Seq(In)
  <2> SUFFICES ASSUME NEW w \in T PROVE w \in Seq(In)
    OBVIOUS
  <2>1. CASE w \in tree
    BY <1>0, <2>1
  <2>2. CASE \E z \in traces : \E n \in 0 .. Len(z) : w = xs \o Prefix(z, n)
    <3>1. PICK z \in traces : \E n \in 0 .. Len(z) : w = xs \o Prefix(z, n)
      BY <2>2
    <3> QED BY <1>2, <3>1
  <2> QED BY <1>1, <2>1, <2>2
<1>4. Limited(T)
  <2>1. PICK i \in Nat : NoLonger(tree, i)
    BY DEF Suites, Limited
  <2>2. PICK j \in Nat : NoLonger(traces, j)
    BY DEF Limited
  <2>3. ASSUME NEW w \in T PROVE Len(w) <= i + (Len(xs) + j)
    <3>1. CASE w \in tree
      <4>1. Len(w) <= i /\ Len(w) \in Nat
        BY <1>0, <2>1, <3>1 DEF NoLonger
      <4> QED BY <1>0, <4>1
    <3>2. CASE \E z \in traces : \E n \in 0 .. Len(z) : w = xs \o Prefix(z, n)
      <4>1. PICK z \in traces : \E n \in 0 .. Len(z) : w = xs \o Prefix(z, n)
        BY <3>2
      <4>2. PICK n \in 0 .. Len(z) : w = xs \o Prefix(z, n)
        BY <4>1
      <4>3. Len(w) = Len(xs) + n
        BY <1>2, <4>2
      <4>4. Len(z) <= j /\ Len(z) \in Nat
        BY <2>2 DEF NoLonger
      <4> QED BY <1>0, <4>3, <4>4
    <3> QED BY <1>1, <3>1, <3>2
  <2>4. i + (Len(xs) + j) \in Nat
    BY <1>0
  <2> QED BY <2>3, <2>4 DEF Limited, NoLonger
<1>5. ASSUME NEW w \in Seq(In), NEW x \in In, Append(w, x) \in T PROVE w \in T
  <2>1. CASE Append(w, x) \in tree
    BY <1>0, <1>1, <2>1 DEF PrefixesIn
  <2>2. CASE \E z \in traces : \E n \in 0 .. Len(z) : Append(w, x) = xs \o Prefix(z, n)
    <3>1. PICK z \in traces : \E n \in 0 .. Len(z) : Append(w, x) = xs \o Prefix(z, n)
      BY <2>2
    <3>2. PICK n \in 0 .. Len(z) : Append(w, x) = xs \o Prefix(z, n)
      BY <3>1
    <3>3. CASE n = 0
      <4>1. Prefix(z, 0) = << >>
        BY DEF Prefix
      <4>2. Append(w, x) = xs
        BY <1>0, <3>2, <3>3, <4>1
      <4> QED BY <1>0, <1>1, <4>2 DEF PrefixesIn
    <3>4. CASE n # 0
      <4> DEFINE b == Prefix(z, n - 1)
      <4>1. n \in 1 .. Len(z) /\ n - 1 \in 0 .. Len(z)
        BY <3>4
      <4>2. Prefix(z, n) = Append(b, z[n]) /\ b \in Seq(In) /\ z[n] \in In
        BY <4>1, PrefixGrows
      <4> HIDE DEF b
      <4>3. xs \o Append(b, z[n]) = Append(xs \o b, z[n]) /\ xs \o b \in Seq(In)
        BY <1>0, <4>2
      <4>4. Append(w, x) = Append(xs \o b, z[n])
        BY <3>2, <4>2, <4>3
      <4>5. w = xs \o b
        <5> DEFINE c == xs \o b
        <5>1. c \in Seq(In) /\ Append(w, x) = Append(c, z[n])
          BY <4>3, <4>4
        <5> HIDE DEF c
        <5>2. w = c
          BY <4>2, <5>1, AppendInjective
        <5> QED BY <5>2 DEF c
      <4> QED BY <1>1, <4>1, <4>5 DEF b
    <3> QED BY <3>3, <3>4
  <2> QED BY <1>1, <1>5, <2>1, <2>2
<1>6. ASSUME NEW z \in traces PROVE xs \o z \in T
  <2>1. z \in Seq(In) /\ Len(z) \in 0 .. Len(z)
    OBVIOUS
  <2>2. Prefix(z, Len(z)) = z
    BY <2>1 DEF Prefix
  <2> QED BY <1>1, <2>1, <2>2
<1> QED BY <1>1, <1>3, <1>4, <1>5, <1>6 DEF Suites, PrefixesIn, T

(***************************************************************************)
(* The distinguishing trees are bounded.                                   *)
(***************************************************************************)
LEMMA CommonLimit ==
  ASSUME NEW G, IsFiniteSet(G), NEW f, \A r \in G : Limited(f[r]) /\ \A w \in f[r] : Len(w) \in Nat
  PROVE  Limited(UNION {f[r] : r \in G})
<1> DEFINE A == {s \in SUBSET G : Limited(UNION {f[r] : r \in s})}
<1>1. {} \in A
  <2>1. NoLonger(UNION {f[r] : r \in {}}, 0)
    BY DEF NoLonger
  <2>2. Limited(UNION {f[r] : r \in {}})
    BY <2>1 DEF Limited
  <2> QED BY <2>2
<1>2. ASSUME NEW s \in SUBSET G, s # {}, \A x \in s : s \ {x} \in A PROVE s \in A
  <2>1. PICK x \in s : s \ {x} \in A
    BY <1>2
  <2> DEFINE U == UNION {f[r] : r \in s \ {x}}
  <2>2. UNION {f[r] : r \in s} = U \cup f[x]
    OBVIOUS
  <2>3. Limited(U) /\ Limited(f[x])
    BY <2>1
  <2>4. \A w \in U \cup f[x] : Len(w) \in Nat
    OBVIOUS
  <2> HIDE DEF U
  <2>5. Limited(U \cup f[x])
    BY <2>3, <2>4, LimitedUnion
  <2> QED BY <2>2, <2>5
<1>3. G \in A
  <2> HIDE DEF A
  <2> QED BY <1>1, <1>2, FiniteInduction
<1> QED BY <1>3

LEMMA StatesFinite == IsFiniteSet(State) /\ IsFiniteSet(State \X State)
<1>1. IsFiniteSet(State)
  BY SizeAssumption, FS_Interval DEF State
<1> QED BY <1>1, FS_Product

LEMMA RDistTreesLimited ==
  ASSUME rows \in Machines, GraphInv
  PROVE  \A p \in DOMAIN rDistGraph : rDistTree[p] \in SUBSET Seq(In) /\ Limited(rDistTree[p])
<1> DEFINE D == DOMAIN rDistGraph
           A == {p \in D : rDistTree[p] \in SUBSET Seq(In) /\ Limited(rDistTree[p])}
<1>1. ASSUME NEW p \in D, rDistGraph[p][2] \subseteq A PROVE p \in A
  <2>1. rDistTree[p] = TreeBody(rDistTree, p)
    BY RDistTreeIs
  <2>2. /\ rDistGraph[p][1] = NoInput \/ rDistGraph[p][1] \in In
        /\ rDistGraph[p][2] \subseteq D
    BY GraphTyped DEF EntriesTyped
  <2> DEFINE x == rDistGraph[p][1]
             G == rDistGraph[p][2]
             below == UNION {rDistTree[r] : r \in G}
  <2>3. << >> \in Seq(In) /\ Len(<< >>) = 0
    OBVIOUS
  <2>4. CASE x = NoInput
    <3>1. rDistTree[p] = {<< >>}
      BY <2>1, <2>4 DEF TreeBody
    <3>2. NoLonger({<< >>}, 0)
      BY <2>3 DEF NoLonger
    <3>3. Limited(rDistTree[p])
      BY <3>1, <3>2 DEF Limited
    <3> QED BY <2>3, <3>1, <3>3
  <2>5. CASE x # NoInput
    <3>1. x \in In
      BY <2>2, <2>5
    <3>2. rDistTree[p] = {<< >>, <<x>>} \cup {<<x>> \o w : w \in below}
      BY <2>1, <2>5 DEF TreeBody
    <3>3. \A r \in G : rDistTree[r] \in SUBSET Seq(In) /\ Limited(rDistTree[r])
      BY <1>1
    <3>4. IsFiniteSet(G)
      <4>1. G \in SUBSET (State \X State)
        BY <2>2 DEF GraphInv
      <4> QED BY <4>1, StatesFinite, FS_Subset
    <3>5. below \in SUBSET Seq(In)
      BY <3>3
    <3> HIDE DEF x, G
    <3>6. Limited(below)
      <4>1. \A r \in G : Limited(rDistTree[r]) /\ \A w \in rDistTree[r] : Len(w) \in Nat
        BY <3>3
      <4> QED BY <3>4, <4>1, CommonLimit
    <3>7. PICK n \in Nat : NoLonger(below, n)
      BY <3>6 DEF Limited
    <3> HIDE DEF below
    <3>8. ASSUME NEW v \in rDistTree[p] PROVE v \in Seq(In) /\ Len(v) <= n + 1
      <4>1. CASE v = << >>
        BY <2>3, <4>1
      <4>2. CASE v = <<x>>
        BY <3>1, <4>2
      <4>3. CASE \E w \in below : v = <<x>> \o w
        <5>1. PICK w \in below : v = <<x>> \o w
          BY <4>3
        <5>2. w \in Seq(In) /\ Len(w) <= n
          BY <3>5, <3>7 DEF NoLonger
        <5> QED BY <3>1, <5>1, <5>2
      <4> QED BY <3>2, <4>1, <4>2, <4>3
    <3>9. Limited(rDistTree[p])
      <4>1. n + 1 \in Nat
        OBVIOUS
      <4> QED BY <3>8, <4>1 DEF Limited, NoLonger
    <3>10. rDistTree[p] \in SUBSET Seq(In)
      BY <3>8
    <3> QED BY <3>9, <3>10
  <2> QED BY <2>4, <2>5
<1>2. A \in SUBSET (State \X State)
  BY DEF GraphInv
<1>3. D \subseteq A
  <2> HIDE DEF A
  <2> QED BY <1>1, <1>2 DEF GraphInv, Grounded
<1> QED BY <1>3

(***************************************************************************)
(* Pairs of traces, with the states they reach, told apart by a suite.     *)
(***************************************************************************)
Apart(tree, a, b) ==
  a[2] = b[2] \/ idRDistinguishedBy[<<<<a[2], b[2]>>, SharedExtensions(tree, a[1], b[1])>>]

(* states of which any two are told apart by the graph *)
IsRDSet(S) == S \in SUBSET State /\ \A p, q \in S : p # q => <<p, q>> \in DOMAIN rDistGraph

LEMMA ApartGrows ==
  ASSUME rows \in Machines, NEW T \in Suites, NEW U \in Suites, T \subseteq U,
         NEW a \in Seq(In) \X State, NEW b \in Seq(In) \X State, Apart(T, a, b)
  PROVE  Apart(U, a, b)
<1> DEFINE p == <<a[2], b[2]>>
           V == SharedExtensions(T, a[1], b[1])
           W == SharedExtensions(U, a[1], b[1])
<1>1. a[1] \in Seq(In) /\ b[1] \in Seq(In) /\ p \in State \X State
      /\ T \in SUBSET Seq(In) /\ U \in SUBSET Seq(In)
  BY DEF Suites
<1>2. /\ V = {w \in Seq(In) : a[1] \o w \in T /\ b[1] \o w \in T}
      /\ W = {w \in Seq(In) : a[1] \o w \in U /\ b[1] \o w \in U}
  BY <1>1, SharedAre
<1>3. PICK n \in Nat : NoLonger(T, n)
  BY DEF Suites, Limited
<1>4. NoLonger(V, n)
  <2> SUFFICES ASSUME NEW w \in V PROVE Len(w) <= n
    BY DEF NoLonger
  <2>1. w \in Seq(In) /\ a[1] \o w \in T
    BY <1>2
  <2>2. Len(a[1] \o w) = Len(a[1]) + Len(w) /\ Len(a[1]) \in Nat /\ Len(w) \in Nat
    BY <1>1, <2>1
  <2>3. Len(a[1] \o w) <= n
    BY <1>3, <2>1 DEF NoLonger
  <2> QED BY <2>2, <2>3
<1>5. V \in SUBSET Seq(In) /\ W \in SUBSET Seq(In) /\ V \subseteq W
  BY <1>2
<1> HIDE DEF V, W
<1>6. CASE a[2] = b[2]
  BY <1>6 DEF Apart
<1>7. CASE idRDistinguishedBy[<<p, V>>]
  <2>1. idRDistinguishedBy[<<p, W>>]
    BY <1>1, <1>4, <1>5, <1>7, ToldGrows
  <2> QED BY <2>1 DEF Apart, W
<1> QED BY <1>6, <1>7 DEF Apart, V

LEMMA SeparateStep ==
  ASSUME rows \in Machines, GraphInv, NEW tree \in Suites, NEW S, IsRDSet(S),
         NEW a \in tree \X S, NEW b \in tree \X S
  PROVE  /\ Separate(tree, a, b) \in Suites /\ tree \subseteq Separate(tree, a, b)
         /\ Apart(Separate(tree, a, b), a, b)
<1>1. CASE Apart(tree, a, b)
  <2>1. Separate(tree, a, b) = tree
    BY <1>1 DEF Apart, Separate
  <2> QED BY <1>1, <2>1
<1>2. CASE ~Apart(tree, a, b)
  <2> DEFINE p == <<a[2], b[2]>>
             t1 == AddAfter(tree, a[1], rDistTree[p])
             t2 == AddAfter(t1, b[1], rDistTree[p])
             W == SharedExtensions(t2, a[1], b[1])
  <2>1. Separate(tree, a, b) = t2
    BY <1>2 DEF Apart, Separate
  <2>2. p \in DOMAIN rDistGraph /\ p \in State \X State /\ a[1] \in tree /\ b[1] \in tree
        /\ a[1] \in Seq(In) /\ b[1] \in Seq(In)
    <3>1. a[2] # b[2] /\ a[2] \in S /\ b[2] \in S
      BY <1>2 DEF Apart
    <3>2. tree \in SUBSET Seq(In)
      BY DEF Suites
    <3> QED BY <3>1, <3>2 DEF IsRDSet
  <2>3. rDistTree[p] \in SUBSET Seq(In) /\ Limited(rDistTree[p])
    BY <2>2, RDistTreesLimited
  <2> HIDE DEF p
  <2>4. t1 \in Suites /\ tree \subseteq t1 /\ \A z \in rDistTree[p] : a[1] \o z \in t1
    BY <2>2, <2>3, AddAfterSuite
  <2> HIDE DEF t1
  <2>5. t2 \in Suites /\ t1 \subseteq t2 /\ \A z \in rDistTree[p] : b[1] \o z \in t2
    BY <2>2, <2>3, <2>4, AddAfterSuite
  <2> HIDE DEF t2
  <2>6. W = {w \in Seq(In) : a[1] \o w \in t2 /\ b[1] \o w \in t2} /\ W \in SUBSET Seq(In)
    <3>1. t2 \in SUBSET Seq(In)
      BY <2>5 DEF Suites
    <3> QED BY <2>2, <3>1, SharedAre
  <2>7. rDistTree[p] \subseteq W
    BY <2>3, <2>4, <2>5, <2>6
  <2>8. idRDistinguishedBy[<<p, rDistTree[p]>>]
    BY <2>2, TreesTellApart
  <2>9. idRDistinguishedBy[<<p, W>>]
    <3>1. PICK n \in Nat : NoLonger(rDistTree[p], n)
      BY <2>3 DEF Limited
    <3> HIDE DEF W
    <3> QED BY <2>2, <2>3, <2>6, <2>7, <2>8, <3>1, ToldGrows
  <2>10. Apart(t2, a, b)
    BY <2>9 DEF Apart, p
  <2> QED BY <2>1, <2>4, <2>5, <2>10
<1> QED BY <1>1, <1>2

LEMMA SeparateAllIs ==
  ASSUME NEW tree, NEW X, NEW pairs \in Seq(X)
  PROVE  SeparateAll(tree, pairs) = FoldOf(<<"separate", idRDistinguishedBy, rDistTree>>, tree, pairs)
<1> DEFINE k == <<"separate", idRDistinguishedBy, rDistTree>>
           D == DOMAIN pairs
           Op(a, ab) == Separate(a, ab[1], ab[2])
           Is(iter) == iter = [s \in SUBSET D |-> IF s = {} THEN tree
                                ELSE Op(iter[s \ {Max(s)}], pairs[Max(s)])]
<1>1. SeparateAll(tree, pairs) = (CHOOSE iter : Is(iter))[D]
  BY DEF SeparateAll, FoldLeft, MapThenFoldSet
<1>2. \A a, b : StepOf(k, a, b) = Op(a, b)
  <2>1. \A a, b : StepOf(k, a, b) = SeparateBy(idRDistinguishedBy, rDistTree, a, b)
    BY StepCases
  <2>2. \A a, b : SeparateBy(idRDistinguishedBy, rDistTree, a, b) = Op(a, b)
    BY DEF SeparateBy, Separate
  <2> HIDE DEF k, Op
  <2> QED BY <2>1, <2>2
<1> HIDE DEF k, Op
<1>3. \A iter : Is(iter) <=> IsFold(iter, k, tree, pairs)
  BY <1>2 DEF IsFold
<1> HIDE DEF Is
<1>4. (CHOOSE iter : Is(iter)) = CHOOSE iter : IsFold(iter, k, tree, pairs)
  BY <1>3
<1> QED BY <1>1, <1>4 DEF FoldOf, k

(* a suite whose pairs from a list are told apart *)
PairsApart(T, pairs) == \A ab \in Range(pairs) : Apart(T, ab[1], ab[2])

LEMMA SeparateAllHas ==
  ASSUME rows \in Machines, GraphInv, NEW tree \in Suites, NEW S, IsRDSet(S), NEW Y \in SUBSET tree,
         NEW pairs \in Seq((Y \X S) \X (Y \X S))
  PROVE  /\ SeparateAll(tree, pairs) \in Suites /\ tree \subseteq SeparateAll(tree, pairs)
         /\ PairsApart(SeparateAll(tree, pairs), pairs)
<1> DEFINE k == <<"separate", idRDistinguishedBy, rDistTree>>
           X == (Y \X S) \X (Y \X S)
           F(u) == FoldOf(k, tree, u)
           A == {u \in Seq(X) : F(u) \in Suites /\ tree \subseteq F(u) /\ PairsApart(F(u), u)}
<1>1. << >> \in A
  <2>1. F(<< >>) = tree
    BY FoldOfEmpty
  <2>2. << >> \in Seq(X) /\ Range(<< >>) = {}
    BY DEF Range
  <2>3. PairsApart(F(<< >>), << >>)
    BY <2>2 DEF PairsApart
  <2> QED BY <2>1, <2>2, <2>3
<1>2. ASSUME NEW u \in Seq(X), NEW ab \in X, u \in A PROVE Append(u, ab) \in A
  <2> DEFINE T == F(u)
             a == ab[1]
             b == ab[2]
             U == Separate(T, a, b)
  <2>1. F(Append(u, ab)) = U
    <3>1. F(Append(u, ab)) = StepOf(k, F(u), ab)
      BY FoldOfAppend
    <3>2. StepOf(k, F(u), ab) = SeparateBy(idRDistinguishedBy, rDistTree, F(u), ab)
      BY StepCases
    <3>3. SeparateBy(idRDistinguishedBy, rDistTree, F(u), ab) = U
      BY DEF SeparateBy, Separate
    <3> HIDE DEF U, F, k
    <3> QED BY <3>1, <3>2, <3>3
  <2>2. T \in Suites /\ tree \subseteq T /\ PairsApart(T, u)
    BY <1>2
  <2>3. Append(u, ab) \in Seq(X) /\ Range(Append(u, ab)) = Range(u) \cup {ab}
    <3> HIDE DEF X, A, F
    <3>1. Append(u, ab) \in Seq(X)
      OBVIOUS
    <3> QED BY <3>1, RangeAppend
  <2>4. a \in Y \X S /\ b \in Y \X S
    OBVIOUS
  <2> HIDE DEF T, F, A, a, b
  <2>5. a \in T \X S /\ b \in T \X S
    BY <2>2, <2>4
  <2>6. U \in Suites /\ T \subseteq U /\ Apart(U, a, b)
    BY <2>2, <2>5, SeparateStep
  <2> HIDE DEF U
  <2>7. ASSUME NEW e \in Range(u) PROVE Apart(U, e[1], e[2])
    <3>1. e \in X
      BY DEF Range
    <3>2. e[1] \in Seq(In) \X State /\ e[2] \in Seq(In) \X State
      BY <3>1 DEF Suites, IsRDSet
    <3>3. Apart(T, e[1], e[2])
      BY <2>2 DEF PairsApart
    <3> QED BY <2>2, <2>6, <3>2, <3>3, ApartGrows
  <2>8. PairsApart(U, Append(u, ab))
    BY <2>3, <2>6, <2>7 DEF PairsApart, a, b
  <2> QED BY <2>1, <2>2, <2>3, <2>6, <2>8 DEF A
<1> HIDE DEF A
<1>3. pairs \in A
  BY <1>1, <1>2, SeqInduction
<1>4. SeparateAll(tree, pairs) = F(pairs)
  BY SeparateAllIs
<1> QED BY <1>3, <1>4 DEF A

(* the trace and the state after k inputs of a traversal from q *)
At(q, io, k) == <<dReachingSequences[q] \o Inputs(Prefix(io, k)), After(rows, q, Prefix(io, k))>>
DReachedBy(r) == <<dReachingSequences[r], r>>

(* the traces updateTestSuite pairs for a trace of a traversal set *)
Visiting(q, tr) ==
  {At(q, tr[1], k) : k \in {j \in 0 .. Len(tr[1]) : After(rows, q, Prefix(tr[1], j)) \in tr[2]}}
  \cup {DReachedBy(r) : r \in tr[2] \cap dReached}
AllApart(T, V) == \A a, b \in V : a # b => Apart(T, a, b) \/ Apart(T, b, a)

(* the traces of a traversal and those to the d-reached states of its set *)
TracesIn(q, tr, Y) ==
  /\ \A k \in 0 .. Len(tr[1]) : dReachingSequences[q] \o Inputs(Prefix(tr[1], k)) \in Y
  /\ \A r \in tr[2] \cap dReached : dReachingSequences[r] \in Y

LEMMA PrefixTyped ==
  ASSUME NEW io \in Seq(IO), NEW k \in 0 .. Len(io)
  PROVE  Prefix(io, k) \in Seq(IO) /\ Len(Prefix(io, k)) = k
BY DEF Prefix

LEMMA ReachingHas ==
  ASSUME rows \in Machines, NEW q \in State, NEW tr, tr[1] \in Seq(IO), tr[2] \in SUBSET State,
         NEW Y, TracesIn(q, tr, Y)
  PROVE  /\ Reaching(q, tr) \in Seq(Y \X tr[2])
         /\ \A k \in 0 .. Len(tr[1]) :
              After(rows, q, Prefix(tr[1], k)) \in tr[2] => At(q, tr[1], k) \in Range(Reaching(q, tr))
<1> DEFINE n == Len(tr[1])
           X == Y \X (State \cup {-1})
           s == [k \in 1 .. n |-> At(q, tr[1], k)]
           z == At(q, tr[1], 0)
           S == tr[2]
<1>1. n \in Nat
  OBVIOUS
<1>2. ASSUME NEW k \in 0 .. n PROVE At(q, tr[1], k) \in X
  <2>1. After(rows, q, Prefix(tr[1], k)) \in State \cup {-1}
    BY <1>2, PrefixTyped, AfterTyped
  <2>2. dReachingSequences[q] \o Inputs(Prefix(tr[1], k)) \in Y
    BY <1>2 DEF TracesIn
  <2> QED BY <2>1, <2>2 DEF At
<1>3. Reaching(q, tr) = Within(Append(s, z), S)
  BY DEF Reaching, At, Prefix
<1>4. s \in Seq(X) /\ z \in X
  <2>1. \A k \in 1 .. n : At(q, tr[1], k) \in X
    BY <1>1, <1>2
  <2>2. z \in X
    BY <1>1, <1>2
  <2> HIDE DEF X, n
  <2> QED BY <1>1, <2>1, <2>2
<1>5. \A k \in 1 .. n : At(q, tr[1], k) \in Range(s)
  BY DEF Range
<1> HIDE DEF s, z, X
<1>6. Append(s, z) \in Seq(X) /\ Range(Append(s, z)) = Range(s) \cup {z}
  BY <1>4, RangeAppend
<1> DEFINE u == Append(s, z)
<1> HIDE DEF u
<1>7. /\ Within(u, S) \in Seq({e \in X : e[2] \in S})
      /\ Range(Within(u, S)) = {e \in Range(u) : e[2] \in S}
  BY <1>6, WithinHas DEF u
<1>8. {e \in X : e[2] \in S} \subseteq Y \X S
  BY DEF X
<1>9. Within(u, S) \in Seq(Y \X S)
  <2> DEFINE B == {e \in X : e[2] \in S}
  <2>1. B \subseteq Y \X S /\ Within(u, S) \in Seq(B)
    BY <1>7, <1>8
  <2> HIDE DEF B, S
  <2>2. \A e \in Seq(B) : e \in Seq(Y \X S)
    BY <2>1
  <2> QED BY <2>1, <2>2
<1>10. ASSUME NEW k \in 0 .. n, After(rows, q, Prefix(tr[1], k)) \in S
       PROVE  At(q, tr[1], k) \in Range(Within(u, S))
  <2>1. At(q, tr[1], k)[2] \in S
    BY <1>10 DEF At
  <2>2. At(q, tr[1], k) \in Range(u)
    <3>1. k = 0 \/ k \in 1 .. n
      BY <1>1
    <3> QED BY <1>5, <1>6, <3>1 DEF u, z
  <2> QED BY <1>7, <2>1, <2>2
<1> QED BY <1>3, <1>9, <1>10 DEF u

LEMMA DRRDHas ==
  ASSUME NEW q, NEW tr, tr[2] \in SUBSET State, NEW Y, TracesIn(q, tr, Y)
  PROVE  /\ DRRD(tr) \in Seq(Y \X tr[2])
         /\ \A r \in tr[2] \cap dReached : DReachedBy(r) \in Range(DRRD(tr))
<1> DEFINE X == {DReachedBy(r) : r \in State}
           s == [i \in 1 .. numStates |-> DReachedBy(i - 1)]
           S == tr[2] \cap dReached
<1>1. \A i \in 1 .. numStates : i - 1 \in State
  BY SizeAssumption DEF State
<1>2. s \in Seq(X)
  BY <1>1, SizeAssumption
<1>3. DRRD(tr) = Within(s, S)
  BY DEF DRRD, DReachedBy
<1>4. ASSUME NEW r \in State PROVE DReachedBy(r) \in Range(s)
  <2>1. r + 1 \in 1 .. numStates /\ (r + 1) - 1 = r
    BY SizeAssumption DEF State
  <2>2. s[r + 1] = DReachedBy(r)
    BY <2>1
  <2> QED BY <2>1, <2>2 DEF Range
<1> HIDE DEF s
<1>5. /\ Within(s, S) \in Seq({e \in X : e[2] \in S})
      /\ Range(Within(s, S)) = {e \in Range(s) : e[2] \in S}
  BY <1>2, WithinHas
<1>6. {e \in X : e[2] \in S} \subseteq Y \X tr[2]
  BY DEF TracesIn, DReachedBy
<1>7. Within(s, S) \in Seq(Y \X tr[2])
  <2> DEFINE B == {e \in X : e[2] \in S}
  <2>1. B \subseteq Y \X tr[2] /\ Within(s, S) \in Seq(B)
    BY <1>5, <1>6
  <2> HIDE DEF B, S
  <2>2. \A e \in Seq(B) : e \in Seq(Y \X tr[2])
    BY <2>1
  <2> QED BY <2>1, <2>2
<1>8. ASSUME NEW r \in tr[2] \cap dReached PROVE DReachedBy(r) \in Range(Within(s, S))
  <2>1. r \in State /\ DReachedBy(r)[2] = r
    BY DEF DReachedBy
  <2> QED BY <1>4, <1>5, <2>1
<1> QED BY <1>3, <1>7, <1>8

LEMMA PairsOfHave ==
  ASSUME rows \in Machines, NEW q \in State, NEW tr, tr[1] \in Seq(IO), tr[2] \in SUBSET State,
         NEW Y, TracesIn(q, tr, Y)
  PROVE  /\ PairsOf(q, tr) \in Seq((Y \X tr[2]) \X (Y \X tr[2]))
         /\ \A a, b \in Visiting(q, tr) :
              a # b => <<a, b>> \in Range(PairsOf(q, tr)) \/ <<b, a>> \in Range(PairsOf(q, tr))
<1> DEFINE X == Y \X tr[2]
           a == Reaching(q, tr)
           d == DRRD(tr)
<1>1. a \in Seq(X) /\ d \in Seq(X)
  BY ReachingHas, DRRDHas
<1>2. ASSUME NEW e \in Visiting(q, tr) PROVE e \in Range(a) \cup Range(d)
  BY ReachingHas, DRRDHas DEF Visiting
<1> HIDE DEF X, a, d
<1>3. /\ AllPairs(a, d) \in Seq(X \X X)
      /\ \A x, y \in Range(a) \cup Range(d) :
           x # y => <<x, y>> \in Range(AllPairs(a, d)) \/ <<y, x>> \in Range(AllPairs(a, d))
  BY <1>1, AllPairsHave
<1>4. PairsOf(q, tr) = AllPairs(a, d)
  BY PairsOfIs DEF a, d
<1> QED BY <1>2, <1>3, <1>4 DEF X

(***************************************************************************)
(* A fold over a finite set of lists of pairs.                             *)
(***************************************************************************)
EltOf(s) == CHOOSE x \in s : TRUE
SepList(d, g, tree, pairs) == FoldOf(<<"separate", d, g>>, tree, pairs)
IsSetFold(iter, d, g, lists, base, D) ==
  iter = [s \in D |-> IF s = {} THEN base ELSE SepList(d, g, iter[s \ {EltOf(s)}], lists[EltOf(s)])]

LEMMA SetFoldExists ==
  ASSUME NEW d, NEW g, NEW lists, NEW base, NEW T, IsFiniteSet(T)
  PROVE  \E iter : IsSetFold(iter, d, g, lists, base, SUBSET T)
<1> DEFINE D(n) == {s \in SUBSET T : Cardinality(s) <= n}
           Step(iter, s) == SepList(d, g, iter[s \ {EltOf(s)}], lists[EltOf(s)])
           A == {n \in Nat : \E iter : IsSetFold(iter, d, g, lists, base, D(n))}
<1>1. \A s \in SUBSET T : IsFiniteSet(s) /\ Cardinality(s) \in Nat
  BY FS_Subset, FS_CardinalityType
<1>2. ASSUME NEW s \in SUBSET T, s # {}
      PROVE  /\ EltOf(s) \in s /\ s \ {EltOf(s)} \in SUBSET T
             /\ Cardinality(s) # 0 /\ Cardinality(s \ {EltOf(s)}) = Cardinality(s) - 1
  <2>1. EltOf(s) \in s
    BY <1>2 DEF EltOf
  <2>2. Cardinality(s) # 0
    BY <1>1, <1>2, FS_EmptySet
  <2>3. Cardinality(s \ {EltOf(s)}) = Cardinality(s) - 1
    BY <1>1, <2>1, FS_RemoveElement
  <2> QED BY <2>1, <2>2, <2>3
<1>3. 0 \in A
  <2> DEFINE f == [s \in D(0) |-> base]
             h == [s \in D(0) |-> IF s = {} THEN base ELSE Step(f, s)]
  <2>1. ASSUME NEW s \in D(0) PROVE s = {}
    <3>1. Cardinality(s) <= 0 /\ Cardinality(s) \in Nat /\ s \in SUBSET T
      BY <1>1
    <3>2. Cardinality(s) = 0
      BY <3>1
    <3> QED BY <1>2, <3>1, <3>2
  <2>2. f = h
    BY <2>1
  <2>3. IsSetFold(f, d, g, lists, base, D(0))
    BY <2>2 DEF IsSetFold
  <2> QED BY <2>3
<1>4. ASSUME NEW n \in Nat, n \in A PROVE n + 1 \in A
  <2>1. PICK f : IsSetFold(f, d, g, lists, base, D(n))
    BY <1>4
  <2>2. \A s \in D(n) : f[s] = IF s = {} THEN base ELSE Step(f, s)
    <3> DEFINE e == [s \in D(n) |-> IF s = {} THEN base ELSE Step(f, s)]
    <3>1. f = e
      BY <2>1 DEF IsSetFold
    <3>2. \A s \in D(n) : e[s] = IF s = {} THEN base ELSE Step(f, s)
      OBVIOUS
    <3> HIDE DEF e, Step
    <3> QED BY <3>1, <3>2
  <2> DEFINE G == [s \in D(n + 1) |-> IF s \in D(n) THEN f[s] ELSE Step(f, s)]
             H == [s \in D(n + 1) |-> IF s = {} THEN base ELSE Step(G, s)]
  <2>3. ASSUME NEW s \in D(n + 1), s # {} PROVE s \ {EltOf(s)} \in D(n) /\ s \ {EltOf(s)} \in D(n + 1)
    <3>1. Cardinality(s) <= n + 1 /\ Cardinality(s) \in Nat /\ Cardinality(s \ {EltOf(s)}) = Cardinality(s) - 1
          /\ s \ {EltOf(s)} \in SUBSET T
      BY <1>1, <1>2, <2>3
    <3>2. Cardinality(s \ {EltOf(s)}) <= n /\ Cardinality(s \ {EltOf(s)}) <= n + 1
      BY <3>1
    <3> QED BY <3>1, <3>2
  <2>4. {} \in D(n)
    BY FS_EmptySet
  <2>5. ASSUME NEW s \in D(n + 1) PROVE G[s] = IF s = {} THEN base ELSE Step(G, s)
    <3>1. CASE s = {}
      <4>1. G[s] = f[s] /\ f[s] = base
        <5>1. s \in D(n)
          BY <2>4, <3>1
        <5>2. G[s] = f[s]
          BY <5>1
        <5> HIDE DEF D, G, Step
        <5> QED BY <2>2, <3>1, <5>1, <5>2
      <4> QED BY <3>1, <4>1
    <3>2. CASE s # {}
      <4>1. s \ {EltOf(s)} \in D(n) /\ s \ {EltOf(s)} \in D(n + 1)
        BY <2>3, <3>2
      <4>2. G[s \ {EltOf(s)}] = f[s \ {EltOf(s)}]
        <5> DEFINE w == s \ {EltOf(s)}
        <5> HIDE DEF w
        <5>1. w \in D(n) /\ w \in D(n + 1)
          BY <4>1 DEF w
        <5> HIDE DEF D, Step
        <5>2. G[w] = f[w]
          BY <5>1
        <5> QED BY <5>2 DEF w
      <4>3. Step(G, s) = Step(f, s)
        <5> HIDE DEF G
        <5> QED BY <4>2
      <4>4. G[s] = Step(f, s)
        <5> HIDE DEF D, Step
        <5>1. G[s] = IF s \in D(n) THEN f[s] ELSE Step(f, s)
          OBVIOUS
        <5>2. s \in D(n) => f[s] = Step(f, s)
          BY <2>2, <3>2
        <5> QED BY <5>1, <5>2
      <4> HIDE DEF Step, G
      <4> QED BY <3>2, <4>3, <4>4
    <3> QED BY <3>1, <3>2
  <2>6. G = H
    <3> DEFINE E(s) == IF s = {} THEN base ELSE Step(G, s)
               F(s) == IF s \in D(n) THEN f[s] ELSE Step(f, s)
    <3>1. \A s \in D(n + 1) : G[s] = F(s)
      OBVIOUS
    <3>2. \A s \in D(n + 1) : F(s) = E(s)
      <4>1. \A s \in D(n + 1) : G[s] = E(s)
        BY <2>5
      <4> HIDE DEF G, E, F, D
      <4> QED BY <3>1, <4>1
    <3>3. G = [s \in D(n + 1) |-> F(s)] /\ H = [s \in D(n + 1) |-> E(s)]
      OBVIOUS
    <3> HIDE DEF G, H, E, F, D
    <3> QED BY <3>2, <3>3
  <2>7. IsSetFold(G, d, g, lists, base, D(n + 1))
    <3>1. H = [s \in D(n + 1) |-> IF s = {} THEN base ELSE SepList(d, g, G[s \ {EltOf(s)}], lists[EltOf(s)])]
      OBVIOUS
    <3> HIDE DEF G, H, D
    <3> QED BY <2>6, <3>1 DEF IsSetFold
  <2> HIDE DEF D, G
  <2>8. \E iter : IsSetFold(iter, d, g, lists, base, D(n + 1))
    BY <2>7
  <2> QED BY <2>8
<1> HIDE DEF A
<1>5. Cardinality(T) \in A
  BY <1>3, <1>4, SetInduction, FS_CardinalityType
<1>6. D(Cardinality(T)) = SUBSET T
  <2>1. \A s \in SUBSET T : Cardinality(s) <= Cardinality(T)
    BY FS_Subset
  <2> QED BY <2>1
<1> HIDE DEF D
<1> QED BY <1>5, <1>6 DEF A

LEMMA ExtendedIs ==
  ASSUME NEW q, IsFiniteSet(TraversalSet(q)),
         \A tr \in TraversalSet(q) : \E X : PairsOf(q, tr) \in Seq(X)
  PROVE  \E iter : /\ IsSetFold(iter, idRDistinguishedBy, rDistTree,
                                [tr \in TraversalSet(q) |-> PairsOf(q, tr)], suite, SUBSET TraversalSet(q))
                   /\ Extended(q) = iter[TraversalSet(q)]
<1> DEFINE T == TraversalSet(q)
           d == idRDistinguishedBy
           g == rDistTree
           lists == [tr \in T |-> PairsOf(q, tr)]
           Op(tr, tree) == UNION {SeparateAll(ts, PairsOf(q, tr)) : ts \in {tree}}
           Is(iter) == iter = [s \in SUBSET T |-> IF s = {} THEN suite ELSE Op(EltOf(s), iter[s \ {EltOf(s)}])]
<1>1. Extended(q) = (CHOOSE iter : Is(iter))[T]
  BY DEF Extended, EltOf
<1>2. \A tr \in T : \A tree : Op(tr, tree) = SepList(d, g, tree, lists[tr])
  <2> SUFFICES ASSUME NEW tr \in T, NEW tree PROVE Op(tr, tree) = SepList(d, g, tree, lists[tr])
    OBVIOUS
  <2>1. PICK X : PairsOf(q, tr) \in Seq(X)
    OBVIOUS
  <2>2. SeparateAll(tree, PairsOf(q, tr)) = FoldOf(<<"separate", idRDistinguishedBy, rDistTree>>, tree, PairsOf(q, tr))
    BY <2>1, SeparateAllIs
  <2>3. lists[tr] = PairsOf(q, tr)
    OBVIOUS
  <2>4. Op(tr, tree) = SeparateAll(tree, PairsOf(q, tr))
    <3> DEFINE One(ts) == SeparateAll(ts, PairsOf(q, tr))
    <3>1. UNION {One(ts) : ts \in {tree}} = One(tree)
      <4> HIDE DEF One
      <4> QED OBVIOUS
    <3> QED BY <3>1
  <2> HIDE DEF lists, Op
  <2> QED BY <2>2, <2>3, <2>4 DEF SepList
<1>3. \A s \in SUBSET T : s # {} => EltOf(s) \in T
  BY DEF EltOf
<1> HIDE DEF Op, d, g, lists, T
<1>4. \A iter : Is(iter) <=> IsSetFold(iter, d, g, lists, suite, SUBSET T)
  BY <1>2, <1>3 DEF IsSetFold
<1> DEFINE it == CHOOSE iter : IsSetFold(iter, d, g, lists, suite, SUBSET T)
<1> HIDE DEF Is
<1>5. (CHOOSE iter : Is(iter)) = it
  BY <1>4
<1>6. IsFiniteSet(T)
  BY DEF T
<1>7. IsSetFold(it, d, g, lists, suite, SUBSET T)
  BY <1>6, SetFoldExists
<1>8. Extended(q) = it[T]
  BY <1>1, <1>5
<1> HIDE DEF it
<1> QED BY <1>7, <1>8 DEF T, d, g, lists

LEMMA VisitingTyped ==
  ASSUME rows \in Machines, NEW q \in State, NEW tr, tr[1] \in Seq(IO), tr[2] \in SUBSET State,
         NEW Y, TracesIn(q, tr, Y)
  PROVE  Visiting(q, tr) \subseteq Y \X tr[2]
<1>1. ASSUME NEW k \in 0 .. Len(tr[1]), After(rows, q, Prefix(tr[1], k)) \in tr[2]
      PROVE  At(q, tr[1], k) \in Y \X tr[2]
  BY <1>1 DEF At, TracesIn
<1>2. ASSUME NEW r \in tr[2] \cap dReached PROVE DReachedBy(r) \in Y \X tr[2]
  BY <1>2 DEF DReachedBy, TracesIn
<1> QED BY <1>1, <1>2 DEF Visiting

LEMMA AllApartGrows ==
  ASSUME rows \in Machines, NEW T \in Suites, NEW U \in Suites, T \subseteq U,
         NEW V \in SUBSET (Seq(In) \X State), AllApart(T, V)
  PROVE  AllApart(U, V)
<1> SUFFICES ASSUME NEW a \in V, NEW b \in V, a # b PROVE Apart(U, a, b) \/ Apart(U, b, a)
  BY DEF AllApart
<1>1. Apart(T, a, b) \/ Apart(T, b, a)
  BY DEF AllApart
<1>2. a \in Seq(In) \X State /\ b \in Seq(In) \X State
  OBVIOUS
<1> QED BY <1>1, <1>2, ApartGrows

(* The suite extended for a state tells apart what its traversals visit. *)
LEMMA ExtendedHas ==
  ASSUME rows \in Machines, GraphInv, suite \in Suites, NEW q \in State, IsFiniteSet(TraversalSet(q)),
         \A tr \in TraversalSet(q) : tr[1] \in Seq(IO) /\ IsRDSet(tr[2]) /\ TracesIn(q, tr, suite)
  PROVE  /\ Extended(q) \in Suites /\ suite \subseteq Extended(q)
         /\ \A tr \in TraversalSet(q) : AllApart(Extended(q), Visiting(q, tr))
<1> DEFINE T == TraversalSet(q)
           d == idRDistinguishedBy
           g == rDistTree
           lists == [tr \in T |-> PairsOf(q, tr)]
           V(tr) == Visiting(q, tr)
           X(tr) == (suite \X tr[2]) \X (suite \X tr[2])
<1>1. ASSUME NEW tr \in T
      PROVE  /\ PairsOf(q, tr) \in Seq(X(tr)) /\ V(tr) \subseteq suite \X tr[2]
             /\ \A a, b \in V(tr) : a # b => <<a, b>> \in Range(PairsOf(q, tr)) \/ <<b, a>> \in Range(PairsOf(q, tr))
             /\ IsRDSet(tr[2]) /\ tr[2] \in SUBSET State
  <2>1. tr[1] \in Seq(IO) /\ IsRDSet(tr[2]) /\ TracesIn(q, tr, suite) /\ tr[2] \in SUBSET State
    BY DEF IsRDSet
  <2> QED BY <2>1, PairsOfHave, VisitingTyped
<1>2. PICK iter : IsSetFold(iter, d, g, lists, suite, SUBSET T) /\ Extended(q) = iter[T]
  <2>1. \A tr \in T : \E Z : PairsOf(q, tr) \in Seq(Z)
    BY <1>1
  <2> QED BY <2>1, ExtendedIs
<1>3. \A s \in SUBSET T : iter[s] = IF s = {} THEN suite ELSE SepList(d, g, iter[s \ {EltOf(s)}], lists[EltOf(s)])
  <2> DEFINE h == [s \in SUBSET T |-> IF s = {} THEN suite ELSE SepList(d, g, iter[s \ {EltOf(s)}], lists[EltOf(s)])]
  <2>1. iter = h
    BY <1>2 DEF IsSetFold
  <2>2. \A s \in SUBSET T : h[s] = IF s = {} THEN suite ELSE SepList(d, g, iter[s \ {EltOf(s)}], lists[EltOf(s)])
    OBVIOUS
  <2> HIDE DEF h, T, d, g, lists
  <2> QED BY <2>1, <2>2
<1> DEFINE A == {s \in SUBSET T : iter[s] \in Suites /\ suite \subseteq iter[s] /\ \A tr \in s : AllApart(iter[s], V(tr))}
<1>4. {} \in A
  <2> HIDE DEF T, d, g, lists, V
  <2> QED BY <1>3
<1>5. ASSUME NEW s \in SUBSET T, s # {}, \A x \in s : s \ {x} \in A PROVE s \in A
  <2> DEFINE e == EltOf(s)
             r == s \ {e}
             U == iter[r]
             W == iter[s]
             Y == X(e)
  <2>1. e \in s /\ e \in T
    BY <1>5 DEF EltOf
  <2>2. U \in Suites /\ suite \subseteq U /\ \A tr \in r : AllApart(U, V(tr))
    BY <1>5, <2>1
  <2>3. W = SeparateAll(U, PairsOf(q, e))
    <3>1. W = SepList(d, g, U, lists[e])
      BY <1>3, <1>5
    <3>2. lists[e] = PairsOf(q, e)
      BY <2>1
    <3>3. SeparateAll(U, PairsOf(q, e)) = FoldOf(<<"separate", d, g>>, U, PairsOf(q, e))
      <4>1. PairsOf(q, e) \in Seq(Y)
        BY <1>1, <2>1
      <4> HIDE DEF Y, e, U
      <4> QED BY <4>1, SeparateAllIs
    <3> HIDE DEF W, U, lists, e, d, g
    <3> QED BY <3>1, <3>2, <3>3 DEF SepList
  <2>4. /\ PairsOf(q, e) \in Seq((suite \X e[2]) \X (suite \X e[2])) /\ V(e) \subseteq suite \X e[2]
        /\ \A a, b \in V(e) : a # b => <<a, b>> \in Range(PairsOf(q, e)) \/ <<b, a>> \in Range(PairsOf(q, e))
        /\ IsRDSet(e[2]) /\ e[2] \in SUBSET State
    BY <1>1, <2>1
  <2>5. \A tr \in s : V(tr) \in SUBSET (Seq(In) \X State)
    <3> SUFFICES ASSUME NEW tr \in s PROVE V(tr) \in SUBSET (Seq(In) \X State)
      OBVIOUS
    <3>1. V(tr) \subseteq suite \X tr[2] /\ tr[2] \in SUBSET State
      BY <1>1
    <3>2. suite \subseteq Seq(In)
      BY DEF Suites
    <3> QED BY <3>1, <3>2
  <2>9. s = r \cup {e}
    BY <2>1
  <2> HIDE DEF e, r, U, W, T, V, A, X, Y
  <2>6. W \in Suites /\ U \subseteq W /\ PairsApart(W, PairsOf(q, e))
    BY <2>2, <2>3, <2>4, SeparateAllHas
  <2>7. AllApart(W, V(e))
    <3> SUFFICES ASSUME NEW a \in V(e), NEW b \in V(e), a # b PROVE Apart(W, a, b) \/ Apart(W, b, a)
      BY DEF AllApart
    <3>1. <<a, b>> \in Range(PairsOf(q, e)) \/ <<b, a>> \in Range(PairsOf(q, e))
      BY <2>4
    <3> QED BY <2>6, <3>1 DEF PairsApart
  <2>8. \A tr \in r : AllApart(W, V(tr))
    <3> SUFFICES ASSUME NEW tr \in r PROVE AllApart(W, V(tr))
      OBVIOUS
    <3>1. V(tr) \in SUBSET (Seq(In) \X State)
      BY <2>5, <2>9
    <3> QED BY <2>2, <2>6, <3>1, AllApartGrows
  <2> QED BY <2>2, <2>6, <2>7, <2>8, <2>9 DEF A, W
<1> HIDE DEF A, V, T
<1>6. T \in A
  <2>1. IsFiniteSet(T)
    BY DEF T
  <2> QED BY <1>4, <1>5, <2>1, FiniteInduction
<1> QED BY <1>2, <1>6 DEF A, V, T

LEMMA GraphMirrors ==
  ASSUME GraphInv, NEW a, NEW b, <<a, b>> \in DOMAIN rDistGraph
  PROVE  <<b, a>> \in DOMAIN rDistGraph /\ a \in State /\ b \in State
<1>1. Mirror(<<a, b>>) \in DOMAIN rDistGraph /\ <<a, b>> \in State \X State
  BY DEF GraphInv
<1>2. Mirror(<<a, b>>) = <<b, a>>
  BY DEF Mirror
<1> QED BY <1>1, <1>2

(* The set begun with a state holds it, and any two states of it are told apart. *)
LEMMA RDSetHas ==
  ASSUME GraphInv, NEW q \in State
  PROVE  IsRDSet(RDSet(q)) /\ q \in RDSet(q)
<1> DEFINE G == DOMAIN rDistGraph
           k == <<"rdset", G>>
           Add(a, b) == IF b \notin a /\ \A s \in a : <<s, b>> \in G THEN a \cup {b} ELSE a
           D == DOMAIN StatesInOrder
           Is(iter) == iter = [s \in SUBSET D |-> IF s = {} THEN {q}
                                ELSE Add(iter[s \ {Max(s)}], StatesInOrder[Max(s)])]
           A == {T \in SUBSET State : IsRDSet(T) /\ q \in T}
<1>1. RDSet(q) = (CHOOSE iter : Is(iter))[D]
  BY DEF RDSet, FoldLeft, MapThenFoldSet, StatesInOrder, NodeSeq
<1>2. \A a, b : StepOf(k, a, b) = Add(a, b)
  <2>1. \A a, b : StepOf(k, a, b) = AddToRDSet(G, a, b)
    BY StepCases
  <2> HIDE DEF k, G
  <2> QED BY <2>1 DEF AddToRDSet
<1>3. {q} \in A
  BY DEF IsRDSet
<1>4. ASSUME NEW a \in A, NEW b \in State PROVE StepOf(k, a, b) \in A
  <2>1. ASSUME b \notin a, \A s \in a : <<s, b>> \in G PROVE a \cup {b} \in A
    <3>1. \A s \in a : <<b, s>> \in G
      BY <2>1, GraphMirrors
    <3> QED BY <2>1, <3>1 DEF IsRDSet
  <2> HIDE DEF A, k, G
  <2> QED BY <1>2, <2>1
<1> HIDE DEF k, Add, A
<1>5. \A iter : Is(iter) <=> IsFold(iter, k, {q}, StatesInOrder)
  BY <1>2 DEF IsFold
<1> HIDE DEF Is
<1>6. (CHOOSE iter : Is(iter)) = CHOOSE iter : IsFold(iter, k, {q}, StatesInOrder)
  BY <1>5
<1>7. RDSet(q) = FoldOf(k, {q}, StatesInOrder)
  BY <1>1, <1>6 DEF FoldOf
<1>8. FoldOf(k, {q}, StatesInOrder) \in A
  BY <1>3, <1>4, StatesInOrderIs, FoldInvariant
<1> QED BY <1>7, <1>8 DEF A

(* Every state is in a maximal set. *)
LEMMA AllMaximalHas ==
  /\ \A S \in AllMaximalRDSets : IsRDSet(S)
  /\ \A q \in State : \E S \in AllMaximalRDSets : q \in S
<1> DEFINE C == {S \in SUBSET State : \A p, q \in S : p # q => <<p, q>> \in DOMAIN rDistGraph}
<1>1. \A S : S \in C <=> IsRDSet(S)
  BY DEF IsRDSet
<1>2. AllMaximalRDSets = {S \in C : \A T \in C : S \subseteq T => T = S}
  BY DEF AllMaximalRDSets
<1> HIDE DEF C
<1>3. ASSUME NEW q \in State PROVE \E S \in AllMaximalRDSets : q \in S
  <2> DEFINE n == Cardinality(State)
             N == {n - Cardinality(S) : S \in {T \in C : q \in T}}
  <2>1. n \in Nat /\ \A S \in C : S \in SUBSET State /\ IsFiniteSet(S) /\ Cardinality(S) \in Nat /\ Cardinality(S) <= n
    <3>1. IsFiniteSet(State)
      BY StatesFinite
    <3>2. \A S \in C : S \in SUBSET State
      BY <1>1 DEF IsRDSet
    <3> QED BY <3>1, <3>2, FS_Subset, FS_CardinalityType
  <2>2. {q} \in C
    BY <1>1 DEF IsRDSet
  <2> HIDE DEF n
  <2>3. N \subseteq Nat /\ N # {}
    <3>1. \A S \in C : n - Cardinality(S) \in Nat
      BY <2>1
    <3>2. n - Cardinality({q}) \in N
      BY <2>2
    <3> QED BY <3>1, <3>2
  <2>4. PICK x \in N : \A y \in N : x <= y
    <3> HIDE DEF N
    <3> QED BY <2>3, LeastElement
  <2>5. PICK S \in C : q \in S /\ x = n - Cardinality(S)
    BY <2>4
  <2>6. ASSUME NEW T \in C, S \subseteq T PROVE T = S
    <3>1. n - Cardinality(T) \in N
      BY <2>5, <2>6
    <3>2. x <= n - Cardinality(T)
      BY <2>4, <3>1
    <3>3. /\ Cardinality(S) \in Nat /\ Cardinality(T) \in Nat /\ IsFiniteSet(T)
      BY <2>1
    <3>4. Cardinality(T) <= Cardinality(S)
      BY <2>1, <2>5, <3>2, <3>3
    <3>5. Cardinality(S) <= Cardinality(T) /\ (Cardinality(T) = Cardinality(S) => T = S)
      BY <2>6, <3>3, FS_Subset
    <3>6. Cardinality(T) = Cardinality(S)
      BY <3>3, <3>4, <3>5
    <3> QED BY <3>5, <3>6
  <2> QED BY <1>2, <2>5, <2>6
<1> QED BY <1>1, <1>2, <1>3

(* what updateTestSuite and the traversals rely on *)
SetsInv ==
  /\ maximalRDistSets \in Seq(SUBSET State)
  /\ \A i \in DOMAIN maximalRDistSets : IsRDSet(maximalRDistSets[i])
  /\ \A q \in State : \E i \in DOMAIN maximalRDistSets : q \in maximalRDistSets[i]

LEMMA ListOfSet ==
  ASSUME NEW S, IsFiniteSet(S), NEW s \in SetToSeqs(S)
  PROVE  s \in Seq(S) /\ \A p \in S : \E i \in DOMAIN s : s[i] = p
<1> DEFINE c == Cardinality(S)
<1>1. c \in Nat
  BY FS_CardinalityType
<1> HIDE DEF c
<1>2. s \in [1 .. c -> S] /\ \A i, j \in 1 .. c : i # j => s[i] # s[j]
  BY DEF SetToSeqs, c, IsInjective
<1>3. s \in Seq(S) /\ DOMAIN s = 1 .. c
  BY <1>1, <1>2
<1>4. s \in Injection(1 .. c, S)
  BY <1>2 DEF Injection, IsInjective
<1>5. Cardinality(1 .. c) = c /\ IsFiniteSet(1 .. c)
  BY <1>1, FS_Interval
<1>6. s \in Surjection(1 .. c, S)
  BY <1>4, <1>5, FS_Injection DEF c
<1> QED BY <1>3, <1>6 DEF Surjection

LEMMA SetsCalculated ==
  ASSUME GraphInv, CalcMaximalSets
  PROVE  SetsInv'
<1> DEFINE Fits(sets) == (\A S \in sets : IsRDSet(S)) /\ \A q \in State : \E S \in sets : q \in S
<1>1. Fits(RDSets) /\ Fits(AllMaximalRDSets)
  BY RDSetHas, AllMaximalHas DEF RDSets
<1>2. PICK sets \in {RDSets, AllMaximalRDSets} : maximalRDistSets' \in SetToSeqs(sets)
  BY DEF CalcMaximalSets
<1>3. Fits(sets)
  BY <1>1
<1>4. sets \in SUBSET SUBSET State
  BY <1>3 DEF IsRDSet
<1>5. IsFiniteSet(sets)
  <2>1. IsFiniteSet(SUBSET State)
    BY StatesFinite, FS_SUBSET
  <2> QED BY <1>4, <2>1, FS_Subset
<1> DEFINE s == maximalRDistSets'
<1>6. s \in Seq(sets) /\ \A S \in sets : \E i \in DOMAIN s : s[i] = S
  <2> HIDE DEF s
  <2> QED BY <1>2, <1>5, ListOfSet DEF s
<1>7. rDistGraph' = rDistGraph
  BY DEF CalcMaximalSets
<1>8. \A S : IsRDSet(S)' <=> IsRDSet(S)
  BY <1>7 DEF IsRDSet
<1>9. s \in Seq(SUBSET State) /\ \A i \in DOMAIN s : s[i] \in sets
  <2> HIDE DEF s
  <2>1. \A u \in Seq(sets) : u \in Seq(SUBSET State) /\ \A i \in DOMAIN u : u[i] \in sets
    BY <1>4
  <2> QED BY <1>6, <2>1
<1> HIDE DEF s
<1>10. \A i \in DOMAIN s : IsRDSet(s[i])
  BY <1>3, <1>9
<1>11. \A q \in State : \E i \in DOMAIN s : q \in s[i]
  BY <1>3, <1>6
<1> QED BY <1>8, <1>9, <1>10, <1>11 DEF SetsInv, s

(***************************************************************************)
(* The traversals, as a function of the state and the missing visits.      *)
(***************************************************************************)
Traversals == Seq(IO) \X SUBSET State
Enough(mv) == {i \in DOMAIN mv : mv[i] <= 0}
Visited(mv, r) == [i \in DOMAIN mv |-> mv[i] - (IF r \in maximalRDistSets[i] THEN 1 ELSE 0)]
Edges(q) == {l \in IO : rows[q][l] >= 0}
Longer(l, T) == {<<<<l>> \o tr[1], tr[2]>> : tr \in T}
TraverseBody(f, q, mv) ==
  IF Enough(mv) # {} THEN {<< << >>, maximalRDistSets[Min(Enough(mv))] >>}
  ELSE UNION {Longer(l, f[<<rows[q][l], Visited(mv, rows[q][l])>>]) : l \in Edges(q)}

LEMMA VisitedTyped ==
  ASSUME NEW mv \in VisitCounts, NEW r
  PROVE  Visited(mv, r) \in VisitCounts
BY DEF Visited, VisitCounts

LEMMA EnoughHas ==
  ASSUME SetsInv, NEW mv \in VisitCounts, Enough(mv) # {}
  PROVE  /\ Min(Enough(mv)) \in DOMAIN maximalRDistSets /\ mv[Min(Enough(mv))] <= 0
         /\ maximalRDistSets[Min(Enough(mv))] \in SUBSET State
<1>1. DOMAIN mv = DOMAIN maximalRDistSets /\ DOMAIN maximalRDistSets = 1 .. Len(maximalRDistSets)
      /\ Len(maximalRDistSets) \in Nat
  BY DEF VisitCounts, SetsInv
<1>2. Enough(mv) \subseteq Nat
  BY <1>1 DEF Enough
<1>3. Min(Enough(mv)) \in Enough(mv)
  BY <1>2, MinOf
<1>4. \A i \in DOMAIN maximalRDistSets : maximalRDistSets[i] \in SUBSET State
  BY DEF SetsInv
<1> QED BY <1>1, <1>3, <1>4 DEF Enough

LEMMA LongerTyped ==
  ASSUME NEW l \in IO, NEW T \in SUBSET Traversals
  PROVE  Longer(l, T) \in SUBSET Traversals
<1> SUFFICES ASSUME NEW tr \in T PROVE <<<<l>> \o tr[1], tr[2]>> \in Traversals
  BY DEF Longer
<1>1. tr[1] \in Seq(IO) /\ tr[2] \in SUBSET State /\ <<l>> \in Seq(IO)
  BY DEF Traversals
<1>2. <<l>> \o tr[1] \in Seq(IO)
  BY <1>1
<1> QED BY <1>1, <1>2 DEF Traversals

LEMMA TraverseExists ==
  ASSUME rows \in Machines, SetsInv
  PROVE  \E f : /\ f = [c \in State \X VisitCounts |-> TraverseBody(f, c[1], c[2])]
                /\ \A c \in State \X VisitCounts : f[c] \in SUBSET Traversals
<1> DEFINE D == State \X VisitCounts
           All == D \X Traversals
           Row(G, p) == {w \in Traversals : <<p, w>> \in G}
           Bod(G, c) == IF Enough(c[2]) # {} THEN {<< << >>, maximalRDistSets[Min(Enough(c[2]))] >>}
                        ELSE UNION {Longer(l, Row(G, <<rows[c[1]][l], Visited(c[2], rows[c[1]][l])>>)) : l \in Edges(c[1])}
           F == [G \in SUBSET All |-> {c \in All : c[2] \in Bod(G, c[1])}]
<1>1. F \in [SUBSET All -> SUBSET All]
  OBVIOUS
<1>2. ASSUME NEW G \in SUBSET All, NEW H \in SUBSET All, G \subseteq H
      PROVE  F[G] \subseteq F[H]
  <2>1. \A p : Row(G, p) \subseteq Row(H, p)
    BY <1>2
  <2> HIDE DEF Row
  <2>2. ASSUME NEW c PROVE Bod(G, c) \subseteq Bod(H, c)
    <3>1. \A l : Longer(l, Row(G, <<rows[c[1]][l], Visited(c[2], rows[c[1]][l])>>))
                   \subseteq Longer(l, Row(H, <<rows[c[1]][l], Visited(c[2], rows[c[1]][l])>>))
      BY <2>1 DEF Longer
    <3> QED BY <3>1
  <2> HIDE DEF Bod
  <2> QED BY <2>2
<1>3. PICK K \in SUBSET All : F[K] = K
  <2> HIDE DEF F
  <2> QED BY <1>1, <1>2, LeastFixpoint
<1> DEFINE f == [p \in D |-> Row(K, p)]
<1>4. ASSUME NEW p \in D
      PROVE  f[p] = TraverseBody(f, p[1], p[2]) /\ f[p] \in SUBSET Traversals
  <2>0. p[1] \in State /\ p[2] \in VisitCounts
    OBVIOUS
  <2>1. \A l \in Edges(p[1]) : <<rows[p[1]][l], Visited(p[2], rows[p[1]][l])>> \in D /\ l \in IO
    <3> SUFFICES ASSUME NEW l \in Edges(p[1]) PROVE <<rows[p[1]][l], Visited(p[2], rows[p[1]][l])>> \in D /\ l \in IO
      OBVIOUS
    <3>1. l \in IO /\ rows[p[1]][l] \in State
      BY <2>0, PostFacts DEF Edges
    <3>2. Visited(p[2], rows[p[1]][l]) \in VisitCounts
      BY <2>0, VisitedTyped
    <3> QED BY <3>1, <3>2
  <2>2. TraverseBody(f, p[1], p[2]) = Bod(K, p)
    <3>1. \A l \in Edges(p[1]) : f[<<rows[p[1]][l], Visited(p[2], rows[p[1]][l])>>]
                                  = Row(K, <<rows[p[1]][l], Visited(p[2], rows[p[1]][l])>>)
      <4> HIDE DEF Row, D
      <4> QED BY <2>1
    <3> HIDE DEF f, Row, D
    <3> QED BY <3>1 DEF TraverseBody
  <2>3. Bod(K, p) \subseteq Traversals
    <3>1. CASE Enough(p[2]) # {}
      <4>1. maximalRDistSets[Min(Enough(p[2]))] \in SUBSET State
        BY <2>0, <3>1, EnoughHas
      <4>2. << << >>, maximalRDistSets[Min(Enough(p[2]))] >> \in Traversals
        <5> DEFINE S == maximalRDistSets[Min(Enough(p[2]))]
        <5> HIDE DEF S
        <5>1. << >> \in Seq(IO) /\ S \in SUBSET State
          BY <4>1 DEF S
        <5>2. << << >>, S >> \in Traversals
          BY <5>1 DEF Traversals
        <5> QED BY <5>2 DEF S
      <4> QED BY <3>1, <4>2
    <3>2. CASE Enough(p[2]) = {}
      <4>1. \A r : Row(K, r) \in SUBSET Traversals
        OBVIOUS
      <4> HIDE DEF Row
      <4>2. \A l \in Edges(p[1]) : Longer(l, Row(K, <<rows[p[1]][l], Visited(p[2], rows[p[1]][l])>>)) \subseteq Traversals
        BY <2>1, <4>1, LongerTyped
      <4> QED BY <3>2, <4>2
    <3> QED BY <3>1, <3>2
  <2>4. \A w \in Traversals : w \in Row(K, p) <=> w \in Bod(K, p)
    <3> SUFFICES ASSUME NEW w \in Traversals PROVE <<p, w>> \in K <=> w \in Bod(K, p)
      OBVIOUS
    <3> DEFINE c == <<p, w>>
    <3>1. c \in All /\ c[1] = p /\ c[2] = w
      OBVIOUS
    <3> HIDE DEF Bod, c
    <3>2. c \in F[K] <=> c[2] \in Bod(K, c[1])
      BY <3>1
    <3> HIDE DEF F
    <3>3. c \in K <=> w \in Bod(K, p)
      BY <1>3, <3>1, <3>2
    <3> QED BY <3>3 DEF c
  <2>5. Row(K, p) = Bod(K, p)
    <3>1. Row(K, p) \subseteq Traversals
      OBVIOUS
    <3> HIDE DEF Row, Bod
    <3> QED BY <2>3, <2>4, <3>1
  <2>6. f[p] = Row(K, p)
    OBVIOUS
  <2> HIDE DEF Row, Bod, f
  <2> QED BY <2>2, <2>3, <2>5, <2>6
<1>5. f = [c \in D |-> TraverseBody(f, c[1], c[2])]
  <2>2. f = [p \in D |-> f[p]]
    OBVIOUS
  <2> HIDE DEF f, D
  <2> QED BY <1>4, <2>2
<1> QED BY <1>4, <1>5

LEMMA TraverseIs ==
  ASSUME rows \in Machines, SetsInv
  PROVE  \A q \in State, mv \in VisitCounts : Traverse[<<q, mv>>] = TraverseBody(Traverse, q, mv)
<1> DEFINE Is(g) == g = [c \in State \X VisitCounts |-> TraverseBody(g, c[1], c[2])]
<1>1. \E f : Is(f)
  BY TraverseExists
<1>2. Traverse = CHOOSE g : Is(g)
  BY DEF Traverse, TraverseBody, Enough, Visited, Edges, Longer
<1> HIDE DEF Is
<1>3. Is(Traverse)
  BY <1>1, <1>2
<1> DEFINE g == Traverse
<1> HIDE DEF g
<1>4. Is(g)
  BY <1>3 DEF g
<1>5. \A c \in State \X VisitCounts : g[c] = TraverseBody(g, c[1], c[2])
  BY <1>4 DEF Is
<1>6. ASSUME NEW q \in State, NEW mv \in VisitCounts PROVE g[<<q, mv>>] = TraverseBody(g, q, mv)
  <2>1. <<q, mv>> \in State \X VisitCounts /\ <<q, mv>>[1] = q /\ <<q, mv>>[2] = mv
    OBVIOUS
  <2> QED BY <1>5, <2>1
<1> QED BY <1>6 DEF g

LEMMA EdgeFacts ==
  ASSUME rows \in Machines, NEW q \in State, NEW l \in Edges(q)
  PROVE  l \in IO /\ rows[q][l] \in State /\ rows[q][l] >= 0
BY PostFacts DEF Edges

(* Induction along the traversals: what is missing gets less, as every state *)
(* is in some set.                                                           *)
LEMMA TraverseInduction ==
  ASSUME rows \in Machines, SetsInv, NEW B \in Nat, NEW A,
         \A q \in State, mv \in VisitCounts :
           (Enough(mv) = {} => \A l \in Edges(q) : <<rows[q][l], Visited(mv, rows[q][l])>> \in A) => <<q, mv>> \in A
  PROVE  \A q \in State, mv \in VisitCounts :
           (\A i \in DOMAIN maximalRDistSets : mv[i] <= B) => <<q, mv>> \in A
<1> DEFINE D == DOMAIN maximalRDistSets
           S == D \X (1 .. B)
           Cells(mv) == {c \in S : c[2] <= mv[c[1]]}
           Bounded(mv) == \A i \in D : mv[i] <= B
           G == {s \in SUBSET S : \A q \in State, mv \in VisitCounts :
                   Bounded(mv) /\ Cells(mv) \subseteq s => <<q, mv>> \in A}
<1>1. IsFiniteSet(S)
  <2>1. IsFiniteSet(D)
    <3>1. D = 1 .. Len(maximalRDistSets) /\ Len(maximalRDistSets) \in Nat
      BY DEF SetsInv
    <3> QED BY <3>1, FS_Interval
  <2>2. IsFiniteSet(1 .. B)
    BY FS_Interval
  <2> HIDE DEF D
  <2> QED BY <2>1, <2>2, FS_Product
<1>2. ASSUME NEW mv \in VisitCounts, Bounded(mv), Enough(mv) = {}, NEW r \in State
      PROVE  Bounded(Visited(mv, r)) /\ \E c \in Cells(mv) : Cells(Visited(mv, r)) \subseteq Cells(mv) \ {c}
  <2> DEFINE nv == Visited(mv, r)
  <2>1. PICK i \in D : r \in maximalRDistSets[i]
    BY DEF SetsInv
  <2>2. \A j \in D : mv[j] \in Int /\ mv[j] <= B /\ ~(mv[j] <= 0)
    BY <1>2 DEF Enough, VisitCounts
  <2>3. \A j \in D : nv[j] = mv[j] - (IF r \in maximalRDistSets[j] THEN 1 ELSE 0)
    BY DEF Visited, VisitCounts
  <2>4. \A j \in D : nv[j] <= mv[j] /\ nv[j] \in Int
    BY <2>2, <2>3
  <2>5. nv[i] = mv[i] - 1
    BY <2>1, <2>3
  <2> DEFINE c == <<i, mv[i]>>
  <2>6. c \in Cells(mv)
    <3>1. mv[i] \in 1 .. B
      BY <2>2
    <3> QED BY <2>1, <3>1
  <2> HIDE DEF nv
  <2>7. Bounded(nv)
    BY <2>2, <2>4
  <2>8. ASSUME NEW e \in Cells(nv) PROVE e \in Cells(mv) /\ e # c
    <3>1. e[1] \in D /\ e[2] \in 1 .. B /\ e[2] <= nv[e[1]]
      OBVIOUS
    <3>2. e[2] <= mv[e[1]]
      BY <2>2, <2>4, <3>1
    <3>3. e # c
      BY <2>2, <2>5, <3>1
    <3> QED BY <3>1, <3>2, <3>3
  <2> HIDE DEF Cells, c
  <2> QED BY <2>6, <2>7, <2>8 DEF nv
<1>3. ASSUME NEW s \in SUBSET S, NEW q \in State, NEW mv \in VisitCounts, Bounded(mv), Cells(mv) \subseteq s,
             \A x \in s : s \ {x} \in G
      PROVE  <<q, mv>> \in A
  <2>1. ASSUME Enough(mv) = {}, NEW l \in Edges(q) PROVE <<rows[q][l], Visited(mv, rows[q][l])>> \in A
    <3> DEFINE r == rows[q][l]
               nv == Visited(mv, r)
    <3>1. r \in State /\ nv \in VisitCounts
      BY EdgeFacts, VisitedTyped
    <3> HIDE DEF r
    <3>2. PICK c \in Cells(mv) : Cells(nv) \subseteq Cells(mv) \ {c}
      BY <1>2, <1>3, <2>1, <3>1
    <3>3. Bounded(nv)
      BY <1>2, <1>3, <2>1, <3>1
    <3> HIDE DEF nv, Cells, Bounded, S
    <3>4. c \in s /\ Cells(nv) \subseteq s \ {c}
      BY <1>3, <3>2
    <3>5. s \ {c} \in G
      BY <1>3, <3>4
    <3>6. <<r, nv>> \in A
      BY <3>1, <3>3, <3>4, <3>5
    <3> QED BY <3>6 DEF r, nv
  <2> QED BY <2>1
<1>4. {} \in G
  <2>1. {} \in SUBSET S
    OBVIOUS
  <2> HIDE DEF S, Cells, Bounded
  <2>2. \A q \in State, mv \in VisitCounts : Bounded(mv) /\ Cells(mv) \subseteq {} => <<q, mv>> \in A
    BY <1>3, <2>1
  <2> QED BY <2>1, <2>2
<1>5. \A s \in SUBSET S : s # {} /\ (\A x \in s : s \ {x} \in G) => s \in G
  <2> HIDE DEF S, Cells, Bounded
  <2> SUFFICES ASSUME NEW s \in SUBSET S, \A x \in s : s \ {x} \in G PROVE s \in G
    OBVIOUS
  <2>1. \A q \in State, mv \in VisitCounts : Bounded(mv) /\ Cells(mv) \subseteq s => <<q, mv>> \in A
    BY <1>3
  <2> QED BY <2>1
<1> HIDE DEF G
<1>6. S \in G
  <2> HIDE DEF S
  <2> QED BY <1>1, <1>4, <1>5, FiniteInduction
<1>7. \A mv \in VisitCounts : Cells(mv) \subseteq S
  OBVIOUS
<1> HIDE DEF S, Cells
<1> QED BY <1>6, <1>7 DEF G

(* visits to a set along a trace *)
VisitsIn(q, io, S) == {k \in 1 .. Len(io) : After(rows, q, Prefix(io, k)) \in S}

LEMMA FirstPrefix ==
  ASSUME NEW l \in IO, NEW io \in Seq(IO), NEW k \in 0 .. Len(io)
  PROVE  /\ Prefix(<<l>> \o io, k + 1) = <<l>> \o Prefix(io, k)
         /\ Len(<<l>> \o io) = Len(io) + 1 /\ <<l>> \o io \in Seq(IO)
<1>1. PICK v \in Seq(IO) : v = <<l>> /\ Len(v) = 1
  <2>1. <<l>> \in Seq(IO) /\ Len(<<l>>) = 1
    OBVIOUS
  <2> WITNESS <<l>> \in Seq(IO)
  <2> QED BY <2>1
<1>2. /\ v \o io \in Seq(IO) /\ Len(v \o io) = Len(v) + Len(io)
      /\ Prefix(v \o io, Len(v) + k) = v \o Prefix(io, k)
  BY <1>1, JoinedPrefix
<1>3. Len(v) + k = k + 1 /\ Len(v) + Len(io) = Len(io) + 1
  BY <1>1
<1> QED BY <1>1, <1>2, <1>3

LEMMA VisitsFirst ==
  ASSUME rows \in Machines, NEW q \in State, NEW l \in Edges(q), NEW io \in Seq(IO), NEW S
  PROVE  /\ Cardinality(VisitsIn(q, <<l>> \o io, S)) >=
              Cardinality(VisitsIn(rows[q][l], io, S)) + (IF rows[q][l] \in S THEN 1 ELSE 0)
         /\ Cardinality(VisitsIn(rows[q][l], io, S)) \in Nat
         /\ Cardinality(VisitsIn(q, <<l>> \o io, S)) \in Nat
<1> DEFINE r == rows[q][l]
           V == VisitsIn(q, <<l>> \o io, S)
           A == VisitsIn(r, io, S)
           T == {k + 1 : k \in A}
           p == [k \in A |-> k + 1]
<1>0. Len(io) \in Nat /\ l \in IO /\ r \in State /\ r >= 0
  BY EdgeFacts
<1>1. IsFiniteSet(V) /\ IsFiniteSet(A)
  <2>1. Len(<<l>> \o io) \in Nat
    BY <1>0, FirstPrefix
  <2>2. V \subseteq 1 .. Len(<<l>> \o io) /\ A \subseteq 1 .. Len(io)
    BY DEF VisitsIn
  <2> HIDE DEF V, A
  <2>3. IsFiniteSet(1 .. Len(<<l>> \o io)) /\ IsFiniteSet(1 .. Len(io))
    BY <1>0, <2>1, FS_Interval
  <2> QED BY <2>2, <2>3, FS_Subset
<1>2. ASSUME NEW k \in 0 .. Len(io) PROVE After(rows, q, Prefix(<<l>> \o io, k + 1)) = After(rows, r, Prefix(io, k))
  <2>1. Prefix(<<l>> \o io, k + 1) = <<l>> \o Prefix(io, k)
    BY <1>0, FirstPrefix
  <2>2. Prefix(io, k) \in Seq(IO)
    BY PrefixTyped
  <2>3. After(rows, q, <<l>> \o Prefix(io, k)) = IF rows[q][l] < 0 THEN -1 ELSE After(rows, rows[q][l], Prefix(io, k))
    BY <1>0, <2>2, AfterFirst
  <2>4. ~(r < 0)
    <3> HIDE DEF r
    <3> QED BY <1>0 DEF State
  <2> QED BY <2>1, <2>3, <2>4
<1>3. T \subseteq V
  <2> SUFFICES ASSUME NEW k \in A PROVE k + 1 \in V
    OBVIOUS
  <2>1. k \in 1 .. Len(io) /\ After(rows, r, Prefix(io, k)) \in S
    BY DEF VisitsIn
  <2>2. k \in 0 .. Len(io) /\ k + 1 \in 1 .. Len(io) + 1
    BY <1>0, <2>1
  <2>3. Len(<<l>> \o io) = Len(io) + 1
    BY <1>0, FirstPrefix
  <2> QED BY <1>2, <2>1, <2>2, <2>3 DEF VisitsIn
<1>4. IsFiniteSet(T)
  BY <1>1, <1>3, FS_Subset
<1>5. A \subseteq Nat \ {0}
  BY DEF VisitsIn
<1> HIDE DEF A, V
<1>6. Cardinality(A) = Cardinality(T) /\ Cardinality(A) \in Nat
  <2>1. DOMAIN p = A /\ \A a \in A : p[a] = a + 1 /\ p[a] \in T
    OBVIOUS
  <2>2. \A z \in T : \E a \in A : z = p[a]
    BY <2>1
  <2>3. \A a, b \in A : p[a] = p[b] => a = b
    BY <1>5, <2>1
  <2> HIDE DEF p, T
  <2> QED BY <1>4, <2>1, <2>2, <2>3, FamilySize
<1>7. Cardinality(V) \in Nat /\ Cardinality(T) <= Cardinality(V)
  BY <1>1, <1>3, FS_Subset, FS_CardinalityType
<1>8. CASE r \in S
  <2>1. 1 \in V /\ 1 \notin T
    <3>1. After(rows, r, Prefix(io, 0)) = r
      <4>1. Prefix(io, 0) = << >>
        BY DEF Prefix
      <4> QED BY <4>1, AfterEmpty
    <3>2. 0 \in 0 .. Len(io) /\ 0 + 1 = 1 /\ 1 \in 1 .. Len(io) + 1
      BY <1>0
    <3>3. After(rows, q, Prefix(<<l>> \o io, 1)) = r
      BY <1>2, <3>1, <3>2
    <3>4. Len(<<l>> \o io) = Len(io) + 1
      BY <1>0, <3>2, FirstPrefix
    <3>5. 1 \in V
      BY <1>8, <3>2, <3>3, <3>4 DEF V, VisitsIn
    <3>6. 1 \notin T
      BY <1>5
    <3> QED BY <3>5, <3>6
  <2>2. IsFiniteSet(T \cup {1}) /\ Cardinality(T \cup {1}) = Cardinality(T) + 1
    BY <1>4, <2>1, FS_AddElement
  <2>3. Cardinality(T \cup {1}) <= Cardinality(V)
    <3>1. T \cup {1} \in SUBSET V
      BY <1>3, <2>1
    <3> HIDE DEF T
    <3> QED BY <1>1, <3>1, FS_Subset
  <2> HIDE DEF T, r
  <2>4. Cardinality(V) >= Cardinality(A) + 1
    BY <1>6, <1>7, <2>2, <2>3
  <2> QED BY <1>6, <1>7, <1>8, <2>4 DEF A, V, r
<1>9. CASE r \notin S
  <2> HIDE DEF T, r
  <2>1. Cardinality(V) >= Cardinality(A) + 0
    BY <1>6, <1>7
  <2> QED BY <1>6, <1>7, <1>9, <2>1 DEF A, V, r
<1> QED BY <1>8, <1>9

(* a trace of the machine that visits the states of its set often enough *)
GoodTraversal(q, mv, tr) ==
  /\ tr \in Traversals /\ After(rows, q, tr[1]) >= 0
  /\ \E i \in DOMAIN maximalRDistSets :
       tr[2] = maximalRDistSets[i] /\ mv[i] <= Cardinality(VisitsIn(q, tr[1], maximalRDistSets[i]))

LEMMA GoodLonger ==
  ASSUME rows \in Machines, NEW q \in State, NEW mv \in VisitCounts, NEW l \in Edges(q), NEW tr,
         GoodTraversal(rows[q][l], Visited(mv, rows[q][l]), tr)
  PROVE  GoodTraversal(q, mv, <<<<l>> \o tr[1], tr[2]>>)
<1> DEFINE r == rows[q][l]
           io == <<l>> \o tr[1]
           e == <<io, tr[2]>>
<1>1. l \in IO /\ r \in State /\ r >= 0 /\ tr[1] \in Seq(IO) /\ tr[2] \in SUBSET State
  BY EdgeFacts DEF GoodTraversal, Traversals
<1>2. io \in Seq(IO) /\ After(rows, q, io) >= 0
  <2>1. Len(tr[1]) \in Nat /\ 0 \in 0 .. Len(tr[1])
    BY <1>1
  <2>2. io \in Seq(IO)
    BY <1>1, <2>1, FirstPrefix
  <2>3. After(rows, q, io) = IF rows[q][l] < 0 THEN -1 ELSE After(rows, rows[q][l], tr[1])
    BY <1>1, AfterFirst
  <2>4. ~(r < 0)
    <3> HIDE DEF r
    <3> QED BY <1>1 DEF State
  <2> QED BY <2>2, <2>3, <2>4 DEF GoodTraversal
<1>3. PICK i \in DOMAIN maximalRDistSets :
        /\ tr[2] = maximalRDistSets[i]
        /\ Visited(mv, r)[i] <= Cardinality(VisitsIn(r, tr[1], maximalRDistSets[i]))
  BY DEF GoodTraversal
<1> DEFINE S == maximalRDistSets[i]
           b == IF r \in S THEN 1 ELSE 0
           c == Cardinality(VisitsIn(r, tr[1], S))
           d == Cardinality(VisitsIn(q, io, S))
<1>4. d >= c + b /\ c \in Nat /\ d \in Nat
  BY <1>1, VisitsFirst
<1>5. Visited(mv, r)[i] = mv[i] - b /\ mv[i] \in Int
  BY DEF Visited, VisitCounts
<1>6. mv[i] <= d
  <2> HIDE DEF c, d, S
  <2>1. mv[i] - b <= c /\ b \in Int
    BY <1>3, <1>5 DEF c, S
  <2> HIDE DEF b
  <2> QED BY <1>4, <1>5, <2>1
<1>7. e \in Traversals /\ e[1] = io /\ e[2] = S
  BY <1>1, <1>2, <1>3 DEF Traversals
<1> HIDE DEF e, io
<1> QED BY <1>2, <1>6, <1>7 DEF GoodTraversal, e, io

(* Every trace of a traversal is one of the machine and visits some set as *)
(* often as was missing, and there are finitely many.                      *)
LEMMA TraverseGood ==
  ASSUME rows \in Machines, SetsInv, NEW B \in Nat
  PROVE  \A q \in State, mv \in VisitCounts :
           (\A i \in DOMAIN maximalRDistSets : mv[i] <= B) =>
             IsFiniteSet(Traverse[<<q, mv>>]) /\ \A tr \in Traverse[<<q, mv>>] : GoodTraversal(q, mv, tr)
<1> DEFINE P(q, mv) == IsFiniteSet(Traverse[<<q, mv>>]) /\ \A tr \in Traverse[<<q, mv>>] : GoodTraversal(q, mv, tr)
           A == {c \in State \X VisitCounts : P(c[1], c[2])}
<1>1. ASSUME NEW q \in State, NEW mv \in VisitCounts,
             Enough(mv) = {} => \A l \in Edges(q) : <<rows[q][l], Visited(mv, rows[q][l])>> \in A
      PROVE  P(q, mv)
  <2>0. Traverse[<<q, mv>>] = TraverseBody(Traverse, q, mv)
    BY TraverseIs
  <2>1. CASE Enough(mv) # {}
    <3> DEFINE i == Min(Enough(mv))
               e == << << >>, maximalRDistSets[i] >>
    <3>1. Traverse[<<q, mv>>] = {e}
      BY <2>0, <2>1 DEF TraverseBody
    <3>2. /\ i \in DOMAIN maximalRDistSets /\ mv[i] <= 0 /\ mv[i] \in Int
          /\ maximalRDistSets[i] \in SUBSET State
      BY <2>1, EnoughHas DEF VisitCounts
    <3> HIDE DEF i
    <3>3. e[1] = << >> /\ e[2] = maximalRDistSets[i] /\ << >> \in Seq(IO)
      OBVIOUS
    <3>4. e \in Traversals
      BY <3>2, <3>3 DEF Traversals
    <3> HIDE DEF e
    <3>5. After(rows, q, e[1]) >= 0
      <4>1. After(rows, q, << >>) = q
        BY AfterEmpty
      <4> QED BY <3>3, <4>1 DEF State
    <3>6. mv[i] <= Cardinality(VisitsIn(q, e[1], maximalRDistSets[i]))
      <4>1. VisitsIn(q, << >>, maximalRDistSets[i]) = {}
        BY DEF VisitsIn
      <4>2. Cardinality({}) = 0
        BY FS_EmptySet
      <4> QED BY <3>2, <3>3, <4>1, <4>2
    <3>7. GoodTraversal(q, mv, e)
      BY <3>2, <3>3, <3>4, <3>5, <3>6 DEF GoodTraversal
    <3> QED BY <3>1, <3>7, FS_Singleton
  <2>2. CASE Enough(mv) = {}
    <3> DEFINE T(l) == Traverse[<<rows[q][l], Visited(mv, rows[q][l])>>]
               L(l) == Longer(l, T(l))
               U == {L(l) : l \in Edges(q)}
    <3>1. Traverse[<<q, mv>>] = UNION U
      BY <2>0, <2>2 DEF TraverseBody
    <3>2. ASSUME NEW l \in Edges(q) PROVE P(rows[q][l], Visited(mv, rows[q][l]))
      <4> DEFINE c == <<rows[q][l], Visited(mv, rows[q][l])>>
      <4>1. c \in A
        BY <1>1, <2>2
      <4>2. c[1] = rows[q][l] /\ c[2] = Visited(mv, rows[q][l])
        OBVIOUS
      <4> HIDE DEF c, P
      <4> QED BY <4>1, <4>2
    <3>3. ASSUME NEW l \in Edges(q)
          PROVE  IsFiniteSet(L(l)) /\ \A e \in L(l) : GoodTraversal(q, mv, e)
      <4> DEFINE X == T(l)
                 g == [tr \in X |-> <<<<l>> \o tr[1], tr[2]>>]
      <4>1. IsFiniteSet(X) /\ \A tr \in X : GoodTraversal(rows[q][l], Visited(mv, rows[q][l]), tr)
        BY <3>2
      <4> HIDE DEF X
      <4>2. DOMAIN g = X /\ \A z \in Longer(l, X) : \E tr \in X : z = g[tr]
        BY DEF Longer
      <4>3. IsFiniteSet(Longer(l, X))
        <5> HIDE DEF g
        <5> QED BY <4>1, <4>2, ImageFinite
      <4>4. \A e \in Longer(l, X) : GoodTraversal(q, mv, e)
        BY <4>1, GoodLonger DEF Longer
      <4> QED BY <4>3, <4>4 DEF X
    <3>4. IsFiniteSet(UNION U)
      <4> DEFINE g == [l \in Edges(q) |-> L(l)]
      <4>1. IsFiniteSet(Edges(q))
        <5>1. IsFiniteSet(IO)
          <6>1. IsFiniteSet(In) /\ IsFiniteSet(Out)
            BY SizeAssumption, FS_Interval DEF In, Out
          <6> QED BY <6>1, FS_Product DEF IO
        <5>2. Edges(q) \subseteq IO
          BY DEF Edges
        <5> QED BY <5>1, <5>2, FS_Subset
      <4> HIDE DEF L
      <4>2. DOMAIN g = Edges(q) /\ \A z \in U : \E l \in Edges(q) : z = g[l]
        OBVIOUS
      <4> HIDE DEF g
      <4>3. IsFiniteSet(U)
        <5> HIDE DEF U
        <5> QED BY <4>1, <4>2, ImageFinite
      <4>4. \A X \in U : IsFiniteSet(X)
        BY <3>3
      <4> QED BY <4>3, <4>4, FS_UNION
    <3>5. \A e \in UNION U : GoodTraversal(q, mv, e)
      <4> HIDE DEF L
      <4> QED BY <3>3
    <3> HIDE DEF U
    <3> QED BY <3>1, <3>4, <3>5
  <2> QED BY <2>1, <2>2
<1>2. \A q \in State, mv \in VisitCounts :
        (Enough(mv) = {} => \A l \in Edges(q) : <<rows[q][l], Visited(mv, rows[q][l])>> \in A) => <<q, mv>> \in A
  <2> SUFFICES ASSUME NEW q \in State, NEW mv \in VisitCounts,
                      Enough(mv) = {} => \A l \in Edges(q) : <<rows[q][l], Visited(mv, rows[q][l])>> \in A
               PROVE  <<q, mv>> \in A
    OBVIOUS
  <2>1. P(q, mv)
    BY <1>1
  <2> DEFINE c == <<q, mv>>
  <2>2. c \in State \X VisitCounts /\ c[1] = q /\ c[2] = mv
    OBVIOUS
  <2> HIDE DEF P, c
  <2>3. c \in A
    BY <2>1, <2>2
  <2> QED BY <2>3 DEF c
<1>3. \A c \in A : P(c[1], c[2])
  OBVIOUS
<1> HIDE DEF A, P
<1>4. \A q \in State, mv \in VisitCounts :
        (\A i \in DOMAIN maximalRDistSets : mv[i] <= B) => <<q, mv>> \in A
  BY <1>2, TraverseInduction
<1>5. ASSUME NEW q \in State, NEW mv \in VisitCounts, \A i \in DOMAIN maximalRDistSets : mv[i] <= B
      PROVE  P(q, mv)
  <2> DEFINE c == <<q, mv>>
  <2>1. c \in A /\ c[1] = q /\ c[2] = mv
    BY <1>4, <1>5
  <2> HIDE DEF c
  <2> QED BY <1>3, <2>1
<1> QED BY <1>5 DEF P

(* With no state without transitions there is a traversal from every state. *)
LEMMA TraverseSome ==
  ASSUME rows \in Machines, SetsInv, NEW B \in Nat, ~HasDeadEnd
  PROVE  \A q \in State, mv \in VisitCounts :
           (\A i \in DOMAIN maximalRDistSets : mv[i] <= B) => Traverse[<<q, mv>>] # {}
<1> DEFINE A == {c \in State \X VisitCounts : Traverse[c] # {}}
<1>1. \A q \in State, mv \in VisitCounts :
        (Enough(mv) = {} => \A l \in Edges(q) : <<rows[q][l], Visited(mv, rows[q][l])>> \in A) => <<q, mv>> \in A
  <2> SUFFICES ASSUME NEW q \in State, NEW mv \in VisitCounts,
                      Enough(mv) = {} => \A l \in Edges(q) : <<rows[q][l], Visited(mv, rows[q][l])>> \in A
               PROVE  Traverse[<<q, mv>>] # {}
    OBVIOUS
  <2>0. Traverse[<<q, mv>>] = TraverseBody(Traverse, q, mv)
    BY TraverseIs
  <2>1. CASE Enough(mv) # {}
    BY <2>0, <2>1 DEF TraverseBody
  <2>2. CASE Enough(mv) = {}
    <3>1. PICK x \in In : PossibleOutputs(rows, q, x) # {}
      BY DEF HasDeadEnd, DefinedInputs
    <3>2. PICK y \in Out : rows[q][<<x, y>>] >= 0
      BY <3>1 DEF PossibleOutputs
    <3> DEFINE l == <<x, y>>
    <3>3. l \in Edges(q)
      BY <3>2 DEF Edges, IO
    <3> HIDE DEF l
    <3> DEFINE X == Traverse[<<rows[q][l], Visited(mv, rows[q][l])>>]
    <3>4. X # {}
      BY <2>2, <3>3
    <3>5. Longer(l, X) # {}
      <4> HIDE DEF X
      <4> QED BY <3>4 DEF Longer
    <3>6. Traverse[<<q, mv>>] = UNION {Longer(k, Traverse[<<rows[q][k], Visited(mv, rows[q][k])>>]) : k \in Edges(q)}
      BY <2>0, <2>2 DEF TraverseBody
    <3>7. Longer(l, X) \subseteq Traverse[<<q, mv>>]
      BY <3>3, <3>6
    <3> HIDE DEF X
    <3> QED BY <3>5, <3>7
  <2> QED BY <2>1, <2>2
<1> HIDE DEF A
<1>2. \A q \in State, mv \in VisitCounts :
        (\A i \in DOMAIN maximalRDistSets : mv[i] <= B) => <<q, mv>> \in A
  BY <1>1, TraverseInduction
<1> QED BY <1>2 DEF A

UpTo(B, mv) == \A i \in DOMAIN maximalRDistSets : mv[i] <= B

LEMMA VisitedUpTo ==
  ASSUME NEW B \in Nat, NEW mv \in VisitCounts, UpTo(B, mv), NEW r
  PROVE  UpTo(B, Visited(mv, r))
<1> SUFFICES ASSUME NEW i \in DOMAIN maximalRDistSets PROVE Visited(mv, r)[i] <= B
  BY DEF UpTo
<1>1. mv[i] \in Int /\ mv[i] <= B
  BY DEF UpTo, VisitCounts
<1>2. Visited(mv, r)[i] = mv[i] - (IF r \in maximalRDistSets[i] THEN 1 ELSE 0)
  BY DEF Visited, VisitCounts
<1>3. CASE r \in maximalRDistSets[i]
  <2>1. Visited(mv, r)[i] = mv[i] - 1
    BY <1>2, <1>3
  <2> QED BY <1>1, <2>1
<1>4. CASE r \notin maximalRDistSets[i]
  <2>1. Visited(mv, r)[i] = mv[i] - 0
    BY <1>2, <1>4
  <2> QED BY <1>1, <2>1
<1> QED BY <1>3, <1>4

(* A trace from q is either as long as a traversal, or every input defined   *)
(* after it continues it along the inputs of some traversal.                 *)
FollowedIn(T, q, u) ==
  \/ \E tr \in T, n \in 0 .. Len(u) : tr[1] = Prefix(u, n)
  \/ \A x \in DefinedInputs(rows, After(rows, q, u)) :
       \E tr \in T : \E n \in 0 .. Len(tr[1]) : Inputs(Prefix(tr[1], n)) = Append(Inputs(u), x)

LEMMA FirstInput ==
  ASSUME NEW l \in IO
  PROVE  <<l>> \in Seq(IO) /\ Len(<<l>>) = 1 /\ Inputs(<<l>>) = <<l[1]>> /\ l[1] \in In
         /\ Append(<< >>, l) = <<l>>
<1>1. <<l>> \in Seq(IO) /\ Len(<<l>>) = 1 /\ Append(<< >>, l) = <<l>> /\ << >> \in Seq(IO)
  OBVIOUS
<1>2. Inputs(Append(<< >>, l)) = Append(Inputs(<< >>), l[1])
  BY <1>1, InputsAppend
<1>3. l[1] \in In
  BY DEF IO
<1>4. Append(<< >>, l[1]) = <<l[1]>>
  OBVIOUS
<1>5. Inputs(<<l>>) = <<l[1]>>
  BY <1>1, <1>2, <1>4, InputsEmpty
<1> QED BY <1>1, <1>3, <1>5

LEMMA FollowedFirst ==
  ASSUME rows \in Machines, NEW q \in State, NEW l \in Edges(q), NEW X \in SUBSET Traversals,
         NEW w \in Seq(IO), FollowedIn(X, rows[q][l], w)
  PROVE  FollowedIn(Longer(l, X), q, <<l>> \o w)
<1> DEFINE r == rows[q][l]
           u == <<l>> \o w
<1>1. l \in IO /\ r \in State /\ r >= 0
  BY EdgeFacts
<1>2. \A n \in 0 .. Len(w) : Prefix(u, n + 1) = <<l>> \o Prefix(w, n)
  BY <1>1, FirstPrefix
<1>3. Len(u) = Len(w) + 1 /\ Len(w) \in Nat /\ u \in Seq(IO)
  <2>1. Len(w) \in Nat /\ 0 \in 0 .. Len(w)
    OBVIOUS
  <2> QED BY <1>1, <2>1, FirstPrefix
<1>4. After(rows, q, u) = After(rows, r, w)
  <2>1. After(rows, q, u) = IF rows[q][l] < 0 THEN -1 ELSE After(rows, rows[q][l], w)
    BY <1>1, AfterFirst
  <2>2. ~(r < 0)
    <3> HIDE DEF r
    <3> QED BY <1>1 DEF State
  <2> QED BY <2>1, <2>2
<1>5. \A tr \in X : <<<<l>> \o tr[1], tr[2]>> \in Longer(l, X)
  BY DEF Longer
<1>6. CASE \E tr \in X, n \in 0 .. Len(w) : tr[1] = Prefix(w, n)
  <2>1. PICK tr \in X, n \in 0 .. Len(w) : tr[1] = Prefix(w, n)
    BY <1>6
  <2> DEFINE e == <<<<l>> \o tr[1], tr[2]>>
  <2>2. e \in Longer(l, X) /\ e[1] = <<l>> \o tr[1]
    BY <1>5
  <2> HIDE DEF e
  <2>3. e[1] = Prefix(u, n + 1)
    BY <1>2, <2>1, <2>2
  <2>4. n + 1 \in 0 .. Len(u)
    BY <1>3
  <2> HIDE DEF u
  <2> QED BY <2>2, <2>3, <2>4 DEF FollowedIn, u
<1>7. CASE \A x \in DefinedInputs(rows, After(rows, r, w)) :
             \E tr \in X : \E n \in 0 .. Len(tr[1]) : Inputs(Prefix(tr[1], n)) = Append(Inputs(w), x)
  <2> SUFFICES ASSUME NEW x \in DefinedInputs(rows, After(rows, q, u))
               PROVE  \E e \in Longer(l, X) : \E n \in 0 .. Len(e[1]) : Inputs(Prefix(e[1], n)) = Append(Inputs(u), x)
    BY DEF FollowedIn
  <2>1. PICK tr \in X : \E n \in 0 .. Len(tr[1]) : Inputs(Prefix(tr[1], n)) = Append(Inputs(w), x)
    BY <1>4, <1>7
  <2>2. PICK n \in 0 .. Len(tr[1]) : Inputs(Prefix(tr[1], n)) = Append(Inputs(w), x)
    BY <2>1
  <2> DEFINE io == tr[1]
             e == <<<<l>> \o tr[1], tr[2]>>
  <2>3. e \in Longer(l, X) /\ e[1] = <<l>> \o io
    BY <1>5
  <2> HIDE DEF e
  <2>4. io \in Seq(IO) /\ Prefix(io, n) \in Seq(IO) /\ Len(io) \in Nat /\ x \in In
    <3>1. io \in Seq(IO)
      BY DEF Traversals
    <3>2. x \in In
      BY DefinedAreInputs
    <3> QED BY <3>1, <3>2, PrefixTyped
  <2>5. Prefix(e[1], n + 1) = <<l>> \o Prefix(io, n) /\ n + 1 \in 0 .. Len(e[1])
    <3>1. Prefix(<<l>> \o io, n + 1) = <<l>> \o Prefix(io, n) /\ Len(<<l>> \o io) = Len(io) + 1
      BY <1>1, <2>4, FirstPrefix
    <3> HIDE DEF io
    <3>2. n + 1 \in 0 .. Len(io) + 1
      BY <2>4 DEF io
    <3> QED BY <2>3, <3>1, <3>2
  <2>6. Inputs(<<l>> \o Prefix(io, n)) = Inputs(<<l>>) \o Append(Inputs(w), x)
    <3>1. Inputs(<<l>> \o Prefix(io, n)) = Inputs(<<l>>) \o Inputs(Prefix(io, n))
      BY <1>1, <2>4, FirstInput, InputsConcat
    <3> QED BY <2>2, <3>1
  <2>7. Inputs(<<l>>) \o Append(Inputs(w), x) = Append(Inputs(<<l>>) \o Inputs(w), x)
    <3> DEFINE a == Inputs(<<l>>)
               b == Inputs(w)
    <3>1. a \in Seq(In) /\ b \in Seq(In)
      BY <1>1, FirstInput, InputsTyped
    <3> HIDE DEF a, b
    <3>2. a \o Append(b, x) = Append(a \o b, x)
      BY <2>4, <3>1, ConcatAppend
    <3> QED BY <3>2 DEF a, b
  <2>8. Inputs(u) = Inputs(<<l>>) \o Inputs(w)
    BY <1>1, FirstInput, InputsConcat
  <2> HIDE DEF u, io
  <2>9. Inputs(Prefix(e[1], n + 1)) = Append(Inputs(u), x)
    BY <2>5, <2>6, <2>7, <2>8
  <2> QED BY <2>3, <2>5, <2>9
<1> QED BY <1>6, <1>7 DEF FollowedIn

LEMMA TraverseFollows ==
  ASSUME rows \in Machines, SetsInv, NEW B \in Nat, ~HasDeadEnd
  PROVE  \A q \in State, mv \in VisitCounts : UpTo(B, mv) =>
           \A u \in Seq(IO) : After(rows, q, u) >= 0 => FollowedIn(Traverse[<<q, mv>>], q, u)
<1> DEFINE P(q, mv) == UpTo(B, mv) => \A u \in Seq(IO) :
                          After(rows, q, u) >= 0 => FollowedIn(Traverse[<<q, mv>>], q, u)
           A == {c \in State \X VisitCounts : P(c[1], c[2])}
<1>1. ASSUME NEW q \in State, NEW mv \in VisitCounts, UpTo(B, mv),
             Enough(mv) = {} => \A l \in Edges(q) : P(rows[q][l], Visited(mv, rows[q][l])),
             NEW u \in Seq(IO), After(rows, q, u) >= 0
      PROVE  FollowedIn(Traverse[<<q, mv>>], q, u)
  <2> DEFINE T == Traverse[<<q, mv>>]
             X(l) == Traverse[<<rows[q][l], Visited(mv, rows[q][l])>>]
  <2>0. T = TraverseBody(Traverse, q, mv)
    BY TraverseIs
  <2>1. CASE Enough(mv) # {}
    <3> DEFINE e == << << >>, maximalRDistSets[Min(Enough(mv))] >>
    <3>1. e \in T /\ e[1] = << >>
      BY <2>0, <2>1 DEF TraverseBody
    <3> HIDE DEF e
    <3>2. Prefix(u, 0) = << >> /\ 0 \in 0 .. Len(u)
      BY DEF Prefix
    <3> HIDE DEF T
    <3> QED BY <3>1, <3>2 DEF FollowedIn, T
  <2>2. CASE Enough(mv) = {}
    <3>1. T = UNION {Longer(l, X(l)) : l \in Edges(q)}
      BY <2>0, <2>2 DEF TraverseBody
    <3>2. ASSUME NEW l \in Edges(q)
          PROVE  /\ l \in IO /\ rows[q][l] \in State /\ rows[q][l] >= 0
                 /\ X(l) # {} /\ X(l) \in SUBSET Traversals /\ Longer(l, X(l)) \subseteq T
                 /\ \A w \in Seq(IO) : After(rows, rows[q][l], w) >= 0 => FollowedIn(X(l), rows[q][l], w)
      <4> DEFINE r == rows[q][l]
                 nv == Visited(mv, r)
      <4>1. l \in IO /\ r \in State /\ r >= 0 /\ nv \in VisitCounts /\ UpTo(B, nv)
        BY <1>1, EdgeFacts, VisitedTyped, VisitedUpTo
      <4>2. \A w \in Seq(IO) : After(rows, r, w) >= 0 => FollowedIn(Traverse[<<r, nv>>], r, w)
        BY <1>1, <2>2, <4>1
      <4> HIDE DEF r, nv
      <4>3. Traverse[<<r, nv>>] # {}
        BY <4>1, TraverseSome DEF UpTo
      <4>4. Traverse[<<r, nv>>] \in SUBSET Traversals
        <5>1. \A tr \in Traverse[<<r, nv>>] : GoodTraversal(r, nv, tr)
          BY <4>1, TraverseGood DEF UpTo
        <5> QED BY <5>1 DEF GoodTraversal
      <4>5. Longer(l, X(l)) \subseteq T
        <5> HIDE DEF T, X
        <5> QED BY <3>1
      <4> QED BY <4>1, <4>2, <4>3, <4>4, <4>5 DEF r, nv
    <3>3. CASE u = << >>
      <4> SUFFICES ASSUME NEW x \in DefinedInputs(rows, After(rows, q, u))
                   PROVE  \E e \in T : \E n \in 0 .. Len(e[1]) : Inputs(Prefix(e[1], n)) = Append(Inputs(u), x)
        BY DEF FollowedIn
      <4>1. x \in In /\ PossibleOutputs(rows, q, x) # {}
        BY <3>3, AfterEmpty DEF DefinedInputs
      <4>2. PICK y \in Out : rows[q][<<x, y>>] >= 0
        BY <4>1 DEF PossibleOutputs
      <4> DEFINE l == <<x, y>>
      <4>3. l \in Edges(q) /\ l[1] = x
        BY <4>1, <4>2 DEF Edges, IO
      <4> HIDE DEF l, X, T
      <4>4. PICK tr \in X(l) : tr \in Traversals
        BY <3>2, <4>3
      <4> DEFINE io == tr[1]
                 e == <<<<l>> \o tr[1], tr[2]>>
      <4>5. e \in T /\ e[1] = <<l>> \o io
        <5>1. e \in Longer(l, X(l))
          BY DEF Longer
        <5> QED BY <3>2, <4>3, <5>1
      <4> HIDE DEF e
      <4>6. l \in IO /\ io \in Seq(IO) /\ Len(io) \in Nat /\ 0 \in 0 .. Len(io)
        <5>1. io \in Seq(IO)
          BY <4>4 DEF Traversals
        <5> QED BY <3>2, <4>3, <5>1
      <4> HIDE DEF io
      <4>7. Prefix(e[1], 0 + 1) = <<l>> \o Prefix(io, 0) /\ Len(e[1]) = Len(io) + 1
        BY <4>5, <4>6, FirstPrefix
      <4>8. Prefix(io, 0) = << >> /\ <<l>> \o << >> = <<l>>
        <5>1. Prefix(io, 0) = << >>
          BY DEF Prefix
        <5>2. <<l>> \in Seq(IO)
          BY <4>6
        <5>3. <<l>> \o << >> = <<l>>
          BY <5>2
        <5> QED BY <5>1, <5>3
      <4>9. Inputs(Prefix(e[1], 1)) = <<x>>
        BY <4>3, <4>6, <4>7, <4>8, FirstInput
      <4>10. Append(Inputs(u), x) = <<x>>
        <5>1. Inputs(u) = << >>
          BY <3>3, InputsEmpty
        <5>2. Append(<< >>, x) = <<x>>
          OBVIOUS
        <5> QED BY <5>1, <5>2
      <4>11. 1 \in 0 .. Len(e[1])
        BY <4>6, <4>7
      <4> QED BY <4>5, <4>9, <4>10, <4>11
    <3>4. CASE u # << >>
      <4> DEFINE l == Head(u)
                 w == Tail(u)
      <4>1. l \in IO /\ w \in Seq(IO) /\ u = <<l>> \o w
        BY <3>4
      <4> HIDE DEF l, w
      <4>2. After(rows, q, u) = IF rows[q][l] < 0 THEN -1 ELSE After(rows, rows[q][l], w)
        BY <4>1, AfterFirst
      <4>3. ~(rows[q][l] < 0) /\ After(rows, rows[q][l], w) >= 0
        <5>1. CASE rows[q][l] < 0
          <6>1. After(rows, q, u) = -1
            BY <4>2, <5>1
          <6> QED BY <1>1, <6>1
        <5>2. CASE ~(rows[q][l] < 0)
          BY <1>1, <4>2, <5>2
        <5> QED BY <5>1, <5>2
      <4>4. l \in Edges(q)
        <5>1. rows[q][l] >= 0
          BY <4>1, <4>3, PostFacts DEF State
        <5> QED BY <4>1, <5>1 DEF Edges
      <4> HIDE DEF X
      <4>5. FollowedIn(X(l), rows[q][l], w) /\ X(l) \in SUBSET Traversals /\ Longer(l, X(l)) \subseteq T
        BY <3>2, <4>1, <4>3, <4>4
      <4>6. FollowedIn(Longer(l, X(l)), q, u)
        BY <4>1, <4>4, <4>5, FollowedFirst
      <4> HIDE DEF T
      <4>7. FollowedIn(T, q, u)
        BY <4>5, <4>6 DEF FollowedIn
      <4> QED BY <4>7 DEF T
    <3> QED BY <3>3, <3>4
  <2> QED BY <2>1, <2>2
<1>2. ASSUME NEW q \in State, NEW mv \in VisitCounts,
             Enough(mv) = {} => \A l \in Edges(q) : <<rows[q][l], Visited(mv, rows[q][l])>> \in A
      PROVE  <<q, mv>> \in A
  <2>1. \A c \in A : P(c[1], c[2])
    OBVIOUS
  <2>2. ASSUME Enough(mv) = {}, NEW l \in Edges(q) PROVE P(rows[q][l], Visited(mv, rows[q][l]))
    <3> DEFINE c == <<rows[q][l], Visited(mv, rows[q][l])>>
    <3>1. c \in A /\ c[1] = rows[q][l] /\ c[2] = Visited(mv, rows[q][l])
      BY <1>2, <2>2
    <3> HIDE DEF c, P, A
    <3> QED BY <2>1, <3>1
  <2>3. P(q, mv)
    <3> SUFFICES ASSUME UpTo(B, mv), NEW u \in Seq(IO), After(rows, q, u) >= 0
                 PROVE  FollowedIn(Traverse[<<q, mv>>], q, u)
      OBVIOUS
    <3>1. Enough(mv) = {} => \A l \in Edges(q) : P(rows[q][l], Visited(mv, rows[q][l]))
      <4> HIDE DEF P
      <4> QED BY <2>2
    <3> HIDE DEF P
    <3> QED BY <1>1, <3>1
  <2> DEFINE c == <<q, mv>>
  <2>4. c \in State \X VisitCounts /\ c[1] = q /\ c[2] = mv
    OBVIOUS
  <2> HIDE DEF P, c
  <2>5. c \in A
    BY <2>3, <2>4
  <2> QED BY <2>5 DEF c
<1>3. \A c \in A : P(c[1], c[2])
  OBVIOUS
<1> HIDE DEF A, P
<1>4. \A q \in State, mv \in VisitCounts : UpTo(B, mv) => <<q, mv>> \in A
  BY <1>2, TraverseInduction DEF UpTo
<1>5. ASSUME NEW q \in State, NEW mv \in VisitCounts PROVE P(q, mv)
  <2>1. CASE UpTo(B, mv)
    <3> DEFINE c == <<q, mv>>
    <3>1. c \in A /\ c[1] = q /\ c[2] = mv
      BY <1>4, <2>1
    <3> HIDE DEF c
    <3> QED BY <1>3, <3>1
  <2>2. CASE ~UpTo(B, mv)
    BY <2>2 DEF P
  <2> QED BY <2>1, <2>2
<1> QED BY <1>5 DEF P

(* The traversals an extension starts from. *)
LEMMA TerminationTyped ==
  ASSUME SetsInv
  PROVE  TerminationTuples \in VisitCounts /\ m + 1 \in Nat /\ UpTo(m + 1, TerminationTuples)
<1>1. m \in Nat
  BY ImplementationsAssumption
<1>2. ASSUME NEW i \in DOMAIN maximalRDistSets
      PROVE  /\ Cardinality(maximalRDistSets[i] \cap dReached) \in Nat
             /\ TerminationTuples[i] = m - Cardinality(maximalRDistSets[i] \cap dReached) + 1
  <2>1. maximalRDistSets[i] \in SUBSET State
    BY DEF SetsInv
  <2>2. IsFiniteSet(maximalRDistSets[i] \cap dReached)
    BY <2>1, StatesFinite, FS_Subset
  <2> QED BY <2>2, FS_CardinalityType DEF TerminationTuples
<1>3. \A i \in DOMAIN maximalRDistSets : TerminationTuples[i] \in Int /\ TerminationTuples[i] <= m + 1
  <2> SUFFICES ASSUME NEW i \in DOMAIN maximalRDistSets PROVE TerminationTuples[i] \in Int /\ TerminationTuples[i] <= m + 1
    OBVIOUS
  <2> DEFINE c == Cardinality(maximalRDistSets[i] \cap dReached)
  <2>1. c \in Nat /\ TerminationTuples[i] = m - c + 1
    BY <1>2
  <2> HIDE DEF c
  <2> QED BY <1>1, <2>1
<1>4. TerminationTuples \in VisitCounts
  BY <1>3 DEF TerminationTuples, VisitCounts
<1> QED BY <1>1, <1>3, <1>4 DEF UpTo

(* What a suite holds: the traces of the traversals and to the d-reached     *)
(* states, and after the extension for a state what tells apart all that its *)
(* traversals visit.                                                         *)
SuiteHas(T, left) ==
  /\ T \in Suites
  /\ \A r \in dReached : dReachingSequences[r] \in T
  /\ \A q \in dReached : \A tr \in TraversalSet(q) : TracesIn(q, tr, T)
  /\ left \subseteq dReached
  /\ \A q \in dReached \ left : \A tr \in TraversalSet(q) : AllApart(T, Visiting(q, tr))

LEMMA TraversalsGood ==
  ASSUME rows \in Machines, SetsInv, NEW q \in State
  PROVE  /\ IsFiniteSet(TraversalSet(q))
         /\ \A tr \in TraversalSet(q) :
              /\ GoodTraversal(q, TerminationTuples, tr)
              /\ tr[1] \in Seq(IO) /\ IsRDSet(tr[2]) /\ tr[2] \in SUBSET State
<1>1. TerminationTuples \in VisitCounts /\ m + 1 \in Nat /\ UpTo(m + 1, TerminationTuples)
  BY TerminationTyped
<1>2. IsFiniteSet(TraversalSet(q)) /\ \A tr \in TraversalSet(q) : GoodTraversal(q, TerminationTuples, tr)
  BY <1>1, TraverseGood DEF TraversalSet, UpTo
<1>3. ASSUME NEW tr \in TraversalSet(q) PROVE tr[1] \in Seq(IO) /\ IsRDSet(tr[2]) /\ tr[2] \in SUBSET State
  BY <1>2 DEF GoodTraversal, Traversals, SetsInv
<1> QED BY <1>2, <1>3

LEMMA SuitesUnion ==
  ASSUME NEW G, IsFiniteSet(G), NEW f, \A q \in G : f[q] \in Suites
  PROVE  UNION {f[q] : q \in G} \in Suites
<1> DEFINE U == UNION {f[q] : q \in G}
<1>1. \A q \in G : f[q] \in SUBSET Seq(In) /\ Limited(f[q]) /\ PrefixesIn(f[q])
  BY DEF Suites
<1>2. U \in SUBSET Seq(In)
  BY <1>1
<1>3. \A q \in G : \A w \in f[q] : Len(w) \in Nat
  BY <1>1
<1>4. Limited(U)
  BY <1>1, <1>3, CommonLimit
<1>5. PrefixesIn(U)
  <2> SUFFICES ASSUME NEW w \in Seq(In), NEW x \in In, Append(w, x) \in U PROVE w \in U
    BY DEF PrefixesIn
  <2>1. PICK q \in G : Append(w, x) \in f[q]
    OBVIOUS
  <2>2. w \in f[q]
    BY <1>1, <2>1 DEF PrefixesIn
  <2> QED BY <2>2
<1> HIDE DEF U
<1>6. U \in Suites
  BY <1>2, <1>4, <1>5 DEF Suites
<1> QED BY <1>6 DEF U

LEMMA SuitesJoin ==
  ASSUME NEW T \in Suites, NEW U \in Suites
  PROVE  T \cup U \in Suites
<1>1. T \in SUBSET Seq(In) /\ U \in SUBSET Seq(In) /\ \A w \in T \cup U : Len(w) \in Nat
  BY DEF Suites
<1>2. Limited(T \cup U)
  BY <1>1, LimitedUnion DEF Suites
<1>3. PrefixesIn(T \cup U)
  BY DEF PrefixesIn, Suites
<1> QED BY <1>1, <1>2, <1>3 DEF Suites

LEMMA EmptySuite == {<< >>} \in Suites
<1>1. {<< >>} \in Suites /\ << >> \in {<< >>}
  <2>1. {<< >>} \in SUBSET Seq(In)
    OBVIOUS
  <2>2. Limited({<< >>})
    BY DEF Limited, NoLonger
  <2>3. PrefixesIn({<< >>})
    <3> SUFFICES ASSUME NEW w \in Seq(In), NEW x \in In PROVE Append(w, x) # << >>
      BY DEF PrefixesIn
    <3>1. Len(Append(w, x)) = Len(w) + 1 /\ Len(w) \in Nat /\ Len(<< >>) = 0
      OBVIOUS
    <3> QED BY <3>1
  <2> QED BY <2>1, <2>2, <2>3 DEF Suites
<1> QED BY <1>1

LEMMA PrefixesSuite ==
  ASSUME NEW z \in Seq(In)
  PROVE  Prefixes(z) \in Suites /\ z \in Prefixes(z)
<1>1. {<< >>} \in Suites /\ << >> \in {<< >>}
  BY EmptySuite
<1> DEFINE T == AddAfter({<< >>}, << >>, {z})
<1>2. Limited({z})
  <2>1. Len(z) \in Nat
    OBVIOUS
  <2> QED BY <2>1 DEF Limited, NoLonger
<1>3. T \in Suites
  BY <1>1, <1>2, AddAfterSuite
<1>4. \A n \in 0 .. Len(z) : << >> \o Prefix(z, n) = Prefix(z, n)
  <2> SUFFICES ASSUME NEW n \in 0 .. Len(z) PROVE << >> \o Prefix(z, n) = Prefix(z, n)
    OBVIOUS
  <2>1. Prefix(z, n) \in Seq(In)
    BY PartsAre
  <2> QED BY <2>1
<1>5. \A w : w \in Prefixes(z) <=> \E n \in 0 .. Len(z) : w = Prefix(z, n)
  BY DEF Prefixes, Prefix
<1>6. \A w : w \in T <=> w \in Prefixes(z)
  <2>1. \A w : w \in T <=> w = << >> \/ \E n \in 0 .. Len(z) : w = << >> \o Prefix(z, n)
    <3> DEFINE Y == {z}
    <3>1. Y \in SUBSET Seq(In) /\ \A y : y \in Y <=> y = z
      OBVIOUS
    <3>2. \A w : w \in {<< >>} <=> w = << >>
      OBVIOUS
    <3> HIDE DEF Y
    <3>3. << >> \in Seq(In) /\ {<< >>} \in SUBSET Seq(In)
      OBVIOUS
    <3>4. \A w : w \in AddAfter({<< >>}, << >>, Y) <=>
                   w \in {<< >>} \/ \E y \in Y : \E n \in 0 .. Len(y) : w = << >> \o Prefix(y, n)
      <4> DEFINE E == {<< >>}
                 e == << >>
      <4> SUFFICES ASSUME NEW w
                   PROVE  w \in AddAfter(E, e, Y) <=> w \in E \/ \E y \in Y : \E n \in 0 .. Len(y) : w = e \o Prefix(y, n)
        OBVIOUS
      <4> HIDE DEF E, e
      <4> QED BY AddAfterIs
    <3> QED BY <3>1, <3>2, <3>4 DEF Y
  <2>2. Prefix(z, 0) = << >> /\ 0 \in 0 .. Len(z)
    BY DEF Prefix
  <2> HIDE DEF T
  <2> QED BY <1>4, <1>5, <2>1, <2>2
<1>7. T = Prefixes(z)
  <2> HIDE DEF T
  <2> QED BY <1>6
<1>8. z \in Prefixes(z)
  <2>1. Prefix(z, Len(z)) = z /\ Len(z) \in 0 .. Len(z)
    BY DEF Prefix
  <2> QED BY <1>5, <2>1
<1> QED BY <1>3, <1>7, <1>8

LEMMA FirstSuite ==
  ASSUME rows \in Machines, SetsInv, \A q \in dReached : dReachingSequences[q] \in Seq(In),
         InitialTestSuite
  PROVE  SuiteHas(suite', unextended')
<1> DEFINE d(q) == dReachingSequences[q]
           Z(q) == {Inputs(tr[1]) : tr \in TraversalSet(q)}
           F(q) == Prefixes(d(q)) \cup AddAfter({}, d(q), Z(q))
           f == [q \in dReached |-> F(q)]
           U == UNION {f[q] : q \in dReached}
           T == suite'
<1>1. T = {<< >>} \cup UNION {F(q) : q \in dReached} /\ unextended' = dReached
  BY DEF InitialTestSuite
<1>2. UNION {F(q) : q \in dReached} = U
  OBVIOUS
<1>3. IsFiniteSet(dReached) /\ dReached \subseteq State
  BY StatesFinite, FS_Subset DEF dReached
<1>4. ASSUME NEW q \in dReached
      PROVE  Z(q) \in SUBSET Seq(In) /\ Limited(Z(q))
  <2>1. IsFiniteSet(TraversalSet(q)) /\ \A tr \in TraversalSet(q) : tr[1] \in Seq(IO)
    BY <1>3, TraversalsGood
  <2> DEFINE G == TraversalSet(q)
             g == [tr \in G |-> {Inputs(tr[1])}]
  <2>2. \A tr \in G : Inputs(tr[1]) \in Seq(In) /\ Len(Inputs(tr[1])) \in Nat
    BY <2>1, InputsTyped
  <2> HIDE DEF G
  <2>3. \A tr \in G : Limited(g[tr]) /\ \A w \in g[tr] : Len(w) \in Nat
    BY <2>2 DEF Limited, NoLonger
  <2>4. Limited(UNION {g[tr] : tr \in G})
    <3> HIDE DEF g
    <3> QED BY <2>1, <2>3, CommonLimit DEF G
  <2>5. UNION {g[tr] : tr \in G} = Z(q)
    BY DEF G
  <2> QED BY <2>2, <2>4, <2>5 DEF G
<1>5. ASSUME NEW q \in dReached
      PROVE  /\ F(q) \in Suites /\ d(q) \in F(q)
             /\ \A tr \in TraversalSet(q) : \A k \in 0 .. Len(tr[1]) : d(q) \o Inputs(Prefix(tr[1], k)) \in F(q)
  <2> DEFINE P == Prefixes(d(q))
             X == AddAfter(P, d(q), Z(q))
  <2>1. P \in Suites /\ d(q) \in P
    BY PrefixesSuite
  <2>2. X = F(q)
    BY DEF AddAfter
  <2> HIDE DEF P
  <2>3. X \in Suites /\ P \subseteq X
    <3> HIDE DEF Z
    <3> QED BY <1>4, <2>1, AddAfterSuite
  <2>4. ASSUME NEW tr \in TraversalSet(q), NEW k \in 0 .. Len(tr[1])
        PROVE  d(q) \o Inputs(Prefix(tr[1], k)) \in X
    <3> DEFINE z == Inputs(tr[1])
    <3>1. tr[1] \in Seq(IO)
      BY <1>3, TraversalsGood
    <3>2. Inputs(Prefix(tr[1], k)) = Prefix(z, k) /\ Len(z) = Len(tr[1]) /\ z \in Z(q)
      BY <3>1, InputsOfPrefix, InputsTyped
    <3> HIDE DEF Z, z
    <3>3. k \in 0 .. Len(z)
      BY <3>2
    <3> QED BY <3>2, <3>3, AddAfterIs
  <2> HIDE DEF X
  <2> QED BY <2>1, <2>2, <2>3, <2>4
<1> HIDE DEF F
<1>6. \A q \in dReached : f[q] \in Suites /\ f[q] = F(q)
  BY <1>5
<1>7. U \in Suites
  <2> HIDE DEF f
  <2> QED BY <1>3, <1>6, SuitesUnion
<1>8. {<< >>} \in Suites
  BY EmptySuite
<1>9. T \in Suites
  <2> HIDE DEF U, T
  <2>1. T = {<< >>} \cup U
    BY <1>1, <1>2
  <2> QED BY <1>7, <1>8, <2>1, SuitesJoin
<1>10. \A q \in dReached : F(q) \subseteq T
  BY <1>1
<1>11. \A r \in dReached : d(r) \in T
  BY <1>5, <1>10
<1>12. ASSUME NEW q \in dReached, NEW tr \in TraversalSet(q) PROVE TracesIn(q, tr, T)
  BY <1>5, <1>10, <1>11 DEF TracesIn
<1> HIDE DEF T
<1> QED BY <1>1, <1>9, <1>11, <1>12 DEF SuiteHas, T

LEMMA NextSuite ==
  ASSUME rows \in Machines, GraphInv, SetsInv, SuiteHas(suite, unextended),
         NEW q \in State, UpdateTestSuite(q)
  PROVE  SuiteHas(suite', unextended')
<1> DEFINE T == suite'
<1>1. T = Extended(q) /\ unextended' = unextended \ {q} /\ q \in unextended
  BY DEF UpdateTestSuite
<1>2. q \in dReached /\ dReached \subseteq State
  BY <1>1 DEF SuiteHas, dReached
<1>3. /\ Extended(q) \in Suites /\ suite \subseteq Extended(q)
      /\ \A tr \in TraversalSet(q) : AllApart(Extended(q), Visiting(q, tr))
  <2>1. suite \in Suites /\ \A tr \in TraversalSet(q) : TracesIn(q, tr, suite)
    BY <1>2 DEF SuiteHas
  <2>2. IsFiniteSet(TraversalSet(q)) /\ \A tr \in TraversalSet(q) : tr[1] \in Seq(IO) /\ IsRDSet(tr[2])
    BY TraversalsGood
  <2> QED BY <2>1, <2>2, ExtendedHas
<1> HIDE DEF T
<1>4. T \in Suites /\ suite \subseteq T
  BY <1>1, <1>3
<1>5. \A r \in dReached : dReachingSequences[r] \in T
  BY <1>4 DEF SuiteHas
<1>6. \A p \in dReached : \A tr \in TraversalSet(p) : TracesIn(p, tr, T)
  <2> SUFFICES ASSUME NEW p \in dReached, NEW tr \in TraversalSet(p) PROVE TracesIn(p, tr, T)
    OBVIOUS
  <2>1. TracesIn(p, tr, suite)
    BY DEF SuiteHas
  <2> QED BY <1>4, <2>1 DEF TracesIn
<1>7. ASSUME NEW p \in dReached \ (unextended \ {q}), NEW tr \in TraversalSet(p)
      PROVE  AllApart(T, Visiting(p, tr))
  <2>1. CASE p = q
    BY <1>1, <1>3, <2>1
  <2>2. CASE p # q
    <3>1. AllApart(suite, Visiting(p, tr)) /\ TracesIn(p, tr, suite) /\ suite \in Suites
      BY <2>2 DEF SuiteHas
    <3>2. p \in State /\ tr[1] \in Seq(IO) /\ tr[2] \in SUBSET State
      BY <1>2, TraversalsGood
    <3>3. Visiting(p, tr) \subseteq suite \X tr[2]
      BY <3>1, <3>2, VisitingTyped
    <3>4. Visiting(p, tr) \in SUBSET (Seq(In) \X State)
      BY <3>1, <3>2, <3>3 DEF Suites
    <3> QED BY <1>4, <3>1, <3>4, AllApartGrows
  <2> QED BY <2>1, <2>2
<1>8. unextended \ {q} \subseteq dReached
  BY DEF SuiteHas
<1> QED BY <1>1, <1>4, <1>5, <1>6, <1>7, <1>8 DEF SuiteHas, T

(***************************************************************************)
(* The same notions as operators of what they depend on, to follow them    *)
(* from one state to the next.                                             *)
(***************************************************************************)
TargetsIn(r, p, x) ==
  {<<r[p[1]][<<x, y>>], r[p[2]][<<x, y>>]>> : y \in PossibleOutputs(r, p[1], x) \cap PossibleOutputs(r, p[2], x)}
ToldBody(r, g, p, tree) ==
  \/ DefinedInputs(r, p[1]) # DefinedInputs(r, p[2])
  \/ \E x \in RootInputs(tree) \cap DefinedInputs(r, p[1]) :
       \A s \in TargetsIn(r, p, x) : g[<<s, After1(tree, x)>>]
ToldIn(r) == CHOOSE g : g = [c \in Cases |-> ToldBody(r, g, c[1], c[2])]

VisitedWith(sets, mv, s) == [i \in DOMAIN mv |-> mv[i] - (IF s \in sets[i] THEN 1 ELSE 0)]
TravelBody(r, sets, f, q, mv) ==
  IF Enough(mv) # {} THEN {<< << >>, sets[Min(Enough(mv))] >>}
  ELSE UNION {Longer(l, f[<<r[q][l], VisitedWith(sets, mv, r[q][l])>>]) : l \in {l \in IO : r[q][l] >= 0}}
TravelIn(r, sets) ==
  CHOOSE f : f = [c \in State \X [DOMAIN sets -> Int] |-> TravelBody(r, sets, f, c[1], c[2])]
TravelsFrom(r, sets, d, q) ==
  TravelIn(r, sets)[<<q, [i \in DOMAIN sets |-> m - Cardinality(sets[i] \cap DStates(d)) + 1]>>]

TracesWith(d, q, tr, Y) ==
  /\ \A k \in 0 .. Len(tr[1]) : d[q] \o Inputs(Prefix(tr[1], k)) \in Y
  /\ \A s \in tr[2] \cap DStates(d) : d[s] \in Y
VisitingWith(r, d, q, tr) ==
  {<<d[q] \o Inputs(Prefix(tr[1], k)), After(r, q, Prefix(tr[1], k))>> :
     k \in {j \in 0 .. Len(tr[1]) : After(r, q, Prefix(tr[1], j)) \in tr[2]}}
  \cup {<<d[s], s>> : s \in tr[2] \cap DStates(d)}
ApartIn(r, tree, a, b) ==
  a[2] = b[2] \/ ToldIn(r)[<<<<a[2], b[2]>>, SharedExtensions(tree, a[1], b[1])>>]
AllApartIn(r, T, V) == \A a, b \in V : a # b => ApartIn(r, T, a, b) \/ ApartIn(r, T, b, a)

HasIn(r, sets, d, T, left) ==
  /\ T \in Suites
  /\ \A s \in DStates(d) : d[s] \in T
  /\ \A q \in DStates(d) : \A tr \in TravelsFrom(r, sets, d, q) : TracesWith(d, q, tr, T)
  /\ left \subseteq DStates(d)
  /\ \A q \in DStates(d) \ left : \A tr \in TravelsFrom(r, sets, d, q) :
       AllApartIn(r, T, VisitingWith(r, d, q, tr))

FollowAll(r, f, xs) == FoldOf(<<"follow", r, f>>, {[spec |-> 0, state |-> 0, ended |-> FALSE]}, xs)
PassesIn(r, s, f) ==
  \A xs \in Leaves(s) : \A e \in FollowAll(r, f, xs) :
    e.spec >= 0 /\ DefinedInputs(r, e.spec) = DefinedInputs(f, e.state)

LEMMA ToldAgrees == idRDistinguishedBy = ToldIn(rows)
<1>1. \A p, x : Targets(p, x) = TargetsIn(rows, p, x)
  BY DEF Targets, OutputIntersection, TargetsIn
<1> DEFINE Is(g) == g = [c \in Cases |-> IdBody(g, c[1], c[2])]
           Of(g) == g = [c \in Cases |-> ToldBody(rows, g, c[1], c[2])]
<1>2. idRDistinguishedBy = CHOOSE g : Is(g)
  BY DEF idRDistinguishedBy, IdBody, Cases
<1>3. \A g, p, tree : IdBody(g, p, tree) = ToldBody(rows, g, p, tree)
  BY <1>1 DEF IdBody, ToldBody
<1>4. \A g : Is(g) <=> Of(g)
  BY <1>3
<1>5. ToldIn(rows) = CHOOSE g : Of(g)
  BY DEF ToldIn
<1> HIDE DEF Is, Of
<1> QED BY <1>2, <1>4, <1>5

LEMMA TravelAgrees == Traverse = TravelIn(rows, maximalRDistSets)
<1> DEFINE Is(g) == g = [c \in State \X VisitCounts |-> TraverseBody(g, c[1], c[2])]
           Of(g) == g = [c \in State \X [DOMAIN maximalRDistSets -> Int] |-> TravelBody(rows, maximalRDistSets, g, c[1], c[2])]
<1>1. Traverse = CHOOSE g : Is(g)
  BY DEF Traverse, TraverseBody, Enough, Longer, Edges, Visited
<1>2. \A mv, s : Visited(mv, s) = VisitedWith(maximalRDistSets, mv, s)
  BY DEF Visited, VisitedWith
<1>3. \A g, q, mv : TraverseBody(g, q, mv) = TravelBody(rows, maximalRDistSets, g, q, mv)
  BY <1>2 DEF TraverseBody, TravelBody, Edges
<1>4. \A g : Is(g) <=> Of(g)
  BY <1>3 DEF VisitCounts
<1>5. TravelIn(rows, maximalRDistSets) = CHOOSE g : Of(g)
  BY DEF TravelIn
<1> HIDE DEF Is, Of
<1> QED BY <1>1, <1>4, <1>5

HasAgrees ==
  \A T, left : SuiteHas(T, left) <=> HasIn(rows, maximalRDistSets, dReachingSequences, T, left)

LEMMA HasAgreesHolds == HasAgrees
<1>1. dReached = DStates(dReachingSequences)
  BY DEF dReached, DStates
<1>2. \A q : TraversalSet(q) = TravelsFrom(rows, maximalRDistSets, dReachingSequences, q)
  BY <1>1, TravelAgrees DEF TraversalSet, TravelsFrom, TerminationTuples
<1>3. \A q, tr, Y : TracesIn(q, tr, Y) <=> TracesWith(dReachingSequences, q, tr, Y)
  BY <1>1 DEF TracesIn, TracesWith
<1>4. \A q, tr : Visiting(q, tr) = VisitingWith(rows, dReachingSequences, q, tr)
  BY <1>1 DEF Visiting, VisitingWith, At, DReachedBy
<1>5. \A T, a, b : Apart(T, a, b) <=> ApartIn(rows, T, a, b)
  BY ToldAgrees DEF Apart, ApartIn
<1>6. \A T, V : AllApart(T, V) <=> AllApartIn(rows, T, V)
  BY <1>5 DEF AllApart, AllApartIn
<1> SUFFICES ASSUME NEW T, NEW left
             PROVE  SuiteHas(T, left) <=> HasIn(rows, maximalRDistSets, dReachingSequences, T, left)
  BY DEF HasAgrees
<1>7. \A q, tr : AllApart(T, Visiting(q, tr))
                   <=> AllApartIn(rows, T, VisitingWith(rows, dReachingSequences, q, tr))
  BY <1>4, <1>6
<1> QED BY <1>1, <1>2, <1>3, <1>7 DEF SuiteHas, HasIn

LEMMA HasKept ==
  ASSUME rows' = rows, maximalRDistSets' = maximalRDistSets, dReachingSequences' = dReachingSequences
  PROVE  \A T, left : SuiteHas(T, left)' <=> SuiteHas(T, left)
<1>1. HasAgrees /\ HasAgrees'
  BY HasAgreesHolds, PTL
<1> QED BY <1>1 DEF HasAgrees

LEMMA FollowIs ==
  ASSUME NEW f, NEW X, NEW xs \in Seq(X)
  PROVE  GetResponses(f, xs) = FollowAll(rows, f, xs)
<1> DEFINE k == <<"follow", rows, f>>
           base == {[spec |-> 0, state |-> 0, ended |-> FALSE]}
           D == DOMAIN xs
           Op(a, b) == UNION {FollowedOn(rows, f, r, b) : r \in a}
           Is(iter) == iter = [s \in SUBSET D |-> IF s = {} THEN base
                                ELSE Op(iter[s \ {Max(s)}], xs[Max(s)])]
<1>1. GetResponses(f, xs) = (CHOOSE iter : Is(iter))[D]
  BY DEF GetResponses, FoldLeft, MapThenFoldSet, FollowedBy, FollowedOn
<1>2. \A a, b : StepOf(k, a, b) = Op(a, b)
  BY StepCases
<1> HIDE DEF Op, k, base
<1>3. \A iter : Is(iter) <=> IsFold(iter, k, base, xs)
  BY <1>2 DEF IsFold
<1> HIDE DEF Is
<1>4. (CHOOSE iter : Is(iter)) = CHOOSE iter : IsFold(iter, k, base, xs)
  BY <1>3
<1> QED BY <1>1, <1>4 DEF FoldOf, FollowAll, k, base

LEMMA PassesAgrees ==
  ASSUME NEW f, suite \in SUBSET Seq(In)
  PROVE  Passes(f) <=> PassesIn(rows, suite, f)
<1>1. \A xs \in Leaves(suite) : GetResponses(f, xs) = FollowAll(rows, f, xs)
  BY FollowIs DEF Leaves
<1> QED BY <1>1 DEF Passes, PassesIn, SameInputs

(***************************************************************************)
(* The inductive invariant of the suites generated.                        *)
(***************************************************************************)
SuiteInv ==
  /\ sPhase \in {"initial", "update", "generated", "pass", "fail"} => GraphInv /\ SetsInv
  /\ sPhase \in {"update", "generated", "pass"} => SuiteHas(suite, unextended)
  /\ sPhase \in {"generated", "pass"} => unextended = {}
  /\ sPhase = "pass" => iut \in Implementations /\ PassesIn(rows, suite, iut)

LEMMA SetsKept ==
  ASSUME SetsInv, rDistGraph' = rDistGraph, maximalRDistSets' = maximalRDistSets
  PROVE  SetsInv'
BY DEF SetsInv, IsRDSet

LEMMA SuiteKept ==
  ASSUME SuiteInv, UNCHANGED <<rows, sVars>>, sPhase = "pass" => iut' = iut
  PROVE  SuiteInv'
<1>1. /\ rows' = rows /\ rDistGraph' = rDistGraph /\ maximalRDistSets' = maximalRDistSets
      /\ dReachingSequences' = dReachingSequences /\ sPhase' = sPhase
      /\ suite' = suite /\ unextended' = unextended
  BY DEF sVars
<1>2. (GraphInv => GraphInv') /\ (SetsInv => SetsInv')
  BY <1>1, GraphKept, SetsKept
<1>3. SuiteHas(suite, unextended) => SuiteHas(suite, unextended)'
  BY <1>1, HasKept
<1> QED BY <1>1, <1>2, <1>3 DEF SuiteInv

LEMMA GenerateSuiteInv ==
  ASSUME StrongInv, SuiteInv, SCalc, rows' = rows
  PROVE  SuiteInv'
<1>1. rows \in Machines /\ dReached \subseteq State /\ \A q \in dReached : dReachingSequences[q] \in Seq(In)
  BY DEF StrongInv, SearchInv, SearchTypes, dReached
<1>2. CASE StartStrong \/ DReachingStep \/ StartGraph \/ GraphStep \/ GraphRound
  <2>1. sPhase' \in {"dreach", "graph", "sets"}
    BY <1>2 DEF StartStrong, DReachingStep, StartGraph, GraphStep, GraphRound
  <2> QED BY <2>1 DEF SuiteInv
<1>3. CASE CalcMaximalSets
  <2>1. sPhase = "sets" /\ sPhase' = "initial" /\ rDistGraph' = rDistGraph
    BY <1>3 DEF CalcMaximalSets
  <2>2. GraphInv
    BY <2>1 DEF StrongInv, GraphPhases
  <2>3. GraphInv' /\ SetsInv'
    BY <1>3, <2>1, <2>2, GraphKept, SetsCalculated
  <2> QED BY <2>1, <2>3 DEF SuiteInv
<1>4. CASE InitialTestSuite
  <2>1. /\ sPhase = "initial" /\ sPhase' = "update" /\ rDistGraph' = rDistGraph
        /\ maximalRDistSets' = maximalRDistSets /\ dReachingSequences' = dReachingSequences
    BY <1>4 DEF InitialTestSuite
  <2>2. GraphInv /\ SetsInv
    BY <2>1 DEF SuiteInv
  <2>3. GraphInv' /\ SetsInv'
    BY <2>1, <2>2, GraphKept, SetsKept
  <2>4. SuiteHas(suite', unextended')
    BY <1>1, <1>4, <2>2, FirstSuite
  <2>5. SuiteHas(suite, unextended)'
    BY <2>1, <2>4, HasKept
  <2> QED BY <2>1, <2>3, <2>5 DEF SuiteInv
<1>5. ASSUME NEW q \in State, UpdateTestSuite(q)
      PROVE  SuiteInv'
  <2>1. /\ sPhase = "update" /\ sPhase' \in {"update", "generated", "undefined"} /\ rDistGraph' = rDistGraph
        /\ sPhase' = "generated" => unextended' = {}
        /\ maximalRDistSets' = maximalRDistSets /\ dReachingSequences' = dReachingSequences
    BY <1>5 DEF UpdateTestSuite
  <2>2. GraphInv /\ SetsInv /\ SuiteHas(suite, unextended)
    BY <2>1 DEF SuiteInv
  <2>3. GraphInv' /\ SetsInv'
    BY <2>1, <2>2, GraphKept, SetsKept
  <2>4. SuiteHas(suite', unextended')
    BY <1>1, <1>5, <2>2, NextSuite
  <2>5. SuiteHas(suite, unextended)'
    BY <2>1, <2>4, HasKept
  <2> QED BY <2>1, <2>3, <2>5 DEF SuiteInv
<1> QED BY <1>2, <1>3, <1>4, <1>5 DEF SCalc

LEMMA ExecuteSuiteInv ==
  ASSUME SuiteInv, Execute, rows' = rows
  PROVE  SuiteInv'
<1>1. /\ sPhase = "generated" /\ iut' \in Implementations
      /\ sPhase' = (IF Passes(iut') THEN "pass" ELSE "fail")
      /\ rDistGraph' = rDistGraph /\ maximalRDistSets' = maximalRDistSets
      /\ dReachingSequences' = dReachingSequences /\ suite' = suite /\ unextended' = unextended
  BY DEF Execute
<1>2. GraphInv /\ SetsInv /\ SuiteHas(suite, unextended) /\ unextended = {}
  BY <1>1 DEF SuiteInv
<1>3. GraphInv' /\ SetsInv' /\ SuiteHas(suite, unextended)'
  BY <1>1, <1>2, GraphKept, SetsKept, HasKept
<1>4. suite \in SUBSET Seq(In)
  BY <1>2 DEF SuiteHas, Suites
<1>5. sPhase' = "pass" => PassesIn(rows', suite', iut')
  BY <1>1, <1>4, PassesAgrees
<1> QED BY <1>1, <1>2, <1>3, <1>5 DEF SuiteInv

StrongSuiteInv == StrongInv /\ SuiteInv

LEMMA InitStrongSuiteInv == Init => StrongSuiteInv
BY InitStrongInv DEF Init, SInit, SuiteInv, StrongSuiteInv

LEMMA StepStrongSuiteInv == StrongSuiteInv /\ [Next \/ Stop]_vars => StrongSuiteInv'
<1> SUFFICES ASSUME StrongSuiteInv, [Next \/ Stop]_vars PROVE StrongSuiteInv'
  OBVIOUS
<1>0. StrongInv /\ SuiteInv
  BY DEF StrongSuiteInv
<1>1. StrongInv'
  BY <1>0, StepStrongInv
<1>2. CASE Analyse
  <2>1. UNCHANGED <<rows, sVars>> /\ iut' = iut
    BY <1>2 DEF Analyse, RNext, CalcROneDistinguishable, CalcRLevel, StartDReach, DReachStep, EndDReach, cVars
  <2> QED BY <1>0, <1>1, <2>1, SuiteKept DEF StrongSuiteInv
<1>3. CASE Generate
  <2>1. SCalc /\ rows' = rows
    BY <1>3 DEF Generate
  <2> QED BY <1>0, <1>1, <2>1, GenerateSuiteInv DEF StrongSuiteInv
<1>4. CASE ExecuteSuite
  <2>1. Execute /\ rows' = rows
    BY <1>4 DEF ExecuteSuite
  <2> QED BY <1>0, <1>1, <2>1, ExecuteSuiteInv DEF StrongSuiteInv
<1>5. CASE Count
  <2>1. UNCHANGED <<rows, sVars>> /\ sPhase = "idle"
    BY <1>5 DEF Count, CNext, StartCounting, ApplyTraces, Expand
  <2> QED BY <1>0, <1>1, <2>1, SuiteKept DEF StrongSuiteInv
<1>6. CASE Stop \/ UNCHANGED vars
  <2>1. UNCHANGED <<rows, sVars>> /\ iut' = iut
    BY <1>6 DEF Stop, vars, cVars
  <2> QED BY <1>0, <1>1, <2>1, SuiteKept DEF StrongSuiteInv
<1> QED BY <1>2, <1>3, <1>4, <1>5, <1>6 DEF Next

(***************************************************************************)
(* An implementation with the verdict "pass", with the inputs of the       *)
(* specification at the nodes of the suite.                                *)
(***************************************************************************)
Passed ==
  /\ rows \in Machines /\ GraphInv /\ SetsInv /\ SuiteHas(suite, {})
  /\ m \in Nat /\ \E k \in 1 .. m : iut \in OnStates(k)
  /\ PassesIn(rows, suite, iut) /\ SameInputsAtNodes

LEMMA PassedTypes ==
  ASSUME Passed
  PROVE  rows \in Machines /\ IutTyped /\ suite \in Suites /\ suite \in SUBSET Seq(In)
BY DEF Passed, SuiteHas, Suites, IutTyped

LEMMA IutAfter ==
  ASSUME IutTyped, NEW u \in Seq(IO)
  PROVE  /\ After(iut, 0, u) \in Nat \/ After(iut, 0, u) = -1
         /\ After(iut, 0, u) >= 0 => After(iut, 0, u) \in Nat
         /\ \A l \in IO : After(iut, 0, u) >= 0 =>
              iut[After(iut, 0, u)][l] \in Nat \/ iut[After(iut, 0, u)][l] = -1
<1>1. PICK k \in Nat \ {0} : iut \in OnStates(k)
  BY DEF IutTyped
<1>2. 0 \in 0 .. k - 1
  OBVIOUS
<1>3. After(iut, 0, u) \in -1 .. k - 1
  BY <1>1, <1>2, TraceTyped
<1>4. \A s \in 0 .. k - 1, l \in IO : iut[s][l] \in -1 .. k - 1
  BY <1>1 DEF OnStates
<1> QED BY <1>3, <1>4

LEMMA FollowAppend ==
  ASSUME NEW f, NEW xs \in Seq(In), NEW x \in In
  PROVE  FollowAll(rows, f, Append(xs, x)) = UNION {FollowedOn(rows, f, r, x) : r \in FollowAll(rows, f, xs)}
<1> DEFINE k == <<"follow", rows, f>>
           base == {[spec |-> 0, state |-> 0, ended |-> FALSE]}
<1>1. \A a : StepOf(k, a, x) = UNION {FollowedOn(rows, f, r, x) : r \in a}
  BY StepCases
<1> HIDE DEF k
<1>2. FoldOf(k, base, Append(xs, x)) = StepOf(k, FoldOf(k, base, xs), x)
  BY FoldOfAppend
<1> QED BY <1>1, <1>2 DEF FollowAll, k

(* a response of the implementation that has not ended *)
Response(w) == [spec |-> After(rows, 0, w), state |-> After(iut, 0, w), ended |-> FALSE]

LEMMA ResponseSeen ==
  ASSUME rows \in Machines, IutTyped, NEW w \in Seq(IO), After(iut, 0, w) >= 0
  PROVE  Response(w) \in FollowAll(rows, iut, Inputs(w))
<1> DEFINE A == {u \in Seq(IO) : After(iut, 0, u) >= 0 => Response(u) \in FollowAll(rows, iut, Inputs(u))}
           base == {[spec |-> 0, state |-> 0, ended |-> FALSE]}
<1>1. << >> \in A
  <2>1. << >> \in Seq(IO) /\ Inputs(<< >>) = << >> /\ After(rows, 0, << >>) = 0 /\ After(iut, 0, << >>) = 0
    BY InputsEmpty, AfterEmpty
  <2>2. FollowAll(rows, iut, << >>) = base
    BY FoldOfEmpty DEF FollowAll
  <2> QED BY <2>1, <2>2 DEF Response
<1>2. ASSUME NEW u \in Seq(IO), NEW l \in IO, u \in A PROVE Append(u, l) \in A
  <2> DEFINE w2 == Append(u, l)
             i == After(iut, 0, u)
             s == After(rows, 0, u)
  <2>1. w2 \in Seq(IO) /\ Inputs(w2) = Append(Inputs(u), l[1]) /\ l[1] \in In /\ l[2] \in Out /\ l = <<l[1], l[2]>>
        /\ Inputs(u) \in Seq(In)
    BY InputsAppend, InputsTyped DEF IO
  <2>2. After(iut, 0, w2) = (IF i < 0 THEN -1 ELSE iut[i][l])
    BY AfterAppend
  <2>3. After(rows, 0, w2) = (IF s < 0 THEN -1 ELSE rows[s][l])
    BY AfterAppend
  <2>4. i \in Nat \/ i = -1
    BY IutAfter
  <2> SUFFICES ASSUME After(iut, 0, w2) >= 0 PROVE Response(w2) \in FollowAll(rows, iut, Inputs(w2))
    BY <2>1
  <2>5. i >= 0 /\ ~(i < 0) /\ iut[i][l] >= 0
    <3>1. i # -1
      BY <2>2
    <3> QED BY <2>2, <2>4, <3>1
  <2>6. Response(u) \in FollowAll(rows, iut, Inputs(u))
    BY <1>2, <2>5
  <2>7. FollowAll(rows, iut, Inputs(w2)) = UNION {FollowedOn(rows, iut, r, l[1]) : r \in FollowAll(rows, iut, Inputs(u))}
    <3>1. Inputs(u) \in Seq(In) /\ l[1] \in In
      BY <2>1
    <3>2. FollowAll(rows, iut, Append(Inputs(u), l[1]))
            = UNION {FollowedOn(rows, iut, r, l[1]) : r \in FollowAll(rows, iut, Inputs(u))}
      <4> DEFINE xs == Inputs(u)
                 x == l[1]
      <4> HIDE DEF xs, x
      <4>1. FollowAll(rows, iut, Append(xs, x)) = UNION {FollowedOn(rows, iut, r, x) : r \in FollowAll(rows, iut, xs)}
        <5>1. xs \in Seq(In) /\ x \in In
          BY <3>1 DEF xs, x
        <5> QED BY <5>1, FollowAppend
      <4> QED BY <4>1 DEF xs, x
    <3> QED BY <2>1, <3>2
  <2>8. Response(w2) \in FollowedOn(rows, iut, Response(u), l[1])
    <3> DEFINE r == Response(u)
    <3>1. r.spec = s /\ r.state = i /\ r.ended = FALSE
      BY DEF Response
    <3>2. l[2] \in PossibleOutputs(iut, i, l[1])
      BY <2>1, <2>5 DEF PossibleOutputs
    <3>3. Response(w2) = [spec |-> IF s < 0 THEN -1 ELSE rows[s][<<l[1], l[2]>>],
                          state |-> iut[i][<<l[1], l[2]>>], ended |-> FALSE]
      BY <2>1, <2>2, <2>3, <2>5 DEF Response
    <3> HIDE DEF r, i, s, w2
    <3>4. Response(w2) \in FollowedOn(rows, iut, r, l[1])
      BY <3>1, <3>2, <3>3 DEF FollowedOn
    <3> QED BY <3>4 DEF r, w2
  <2> QED BY <2>6, <2>7, <2>8
<1> HIDE DEF A
<1>3. w \in A
  BY <1>1, <1>2, SeqInduction
<1> QED BY <1>3 DEF A

(* a response that is no trace of the specification *)
Lost(e) == "spec" \in DOMAIN e /\ e.spec = -1

LEMMA LostStays ==
  ASSUME NEW f, NEW e, Lost(e), NEW x
  PROVE  \E r \in FollowedOn(rows, f, e, x) : Lost(r)
<1>1. e.spec = -1 /\ e.spec < 0 /\ "spec" \in DOMAIN e
  BY DEF Lost
<1> DEFINE ys == PossibleOutputs(f, e.state, x)
<1>3. CASE e.ended \/ ys = {}
  <2>1. FollowedOn(rows, f, e, x) = {[e EXCEPT !.ended = TRUE]}
    BY <1>3 DEF FollowedOn
  <2>2. Lost([e EXCEPT !.ended = TRUE])
    BY <1>1 DEF Lost
  <2> QED BY <2>1, <2>2
<1>4. CASE ~(e.ended \/ ys = {})
  <2>1. PICK y \in ys : TRUE
    BY <1>4
  <2> DEFINE r == [spec |-> -1, state |-> f[e.state][<<x, y>>], ended |-> FALSE]
  <2>2. r \in FollowedOn(rows, f, e, x)
    BY <1>1, <1>4, <2>1 DEF FollowedOn
  <2>3. Lost(r)
    BY DEF Lost
  <2> QED BY <2>2, <2>3
<1> QED BY <1>3, <1>4

(* No test of the suite has such a response: it would be seen at a leaf. *)
LEMMA NoneLost ==
  ASSUME suite \in Suites, NEW f, PassesIn(rows, suite, f)
  PROVE  \A xs \in suite : \A e \in FollowAll(rows, f, xs) : ~Lost(e)
<1>1. PICK n \in Nat : NoLonger(suite, n)
  BY DEF Suites, Limited
<1> DEFINE A == {k \in Nat : \A xs \in suite : Len(xs) + k >= n => \A e \in FollowAll(rows, f, xs) : ~Lost(e)}
<1>2. \A xs \in suite : xs \in Seq(In) /\ Len(xs) \in Nat /\ Len(xs) <= n
  BY <1>1 DEF Suites, NoLonger
<1>3. ASSUME NEW xs \in suite, \A x \in In : Append(xs, x) \notin suite, NEW e \in FollowAll(rows, f, xs)
      PROVE  ~Lost(e)
  <2>1. xs \in Leaves(suite)
    BY <1>3 DEF Leaves
  <2>2. e.spec >= 0
    BY <2>1 DEF PassesIn
  <2>3. Lost(e) => e.spec = -1
    BY DEF Lost
  <2> QED BY <2>2, <2>3
<1>4. 0 \in A
  <2> SUFFICES ASSUME NEW xs \in suite, Len(xs) + 0 >= n, NEW e \in FollowAll(rows, f, xs) PROVE ~Lost(e)
    OBVIOUS
  <2>1. \A x \in In : Append(xs, x) \notin suite
    <3> SUFFICES ASSUME NEW x \in In, Append(xs, x) \in suite PROVE FALSE
      OBVIOUS
    <3>1. Len(Append(xs, x)) = Len(xs) + 1 /\ Len(xs) \in Nat
      BY <1>2
    <3>2. Len(Append(xs, x)) <= n
      BY <1>2
    <3> QED BY <3>1, <3>2
  <2> QED BY <1>3, <2>1
<1>5. ASSUME NEW k \in Nat, k \in A PROVE k + 1 \in A
  <2> SUFFICES ASSUME NEW xs \in suite, Len(xs) + (k + 1) >= n, NEW e \in FollowAll(rows, f, xs) PROVE ~Lost(e)
    OBVIOUS
  <2>1. CASE \A x \in In : Append(xs, x) \notin suite
    BY <1>3, <2>1
  <2>2. ASSUME NEW x \in In, Append(xs, x) \in suite, Lost(e) PROVE FALSE
    <3>1. PICK r \in FollowedOn(rows, f, e, x) : Lost(r)
      BY <2>2, LostStays
    <3>2. FollowAll(rows, f, Append(xs, x)) = UNION {FollowedOn(rows, f, a, x) : a \in FollowAll(rows, f, xs)}
      BY <1>2, FollowAppend
    <3>3. r \in FollowAll(rows, f, Append(xs, x))
      BY <3>2
    <3>4. Len(Append(xs, x)) + k >= n
      BY <1>2
    <3> QED BY <1>5, <2>2, <3>1, <3>3, <3>4
  <2> QED BY <2>1, <2>2
<1> HIDE DEF A
<1>6. n \in A
  BY <1>4, <1>5, SetInduction
<1>7. \A xs \in suite : Len(xs) + n >= n
  BY <1>2
<1> QED BY <1>6, <1>7 DEF A

(* Where a test of the suite leads the implementation, there the           *)
(* specification is in a state with the same inputs.                       *)
LEMMA NodeFacts ==
  ASSUME Passed, NEW w \in Seq(IO), Inputs(w) \in suite, After(iut, 0, w) >= 0
  PROVE  /\ Shared(w) /\ After(rows, 0, w) \in State
         /\ DefinedInputs(rows, After(rows, 0, w)) = DefinedInputs(iut, After(iut, 0, w))
<1>1. rows \in Machines /\ IutTyped /\ suite \in Suites /\ suite \in SUBSET Seq(In)
  BY PassedTypes
<1>2. Response(w) \in FollowAll(rows, iut, Inputs(w))
  BY <1>1, ResponseSeen
<1>3. ~Lost(Response(w))
  BY <1>1, <1>2, NoneLost DEF Passed
<1>4. After(rows, 0, w) # -1
  BY <1>3 DEF Lost, Response
<1>5. After(rows, 0, w) \in State /\ After(rows, 0, w) >= 0
  BY <1>1, <1>4, AfterTyped, SizeFacts
<1>6. Response(w) \in GetResponses(iut, Inputs(w))
  BY <1>1, <1>2, FollowIs
<1>7. Response(w).spec = After(rows, 0, w) /\ Response(w).state = After(iut, 0, w)
  BY DEF Response
<1>8. SameInputs(iut, Response(w))
  BY <1>5, <1>6, <1>7 DEF Passed, SameInputsAtNodes
<1> QED BY <1>5, <1>7, <1>8 DEF Shared, SameInputs

LEMMA PartInSuite ==
  ASSUME NEW T \in Suites, NEW u \in Seq(In)
  PROVE  \A v \in Seq(In) : u \o v \in T => u \in T
<1> DEFINE A == {v \in Seq(In) : u \o v \in T => u \in T}
<1>1. << >> \in A
  <2>1. << >> \in Seq(In) /\ u \o << >> = u
    OBVIOUS
  <2> QED BY <2>1
<1>2. ASSUME NEW v \in Seq(In), NEW x \in In, v \in A PROVE Append(v, x) \in A
  <2>1. u \o Append(v, x) = Append(u \o v, x) /\ u \o v \in Seq(In)
    BY ConcatAppend
  <2>2. Append(u \o v, x) \in T => u \o v \in T
    BY <2>1 DEF Suites, PrefixesIn
  <2>3. Append(v, x) \in Seq(In)
    OBVIOUS
  <2> QED BY <1>2, <2>1, <2>2, <2>3
<1> HIDE DEF A
<1>3. Seq(In) \subseteq A
  BY <1>1, <1>2, SeqInduction
<1> QED BY <1>3 DEF A

LEMMA EarlierInput ==
  ASSUME NEW u \in Seq(In), NEW x \in In, NEW z \in Seq(In)
  PROVE  <<x>> \o z \in Seq(In) /\ u \o (<<x>> \o z) = Append(u, x) \o z
<1>1. <<x>> \in Seq(In) /\ <<x>> \o z \in Seq(In) /\ Append(u, x) \in Seq(In)
  OBVIOUS
<1>2. u \o (<<x>> \o z) = Append(u, x) \o z
  BY <1>1
<1> QED BY <1>1, <1>2

(* One input further: the answer is one of the specification's, too. *)
LEMMA NextNode ==
  ASSUME Passed, NEW w \in Seq(IO), Inputs(w) \in suite, After(iut, 0, w) >= 0,
         NEW l \in IO, Append(Inputs(w), l[1]) \in suite, iut[After(iut, 0, w)][l] >= 0
  PROVE  /\ Append(w, l) \in Seq(IO) /\ Inputs(Append(w, l)) = Append(Inputs(w), l[1])
         /\ Shared(Append(w, l)) /\ Shared(w)
         /\ After(rows, 0, Append(w, l)) = rows[After(rows, 0, w)][l] /\ rows[After(rows, 0, w)][l] >= 0
         /\ After(iut, 0, Append(w, l)) = iut[After(iut, 0, w)][l]
<1>1. rows \in Machines /\ IutTyped
  BY PassedTypes
<1>2. Append(w, l) \in Seq(IO) /\ Inputs(Append(w, l)) = Append(Inputs(w), l[1])
  BY InputsAppend
<1>3. Shared(w)
  BY NodeFacts
<1>4. After(iut, 0, w) \in Nat /\ ~(After(iut, 0, w) < 0)
  BY <1>1, IutAfter
<1>5. After(iut, 0, Append(w, l)) = iut[After(iut, 0, w)][l]
  BY <1>4, AfterAppend
<1>6. Shared(Append(w, l))
  BY <1>2, <1>5, NodeFacts
<1>7. /\ PairAfter(Append(w, l)) = <<rows[After(rows, 0, w)][l], iut[After(iut, 0, w)][l]>>
      /\ rows[After(rows, 0, w)][l] >= 0
  BY <1>1, <1>3, <1>6, SharedAppend
<1>8. After(rows, 0, Append(w, l)) = rows[After(rows, 0, w)][l]
  BY <1>7 DEF PairAfter
<1> QED BY <1>2, <1>3, <1>5, <1>6, <1>7, <1>8

(* Two tests that lead the implementation to the same state cannot have in *)
(* common what tells the states of the specification apart.                *)
LEMMA ToldNotSame ==
  ASSUME Passed, NEW n \in Nat
  PROVE  \A a, b \in Seq(IO) :
           /\ Inputs(a) \in suite /\ Inputs(b) \in suite
           /\ After(iut, 0, a) >= 0 /\ After(iut, 0, a) = After(iut, 0, b)
           /\ NoLonger(SharedExtensions(suite, Inputs(a), Inputs(b)), n)
           => ~idRDistinguishedBy[<<<<After(rows, 0, a), After(rows, 0, b)>>,
                                    SharedExtensions(suite, Inputs(a), Inputs(b))>>]
<1> DEFINE tree(a, b) == SharedExtensions(suite, Inputs(a), Inputs(b))
           pair(a, b) == <<After(rows, 0, a), After(rows, 0, b)>>
           Same(a, b) == /\ Inputs(a) \in suite /\ Inputs(b) \in suite
                         /\ After(iut, 0, a) >= 0 /\ After(iut, 0, a) = After(iut, 0, b)
           A == {k \in Nat : \A a, b \in Seq(IO) : Same(a, b) /\ NoLonger(tree(a, b), k)
                                => ~idRDistinguishedBy[<<pair(a, b), tree(a, b)>>]}
<1>1. rows \in Machines /\ IutTyped /\ suite \in Suites /\ suite \in SUBSET Seq(In)
  BY PassedTypes
<1>2. ASSUME NEW a \in Seq(IO), NEW b \in Seq(IO), Same(a, b), idRDistinguishedBy[<<pair(a, b), tree(a, b)>>]
      PROVE  \E x \in In : \E c, d \in Seq(IO) :
               /\ x \in RootInputs(tree(a, b)) /\ Same(c, d)
               /\ tree(c, d) = After1(tree(a, b), x) /\ idRDistinguishedBy[<<pair(c, d), tree(c, d)>>]
  <2> DEFINE T == tree(a, b)
             s1 == After(rows, 0, a)
             s2 == After(rows, 0, b)
             i == After(iut, 0, a)
  <2>1. /\ Inputs(a) \in Seq(In) /\ Inputs(b) \in Seq(In)
        /\ T = {w \in Seq(In) : Inputs(a) \o w \in suite /\ Inputs(b) \o w \in suite} /\ T \in SUBSET Seq(In)
    BY <1>1, InputsTyped, SharedAre
  <2>2. /\ s1 \in State /\ s2 \in State /\ After(iut, 0, b) = i
        /\ DefinedInputs(rows, s1) = DefinedInputs(iut, i) /\ DefinedInputs(rows, s2) = DefinedInputs(iut, i)
    BY <1>2, NodeFacts
  <2> HIDE DEF T
  <2>3. IdBody(idRDistinguishedBy, <<s1, s2>>, T)
    <3>1. <<s1, s2>> \in State \X State
      BY <2>2
    <3>2. idRDistinguishedBy[<<<<s1, s2>>, T>>] = IdBody(idRDistinguishedBy, <<s1, s2>>, T)
      BY <1>1, <2>1, <3>1, IdRDistinguishedIs
    <3> QED BY <1>2, <3>2 DEF T
  <2>4. PICK x \in RootInputs(T) \cap DefinedInputs(rows, s1) :
          \A r \in Targets(<<s1, s2>>, x) : idRDistinguishedBy[<<r, After1(T, x)>>]
    BY <2>2, <2>3 DEF IdBody
  <2>5. x \in In /\ \E w \in T : w \in Seq(In) /\ w # << >> /\ w[1] = x
    BY <2>1, <2>4, RootIs
  <2>6. PICK w \in T : w \in Seq(In) /\ w # << >> /\ w[1] = x
    BY <2>5
  <2>7. Tail(w) \in Seq(In) /\ w = <<x>> \o Tail(w)
    BY <2>6
  <2>8. \A z \in Seq(In) : z \o w \in suite => Append(z, x) \in suite
    <3> SUFFICES ASSUME NEW z \in Seq(In), z \o w \in suite PROVE Append(z, x) \in suite
      OBVIOUS
    <3>1. Append(z, x) \in Seq(In) /\ Append(z, x) \o Tail(w) = z \o w
      BY <2>5, <2>7
    <3> QED BY <1>1, <2>7, <3>1, PartInSuite
  <2>9. Append(Inputs(a), x) \in suite /\ Append(Inputs(b), x) \in suite
    BY <2>1, <2>6, <2>8
  <2>10. PICK y \in Out : iut[i][<<x, y>>] >= 0
    BY <2>2, <2>4 DEF DefinedInputs, PossibleOutputs
  <2> DEFINE l == <<x, y>>
             c == Append(a, l)
             d == Append(b, l)
  <2>11. l \in IO /\ l[1] = x
    BY <2>5 DEF IO
  <2> HIDE DEF l
  <2>12. /\ c \in Seq(IO) /\ Inputs(c) = Append(Inputs(a), x) /\ Shared(c)
         /\ After(rows, 0, c) = rows[s1][l] /\ rows[s1][l] >= 0 /\ After(iut, 0, c) = iut[i][l]
    BY <1>2, <2>9, <2>10, <2>11, NextNode DEF l
  <2>13. /\ d \in Seq(IO) /\ Inputs(d) = Append(Inputs(b), x) /\ Shared(d)
         /\ After(rows, 0, d) = rows[s2][l] /\ rows[s2][l] >= 0 /\ After(iut, 0, d) = iut[i][l]
    <3>1. After(iut, 0, b) = i /\ After(iut, 0, b) >= 0 /\ Inputs(b) \in suite
      BY <1>2
    <3>2. iut[After(iut, 0, b)][l] >= 0 /\ Append(Inputs(b), l[1]) \in suite
      BY <2>9, <2>10, <2>11, <3>1 DEF l
    <3> HIDE DEF i
    <3> QED BY <2>11, <3>1, <3>2, NextNode
  <2> HIDE DEF c, d
  <2>14. Same(c, d)
    BY <2>9, <2>12, <2>13 DEF Shared
  <2>15. pair(c, d) \in Targets(<<s1, s2>>, x)
    <3>1. y \in OutputIntersection(s1, s2, x)
      BY <2>12, <2>13 DEF OutputIntersection, PossibleOutputs, l
    <3>2. pair(c, d) = <<rows[s1][<<x, y>>], rows[s2][<<x, y>>]>>
      BY <2>12, <2>13 DEF l
    <3> QED BY <3>1, <3>2 DEF Targets
  <2>16. tree(c, d) = After1(T, x)
    <3>1. \A z : z \in tree(c, d) <=> z \in Seq(In) /\ Append(Inputs(a), x) \o z \in suite
                                                  /\ Append(Inputs(b), x) \o z \in suite
      <4>1. Append(Inputs(a), x) \in Seq(In) /\ Append(Inputs(b), x) \in Seq(In)
        BY <2>1, <2>5
      <4>2. tree(c, d) = {z \in Seq(In) : Append(Inputs(a), x) \o z \in suite /\ Append(Inputs(b), x) \o z \in suite}
        <5> DEFINE za == Append(Inputs(a), x)
                   zb == Append(Inputs(b), x)
        <5>1. tree(c, d) = SharedExtensions(suite, za, zb)
          BY <2>12, <2>13
        <5>2. za \in Seq(In) /\ zb \in Seq(In)
          BY <4>1
        <5> HIDE DEF za, zb, tree
        <5>3. tree(c, d) = {z \in Seq(In) : za \o z \in suite /\ zb \o z \in suite}
          BY <1>1, <5>1, <5>2, SharedAre
        <5> QED BY <5>3 DEF za, zb
      <4> QED BY <4>2
    <3>2. \A z : z \in After1(T, x) <=> z \in Seq(In) /\ <<x>> \o z \in T
      BY <2>1, <2>5, After1Is
    <3>3. \A z \in Seq(In) : /\ <<x>> \o z \in Seq(In)
                             /\ Inputs(a) \o (<<x>> \o z) = Append(Inputs(a), x) \o z
                             /\ Inputs(b) \o (<<x>> \o z) = Append(Inputs(b), x) \o z
      BY <2>1, <2>5, EarlierInput
    <3>4. \A z : z \in After1(T, x) <=> z \in tree(c, d)
      BY <2>1, <3>1, <3>2, <3>3
    <3> QED BY <3>4
  <2> QED BY <2>4, <2>5, <2>12, <2>13, <2>14, <2>15, <2>16 DEF T
<1>3. ASSUME NEW a \in Seq(IO), NEW b \in Seq(IO)
      PROVE  tree(a, b) \in SUBSET Seq(In)
  BY <1>1, InputsTyped, SharedAre
<1>9. \A a, b \in Seq(IO) : Same(a, b) /\ NoLonger(tree(a, b), n) => ~idRDistinguishedBy[<<pair(a, b), tree(a, b)>>]
  <2> HIDE DEF tree, pair, Same
  <2>1. 0 \in A
    <3> SUFFICES ASSUME NEW a \in Seq(IO), NEW b \in Seq(IO), Same(a, b), NoLonger(tree(a, b), 0),
                        idRDistinguishedBy[<<pair(a, b), tree(a, b)>>]
                 PROVE  FALSE
      OBVIOUS
    <3>1. PICK x \in In : x \in RootInputs(tree(a, b))
      BY <1>2
    <3>2. PICK w \in tree(a, b) : w \in Seq(In) /\ Len(w) >= 1
      BY <1>3, <3>1, RootIs
    <3> QED BY <3>2 DEF NoLonger
  <2>2. ASSUME NEW k \in Nat, k \in A PROVE k + 1 \in A
    <3> SUFFICES ASSUME NEW a \in Seq(IO), NEW b \in Seq(IO), Same(a, b), NoLonger(tree(a, b), k + 1),
                        idRDistinguishedBy[<<pair(a, b), tree(a, b)>>]
                 PROVE  FALSE
      OBVIOUS
    <3>0. PICK x \in In : \E c, d \in Seq(IO) :
             /\ Same(c, d) /\ tree(c, d) = After1(tree(a, b), x) /\ idRDistinguishedBy[<<pair(c, d), tree(c, d)>>]
      <4>1. \E x \in In : \E c, d \in Seq(IO) :
              /\ x \in RootInputs(tree(a, b)) /\ Same(c, d)
              /\ tree(c, d) = After1(tree(a, b), x) /\ idRDistinguishedBy[<<pair(c, d), tree(c, d)>>]
        BY <1>2
      <4> QED BY <4>1
    <3>1. PICK c \in Seq(IO), d \in Seq(IO) :
             /\ Same(c, d) /\ tree(c, d) = After1(tree(a, b), x) /\ idRDistinguishedBy[<<pair(c, d), tree(c, d)>>]
      BY <3>0
    <3>2. NoLonger(tree(c, d), k)
      BY <1>3, <3>1, After1Shorter
    <3> QED BY <2>2, <3>1, <3>2
  <2> HIDE DEF A
  <2>3. n \in A
    BY <2>1, <2>2, SetInduction
  <2> QED BY <2>3 DEF A
<1> QED BY <1>9

(* what the search for d-reaching sequences has found *)
Found ==
  /\ \A q \in dReached : q \in State /\ dReachingSequences[q] \in Seq(In) /\ SubOf(dReachingSequences[q]) = {q}
  /\ 0 \in dReached /\ dReachingSequences[0] = << >>

LEMMA SearchFinds ==
  ASSUME SearchInv, sPhase \notin {"idle", "dreach"}
  PROVE  Found
<1>1. SearchTypes /\ ShortestRecorded
  BY DEF SearchInv
<1>2. ASSUME NEW q \in dReached
      PROVE  q \in State /\ dReachingSequences[q] \in Seq(In) /\ SubOf(dReachingSequences[q]) = {q}
  BY <1>1 DEF dReached, SearchTypes, ShortestRecorded
<1>3. << >> \in Seq(In) /\ SubOf(<< >>) = {0} /\ 0 \in State /\ Len(<< >>) = 0
  BY SubEmpty, SizeFacts
<1>4. {0} \in drBlack
  BY <1>3, SearchVisitsAll
<1>5. dReachingSequences[0] # NoTrace /\ Len(dReachingSequences[0]) <= 0
  BY <1>1, <1>3, <1>4 DEF ShortestRecorded
<1>6. 0 \in dReached
  BY <1>3, <1>5 DEF dReached
<1>7. dReachingSequences[0] = << >>
  BY <1>2, <1>5, <1>6
<1> QED BY <1>2, <1>6, <1>7 DEF Found

(* A trace that both machines have, along a d-reaching sequence *)
StartsAt(q, v) ==
  /\ q \in dReached /\ v \in Seq(IO) /\ Inputs(v) = dReachingSequences[q]
  /\ Shared(v) /\ After(rows, 0, v) = q

LEMMA EveryStart ==
  ASSUME Passed, Found, NEW r \in dReached
  PROVE  \E v : StartsAt(r, v)
<1> DEFINE d == dReachingSequences[r]
           A == {u \in Seq(In) : Sink \notin SubOf(u) /\ u \in suite => \E v \in Seq(IO) : Inputs(v) = u /\ Shared(v)}
<1>1. rows \in Machines /\ IutTyped /\ suite \in Suites /\ suite \in SUBSET Seq(In)
  BY PassedTypes
<1>2. << >> \in A
  <2>1. << >> \in Seq(IO) /\ << >> \in Seq(In) /\ Inputs(<< >>) = << >>
        /\ After(rows, 0, << >>) = 0 /\ After(iut, 0, << >>) = 0
    BY InputsEmpty, AfterEmpty
  <2> DEFINE e == << >>
  <2> HIDE DEF e
  <2>2. e \in Seq(IO) /\ e \in Seq(In) /\ Inputs(e) = e /\ Shared(e)
    BY <2>1 DEF Shared, e
  <2>3. e \in A
    BY <2>2
  <2> QED BY <2>3 DEF e
<1>3. ASSUME NEW u \in Seq(In), NEW x \in In, u \in A PROVE Append(u, x) \in A
  <2>0. Append(u, x) \in Seq(In)
    OBVIOUS
  <2> SUFFICES ASSUME Sink \notin SubOf(Append(u, x)), Append(u, x) \in suite
               PROVE  \E v \in Seq(IO) : Inputs(v) = Append(u, x) /\ Shared(v)
    BY <2>0
  <2>1. \A q \in SubOf(u) : q # Sink /\ Successors(q, x) # {}
    BY SubAppend DEF SubsetAfter
  <2>2. u \in suite
    BY <1>1 DEF Suites, PrefixesIn
  <2>3. PICK v \in Seq(IO) : Inputs(v) = u /\ Shared(v)
    BY <1>3, <2>1, <2>2
  <2> DEFINE s == After(rows, 0, v)
             i == After(iut, 0, v)
  <2>4. Successors(s, x) # {}
    <3>1. s \in Reached(rows, u)
      BY <1>1, <2>3, TraceReaches DEF Shared
    <3>2. Reached(rows, u) = SubOf(u)
      BY <1>1, <2>1, SubReached
    <3> QED BY <2>1, <3>1, <3>2
  <2>5. x \in DefinedInputs(rows, s)
    BY <2>4 DEF Successors, DefinedInputs
  <2>6. i >= 0 /\ DefinedInputs(rows, s) = DefinedInputs(iut, i)
    BY <2>2, <2>3, NodeFacts DEF Shared
  <2>7. PICK y \in Out : iut[i][<<x, y>>] >= 0
    BY <2>5, <2>6 DEF DefinedInputs, PossibleOutputs
  <2> DEFINE l == <<x, y>>
  <2>8. l \in IO /\ l[1] = x /\ iut[i][l] >= 0
    BY <2>7 DEF IO
  <2> HIDE DEF l
  <2>9. Append(v, l) \in Seq(IO) /\ Inputs(Append(v, l)) = Append(u, x) /\ Shared(Append(v, l))
    BY <2>2, <2>3, <2>6, <2>8, NextNode
  <2> QED BY <2>9
<1>4. d \in Seq(In) /\ SubOf(d) = {r} /\ r \in State /\ d \in suite
  BY DEF Found, Passed, SuiteHas
<1>5. Sink \notin SubOf(d)
  BY <1>4, SizeFacts DEF Sink
<1>6. d \in A
  <2> HIDE DEF A, d
  <2> QED BY <1>2, <1>3, <1>4, SeqInduction
<1>7. PICK v \in Seq(IO) : Inputs(v) = d /\ Shared(v)
  BY <1>4, <1>5, <1>6
<1>8. After(rows, 0, v) = r
  <2>1. After(rows, 0, v) \in Reached(rows, d)
    BY <1>1, <1>7, TraceReaches DEF Shared
  <2>2. Reached(rows, d) = SubOf(d)
    BY <1>1, <1>4, <1>5, SubReached
  <2> QED BY <1>4, <2>1, <2>2
<1> QED BY <1>7, <1>8 DEF StartsAt

(* Traces that were told apart lead the implementation to different states *)
(* or the specification to the same one.                                   *)
LEMMA ApartMeans ==
  ASSUME Passed, NEW a \in Seq(IO), NEW b \in Seq(IO),
         Inputs(a) \in suite, Inputs(b) \in suite,
         After(iut, 0, a) >= 0, After(iut, 0, a) = After(iut, 0, b),
         Apart(suite, <<Inputs(a), After(rows, 0, a)>>, <<Inputs(b), After(rows, 0, b)>>)
  PROVE  After(rows, 0, a) = After(rows, 0, b)
<1> DEFINE T == SharedExtensions(suite, Inputs(a), Inputs(b))
<1>1. suite \in Suites /\ suite \in SUBSET Seq(In) /\ Inputs(a) \in Seq(In) /\ Inputs(b) \in Seq(In)
  BY PassedTypes, InputsTyped
<1>2. PICK n \in Nat : NoLonger(suite, n)
  BY <1>1 DEF Suites, Limited
<1>3. NoLonger(T, n)
  <2> SUFFICES ASSUME NEW w \in T PROVE Len(w) <= n
    BY DEF NoLonger
  <2>1. w \in Seq(In) /\ Inputs(a) \o w \in suite
    BY <1>1, SharedAre
  <2>2. Len(Inputs(a) \o w) <= n /\ Len(Inputs(a) \o w) = Len(Inputs(a)) + Len(w)
        /\ Len(Inputs(a)) \in Nat /\ Len(w) \in Nat
    <3>1. Inputs(a) \in Seq(In) /\ Len(Inputs(a)) \in Nat /\ Len(w) \in Nat
      BY <1>1, <2>1
    <3>2. Len(Inputs(a) \o w) = Len(Inputs(a)) + Len(w)
      BY <2>1, <3>1
    <3>3. Len(Inputs(a) \o w) <= n
      BY <1>2, <2>1 DEF NoLonger
    <3> QED BY <3>1, <3>2, <3>3
  <2> QED BY <2>2
<1>4. ~idRDistinguishedBy[<<<<After(rows, 0, a), After(rows, 0, b)>>, T>>]
  BY <1>3, ToldNotSame
<1> QED BY <1>4 DEF Apart

LEMMA ApartVisits ==
  ASSUME Passed, NEW V, AllApart(suite, V), NEW a \in Seq(IO), NEW b \in Seq(IO),
         Inputs(a) \in suite, Inputs(b) \in suite,
         After(iut, 0, a) >= 0, After(iut, 0, a) = After(iut, 0, b),
         <<Inputs(a), After(rows, 0, a)>> \in V, <<Inputs(b), After(rows, 0, b)>> \in V
  PROVE  After(rows, 0, a) = After(rows, 0, b)
<1> DEFINE p == <<Inputs(a), After(rows, 0, a)>>
           q == <<Inputs(b), After(rows, 0, b)>>
<1>1. p = q \/ Apart(suite, p, q) \/ Apart(suite, q, p)
  BY DEF AllApart
<1>2. CASE p = q
  BY <1>2
<1>3. CASE Apart(suite, p, q)
  BY <1>3, ApartMeans
<1>4. CASE Apart(suite, q, p)
  <2>1. After(iut, 0, b) >= 0
    OBVIOUS
  <2> QED BY <1>4, <2>1, ApartMeans
<1> QED BY <1>1, <1>2, <1>3, <1>4

(* a trace after which the implementation is wrong *)
Fault(w) ==
  /\ w \in Seq(IO) /\ Shared(w)
  /\ \/ DefinedInputs(iut, After(iut, 0, w)) # DefinedInputs(rows, After(rows, 0, w))
     \/ \E l \in IO : iut[After(iut, 0, w)][l] >= 0 /\ ~(rows[After(rows, 0, w)][l] >= 0)

LEMMA FaultExists ==
  ASSUME rows \in Machines, IutTyped, ~IsStrongSemiReduction
  PROVE  \E w : Fault(w)
<1>1. PICK s \in ReachedPairs(iut) :
        \/ DefinedInputs(iut, s[2]) # DefinedInputs(rows, s[1])
        \/ \E l \in IO : iut[s[2]][l] >= 0 /\ ~(rows[s[1]][l] >= 0)
  BY DEF IsStrongSemiReduction
<1>2. PICK u \in Seq(IO) : Shared(u) /\ s = PairAfter(u)
  BY ReachedPairsAre
<1>3. s[1] = After(rows, 0, u) /\ s[2] = After(iut, 0, u)
  BY <1>2 DEF PairAfter
<1> QED BY <1>1, <1>2, <1>3 DEF Fault

LEMMA SwapFault ==
  ASSUME rows \in Machines, IutTyped, NEW a \in Seq(IO), NEW b \in Seq(IO), NEW z \in Seq(IO),
         Shared(a), After(rows, 0, a) = After(rows, 0, b), After(iut, 0, a) = After(iut, 0, b),
         Fault(b \o z)
  PROVE  Fault(a \o z)
<1>1. PICK k \in Nat \ {0} : iut \in OnStates(k)
  BY DEF IutTyped
<1>2. 0 \in 0 .. k - 1 /\ numStates \in Nat /\ 0 \in 0 .. numStates - 1 /\ rows \in OnStates(numStates)
  BY MachinesOnStates, SizeAssumption DEF OnStates
<1>3. After(iut, 0, a \o z) = After(iut, 0, b \o z)
  <2>1. After(iut, 0, a \o z) = (IF After(iut, 0, a) < 0 THEN -1 ELSE After(iut, After(iut, 0, a), z))
    BY <1>1, <1>2, TraceConcat
  <2>2. After(iut, 0, b \o z) = (IF After(iut, 0, b) < 0 THEN -1 ELSE After(iut, After(iut, 0, b), z))
    BY <1>1, <1>2, TraceConcat
  <2> QED BY <2>1, <2>2
<1>4. After(rows, 0, a \o z) = After(rows, 0, b \o z)
  <2>1. After(rows, 0, a \o z) = (IF After(rows, 0, a) < 0 THEN -1 ELSE After(rows, After(rows, 0, a), z))
    BY <1>2, TraceConcat
  <2>2. After(rows, 0, b \o z) = (IF After(rows, 0, b) < 0 THEN -1 ELSE After(rows, After(rows, 0, b), z))
    BY <1>2, TraceConcat
  <2> QED BY <2>1, <2>2
<1>5. a \o z \in Seq(IO)
  OBVIOUS
<1> QED BY <1>3, <1>4, <1>5 DEF Fault, Shared

(* A fault as few steps after a d-reaching sequence as possible. *)
Nearest(q, v, u) ==
  /\ StartsAt(q, v) /\ u \in Seq(IO) /\ Fault(v \o u)
  /\ \A p, a : StartsAt(p, a) => \A z \in Seq(IO) : Fault(a \o z) => Len(u) <= Len(z)

LEMMA NearestExists ==
  ASSUME Passed, Found, ~IsStrongSemiReduction
  PROVE  \E q, v, u : Nearest(q, v, u)
<1> DEFINE Far(n) == \E q, v : StartsAt(q, v) /\ \E u \in Seq(IO) : Fault(v \o u) /\ Len(u) = n
           N == {n \in Nat : Far(n)}
<1>1. N # {}
  <2>1. PICK w : Fault(w)
    BY PassedTypes, FaultExists
  <2>2. w \in Seq(IO)
    BY <2>1 DEF Fault
  <2>3. PICK v : StartsAt(0, v)
    BY EveryStart DEF Found
  <2>4. v = << >>
    <3>1. v \in Seq(IO) /\ Inputs(v) = << >>
      BY <2>3 DEF StartsAt, Found
    <3>2. Len(Inputs(v)) = Len(v) /\ Len(<< >>) = 0
      BY <3>1, InputsTyped
    <3> QED BY <3>1, <3>2
  <2>5. v \o w = w
    BY <2>2, <2>4
  <2>6. Len(w) \in Nat
    BY <2>2
  <2> QED BY <2>1, <2>2, <2>3, <2>5, <2>6
<1>2. PICK n \in N : \A k \in N : n <= k
  <2> HIDE DEF N
  <2>1. N \subseteq Nat
    BY DEF N
  <2> QED BY <1>1, <2>1, LeastElement
<1>3. PICK q, v : StartsAt(q, v) /\ \E u \in Seq(IO) : Fault(v \o u) /\ Len(u) = n
  BY <1>2
<1>4. PICK u \in Seq(IO) : Fault(v \o u) /\ Len(u) = n
  BY <1>3
<1>5. ASSUME NEW p, NEW a, StartsAt(p, a), NEW z \in Seq(IO), Fault(a \o z) PROVE Len(u) <= Len(z)
  <2>1. Len(z) \in Nat
    OBVIOUS
  <2>2. Len(z) \in N
    BY <1>5, <2>1
  <2> QED BY <1>2, <1>4, <2>2
<1> QED BY <1>3, <1>4, <1>5 DEF Nearest

LEMMA NearestParts ==
  ASSUME Passed, NEW q, NEW v, NEW u, Nearest(q, v, u), NEW n \in 0 .. Len(u)
  PROVE  /\ v \o Prefix(u, n) \in Seq(IO) /\ Shared(v \o Prefix(u, n))
         /\ Inputs(v \o Prefix(u, n)) = dReachingSequences[q] \o Inputs(Prefix(u, n))
         /\ After(rows, 0, v \o Prefix(u, n)) = After(rows, q, Prefix(u, n))
         /\ Prefix(u, n) \in Seq(IO) /\ Len(Prefix(u, n)) = n
         /\ Rest(u, n) \in Seq(IO) /\ Len(Rest(u, n)) = Len(u) - n
         /\ Fault((v \o Prefix(u, n)) \o Rest(u, n))
<1>1. /\ rows \in Machines /\ IutTyped /\ v \in Seq(IO) /\ u \in Seq(IO) /\ Fault(v \o u)
      /\ Inputs(v) = dReachingSequences[q] /\ Shared(v) /\ After(rows, 0, v) = q
  BY PassedTypes DEF Nearest, StartsAt
<1> DEFINE a == Prefix(u, n)
           z == Rest(u, n)
<1>2. a \in Seq(IO) /\ Len(a) = n /\ z \in Seq(IO) /\ Len(z) = Len(u) - n
  BY <1>1, PartsAre
<1>3. v \o a \in Seq(IO) /\ v \o u = (v \o a) \o z
  <2>1. v \o u = (v \o a) \o z
    BY <1>1, PartsOfJoined
  <2> HIDE DEF a, z
  <2>2. v \o a \in Seq(IO)
    BY <1>1, <1>2
  <2> QED BY <2>1, <2>2
<1>4. Inputs(v \o a) = Inputs(v) \o Inputs(a)
  BY <1>1, <1>2, InputsConcat
<1> HIDE DEF a, z
<1>5. After(rows, 0, (v \o a) \o z) >= 0 /\ After(iut, 0, (v \o a) \o z) >= 0
  <2>1. After(rows, 0, v \o u) >= 0 /\ After(iut, 0, v \o u) >= 0
    BY <1>1 DEF Fault, Shared
  <2> QED BY <1>3, <2>1
<1>6. PICK k \in Nat \ {0} : iut \in OnStates(k)
  BY <1>1 DEF IutTyped
<1>7. k \in Nat /\ 0 \in 0 .. k - 1 /\ numStates \in Nat /\ 0 \in 0 .. numStates - 1 /\ rows \in OnStates(numStates)
  BY <1>1, MachinesOnStates, SizeAssumption
<1>8. After(iut, 0, v \o a) >= 0
  BY <1>2, <1>3, <1>5, <1>6, <1>7, TraceParts
<1>9. After(rows, 0, v \o a) >= 0
  BY <1>2, <1>3, <1>5, <1>7, TraceParts
<1>10. After(rows, 0, v \o a) = After(rows, q, a)
  <2>1. After(rows, 0, v) >= 0
    BY <1>1 DEF Shared
  <2>2. After(rows, 0, v \o a) = After(rows, After(rows, 0, v), a)
    BY <1>1, <1>2, <1>7, <2>1, TraceParts
  <2> QED BY <1>1, <2>2
<1> QED BY <1>1, <1>2, <1>3, <1>4, <1>8, <1>9, <1>10 DEF Shared, a, z

(* The inputs of the suite do not all go on behind such a fault. *)
LEMMA FaultNotTested ==
  ASSUME Passed, ~HasDeadEnd, NEW w, Fault(w),
         \A x \in DefinedInputs(rows, After(rows, 0, w)) : Append(Inputs(w), x) \in suite
  PROVE  FALSE
<1> DEFINE s == After(rows, 0, w)
           i == After(iut, 0, w)
<1>1. rows \in Machines /\ IutTyped /\ suite \in Suites /\ suite \in SUBSET Seq(In) /\ w \in Seq(IO) /\ Inputs(w) \in Seq(In)
  BY PassedTypes, InputsTyped DEF Fault
<1>2. s \in State /\ s >= 0 /\ i >= 0
  <2>1. s >= 0 /\ i >= 0
    BY DEF Fault, Shared
  <2>2. s \in State
    BY <1>1, <2>1, AfterTyped, SizeFacts
  <2> QED BY <2>1, <2>2
<1>3. PICK x \in In : x \in DefinedInputs(rows, s)
  BY <1>2 DEF HasDeadEnd, DefinedInputs
<1>4. Inputs(w) \in suite
  BY <1>1, <1>3 DEF Suites, PrefixesIn
<1>5. DefinedInputs(rows, s) = DefinedInputs(iut, i)
  BY <1>1, <1>2, <1>4, NodeFacts
<1>6. PICK l \in IO : iut[i][l] >= 0 /\ ~(rows[s][l] >= 0)
  BY <1>5 DEF Fault
<1>7. l[1] \in DefinedInputs(iut, i)
  <2>1. l[1] \in In /\ l[2] \in Out /\ l = <<l[1], l[2]>>
    BY DEF IO
  <2> QED BY <1>6, <2>1 DEF DefinedInputs, PossibleOutputs
<1>8. Append(Inputs(w), l[1]) \in suite
  BY <1>5, <1>7
<1>9. rows[s][l] >= 0
  BY <1>1, <1>2, <1>4, <1>6, <1>8, NextNode
<1> QED BY <1>6, <1>9

LEMMA Associative ==
  ASSUME NEW X, NEW a \in Seq(X), NEW z \in Seq(X), NEW y \in Seq(X)
  PROVE  /\ (a \o z) \o y = a \o (z \o y)
         /\ z \o y \in Seq(X) /\ Len(z \o y) = Len(z) + Len(y) /\ Len(z) \in Nat
  OBVIOUS

(* Two visits that lead the implementation to the same state: the fault    *)
(* would be nearer.                                                        *)
LEMMA VisitsApart ==
  ASSUME Passed, NEW q, NEW v, NEW u, Nearest(q, v, u), NEW V, AllApart(suite, V),
         NEW p, NEW a, StartsAt(p, a), NEW z \in Seq(IO), Shared(a \o z), NEW n \in 0 .. Len(u), Len(z) < n,
         Inputs(a \o z) \in suite, Inputs(v \o Prefix(u, n)) \in suite,
         <<Inputs(a \o z), After(rows, 0, a \o z)>> \in V,
         <<Inputs(v \o Prefix(u, n)), After(rows, 0, v \o Prefix(u, n))>> \in V,
         After(iut, 0, a \o z) = After(iut, 0, v \o Prefix(u, n))
  PROVE  FALSE
<1> DEFINE c == a \o z
           b == v \o Prefix(u, n)
           y == Rest(u, n)
<1>0. rows \in Machines /\ IutTyped
  BY PassedTypes
<1>1. a \in Seq(IO) /\ c \in Seq(IO) /\ After(iut, 0, c) >= 0 /\ u \in Seq(IO)
  BY DEF StartsAt, Shared, Nearest
<1>2. b \in Seq(IO) /\ y \in Seq(IO) /\ Len(y) = Len(u) - n /\ Fault(b \o y)
  BY NearestParts
<1> HIDE DEF b, y
<1>3. After(rows, 0, c) = After(rows, 0, b)
  BY <1>1, <1>2, ApartVisits DEF b
<1>4. Fault(c \o y)
  BY <1>0, <1>1, <1>2, <1>3, SwapFault DEF b
<1>5. c \o y = a \o (z \o y) /\ z \o y \in Seq(IO) /\ Len(z \o y) = Len(z) + Len(y) /\ Len(z) \in Nat /\ Len(u) \in Nat
  <2>1. a \in Seq(IO) /\ z \in Seq(IO) /\ y \in Seq(IO)
    BY <1>1, <1>2
  <2>2. /\ (a \o z) \o y = a \o (z \o y)
        /\ z \o y \in Seq(IO) /\ Len(z \o y) = Len(z) + Len(y) /\ Len(z) \in Nat
    BY <2>1, Associative
  <2>3. Len(u) \in Nat
    BY <1>1
  <2> QED BY <2>2, <2>3
<1>6. Len(u) <= Len(z \o y)
  BY <1>4, <1>5 DEF Nearest
<1> QED BY <1>2, <1>5, <1>6

(* The nearest fault lies before the end of the traversals: along one of   *)
(* these the implementation would have been in more than m states.         *)
LEMMA NearestNotLong ==
  ASSUME Passed, Found, NEW q, NEW v, NEW u, Nearest(q, v, u),
         NEW tr \in TraversalSet(q), NEW n \in 0 .. Len(u), tr[1] = Prefix(u, n)
  PROVE  FALSE
<1> DEFINE S == tr[2]
           B == S \cap dReached
           K == VisitsIn(q, tr[1], S)
           V == Visiting(q, tr)
           at(k) == v \o Prefix(u, k)
           resp(r) == CHOOSE a : StartsAt(r, a)
           f == [k \in K |-> After(iut, 0, at(k))]
           g == [r \in B |-> After(iut, 0, resp(r))]
<1>1. /\ rows \in Machines /\ IutTyped /\ SetsInv /\ StartsAt(q, v) /\ q \in State /\ q \in dReached
      /\ u \in Seq(IO) /\ m \in Nat
  BY PassedTypes DEF Passed, Nearest, StartsAt, dReached
<1>2. /\ GoodTraversal(q, TerminationTuples, tr) /\ S \in SUBSET State
      /\ TracesIn(q, tr, suite) /\ AllApart(suite, V)
  <2>1. GoodTraversal(q, TerminationTuples, tr) /\ S \in SUBSET State
    BY <1>1, TraversalsGood
  <2> QED BY <1>1, <2>1 DEF Passed, SuiteHas
<1>3. PICK i \in DOMAIN maximalRDistSets :
        S = maximalRDistSets[i] /\ TerminationTuples[i] <= Cardinality(K)
  BY <1>2 DEF GoodTraversal
<1>4. TerminationTuples[i] = m - Cardinality(B) + 1
  BY <1>3 DEF TerminationTuples
<1>5. Len(tr[1]) = n /\ n \in Nat /\ \A k \in 0 .. n : Prefix(tr[1], k) = Prefix(u, k)
  <2>1. Len(Prefix(u, n)) = n
    BY <1>1, PartsAre
  <2>2. \A k \in 0 .. n : Prefix(Prefix(u, n), k) = Prefix(u, k)
    BY <1>1, PrefixOfPrefix
  <2> QED BY <2>1, <2>2
<1>6. K \subseteq 1 .. n /\ IsFiniteSet(K) /\ IsFiniteSet(B)
  <2>1. K \subseteq 1 .. n
    BY <1>5 DEF VisitsIn
  <2>2. IsFiniteSet(K)
    <3> HIDE DEF K
    <3>1. IsFiniteSet(1 .. n)
      BY <1>5, FS_Interval
    <3> QED BY <2>1, <3>1, FS_Subset
  <2>3. IsFiniteSet(B)
    BY <1>2, StatesFinite, FS_Subset
  <2> QED BY <2>1, <2>2, <2>3
<1>7. ASSUME NEW k \in K
      PROVE  /\ k \in 1 .. n /\ k \in 0 .. Len(u) /\ at(k) \in Seq(IO) /\ Shared(at(k)) /\ Inputs(at(k)) \in suite
             /\ <<Inputs(at(k)), After(rows, 0, at(k))>> \in V
             /\ f[k] = After(iut, 0, at(k))
  <2>1. k \in 1 .. n /\ k \in 0 .. n /\ k \in 0 .. Len(u) /\ k \in 0 .. Len(tr[1])
    <3>1. Len(u) \in Nat
      BY <1>1
    <3> QED BY <1>5, <1>6, <3>1
  <2>2. After(rows, q, Prefix(tr[1], k)) \in S
    BY DEF VisitsIn
  <2>3. /\ at(k) \in Seq(IO) /\ Shared(at(k))
        /\ Inputs(at(k)) = dReachingSequences[q] \o Inputs(Prefix(tr[1], k))
        /\ After(rows, 0, at(k)) = After(rows, q, Prefix(tr[1], k))
    <3>1. Prefix(tr[1], k) = Prefix(u, k)
      BY <1>5, <2>1
    <3>2. /\ at(k) \in Seq(IO) /\ Shared(at(k))
          /\ Inputs(at(k)) = dReachingSequences[q] \o Inputs(Prefix(u, k))
          /\ After(rows, 0, at(k)) = After(rows, q, Prefix(u, k))
      BY <2>1, NearestParts
    <3> QED BY <3>1, <3>2
  <2> HIDE DEF at, S
  <2>4. At(q, tr[1], k) = <<Inputs(at(k)), After(rows, 0, at(k))>>
    BY <2>3 DEF At
  <2>5. At(q, tr[1], k) \in V
    BY <2>1, <2>2 DEF Visiting, S
  <2>6. Inputs(at(k)) \in suite
    BY <1>2, <2>1, <2>3 DEF TracesIn
  <2> QED BY <2>1, <2>3, <2>4, <2>5, <2>6
<1>8. ASSUME NEW r \in B
      PROVE  /\ StartsAt(r, resp(r)) /\ resp(r) \in Seq(IO) /\ Shared(resp(r)) /\ Inputs(resp(r)) \in suite
             /\ After(rows, 0, resp(r)) = r
             /\ <<Inputs(resp(r)), After(rows, 0, resp(r))>> \in V
             /\ g[r] = After(iut, 0, resp(r))
  <2>1. \E a : StartsAt(r, a)
    BY EveryStart
  <2>2. StartsAt(r, resp(r))
    BY <2>1
  <2> HIDE DEF resp
  <2>3. /\ resp(r) \in Seq(IO) /\ Shared(resp(r)) /\ Inputs(resp(r)) = dReachingSequences[r]
        /\ After(rows, 0, resp(r)) = r
    BY <2>2 DEF StartsAt
  <2>4. DReachedBy(r) \in V /\ dReachingSequences[r] \in suite
    BY <1>2 DEF Visiting, TracesIn
  <2>5. g[r] = After(iut, 0, resp(r))
    OBVIOUS
  <2> QED BY <2>2, <2>3, <2>4, <2>5 DEF DReachedBy
<1>9. PICK h \in 1 .. m : iut \in OnStates(h)
  BY DEF Passed
<1>10. h \in Nat /\ h <= m /\ 0 \in 0 .. h - 1
  BY <1>1
<1> HIDE DEF S, B, K, V, at, resp, f, g
<1>11. \A w \in Seq(IO) : Shared(w) => After(iut, 0, w) \in 0 .. h - 1
  BY <1>9, <1>10, TraceTyped DEF Shared
<1>12. ASSUME NEW j \in K, NEW k \in K, j < k, f[j] = f[k]
       PROVE  FALSE
  <2> DEFINE z == Prefix(u, j)
  <2>1. z \in Seq(IO) /\ Len(z) = j
    BY <1>1, <1>7, PartsAre
  <2>2. v \o z = at(j)
    BY DEF at
  <2> HIDE DEF z
  <2>3. k \in 0 .. Len(u) /\ at(k) = v \o Prefix(u, k) /\ Len(z) < k
    BY <1>7, <1>12, <2>1 DEF at
  <2>4. /\ Shared(v \o z) /\ Inputs(v \o z) \in suite /\ <<Inputs(v \o z), After(rows, 0, v \o z)>> \in V
        /\ After(iut, 0, v \o z) = f[j]
    BY <1>7, <2>2
  <2>5. /\ Inputs(v \o Prefix(u, k)) \in suite
        /\ <<Inputs(v \o Prefix(u, k)), After(rows, 0, v \o Prefix(u, k))>> \in V
        /\ After(iut, 0, v \o Prefix(u, k)) = f[k]
    BY <1>7, <2>3
  <2> QED BY <1>1, <1>2, <1>12, <2>1, <2>3, <2>4, <2>5, VisitsApart
<1>13. ASSUME NEW r \in B, NEW k \in K, f[k] = g[r]
       PROVE  FALSE
  <2> DEFINE a == resp(r)
             e == << >>
  <2>1. a \in Seq(IO) /\ e \in Seq(IO) /\ a \o e = a /\ Len(e) = 0
    <3>1. a \in Seq(IO)
      BY <1>8
    <3>2. a \o << >> = a
      BY <3>1
    <3>3. << >> \in Seq(IO) /\ Len(<< >>) = 0
      OBVIOUS
    <3> QED BY <3>1, <3>2, <3>3
  <2> HIDE DEF e
  <2>3. k \in 0 .. Len(u) /\ at(k) = v \o Prefix(u, k) /\ Len(e) < k
    <3>1. k \in 0 .. Len(u) /\ k \in 1 .. n
      BY <1>7
    <3>2. at(k) = v \o Prefix(u, k)
      BY DEF at
    <3> QED BY <2>1, <3>1, <3>2
  <2>4. /\ StartsAt(r, a) /\ Shared(a \o e) /\ Inputs(a \o e) \in suite
        /\ <<Inputs(a \o e), After(rows, 0, a \o e)>> \in V
        /\ After(iut, 0, a \o e) = g[r]
    BY <1>8, <2>1
  <2>5. /\ Inputs(v \o Prefix(u, k)) \in suite
        /\ <<Inputs(v \o Prefix(u, k)), After(rows, 0, v \o Prefix(u, k))>> \in V
        /\ After(iut, 0, v \o Prefix(u, k)) = f[k]
    BY <1>7, <2>3
  <2> HIDE DEF a
  <2> QED BY <1>2, <1>13, <2>1, <2>3, <2>4, <2>5, VisitsApart
<1>14. ASSUME NEW r \in B, NEW s \in B, g[r] = g[s]
       PROVE  r = s
  <2>1. /\ resp(r) \in Seq(IO) /\ Inputs(resp(r)) \in suite /\ After(iut, 0, resp(r)) >= 0
        /\ <<Inputs(resp(r)), After(rows, 0, resp(r))>> \in V
        /\ After(rows, 0, resp(r)) = r /\ After(iut, 0, resp(r)) = g[r]
    BY <1>8 DEF Shared
  <2>2. /\ resp(s) \in Seq(IO) /\ Inputs(resp(s)) \in suite
        /\ <<Inputs(resp(s)), After(rows, 0, resp(s))>> \in V
        /\ After(rows, 0, resp(s)) = s /\ After(iut, 0, resp(s)) = g[s]
    BY <1>8
  <2>3. After(rows, 0, resp(r)) = After(rows, 0, resp(s))
    BY <1>2, <1>14, <2>1, <2>2, ApartVisits
  <2> QED BY <2>1, <2>2, <2>3
<1>15. \A j, k \in K : f[j] = f[k] => j = k
  <2> SUFFICES ASSUME NEW j \in K, NEW k \in K, f[j] = f[k], j # k PROVE FALSE
    OBVIOUS
  <2>1. j \in Nat /\ k \in Nat
    BY <1>6
  <2>2. j < k \/ k < j
    BY <2>1
  <2> QED BY <1>12, <2>2
<1>16. Cardinality(K) + Cardinality(B) + Cardinality({}) <= h
  <2>1. DOMAIN f = K /\ DOMAIN g = B
    BY DEF f, g
  <2>2. \A k \in K : f[k] \in 0 .. h - 1
    BY <1>7, <1>11
  <2>3. \A r \in B : g[r] \in 0 .. h - 1
    BY <1>8, <1>11
  <2>4. \A k \in K, r \in B : f[k] # g[r]
    BY <1>13
  <2> DEFINE C == {}
             l == [c \in C |-> 0]
  <2>5. DOMAIN l = C /\ \A c \in C : FALSE
    OBVIOUS
  <2> HIDE DEF l, C
  <2>6. Cardinality(K) + Cardinality(B) + Cardinality(C) <= h
    BY <1>10, <1>14, <1>15, <2>1, <2>2, <2>3, <2>4, <2>5, DifferentStates
  <2> QED BY <2>6 DEF C
<1>17. Cardinality(K) \in Nat /\ Cardinality(B) \in Nat /\ Cardinality({}) = 0
  BY <1>6, FS_CardinalityType, FS_EmptySet
<1> QED BY <1>1, <1>3, <1>4, <1>10, <1>16, <1>17

LEMMA PassedIsReduction ==
  ASSUME Passed, Found, ~HasDeadEnd
  PROVE  IsStrongSemiReduction
<1> SUFFICES ASSUME ~IsStrongSemiReduction PROVE FALSE
  OBVIOUS
<1>1. PICK q, v, u : Nearest(q, v, u)
  BY NearestExists
<1>2. /\ rows \in Machines /\ SetsInv /\ StartsAt(q, v) /\ q \in State /\ q \in dReached
      /\ v \in Seq(IO) /\ u \in Seq(IO) /\ Fault(v \o u) /\ Inputs(v) = dReachingSequences[q]
  BY <1>1, PassedTypes DEF Passed, Nearest, StartsAt, dReached
<1>3. Len(u) \in 0 .. Len(u) /\ Prefix(u, Len(u)) = u
  BY <1>2 DEF Prefix
<1>4. After(rows, 0, v \o u) = After(rows, q, u) /\ Shared(v \o u)
      /\ Inputs(v \o u) = dReachingSequences[q] \o Inputs(u)
  <2> DEFINE n == Len(u)
  <2>1. n \in 0 .. Len(u) /\ Prefix(u, n) = u
    BY <1>3
  <2> HIDE DEF n
  <2>2. ASSUME NEW k \in 0 .. Len(u)
        PROVE  /\ Shared(v \o Prefix(u, k)) /\ After(rows, 0, v \o Prefix(u, k)) = After(rows, q, Prefix(u, k))
               /\ Inputs(v \o Prefix(u, k)) = dReachingSequences[q] \o Inputs(Prefix(u, k))
    BY <1>1, NearestParts
  <2> QED BY <2>1, <2>2
<1>5. After(rows, q, u) >= 0
  BY <1>4 DEF Shared
<1>6. FollowedIn(TraversalSet(q), q, u)
  <2>1. TerminationTuples \in VisitCounts /\ m + 1 \in Nat /\ UpTo(m + 1, TerminationTuples)
    BY <1>2, TerminationTyped
  <2> QED BY <1>2, <1>5, <2>1, TraverseFollows DEF TraversalSet
<1>7. \A tr \in TraversalSet(q), n \in 0 .. Len(u) : tr[1] # Prefix(u, n)
  BY <1>1, NearestNotLong
<1>8. ASSUME NEW x \in DefinedInputs(rows, After(rows, 0, v \o u))
      PROVE  Append(Inputs(v \o u), x) \in suite
  <2>1. PICK tr \in TraversalSet(q) : \E n \in 0 .. Len(tr[1]) : Inputs(Prefix(tr[1], n)) = Append(Inputs(u), x)
    BY <1>4, <1>6, <1>7 DEF FollowedIn
  <2>2. PICK n \in 0 .. Len(tr[1]) : Inputs(Prefix(tr[1], n)) = Append(Inputs(u), x)
    BY <2>1
  <2>3. dReachingSequences[q] \o Inputs(Prefix(tr[1], n)) \in suite
    BY <1>2 DEF Passed, SuiteHas, TracesIn
  <2>4. x \in In /\ Inputs(u) \in Seq(In) /\ Inputs(v) \in Seq(In)
    BY <1>2, InputsTyped DEF DefinedInputs
  <2>5. Inputs(v) \o Append(Inputs(u), x) = Append(Inputs(v) \o Inputs(u), x)
    BY <2>4, ConcatAppend
  <2> QED BY <1>2, <1>4, <2>2, <2>3, <2>5
<1> QED BY <1>2, <1>8, FaultNotTested

LEMMA StrongSuiteImplies == StrongSuiteInv => StrongSuiteComplete
<1> SUFFICES ASSUME StrongSuiteInv, sPhase = "pass", ~HasDeadEnd, SameInputsAtNodes
             PROVE  IsStrongSemiReduction
  BY DEF StrongSuiteComplete
<1>1. SearchInv /\ SuiteInv /\ rows \in Machines
  BY DEF StrongSuiteInv, StrongInv, SearchInv, SearchTypes
<1>2. GraphInv /\ SetsInv /\ SuiteHas(suite, {}) /\ iut \in Implementations /\ PassesIn(rows, suite, iut)
  BY <1>1 DEF SuiteInv
<1>3. m \in Nat /\ \E k \in 1 .. m : iut \in OnStates(k)
  BY <1>2, ImplementationsAssumption DEF OnStates
<1>4. Passed
  BY <1>1, <1>2, <1>3 DEF Passed
<1>5. Found
  BY <1>1, SearchFinds
<1> QED BY <1>4, <1>5, PassedIsReduction

(***************************************************************************)
(* The suites of StrongReductionTestSuiteGenerator are complete, for every *)
(* observable specification without a state that has no transitions,       *)
(* nondeterministic or partial, and every observable implementation with   *)
(* at most m states: an implementation that passes, and has at each node   *)
(* of the suite it reaches the inputs of the specification, is a strong    *)
(* semi-reduction of it.  That holds for both ways of choosing the sets of *)
(* r-distinguishable states and for every order of the extensions.         *)
(***************************************************************************)
THEOREM StrongSuiteCompleteHolds == Spec => []StrongSuiteComplete
BY InitStrongSuiteInv, StepStrongSuiteInv, StrongSuiteImplies, PTL DEF Spec
=============================================================================
