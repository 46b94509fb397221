------------------------- MODULE SafeMethods_proofs -------------------------
(***************************************************************************)
(* The safe W and Wp methods, for every minimal, deterministic, completely *)
(* specified machine, every abstraction of its outputs, and any number of  *)
(* additional states: an implementation that passes is safe.               *)
(***************************************************************************)
EXTENDS SafeMethods, TestSuites_proofs

(***************************************************************************)
(* What SafeMethods defines by recursion, one step of each: a P_k-table, a *)
(* distinguishing trace one input longer, a characterisation set with one  *)
(* pair more, and the pairs of states reached with one input more.         *)
(***************************************************************************)
NextPkTable(f, E) ==
  {pq \in E : \A x \in Input : /\ f[OutputOf(pq[1], x)] = f[OutputOf(pq[2], x)]
                               /\ <<Next1(pq[1], x), Next1(pq[2], x)>> \in E}

SeparatingInputs(f, P, c, k) ==
  {x \in Input : IF k = 0 THEN Apart(f, c.p, c.q, <<x>>) ELSE <<Next1(c.p, x), Next1(c.q, x)>> \notin P[k]}

GillStep(f, P, c, k) ==
  LET x == Min(SeparatingInputs(f, P, c, k))
  IN  [p |-> Next1(c.p, x), q |-> Next1(c.q, x), itrc |-> Append(c.itrc, x)]

WithPairOf(f, t, p, q) ==
  IF \E itrc \in t : Apart(f, p, q, itrc) THEN t ELSE AddToRoot(t, GillTrace(f, p, q))

MoreInputPairs(P) ==
  LET Successors(p) == {<<Next1(p[1], x), impl[p[2]][x][y]>> : x \in Input, y \in Output}
  IN  P \cup {s \in UNION {Successors(p) : p \in P} : s[2] >= 0}

RoundOf(m, a, k) ==
  CASE m[1] = "tables" -> NextPkTable(m[2], a)
    [] m[1] = "trace" -> GillStep(m[2], m[3], a, m[4] - k)
    [] m[1] = "set" -> WithPairOf(m[2], a, m[3][m[4][k][1]], m[3][m[4][k][2]])
    [] m[1] = "pairs" -> MoreInputPairs(a)

IsRecursion(g, m, base, n) == g = [k \in 0 .. n |-> IF k = 0 THEN base ELSE RoundOf(m, g[k - 1], k)]

Recursion(m, base, n) == CHOOSE g : IsRecursion(g, m, base, n)

(* There is such a function ... *)
LEMMA RecursionExists ==
  ASSUME NEW m, NEW base, NEW n \in Nat
  PROVE  \E g : IsRecursion(g, m, base, n)
<1> DEFINE A == {i \in Nat : \E g : IsRecursion(g, m, base, i)}
<1>1. 0 \in A
  <2> DEFINE g == [k \in 0 .. 0 |-> base]
  <2>1. IsRecursion(g, m, base, 0)
    BY DEF IsRecursion
  <2> QED BY <2>1
<1>2. ASSUME NEW i \in Nat, i \in A PROVE i + 1 \in A
  <2>1. PICK g : IsRecursion(g, m, base, i)
    BY <1>2
  <2> DEFINE h == [k \in 0 .. i + 1 |-> IF k <= i THEN g[k] ELSE RoundOf(m, g[i], i + 1)]
  <2>2. \A k \in 0 .. i : g[k] = IF k = 0 THEN base ELSE RoundOf(m, g[k - 1], k)
    BY <2>1 DEF IsRecursion
  <2>3. ASSUME NEW k \in 0 .. i + 1
        PROVE  h[k] = IF k = 0 THEN base ELSE RoundOf(m, h[k - 1], k)
    <3>1. CASE k <= i
      <4>1. k \in 0 .. i /\ h[k] = g[k] /\ (k # 0 => h[k - 1] = g[k - 1])
        BY <3>1
      <4> QED BY <2>2, <4>1
    <3>2. CASE k = i + 1
      BY <3>2
    <3> QED BY <3>1, <3>2
  <2>4. IsRecursion(h, m, base, i + 1)
    <3>1. h = [k \in 0 .. i + 1 |-> h[k]]
      OBVIOUS
    <3> HIDE DEF h
    <3> QED BY <2>3, <3>1 DEF IsRecursion
  <2> HIDE DEF h
  <2> QED BY <2>4
<1> HIDE DEF A
<1>3. n \in A
  BY <1>1, <1>2, SetInduction
<1> QED BY <1>3 DEF A

(* ... and it goes on from the base as it says. *)
LEMMA RecursionIs ==
  ASSUME NEW m, NEW base, NEW n \in Nat, NEW g, g = Recursion(m, base, n)
  PROVE  g[0] = base /\ \A k \in 0 .. n - 1 : g[k + 1] = RoundOf(m, g[k], k + 1)
<1>1. IsRecursion(g, m, base, n)
  BY RecursionExists DEF Recursion
<1>2. \A k \in 0 .. n : g[k] = IF k = 0 THEN base ELSE RoundOf(m, g[k - 1], k)
  BY <1>1 DEF IsRecursion
<1>3. g[0] = base
  BY <1>2
<1>4. ASSUME NEW k \in 0 .. n - 1 PROVE g[k + 1] = RoundOf(m, g[k], k + 1)
  <2>1. k + 1 \in 0 .. n /\ k + 1 # 0 /\ (k + 1) - 1 = k
    OBVIOUS
  <2> QED BY <1>2, <2>1
<1> QED BY <1>3, <1>4

(* the cases of RoundOf, one by one *)
LEMMA RoundCases ==
  /\ \A f, a, k : RoundOf(<<"tables", f>>, a, k) = NextPkTable(f, a)
  /\ \A f, P, l, a, k : RoundOf(<<"trace", f, P, l>>, a, k) = GillStep(f, P, a, l - k)
  /\ \A f, o, t, a, k : RoundOf(<<"set", f, o, t>>, a, k) = WithPairOf(f, a, o[t[k][1]], o[t[k][2]])
  /\ \A a, k : RoundOf(<<"pairs">>, a, k) = MoreInputPairs(a)
BY DEF RoundOf

(***************************************************************************)
(* The P_k-tables.                                                         *)
(***************************************************************************)
LEMMA PkTablesAre ==
  ASSUME NEW f
  PROVE  /\ PkTables(f)[0] = State \X State
         /\ \A k \in 0 .. numStates - 1 : PkTables(f)[k + 1] = NextPkTable(f, PkTables(f)[k])
<1> DEFINE m == <<"tables", f>>
           base == State \X State
           Is(g) == g = [k \in 0 .. numStates |-> IF k = 0 THEN base ELSE NextPkTable(f, g[k - 1])]
<1>1. \A g : Is(g) <=> IsRecursion(g, m, base, numStates)
  <2>1. \A a, k : RoundOf(m, a, k) = NextPkTable(f, a)
    BY RoundCases
  <2> HIDE DEF m, base
  <2> QED BY <2>1 DEF IsRecursion
<1>2. PkTables(f) = CHOOSE g : Is(g)
  BY DEF PkTables, NextPkTable
<1> HIDE DEF Is, base
<1>3. (CHOOSE g : Is(g)) = Recursion(m, base, numStates)
  BY <1>1 DEF Recursion
<1>4. numStates \in Nat
  BY NumStatesAssumption
<1> DEFINE P == PkTables(f)
<1>6. P = Recursion(m, base, numStates)
  BY <1>2, <1>3
<1> HIDE DEF P, m
<1>5. P[0] = base /\ \A k \in 0 .. numStates - 1 : P[k + 1] = RoundOf(m, P[k], k + 1)
  BY <1>4, <1>6, RecursionIs
<1>7. \A a, k : RoundOf(m, a, k) = NextPkTable(f, a)
  BY RoundCases DEF m
<1> QED BY <1>5, <1>7 DEF base, P

(***************************************************************************)
(* Each table relates states that are equivalent.                          *)
(***************************************************************************)
Known == rows \in Machines /\ Det(rows)

IsEquivalence(E) ==
  /\ E \subseteq State \X State
  /\ \A p \in State : <<p, p>> \in E
  /\ \A p, q \in State : <<p, q>> \in E => <<q, p>> \in E
  /\ \A p, q, r \in State : <<p, q>> \in E /\ <<q, r>> \in E => <<p, r>> \in E

(* the state behind one input *)
LEMMA NextIs ==
  ASSUME Known, NEW q \in State, NEW x \in Input
  PROVE  /\ Next1(q, x) = PostOf(rows, q, x) /\ Next1(q, x) \in State
         /\ OutputOf(q, x) \in Output /\ rows[q][<<x, OutputOf(q, x)>>] >= 0
<1>1. Next1(q, x) = PostOf(rows, q, x)
  BY StateByOne DEF Next1
<1>2. PostOf(rows, q, x) \in State
  BY PostOfIs DEF Known
<1>3. \E y \in Output : rows[q][<<x, y>>] >= 0
  BY DetIsComplete DEF Known, Complete
<1>4. OutputOf(q, x) \in Output /\ rows[q][<<x, OutputOf(q, x)>>] >= 0
  BY <1>3 DEF OutputOf
<1> QED BY <1>1, <1>2, <1>4

(* a pair of a table, one input later *)
LEMMA NextPkTableHas ==
  ASSUME NEW f, NEW E, E \subseteq State \X State, NEW p \in State, NEW q \in State
  PROVE  <<p, q>> \in NextPkTable(f, E) <=>
           /\ <<p, q>> \in E
           /\ \A x \in Input : f[OutputOf(p, x)] = f[OutputOf(q, x)] /\ <<Next1(p, x), Next1(q, x)>> \in E
BY DEF NextPkTable

(* The next table relates equivalent states if this one does. *)
LEMMA NextIsEquivalence ==
  ASSUME Known, NEW f, NEW E, IsEquivalence(E)
  PROVE  IsEquivalence(NextPkTable(f, E))
<1> DEFINE N == NextPkTable(f, E)
           Alike(p, q) == \A x \in Input : f[OutputOf(p, x)] = f[OutputOf(q, x)] /\ <<Next1(p, x), Next1(q, x)>> \in E
<1>0. E \subseteq State \X State
  BY DEF IsEquivalence
<1>1. N \subseteq State \X State
  BY <1>0 DEF NextPkTable
<1>2. \A p, q \in State : <<p, q>> \in N <=> <<p, q>> \in E /\ Alike(p, q)
  BY <1>0, NextPkTableHas
<1>3. \A p \in State, x \in Input : Next1(p, x) \in State
  BY NextIs
<1>4. \A p \in State : Alike(p, p)
  BY <1>3 DEF IsEquivalence
<1>5. ASSUME NEW p \in State, NEW q \in State, Alike(p, q) PROVE Alike(q, p)
  BY <1>3, <1>5 DEF IsEquivalence
<1>6. ASSUME NEW p \in State, NEW q \in State, NEW r \in State, Alike(p, q), Alike(q, r) PROVE Alike(p, r)
  <2> SUFFICES ASSUME NEW x \in Input
               PROVE  f[OutputOf(p, x)] = f[OutputOf(r, x)] /\ <<Next1(p, x), Next1(r, x)>> \in E
    OBVIOUS
  <2>1. /\ f[OutputOf(p, x)] = f[OutputOf(q, x)] /\ <<Next1(p, x), Next1(q, x)>> \in E
        /\ f[OutputOf(q, x)] = f[OutputOf(r, x)] /\ <<Next1(q, x), Next1(r, x)>> \in E
    BY <1>6
  <2>2. Next1(p, x) \in State /\ Next1(q, x) \in State /\ Next1(r, x) \in State
    BY <1>3
  <2> QED BY <2>1, <2>2 DEF IsEquivalence
<1> HIDE DEF Alike, N
<1>7. \A p \in State : <<p, p>> \in N
  BY <1>2, <1>4 DEF IsEquivalence
<1>8. \A p, q \in State : <<p, q>> \in N => <<q, p>> \in N
  BY <1>2, <1>5 DEF IsEquivalence
<1>9. \A p, q, r \in State : <<p, q>> \in N /\ <<q, r>> \in N => <<p, r>> \in N
  BY <1>2, <1>6 DEF IsEquivalence
<1>10. IsEquivalence(N)
  BY <1>1, <1>7, <1>8, <1>9 DEF IsEquivalence
<1> QED BY <1>10 DEF N

LEMMA PkEquivalence ==
  ASSUME Known, NEW f
  PROVE  \A k \in 0 .. numStates : IsEquivalence(PkTables(f)[k])
<1> DEFINE P == PkTables(f)
           A == {k \in Nat : k <= numStates => IsEquivalence(P[k])}
<1>0. numStates \in Nat /\ P[0] = State \X State /\ \A k \in 0 .. numStates - 1 : P[k + 1] = NextPkTable(f, P[k])
  BY NumStatesAssumption, PkTablesAre
<1> HIDE DEF P
<1>1. 0 \in A
  BY <1>0 DEF IsEquivalence
<1>2. ASSUME NEW k \in Nat, k \in A PROVE k + 1 \in A
  <2> SUFFICES ASSUME k + 1 <= numStates PROVE IsEquivalence(P[k + 1])
    OBVIOUS
  <2>1. k \in 0 .. numStates - 1 /\ IsEquivalence(P[k])
    BY <1>0, <1>2
  <2> QED BY <1>0, <2>1, NextIsEquivalence
<1> HIDE DEF A
<1>3. Nat \subseteq A
  BY <1>1, <1>2, SetInduction
<1> QED BY <1>0, <1>3 DEF A, P

(***************************************************************************)
(* The last table is as fine as any that could follow: with each table     *)
(* that is finer than the one before there is one class more at least, and *)
(* there are no more classes than states.  A class is counted by its least *)
(* state.                                                                  *)
(***************************************************************************)
Representatives(E) == {q \in State : \A p \in State : <<p, q>> \in E => q <= p}

LEMMA HasRepresentative ==
  ASSUME NEW E, IsEquivalence(E), NEW q \in State
  PROVE  \E r \in Representatives(E) : <<r, q>> \in E
<1> DEFINE T == {p \in State : <<p, q>> \in E}
<1>1. T \subseteq Nat /\ q \in T
  BY StateFacts DEF IsEquivalence
<1>2. PICK r \in T : \A y \in T : r <= y
  <2> HIDE DEF T
  <2> QED BY <1>1, LeastElement
<1>3. ASSUME NEW p \in State, <<p, r>> \in E PROVE r <= p
  <2>1. <<p, q>> \in E
    BY <1>2, <1>3 DEF IsEquivalence
  <2> QED BY <1>2, <2>1
<1> QED BY <1>2, <1>3 DEF Representatives

LEMMA OneRepresentative ==
  ASSUME NEW E, IsEquivalence(E), NEW r \in Representatives(E), NEW s \in Representatives(E), <<r, s>> \in E
  PROVE  r = s
<1>1. r \in State /\ s \in State /\ <<s, r>> \in E
  BY DEF Representatives, IsEquivalence
<1>2. s <= r /\ r <= s
  BY <1>1 DEF Representatives
<1> QED BY <1>1, <1>2, StateFacts

LEMMA MoreRepresentatives ==
  ASSUME NEW E, NEW F, IsEquivalence(E), IsEquivalence(F), F \subseteq E, F # E
  PROVE  Representatives(E) \subseteq Representatives(F) /\ Representatives(E) # Representatives(F)
<1>1. Representatives(E) \subseteq Representatives(F)
  BY DEF Representatives
<1>2. PICK p \in State, q \in State : <<p, q>> \in E /\ <<p, q>> \notin F
  <2>1. E \subseteq State \X State
    BY DEF IsEquivalence
  <2>2. PICK e \in E : e \notin F
    OBVIOUS
  <2>3. PICK p \in State, q \in State : e = <<p, q>>
    BY <2>1, <2>2
  <2> QED BY <2>2, <2>3
<1>3. PICK a \in Representatives(F) : <<a, p>> \in F
  BY HasRepresentative
<1>4. PICK b \in Representatives(F) : <<b, q>> \in F
  BY HasRepresentative
<1>5. a \in State /\ b \in State
  BY DEF Representatives
<1>6. a # b
  BY <1>2, <1>3, <1>4, <1>5 DEF IsEquivalence
<1>7. <<a, b>> \in E
  <2>1. <<a, p>> \in E /\ <<b, q>> \in E
    BY <1>3, <1>4
  <2>2. <<q, b>> \in E
    BY <1>5, <2>1 DEF IsEquivalence
  <2>3. <<a, q>> \in E
    BY <1>2, <1>5, <2>1 DEF IsEquivalence
  <2> QED BY <1>5, <2>2, <2>3 DEF IsEquivalence
<1>8. a \notin Representatives(E) \/ b \notin Representatives(E)
  BY <1>6, <1>7, OneRepresentative
<1> QED BY <1>1, <1>8

(* a table that the next one does not refine *)
LEMMA OneTableRests ==
  ASSUME Known, NEW f
  PROVE  \E k \in 0 .. numStates - 1 : PkTables(f)[k + 1] = PkTables(f)[k]
<1> DEFINE P == PkTables(f)
           N(k) == Cardinality(Representatives(P[k]))
           A == {k \in Nat : k <= numStates => N(k) >= k + 1}
<1> SUFFICES ASSUME \A k \in 0 .. numStates - 1 : P[k + 1] # P[k] PROVE FALSE
  OBVIOUS
<1>0. numStates \in Nat \ {0}
  BY NumStatesAssumption
<1>1. \A k \in 0 .. numStates : IsEquivalence(P[k])
  BY PkEquivalence
<1>2. \A k \in 0 .. numStates - 1 : P[k + 1] \subseteq P[k]
  BY PkTablesAre DEF NextPkTable
<1> HIDE DEF P
<1>3. \A k : IsFiniteSet(Representatives(P[k])) /\ N(k) \in Nat /\ N(k) <= numStates
  <2>1. IsFiniteSet(State) /\ Cardinality(State) = numStates
    BY <1>0, FS_Interval DEF State
  <2>2. \A k : Representatives(P[k]) \subseteq State
    BY DEF Representatives
  <2> QED BY <2>1, <2>2, FS_Subset, FS_CardinalityType
<1>4. 0 \in A
  <2>1. 0 \in 0 .. numStates
    BY <1>0
  <2>2. PICK r : r \in Representatives(P[0])
    BY <1>1, <2>1, HasRepresentative, StateFacts
  <2>3. N(0) # 0
    BY <1>3, <2>2, FS_EmptySet
  <2> QED BY <1>3, <2>3
<1>5. ASSUME NEW k \in Nat, k \in A PROVE k + 1 \in A
  <2> SUFFICES ASSUME k + 1 <= numStates PROVE N(k + 1) >= (k + 1) + 1
    OBVIOUS
  <2>1. k \in 0 .. numStates - 1 /\ k \in 0 .. numStates /\ k + 1 \in 0 .. numStates
    BY <1>0
  <2>2. N(k) >= k + 1
    BY <1>5, <2>1
  <2>3. /\ Representatives(P[k]) \subseteq Representatives(P[k + 1])
        /\ Representatives(P[k]) # Representatives(P[k + 1])
    BY <1>1, <1>2, <2>1, MoreRepresentatives
  <2>4. N(k) <= N(k + 1) /\ N(k) # N(k + 1)
    BY <1>3, <2>3, FS_Subset
  <2>5. N(k) \in Nat /\ N(k + 1) \in Nat
    BY <1>3
  <2> HIDE DEF N
  <2> QED BY <2>2, <2>4, <2>5
<1>6. N(numStates) \in Nat /\ N(numStates) <= numStates
  BY <1>3
<1> HIDE DEF N
<1> HIDE DEF A
<1>7. numStates \in A
  BY <1>0, <1>4, <1>5, SetInduction
<1> QED BY <1>0, <1>6, <1>7 DEF A

LEMMA LastTableRests ==
  ASSUME Known, NEW f
  PROVE  NextPkTable(f, PkTables(f)[numStates]) = PkTables(f)[numStates]
<1>1. PICK k \in 0 .. numStates - 1 : PkTables(f)[k + 1] = PkTables(f)[k]
  BY OneTableRests
<1> DEFINE P == PkTables(f)
           A == {i \in Nat : k + i <= numStates => P[k + i] = P[k]}
<1>0. numStates \in Nat
  BY NumStatesAssumption
<1>2. \A i \in 0 .. numStates - 1 : P[i + 1] = NextPkTable(f, P[i])
  BY PkTablesAre
<1>3. P[k + 1] = P[k]
  BY <1>1
<1> HIDE DEF P
<1>4. NextPkTable(f, P[k]) = P[k]
  BY <1>2, <1>3
<1>5. 0 \in A
  BY <1>0
<1>6. ASSUME NEW i \in Nat, i \in A PROVE i + 1 \in A
  <2> SUFFICES ASSUME k + (i + 1) <= numStates PROVE P[k + (i + 1)] = P[k]
    OBVIOUS
  <2>1. k + i \in 0 .. numStates - 1 /\ P[k + i] = P[k] /\ k + (i + 1) = (k + i) + 1
    BY <1>0, <1>6
  <2> QED BY <1>2, <1>4, <2>1
<1> HIDE DEF A
<1>7. numStates - k \in A
  BY <1>0, <1>5, <1>6, SetInduction
<1>8. k + (numStates - k) = numStates /\ numStates - k \in Nat
  BY <1>0
<1>9. P[numStates] = P[k]
  BY <1>7, <1>8 DEF A
<1> QED BY <1>4, <1>9 DEF P

(***************************************************************************)
(* What is shown of the answers to a trace, input by input.                *)
(***************************************************************************)
OutputAt(q, t, i) == OutputOf(StateAfter(q, SubSeq(t, 1, i - 1)), t[i])

OutTrace(q, t) == [i \in DOMAIN t |-> OutputAt(q, t, i)]

LEMMA ApartAt ==
  ASSUME NEW f, NEW p, NEW q, NEW t \in Seq(Input)
  PROVE  Apart(f, p, q, t) <=> \E i \in DOMAIN t : f[OutputAt(p, t, i)] # f[OutputAt(q, t, i)]
<1> DEFINE a(s) == [i \in DOMAIN t |-> f[OutputAt(s, t, i)]]
<1>1. \A s : Shown(f, s, t) = a(s)
  BY DEF Shown, OutputAt
<1>2. a(p) # a(q) <=> \E i \in DOMAIN t : f[OutputAt(p, t, i)] # f[OutputAt(q, t, i)]
  OBVIOUS
<1> HIDE DEF a
<1> QED BY <1>1, <1>2 DEF Apart

(* the parts of a prefix *)
LEMMA PartOfPrefix ==
  ASSUME NEW s \in Seq(Input), NEW t \in Seq(Input), IsPrefix(s, t), NEW i \in DOMAIN s
  PROVE  i \in DOMAIN t /\ SubSeq(t, 1, i - 1) = SubSeq(s, 1, i - 1) /\ t[i] = s[i]
<1>1. Len(s) <= Len(t) /\ \A j \in 1 .. Len(s) : s[j] = t[j]
  BY PrefixIs
<1>2. i \in 1 .. Len(s) /\ i - 1 \in Nat /\ i - 1 <= Len(s) /\ Len(s) \in Nat /\ Len(t) \in Nat
  OBVIOUS
<1>3. /\ SubSeq(t, 1, i - 1) = [j \in 1 .. i - 1 |-> t[j]]
      /\ SubSeq(s, 1, i - 1) = [j \in 1 .. i - 1 |-> s[j]]
  <2>1. \A u \in Seq(Input) : SubSeq(u, 1, i - 1) = [j \in 1 .. i - 1 |-> u[j]]
    <3> SUFFICES ASSUME NEW u \in Seq(Input) PROVE SubSeq(u, 1, i - 1) = [j \in 1 .. i - 1 |-> u[j]]
      OBVIOUS
    <3>1. SubSeq(u, 1, i - 1) = [j \in 1 .. (i - 1) - 1 + 1 |-> u[j + 1 - 1]]
      OBVIOUS
    <3> QED BY <1>2, <3>1
  <2> QED BY <2>1
<1>4. \A j \in 1 .. i - 1 : t[j] = s[j]
  BY <1>1, <1>2
<1> QED BY <1>1, <1>2, <1>3, <1>4

(* What tells two states apart does so when it is continued. *)
LEMMA ApartPrefix ==
  ASSUME NEW f, NEW p, NEW q, NEW s \in Seq(Input), NEW t \in Seq(Input), IsPrefix(s, t), Apart(f, p, q, s)
  PROVE  Apart(f, p, q, t)
<1>1. PICK i \in DOMAIN s : f[OutputAt(p, s, i)] # f[OutputAt(q, s, i)]
  BY ApartAt
<1>2. i \in DOMAIN t /\ SubSeq(t, 1, i - 1) = SubSeq(s, 1, i - 1) /\ t[i] = s[i]
  BY PartOfPrefix
<1>3. OutputAt(p, t, i) = OutputAt(p, s, i) /\ OutputAt(q, t, i) = OutputAt(q, s, i)
  BY <1>2 DEF OutputAt
<1> QED BY <1>1, <1>2, <1>3, ApartAt

(* one input more, one output more *)
LEMMA LastPart ==
  ASSUME NEW t \in Seq(Input), NEW x \in Input
  PROVE  /\ Append(t, x) \in Seq(Input) /\ DOMAIN Append(t, x) = 1 .. Len(t) + 1
         /\ \A q : OutputAt(q, Append(t, x), Len(t) + 1) = OutputOf(StateBy(rows, q, t), x)
         /\ \A q : \A i \in DOMAIN t : OutputAt(q, Append(t, x), i) = OutputAt(q, t, i)
<1> DEFINE u == Append(t, x)
           n == Len(t) + 1
<1>1. u \in Seq(Input) /\ Len(u) = n /\ DOMAIN u = 1 .. n /\ u[n] = x /\ n \in Nat /\ IsPrefix(t, u)
  BY AppendExtends
<1>2. SubSeq(u, 1, n - 1) = t
  <2>1. SubSeq(u, 1, n - 1) = [j \in 1 .. (n - 1) - 1 + 1 |-> u[j + 1 - 1]]
    OBVIOUS
  <2>2. (n - 1) - 1 + 1 = Len(t) /\ \A j \in 1 .. Len(t) : u[j + 1 - 1] = t[j]
    BY <1>1
  <2>3. t = [j \in 1 .. Len(t) |-> t[j]]
    OBVIOUS
  <2> HIDE DEF u, n
  <2> QED BY <2>1, <2>2, <2>3
<1> HIDE DEF u
<1>3. \A q : StateAfter(q, t) = StateBy(rows, q, t)
  BY StateAfterIs
<1>4. \A q : OutputAt(q, u, n) = OutputOf(StateBy(rows, q, t), x)
  BY <1>1, <1>2, <1>3 DEF OutputAt
<1>5. \A q : \A i \in DOMAIN t : OutputAt(q, u, i) = OutputAt(q, t, i)
  BY <1>1, PartOfPrefix DEF OutputAt
<1> QED BY <1>1, <1>4, <1>5 DEF u

(* These are the outputs of the machine. *)
LEMMA OutTraceIs ==
  ASSUME Known, NEW q \in State
  PROVE  \A t \in Seq(Input) : Answers(rows, q, t, OutTrace(q, t))
<1> DEFINE A == {t \in Seq(Input) : Answers(rows, q, t, OutTrace(q, t))}
<1>0. rows \in Machines /\ Det(rows)
  BY DEF Known
<1>1. << >> \in A
  <2>1. OutTrace(q, << >>) = << >> /\ << >> \in Seq(Input)
    BY DEF OutTrace
  <2> QED BY <2>1, AnswerEmpty
<1>2. ASSUME NEW t \in Seq(Input), NEW x \in Input, t \in A PROVE Append(t, x) \in A
  <2> DEFINE s == StateBy(rows, q, t)
             y == OutputOf(s, x)
  <2>1. s \in State
    BY <1>0, StateByTyped
  <2>2. y \in Output /\ rows[s][<<x, y>>] >= 0
    BY <2>1, NextIs
  <2>3. rows[s][<<x, y>>] \in State
    BY <1>0, <2>1, <2>2, PostFacts
  <2>4. Answers(rows, q, t, OutTrace(q, t)) /\ OutTrace(q, t) \in Seq(Output)
    BY <1>2 DEF Answers
  <2>5. Answers(rows, q, Append(t, x), Append(OutTrace(q, t), y))
    <3> HIDE DEF y
    <3> QED BY <1>0, <2>2, <2>3, <2>4, AnswerStep
  <2>6. OutTrace(q, Append(t, x)) = Append(OutTrace(q, t), y)
    <3> DEFINE u == Append(t, x)
               a == OutTrace(q, u)
               b == Append(OutTrace(q, t), y)
    <3>1. /\ DOMAIN u = 1 .. Len(t) + 1 /\ OutputAt(q, u, Len(t) + 1) = y
          /\ \A i \in DOMAIN t : OutputAt(q, u, i) = OutputAt(q, t, i)
      BY LastPart
    <3>2. a = [i \in 1 .. Len(t) + 1 |-> OutputAt(q, u, i)]
      <4> HIDE DEF u
      <4> QED BY <3>1 DEF OutTrace
    <3>3. Len(OutTrace(q, t)) = Len(t) /\ Len(t) \in Nat /\ \A i \in 1 .. Len(t) : OutTrace(q, t)[i] = OutputAt(q, t, i)
      <4>1. DOMAIN OutTrace(q, t) = 1 .. Len(t)
        BY DEF OutTrace
      <4>2. \A i \in 1 .. Len(t) : OutTrace(q, t)[i] = OutputAt(q, t, i)
        BY DEF OutTrace
      <4> QED BY <2>4, <4>1, <4>2
    <3> HIDE DEF y, u, a
    <3>4. b = [i \in 1 .. Len(t) + 1 |-> b[i]] /\ b[Len(t) + 1] = y /\ \A i \in 1 .. Len(t) : b[i] = OutTrace(q, t)[i]
      <4> DEFINE o == OutTrace(q, t)
      <4>1. o \in Seq(Output) /\ Len(o) = Len(t) /\ y \in Output
        BY <2>2, <2>4, <3>3 DEF y
      <4>2. b = Append(o, y)
        OBVIOUS
      <4> HIDE DEF o, b
      <4>3. b \in Seq(Output) /\ Len(b) = Len(o) + 1 /\ b[Len(o) + 1] = y /\ \A i \in 1 .. Len(o) : b[i] = o[i]
        BY <4>1, <4>2
      <4> QED BY <4>1, <4>3 DEF o
    <3> HIDE DEF b
    <3>5. \A i \in 1 .. Len(t) + 1 : OutputAt(q, u, i) = b[i]
      BY <3>1, <3>3, <3>4
    <3>6. a = b
      BY <3>2, <3>4, <3>5
    <3> QED BY <3>6 DEF a, b, u
  <2> HIDE DEF y
  <2>7. Append(t, x) \in Seq(Input)
    BY AppendExtends
  <2> QED BY <2>5, <2>6, <2>7
<1> HIDE DEF A
<1>3. Seq(Input) \subseteq A
  BY <1>1, <1>2, SeqInduction
<1> QED BY <1>3 DEF A

LEMMA OutputsAreOne ==
  ASSUME Known, NEW q \in State, NEW t \in Seq(Input)
  PROVE  OutputsOf(rows, q, t) = {OutTrace(q, t)} /\ OutTrace(q, t) \in Seq(Output)
<1>1. Answers(rows, q, t, OutTrace(q, t))
  BY OutTraceIs
<1> QED BY <1>1, OneOutput DEF Answers

(* What cannot be told from the outputs is not shown either; under the     *)
(* identity all of the outputs is shown.                                   *)
LEMMA SameShown ==
  ASSUME Known, NEW p \in State, NEW q \in State, NEW t \in Seq(Input)
  PROVE  /\ \A f : Apart(f, p, q, t) => Differ(rows, p, q, t)
         /\ Differ(rows, p, q, t) => Apart(Identity, p, q, t)
<1>1. /\ OutputsOf(rows, p, t) = {OutTrace(p, t)} /\ OutputsOf(rows, q, t) = {OutTrace(q, t)}
      /\ OutTrace(p, t) \in Seq(Output) /\ OutTrace(q, t) \in Seq(Output)
  BY OutputsAreOne
<1>2. Differ(rows, p, q, t) <=> OutTrace(p, t) # OutTrace(q, t)
  BY <1>1 DEF Differ
<1>3. OutTrace(p, t) # OutTrace(q, t) <=> \E i \in DOMAIN t : OutputAt(p, t, i) # OutputAt(q, t, i)
  BY DEF OutTrace
<1>4. \A i \in DOMAIN t : OutputAt(p, t, i) \in Output /\ OutputAt(q, t, i) \in Output
  <2> SUFFICES ASSUME NEW i \in DOMAIN t PROVE OutputAt(p, t, i) \in Output /\ OutputAt(q, t, i) \in Output
    OBVIOUS
  <2>1. DOMAIN OutTrace(p, t) = DOMAIN t /\ DOMAIN OutTrace(q, t) = DOMAIN t
    BY DEF OutTrace
  <2>2. OutTrace(p, t)[i] \in Output /\ OutTrace(q, t)[i] \in Output
    BY <1>1, <2>1
  <2> QED BY <2>2 DEF OutTrace
<1>5. \A f : Apart(f, p, q, t) => \E i \in DOMAIN t : OutputAt(p, t, i) # OutputAt(q, t, i)
  BY ApartAt
<1>6. \A y \in Output : Identity[y] = y
  BY DEF Identity
<1> QED BY <1>2, <1>3, <1>4, <1>5, <1>6, ApartAt

(***************************************************************************)
(* States of the same class show the same, now and behind every trace.     *)
(***************************************************************************)
LEMMA ClassFacts ==
  ASSUME Known, NEW f
  PROVE  /\ \A p \in State : SameClass(f, p, p)
         /\ \A p, q \in State : SameClass(f, p, q) => SameClass(f, q, p)
         /\ \A p, q, r \in State : SameClass(f, p, q) /\ SameClass(f, q, r) => SameClass(f, p, r)
<1>1. numStates \in 0 .. numStates
  BY NumStatesAssumption
<1>2. IsEquivalence(PkTables(f)[numStates])
  BY <1>1, PkEquivalence
<1> QED BY <1>2 DEF IsEquivalence, SameClass

LEMMA ClassStep ==
  ASSUME Known, NEW f, NEW p \in State, NEW q \in State, SameClass(f, p, q), NEW x \in Input
  PROVE  f[OutputOf(p, x)] = f[OutputOf(q, x)] /\ SameClass(f, Next1(p, x), Next1(q, x))
<1> DEFINE E == PkTables(f)[numStates]
<1>1. NextPkTable(f, E) = E
  BY LastTableRests
<1>2. E \subseteq State \X State
  <2>1. numStates \in 0 .. numStates
    BY NumStatesAssumption
  <2> QED BY <2>1, PkEquivalence DEF IsEquivalence
<1>3. <<p, q>> \in E
  BY DEF SameClass
<1>4. <<p, q>> \in NextPkTable(f, E)
  BY <1>1, <1>3
<1> HIDE DEF E
<1>5. f[OutputOf(p, x)] = f[OutputOf(q, x)] /\ <<Next1(p, x), Next1(q, x)>> \in E
  BY <1>2, <1>4, NextPkTableHas
<1> QED BY <1>5 DEF SameClass, E

LEMMA ClassBehind ==
  ASSUME Known, NEW f, NEW p \in State, NEW q \in State, SameClass(f, p, q)
  PROVE  \A t \in Seq(Input) : SameClass(f, StateBy(rows, p, t), StateBy(rows, q, t))
<1> DEFINE A == {t \in Seq(Input) : SameClass(f, StateBy(rows, p, t), StateBy(rows, q, t))}
<1>0. rows \in Machines /\ Det(rows)
  BY DEF Known
<1>1. << >> \in A
  <2>1. << >> \in Seq(Input)
    OBVIOUS
  <2> QED BY <2>1, StateByEmpty
<1>2. ASSUME NEW t \in Seq(Input), NEW x \in Input, t \in A PROVE Append(t, x) \in A
  <2> DEFINE a == StateBy(rows, p, t)
             b == StateBy(rows, q, t)
  <2>1. a \in State /\ b \in State /\ SameClass(f, a, b)
    BY <1>0, <1>2, StateByTyped
  <2>2. SameClass(f, Next1(a, x), Next1(b, x))
    <3> HIDE DEF a, b
    <3> QED BY <2>1, ClassStep
  <2>3. StateBy(rows, p, Append(t, x)) = Next1(a, x) /\ StateBy(rows, q, Append(t, x)) = Next1(b, x)
    <3>1. StateBy(rows, p, Append(t, x)) = PostOf(rows, a, x) /\ StateBy(rows, q, Append(t, x)) = PostOf(rows, b, x)
      BY StateByStep
    <3> HIDE DEF a, b
    <3>2. Next1(a, x) = PostOf(rows, a, x) /\ Next1(b, x) = PostOf(rows, b, x)
      BY <2>1, NextIs
    <3> QED BY <3>1, <3>2
  <2>4. Append(t, x) \in Seq(Input)
    BY AppendExtends
  <2> QED BY <2>2, <2>3, <2>4
<1> HIDE DEF A
<1>3. Seq(Input) \subseteq A
  BY <1>1, <1>2, SeqInduction
<1> QED BY <1>3 DEF A

LEMMA ClassShowsSame ==
  ASSUME Known, NEW f, NEW p \in State, NEW q \in State, SameClass(f, p, q), NEW t \in Seq(Input)
  PROVE  ~Apart(f, p, q, t)
<1> SUFFICES ASSUME NEW i \in DOMAIN t PROVE f[OutputAt(p, t, i)] = f[OutputAt(q, t, i)]
  BY ApartAt
<1> DEFINE s == SubSeq(t, 1, i - 1)
<1>1. s \in Seq(Input) /\ t[i] \in Input
  <2>1. i - 1 \in 0 .. Len(t)
    OBVIOUS
  <2> QED BY <2>1, SplitAt
<1> HIDE DEF s
<1>2. StateAfter(p, s) = StateBy(rows, p, s) /\ StateAfter(q, s) = StateBy(rows, q, s)
  BY <1>1, StateAfterIs
<1>3. StateBy(rows, p, s) \in State /\ StateBy(rows, q, s) \in State
  BY <1>1, StateByTyped DEF Known
<1>4. SameClass(f, StateBy(rows, p, s), StateBy(rows, q, s))
  BY <1>1, ClassBehind
<1>5. f[OutputOf(StateAfter(p, s), t[i])] = f[OutputOf(StateAfter(q, s), t[i])]
  BY <1>1, <1>2, <1>3, <1>4, ClassStep
<1> QED BY <1>5 DEF OutputAt, s

(* what a trace tells of two states it tells of all of their classes *)
LEMMA ApartOfClass ==
  ASSUME Known, NEW f, NEW p \in State, NEW q \in State, NEW a \in State, NEW b \in State,
         SameClass(f, a, p), SameClass(f, b, q), NEW t \in Seq(Input), Apart(f, a, b, t)
  PROVE  Apart(f, p, q, t) /\ Apart(f, q, p, t)
<1>1. ~Apart(f, a, p, t) /\ ~Apart(f, b, q, t)
  BY ClassShowsSame
<1> QED BY <1>1 DEF Apart

(* In a minimal machine different states are of different classes if all   *)
(* of the outputs is shown.                                                *)
LEMMA IdentityClass ==
  ASSUME Known, MinimalRows, NEW p \in State, NEW q \in State, SameClass(Identity, p, q)
  PROVE  p = q
<1> SUFFICES ASSUME p # q PROVE FALSE
  OBVIOUS
<1>1. PkTrace(p, q) \in Seq(Input) /\ Differ(rows, p, q, PkTrace(p, q))
  BY PkTraceDistinguishes DEF Known
<1>2. Apart(Identity, p, q, PkTrace(p, q))
  BY <1>1, SameShown
<1> QED BY <1>1, <1>2, ClassShowsSame

(***************************************************************************)
(* The trace read off the tables: before each input the pair of states is  *)
(* in one table and not in the next.                                       *)
(***************************************************************************)
TableApart(f, p, q) == Min({k \in 1 .. numStates : <<p, q>> \notin PkTables(f)[k]})

LEMMA GillTraceIs ==
  ASSUME NEW f, NEW p, NEW q, NEW l \in Nat, l = TableApart(f, p, q)
  PROVE  \E c : /\ GillTrace(f, p, q) = c[l].itrc
                /\ c[0] = [p |-> p, q |-> q, itrc |-> << >>]
                /\ \A i \in 0 .. l - 1 : c[i + 1] = GillStep(f, PkTables(f), c[i], (l - 1) - i)
<1> DEFINE P == PkTables(f)
           m == <<"trace", f, P, l>>
           base == [p |-> p, q |-> q, itrc |-> << >>]
           Is(g) == g = [i \in 0 .. l |-> IF i = 0 THEN base ELSE GillStep(f, P, g[i - 1], l - i)]
           c == CHOOSE g : Is(g)
<1>1. GillTrace(f, p, q) = c[l].itrc
  BY DEF GillTrace, GillStep, SeparatingInputs, TableApart
<1>2. \A a, k : RoundOf(m, a, k) = GillStep(f, P, a, l - k)
  BY RoundCases
<1> HIDE DEF m, base, P
<1>3. \A g : Is(g) <=> IsRecursion(g, m, base, l)
  BY <1>2 DEF IsRecursion
<1> HIDE DEF Is
<1>4. c = Recursion(m, base, l)
  BY <1>3 DEF Recursion
<1> HIDE DEF c
<1>0. l \in Nat
  OBVIOUS
<1>5. c[0] = base /\ \A i \in 0 .. l - 1 : c[i + 1] = RoundOf(m, c[i], i + 1)
  BY ONLY <1>0, <1>4, RecursionIs
<1>6. \A i \in 0 .. l - 1 : c[i + 1] = GillStep(f, P, c[i], (l - 1) - i)
  <2> SUFFICES ASSUME NEW i \in 0 .. l - 1 PROVE c[i + 1] = GillStep(f, P, c[i], (l - 1) - i)
    OBVIOUS
  <2>1. l - (i + 1) = (l - 1) - i
    OBVIOUS
  <2> QED BY <1>2, <1>5, <2>1
<1> QED BY <1>1, <1>5, <1>6 DEF base, P

(* the pair behind the trace so far is in table k and not in table k + 1 *)
GillPair(f, p, q, c, k) ==
  /\ c.itrc \in Seq(Input)
  /\ c.p = StateBy(rows, p, c.itrc) /\ c.p \in State
  /\ c.q = StateBy(rows, q, c.itrc) /\ c.q \in State
  /\ <<c.p, c.q>> \in PkTables(f)[k] /\ <<c.p, c.q>> \notin PkTables(f)[k + 1]

(* of a pair with different outputs, one input tells them apart *)
LEMMA OneInputApart ==
  ASSUME NEW f, NEW p \in State, NEW q \in State, NEW x \in Input
  PROVE  Apart(f, p, q, <<x>>) <=> f[OutputOf(p, x)] # f[OutputOf(q, x)]
<1> DEFINE t == <<x>>
<1>1. t \in Seq(Input) /\ DOMAIN t = {1} /\ t[1] = x
  OBVIOUS
<1>2. \A s : OutputAt(s, t, 1) = OutputOf(s, x)
  <2>1. SubSeq(t, 1, 1 - 1) = << >>
    BY <1>1
  <2>2. \A s : StateAfter(s, << >>) = s
    <3>1. << >> \in Seq(Input)
      OBVIOUS
    <3> QED BY <3>1, StateAfterIs, StateByEmpty
  <2> HIDE DEF t
  <2> QED BY <1>1, <2>1, <2>2 DEF OutputAt
<1> HIDE DEF t
<1>3. Apart(f, p, q, t) <=> f[OutputOf(p, x)] # f[OutputOf(q, x)]
  BY <1>1, <1>2, ApartAt
<1> QED BY <1>3 DEF t

LEMMA GillStepMoves ==
  ASSUME Known, NEW f, NEW p \in State, NEW q \in State, NEW c, NEW k \in 1 .. numStates - 1,
         GillPair(f, p, q, c, k)
  PROVE  GillPair(f, p, q, GillStep(f, PkTables(f), c, k), k - 1)
<1> DEFINE P == PkTables(f)
           X == SeparatingInputs(f, P, c, k)
           x == Min(X)
<1>0. /\ c.itrc \in Seq(Input) /\ c.p \in State /\ c.q \in State
      /\ c.p = StateBy(rows, p, c.itrc) /\ c.q = StateBy(rows, q, c.itrc)
      /\ <<c.p, c.q>> \in P[k] /\ <<c.p, c.q>> \notin P[k + 1]
  BY DEF GillPair
<1>1. numStates \in Nat /\ k \in 0 .. numStates - 1 /\ k - 1 \in 0 .. numStates - 1 /\ (k - 1) + 1 = k /\ k # 0
      /\ k \in 0 .. numStates /\ k - 1 \in 0 .. numStates
  BY NumStatesAssumption
<1>2. /\ P[k] = NextPkTable(f, P[k - 1]) /\ P[k + 1] = NextPkTable(f, P[k])
      /\ P[k] \subseteq State \X State /\ P[k - 1] \subseteq State \X State
  <2>1. \A i \in 0 .. numStates - 1 : P[i + 1] = NextPkTable(f, P[i])
    BY PkTablesAre
  <2>2. P[k] \subseteq State \X State /\ P[k - 1] \subseteq State \X State
    BY <1>1, PkEquivalence DEF IsEquivalence
  <2> HIDE DEF P
  <2> QED BY <1>1, <2>1, <2>2
<1> HIDE DEF P
<1>3. \A z \in Input : f[OutputOf(c.p, z)] = f[OutputOf(c.q, z)] /\ <<Next1(c.p, z), Next1(c.q, z)>> \in P[k - 1]
  BY <1>0, <1>2, NextPkTableHas
<1>4. \E z \in Input : <<Next1(c.p, z), Next1(c.q, z)>> \notin P[k]
  <2> SUFFICES ASSUME \A z \in Input : <<Next1(c.p, z), Next1(c.q, z)>> \in P[k] PROVE FALSE
    OBVIOUS
  <2>1. <<c.p, c.q>> \in NextPkTable(f, P[k])
    BY <1>0, <1>2, <1>3, NextPkTableHas
  <2> QED BY <1>0, <1>2, <2>1
<1>5. X = {z \in Input : <<Next1(c.p, z), Next1(c.q, z)>> \notin P[k]}
  BY <1>1 DEF SeparatingInputs
<1>6. X # {} /\ X \subseteq Nat
  BY <1>4, <1>5, StateFacts
<1> HIDE DEF X
<1>7. x \in X
  BY <1>6, MinOf
<1>8. GillStep(f, P, c, k) = [p |-> Next1(c.p, x), q |-> Next1(c.q, x), itrc |-> Append(c.itrc, x)]
  BY DEF GillStep, X
<1> HIDE DEF x
<1>9. x \in Input /\ <<Next1(c.p, x), Next1(c.q, x)>> \notin P[k]
  BY <1>5, <1>7
<1>10. Next1(c.p, x) \in State /\ Next1(c.q, x) \in State
  BY <1>0, <1>9, NextIs
<1>11. /\ Next1(c.p, x) = StateBy(rows, p, Append(c.itrc, x))
       /\ Next1(c.q, x) = StateBy(rows, q, Append(c.itrc, x))
       /\ Append(c.itrc, x) \in Seq(Input)
  <2>1. Next1(c.p, x) = PostOf(rows, c.p, x) /\ Next1(c.q, x) = PostOf(rows, c.q, x)
    BY <1>0, <1>9, NextIs
  <2>2. /\ StateBy(rows, p, Append(c.itrc, x)) = PostOf(rows, StateBy(rows, p, c.itrc), x)
        /\ StateBy(rows, q, Append(c.itrc, x)) = PostOf(rows, StateBy(rows, q, c.itrc), x)
    BY <1>0, <1>9, StateByStep
  <2>3. Append(c.itrc, x) \in Seq(Input)
    BY <1>0, <1>9, AppendExtends
  <2> QED BY <1>0, <2>1, <2>2, <2>3
<1> DEFINE d == GillStep(f, P, c, k)
<1>12. d.p = Next1(c.p, x) /\ d.q = Next1(c.q, x) /\ d.itrc = Append(c.itrc, x)
  BY <1>8
<1> HIDE DEF d
<1>13. <<d.p, d.q>> \in P[k - 1] /\ <<d.p, d.q>> \notin P[(k - 1) + 1]
  BY <1>1, <1>3, <1>9, <1>12
<1>14. GillPair(f, p, q, d, k - 1)
  BY <1>10, <1>11, <1>12, <1>13 DEF GillPair, P
<1> QED BY <1>14 DEF d, P

(* the last input *)
LEMMA GillStepLast ==
  ASSUME Known, NEW f, NEW p \in State, NEW q \in State, NEW c, GillPair(f, p, q, c, 0)
  PROVE  LET t == GillStep(f, PkTables(f), c, 0).itrc IN t \in Seq(Input) /\ Apart(f, p, q, t)
<1> DEFINE P == PkTables(f)
           X == SeparatingInputs(f, P, c, 0)
           x == Min(X)
<1>0. /\ c.itrc \in Seq(Input) /\ c.p \in State /\ c.q \in State
      /\ c.p = StateBy(rows, p, c.itrc) /\ c.q = StateBy(rows, q, c.itrc)
      /\ <<c.p, c.q>> \notin P[1]
  BY DEF GillPair
<1>1. P[0] = State \X State /\ P[1] = NextPkTable(f, P[0])
  <2>1. 0 \in 0 .. numStates - 1 /\ 0 + 1 = 1
    BY NumStatesAssumption
  <2> QED BY <2>1, PkTablesAre
<1> HIDE DEF P
<1>2. \A z \in Input : <<Next1(c.p, z), Next1(c.q, z)>> \in P[0]
  BY <1>0, <1>1, NextIs
<1>3. \E z \in Input : f[OutputOf(c.p, z)] # f[OutputOf(c.q, z)]
  BY <1>0, <1>1, <1>2, NextPkTableHas
<1>4. X = {z \in Input : Apart(f, c.p, c.q, <<z>>)}
  BY DEF SeparatingInputs
<1>5. X = {z \in Input : f[OutputOf(c.p, z)] # f[OutputOf(c.q, z)]}
  BY <1>0, <1>4, OneInputApart
<1>6. X # {} /\ X \subseteq Nat
  BY <1>3, <1>5, StateFacts
<1> HIDE DEF X
<1>7. x \in X
  BY <1>6, MinOf
<1>8. GillStep(f, P, c, 0).itrc = Append(c.itrc, x)
  BY DEF GillStep, X
<1> HIDE DEF x
<1>9. x \in Input /\ f[OutputOf(c.p, x)] # f[OutputOf(c.q, x)]
  BY <1>5, <1>7
<1> DEFINE t == Append(c.itrc, x)
           n == Len(c.itrc) + 1
<1>10. t \in Seq(Input) /\ DOMAIN t = 1 .. n /\ n \in DOMAIN t
  BY <1>0, <1>9, LastPart
<1>11. \A s : OutputAt(s, t, n) = OutputOf(StateBy(rows, s, c.itrc), x)
  BY <1>0, <1>9, LastPart
<1> HIDE DEF t, n
<1>12. f[OutputAt(p, t, n)] # f[OutputAt(q, t, n)]
  BY <1>0, <1>9, <1>11
<1>13. Apart(f, p, q, t)
  BY <1>10, <1>12, ApartAt
<1> QED BY <1>8, <1>10, <1>13 DEF t, P

LEMMA GillTraceApart ==
  ASSUME Known, NEW f, NEW p \in State, NEW q \in State, ~SameClass(f, p, q)
  PROVE  GillTrace(f, p, q) \in Seq(Input) /\ Apart(f, p, q, GillTrace(f, p, q))
<1> DEFINE P == PkTables(f)
           K == {k \in 1 .. numStates : <<p, q>> \notin P[k]}
           l == Min(K)
<1>0. numStates \in Nat \ {0} /\ P[0] = State \X State
  BY NumStatesAssumption, PkTablesAre
<1>1. K \subseteq Nat /\ numStates \in K
  BY <1>0 DEF SameClass
<1> HIDE DEF P
<1>2. l \in K /\ \A k \in K : l <= k
  <2> HIDE DEF K
  <2> QED BY <1>1, MinOf
<1> HIDE DEF l
<1>3. l \in 1 .. numStates /\ <<p, q>> \notin P[l] /\ l \in Nat /\ l - 1 \in 0 .. numStates
  BY <1>0, <1>2
<1>4. <<p, q>> \in P[l - 1]
  <2>1. CASE l = 1
    BY <1>0, <2>1
  <2>2. CASE l # 1
    <3>1. l - 1 \in 1 .. numStates /\ l - 1 \notin K
      BY <1>2, <1>3, <2>2
    <3> QED BY <3>1
  <2> QED BY <2>1, <2>2
<1>a. l = TableApart(f, p, q)
  BY DEF l, P, TableApart
<1>b. l \in Nat
  BY <1>3
<1>c. \E c : /\ GillTrace(f, p, q) = c[l].itrc
            /\ c[0] = [p |-> p, q |-> q, itrc |-> << >>]
            /\ \A i \in 0 .. l - 1 : c[i + 1] = GillStep(f, PkTables(f), c[i], (l - 1) - i)
  BY ONLY <1>a, <1>b, GillTraceIs
<1>5. PICK c : /\ GillTrace(f, p, q) = c[l].itrc
               /\ c[0] = [p |-> p, q |-> q, itrc |-> << >>]
               /\ \A i \in 0 .. l - 1 : c[i + 1] = GillStep(f, P, c[i], (l - 1) - i)
  BY ONLY <1>c DEF P
<1> HIDE DEF K
<1> DEFINE A == {i \in Nat : i <= l - 1 => GillPair(f, p, q, c[i], (l - 1) - i)}
<1>6. 0 \in A
  <2>1. << >> \in Seq(Input) /\ StateBy(rows, p, << >>) = p /\ StateBy(rows, q, << >>) = q
    BY StateByEmpty
  <2>2. c[0].p = p /\ c[0].q = q /\ c[0].itrc = << >> /\ (l - 1) - 0 = l - 1 /\ (l - 1) + 1 = l
    BY <1>3, <1>5
  <2> QED BY <1>3, <1>4, <2>1, <2>2 DEF GillPair, P
<1>7. ASSUME NEW i \in Nat, i \in A PROVE i + 1 \in A
  <2> SUFFICES ASSUME i + 1 <= l - 1 PROVE GillPair(f, p, q, c[i + 1], (l - 1) - (i + 1))
    OBVIOUS
  <2> DEFINE k == (l - 1) - i
  <2>1. /\ k \in 1 .. numStates - 1 /\ k - 1 = (l - 1) - (i + 1)
        /\ i \in 0 .. l - 1 /\ GillPair(f, p, q, c[i], k)
    BY <1>0, <1>3, <1>7
  <2>2. c[i + 1] = GillStep(f, P, c[i], k)
    BY <1>5, <2>1
  <2> HIDE DEF k
  <2>3. GillPair(f, p, q, c[i + 1], k - 1)
    BY <2>1, <2>2, GillStepMoves DEF P
  <2> QED BY <2>1, <2>3
<1> HIDE DEF A
<1>8. l - 1 \in A
  <2>1. l - 1 \in Nat
    BY <1>3
  <2> QED BY <1>6, <1>7, <2>1, SetInduction
<1>9. GillPair(f, p, q, c[l - 1], 0)
  <2>1. (l - 1) - (l - 1) = 0 /\ l - 1 <= l - 1
    BY <1>3
  <2> QED BY <1>8, <2>1 DEF A
<1>10. c[l] = GillStep(f, P, c[l - 1], 0)
  <2>1. l - 1 \in 0 .. l - 1 /\ (l - 1) + 1 = l /\ (l - 1) - (l - 1) = 0
    BY <1>3
  <2> QED BY <1>5, <2>1
<1> QED BY <1>5, <1>9, <1>10, GillStepLast DEF P

(***************************************************************************)
(* Characterisation sets: each trace is added if it is needed, none of     *)
(* those before is lost but for a longer one, and so all pairs of states   *)
(* of different classes are told apart.                                    *)
(***************************************************************************)
ToldBy(f, p, q, T) == \E t \in T : Apart(f, p, q, t)

TraceSet(T) == T \subseteq Seq(Input) /\ Antichain(T) /\ IsFiniteSet(T) /\ Bounded(T)

LEMMA WithPairKeeps ==
  ASSUME Known, NEW f, NEW T, TraceSet(T), NEW p \in State, NEW q \in State, ~SameClass(f, p, q)
  PROVE  /\ TraceSet(WithPairOf(f, T, p, q))
         /\ ToldBy(f, p, q, WithPairOf(f, T, p, q))
         /\ \A a, b : ToldBy(f, a, b, T) => ToldBy(f, a, b, WithPairOf(f, T, p, q))
<1>1. CASE ToldBy(f, p, q, T)
  BY <1>1 DEF WithPairOf, ToldBy
<1>2. CASE ~ToldBy(f, p, q, T)
  <2> DEFINE t == GillTrace(f, p, q)
             U == AddToRoot(T, t)
  <2>1. WithPairOf(f, T, p, q) = U
    BY <1>2 DEF WithPairOf, ToldBy
  <2>2. t \in Seq(Input) /\ Apart(f, p, q, t)
    BY GillTraceApart
  <2>3. T \subseteq Seq(Input) /\ Antichain(T) /\ IsFiniteSet(T) /\ Bounded(T)
    BY DEF TraceSet
  <2> HIDE DEF t
  <2>4. /\ U \subseteq Seq(Input) /\ Antichain(U)
        /\ \A s \in T \cup {t} : \E u \in U : IsPrefix(s, u)
    BY <2>2, <2>3, AddToRootKeeps
  <2>5. IsFiniteSet(U) /\ Bounded(U)
    BY <2>2, <2>3, AddToRootIn
  <2> HIDE DEF U
  <2>6. ASSUME NEW a, NEW b, NEW s \in T \cup {t}, Apart(f, a, b, s) PROVE ToldBy(f, a, b, U)
    <3>1. PICK u \in U : IsPrefix(s, u)
      BY <2>4, <2>6
    <3>2. s \in Seq(Input) /\ u \in Seq(Input)
      BY <2>2, <2>3, <2>4
    <3>3. Apart(f, a, b, u)
      BY <2>6, <3>1, <3>2, ApartPrefix
    <3> QED BY <3>3 DEF ToldBy
  <2>7. ToldBy(f, p, q, U)
    BY <2>2, <2>6
  <2>8. \A a, b : ToldBy(f, a, b, T) => ToldBy(f, a, b, U)
    BY <2>6 DEF ToldBy
  <2> QED BY <2>1, <2>4, <2>5, <2>7, <2>8 DEF TraceSet
<1> QED BY <1>1, <1>2

(* set[k]: the characterisation set after the first k pairs *)
Collected(f, order, pairs, set, n) ==
  /\ set[0] = {<< >>}
  /\ \A k \in 0 .. n - 1 : set[k + 1] = WithPairOf(f, set[k], order[pairs[k + 1][1]], order[pairs[k + 1][2]])

LEMMA CharacterisationSetIs ==
  ASSUME NEW f, NEW order, NEW pairs, pairs = IndexPairs(Len(order)), NEW n \in Nat, n = Len(pairs)
  PROVE  \E set : CharacterisationSetOf(f, order) = set[n] /\ Collected(f, order, pairs, set, n)
<1> DEFINE m == <<"set", f, order, pairs>>
           base == {<< >>}
           Is(g) == g = [k \in 0 .. n |-> IF k = 0 THEN base
                                          ELSE WithPairOf(f, g[k - 1], order[pairs[k][1]], order[pairs[k][2]])]
           set == CHOOSE g : Is(g)
<1>1. CharacterisationSetOf(f, order) = set[n]
  BY DEF CharacterisationSetOf, WithPairOf
<1>2. \A a, k : RoundOf(m, a, k) = WithPairOf(f, a, order[pairs[k][1]], order[pairs[k][2]])
  BY RoundCases
<1> HIDE DEF m, base
<1>3. ASSUME NEW g PROVE Is(g) <=> IsRecursion(g, m, base, n)
  <2> DEFINE Row(k) == IF k = 0 THEN base ELSE WithPairOf(f, g[k - 1], order[pairs[k][1]], order[pairs[k][2]])
             Round(k) == IF k = 0 THEN base ELSE RoundOf(m, g[k - 1], k)
  <2>1. \A k \in 0 .. n : Row(k) = Round(k)
    BY <1>2
  <2>2. Is(g) <=> g = [k \in 0 .. n |-> Row(k)]
    OBVIOUS
  <2>3. IsRecursion(g, m, base, n) <=> g = [k \in 0 .. n |-> Round(k)]
    BY DEF IsRecursion
  <2> HIDE DEF Row, Round, Is
  <2>4. [k \in 0 .. n |-> Row(k)] = [k \in 0 .. n |-> Round(k)]
    BY <2>1
  <2> QED BY <2>2, <2>3, <2>4
<1> HIDE DEF Is
<1>4. set = Recursion(m, base, n)
  BY <1>3 DEF Recursion
<1> HIDE DEF set
<1>0. n \in Nat
  OBVIOUS
<1>5. set[0] = base /\ \A k \in 0 .. n - 1 : set[k + 1] = RoundOf(m, set[k], k + 1)
  BY ONLY <1>0, <1>4, RecursionIs
<1>6. \A k \in 0 .. n - 1 : set[k + 1] = WithPairOf(f, set[k], order[pairs[k + 1][1]], order[pairs[k + 1][2]])
  BY <1>2, <1>5
<1>7. Collected(f, order, pairs, set, n)
  BY <1>5, <1>6 DEF base, Collected
<1> QED BY <1>1, <1>7

LEMMA CharacterisationSetTells ==
  ASSUME Known, NEW f, NEW order \in Classes(f)
  PROVE  LET C == CharacterisationSetOf(f, order)
         IN  /\ C \in SUBSET Seq(Input) /\ Bounded(C)
             /\ \A p, q \in State : ~SameClass(f, p, q) => ToldBy(f, p, q, C)
<1> DEFINE S == Representatives(PkTables(f)[numStates])
           C == CharacterisationSetOf(f, order)
           pairs == IndexPairs(Len(order))
           n == Len(pairs)
           len == Len(order)
<1>1. Classes(f) = SetToSeqs(S) /\ S \in SUBSET State
  BY DEF Classes, Representatives, SameClass
<1>2. /\ order \in Seq(State)
      /\ \A i, j \in 1 .. len : order[i] = order[j] => i = j
      /\ \A q : q \in S <=> \E i \in 1 .. len : order[i] = q
  <2> HIDE DEF S
  <2> QED BY <1>1, OrderOfSet
<1>3. len \in Nat
  BY <1>2
<1>4. pairs \in Seq((1 .. len) \X (1 .. len)) /\ Range(pairs) = {ij \in (1 .. len) \X (1 .. len) : ij[1] < ij[2]}
  BY <1>3, IndexPairsHas
<1>5. n \in Nat /\ DOMAIN pairs = 1 .. n
  <2> HIDE DEF pairs
  <2> QED BY <1>4
<1>p. pairs = IndexPairs(Len(order)) /\ n = Len(pairs) /\ n \in Nat /\ C = CharacterisationSetOf(f, order)
  BY <1>5
<1> HIDE DEF n, C, pairs
<1>6. PICK set : C = set[n] /\ Collected(f, order, pairs, set, n)
  BY ONLY <1>p, CharacterisationSetIs
<1> DEFINE a(k) == order[pairs[k][1]]
           b(k) == order[pairs[k][2]]
<1>7. ASSUME NEW k \in 1 .. n PROVE a(k) \in State /\ b(k) \in State /\ ~SameClass(f, a(k), b(k))
  <2>1. pairs[k] \in Range(pairs)
    BY <1>5 DEF Range
  <2> HIDE DEF pairs
  <2>2. pairs[k] \in (1 .. len) \X (1 .. len) /\ pairs[k][1] < pairs[k][2]
    BY <1>4, <2>1
  <2> DEFINE i == pairs[k][1]
             j == pairs[k][2]
  <2>3. i \in 1 .. len /\ j \in 1 .. len /\ i # j
    BY <1>3, <2>2
  <2> HIDE DEF i, j
  <2>4. order[i] \in S /\ order[j] \in S /\ order[i] # order[j]
    BY <1>2, <2>3
  <2>5. IsEquivalence(PkTables(f)[numStates])
    <3>1. numStates \in 0 .. numStates
      BY NumStatesAssumption
    <3> QED BY <3>1, PkEquivalence
  <2>6. ~SameClass(f, order[i], order[j])
    BY <2>4, <2>5, OneRepresentative DEF SameClass
  <2> QED BY <1>1, <2>4, <2>6 DEF i, j
<1>8. \A k \in 0 .. n - 1 : set[k + 1] = WithPairOf(f, set[k], a(k + 1), b(k + 1))
  BY <1>6 DEF Collected
<1> HIDE DEF a, b
<1> DEFINE A == {k \in Nat : k <= n => TraceSet(set[k]) /\ \A i \in 1 .. k : ToldBy(f, a(i), b(i), set[k])}
<1>9. 0 \in A
  <2>1. TraceSet({<< >>})
    <3>1. << >> \in Seq(Input) /\ Len(<< >>) = 0
      OBVIOUS
    <3>2. Antichain({<< >>})
      BY DEF Antichain
    <3>3. IsFiniteSet({<< >>})
      BY FS_Singleton
    <3>4. Bounded({<< >>})
      BY <3>1 DEF Bounded
    <3> QED BY <3>1, <3>2, <3>3, <3>4 DEF TraceSet
  <2>2. TraceSet(set[0])
    BY <1>6, <2>1 DEF Collected
  <2>3. \A i \in 1 .. 0 : ToldBy(f, a(i), b(i), set[0])
    OBVIOUS
  <2> QED BY <2>2, <2>3
<1>10. ASSUME NEW k \in Nat, k \in A PROVE k + 1 \in A
  <2> SUFFICES ASSUME k + 1 <= n
               PROVE  TraceSet(set[k + 1]) /\ \A i \in 1 .. k + 1 : ToldBy(f, a(i), b(i), set[k + 1])
    OBVIOUS
  <2>1. k \in 0 .. n - 1 /\ k + 1 \in 1 .. n /\ TraceSet(set[k]) /\ \A i \in 1 .. k : ToldBy(f, a(i), b(i), set[k])
    BY <1>5, <1>10
  <2>2. a(k + 1) \in State /\ b(k + 1) \in State /\ ~SameClass(f, a(k + 1), b(k + 1))
    BY <1>7, <2>1
  <2>3. set[k + 1] = WithPairOf(f, set[k], a(k + 1), b(k + 1))
    BY <1>8, <2>1
  <2>4. /\ TraceSet(set[k + 1]) /\ ToldBy(f, a(k + 1), b(k + 1), set[k + 1])
        /\ \A p, q : ToldBy(f, p, q, set[k]) => ToldBy(f, p, q, set[k + 1])
    BY <2>1, <2>2, <2>3, WithPairKeeps
  <2> QED BY <2>1, <2>4
<1> HIDE DEF A
<1>11. n \in A
  BY <1>5, <1>9, <1>10, SetInduction
<1>12. TraceSet(C) /\ \A i \in 1 .. n : ToldBy(f, a(i), b(i), C)
  BY <1>5, <1>6, <1>11 DEF A
<1>13. ASSUME NEW p \in State, NEW q \in State, ~SameClass(f, p, q) PROVE ToldBy(f, p, q, C)
  <2>1. IsEquivalence(PkTables(f)[numStates])
    <3>1. numStates \in 0 .. numStates
      BY NumStatesAssumption
    <3> QED BY <3>1, PkEquivalence
  <2>2. PICK r \in S : SameClass(f, r, p)
    BY <2>1, HasRepresentative DEF SameClass
  <2>3. PICK s \in S : SameClass(f, s, q)
    BY <2>1, HasRepresentative DEF SameClass
  <2>4. r \in State /\ s \in State
    BY <1>1
  <2>5. r # s
    BY <1>13, <2>2, <2>3, <2>4, ClassFacts
  <2>6. PICK i \in 1 .. len, j \in 1 .. len : order[i] = r /\ order[j] = s
    <3> HIDE DEF S
    <3> QED BY <1>2, <2>2, <2>3
  <2>7. ASSUME NEW c \in 1 .. len, NEW d \in 1 .. len, c < d PROVE ToldBy(f, order[c], order[d], C)
    <3> DEFINE e == <<c, d>>
    <3>1. e \in Range(pairs) /\ e[1] = c /\ e[2] = d
      BY <1>4, <2>7
    <3> HIDE DEF e, pairs
    <3>2. PICK k \in DOMAIN pairs : pairs[k] = e
      BY <3>1 DEF Range
    <3>3. k \in 1 .. n /\ a(k) = order[c] /\ b(k) = order[d]
      BY <1>5, <3>1, <3>2 DEF a, b
    <3> QED BY <1>12, <3>3
  <2>8. CASE i < j
    <3>1. PICK t \in C : Apart(f, r, s, t)
      BY <2>6, <2>7, <2>8 DEF ToldBy
    <3>2. t \in Seq(Input)
      BY <1>12 DEF TraceSet
    <3> QED BY <2>2, <2>3, <2>4, <3>1, <3>2, ApartOfClass DEF ToldBy
  <2>9. CASE j < i
    <3>1. PICK t \in C : Apart(f, s, r, t)
      BY <2>6, <2>7, <2>9 DEF ToldBy
    <3>2. t \in Seq(Input)
      BY <1>12 DEF TraceSet
    <3> QED BY <2>2, <2>3, <2>4, <3>1, <3>2, ApartOfClass DEF ToldBy
  <2>10. i < j \/ j < i
    BY <1>3, <2>5, <2>6
  <2> QED BY <2>8, <2>9, <2>10
<1> QED BY <1>12, <1>13 DEF C, TraceSet

-----------------------------------------------------------------------------
(***************************************************************************)
(* What a suite has to apply so that an implementation that passes is      *)
(* safe: behind the cover V the traces W, which tell all states apart by   *)
(* all of their outputs; V with m + 1 inputs behind it; and behind that    *)
(* the traces S, which tell the classes apart: behind up to m inputs all   *)
(* of them, behind the last input those that are needed.                   *)
(***************************************************************************)
SafeSufficient(f, im, V, W, S, m) ==
  /\ V \in SUBSET Seq(Input) /\ W \in SUBSET Seq(Input) /\ S \in SUBSET Seq(Input) /\ << >> \in V
  /\ \A q \in State : \E v \in V : q = StateBy(rows, 0, v)
  /\ \A p, q \in State : p # q => \E t \in W : Differ(rows, p, q, t)
  /\ \A v \in V, t \in W : Passes(rows, im, Start, v \o t)
  /\ \A u \in Ext(V, m + 1) : Passes(rows, im, Start, u)
  /\ \A u \in Ext(V, m), t \in S : Passes(rows, im, Start, u \o t)
  /\ \A u \in Ext(V, m + 1), p \in State :
       ~SameClass(f, p, StateBy(rows, 0, u)) =>
         \E t \in S : Apart(f, p, StateBy(rows, 0, u), t) /\ Passes(rows, im, Start, u \o t)
  /\ SmallEnough(im, m)

(* Nothing else is behind the pairs of R, and the abstract outputs are right. *)
OutOf(r, q, x) == CHOOSE y \in Output : r[q][<<x, y>>] >= 0

SafeClosed(r, f, im, R) ==
  \A p \in R, x \in Input :
    /\ \E y \in Output : im[p[2]][x][y] >= 0
    /\ \A y \in Output :
         im[p[2]][x][y] >= 0 =>
           f[y] = f[OutOf(r, p[1], x)] /\ <<PostOf(r, p[1], x), im[p[2]][x][y]>> \in R

(* Two traces to the same state of an implementation: what both have       *)
(* passed behind them does not tell their states apart.                    *)
LEMMA SameImplAnswers ==
  ASSUME Known, NEW im \in ImplMachines, NEW u \in Seq(Input), NEW v \in Seq(Input), NEW t \in Seq(Input),
         Passes(rows, im, Start, u), Passes(rows, im, Start, v),
         Passes(rows, im, Start, u \o t), Passes(rows, im, Start, v \o t),
         ImplBy(rows, im, u) = ImplBy(rows, im, v)
  PROVE  ~Differ(rows, StateBy(rows, 0, u), StateBy(rows, 0, v), t)
<1> DEFINE p == StateBy(rows, 0, u)
           q == StateBy(rows, 0, v)
           i == ImplBy(rows, im, u)
<1>0. rows \in Machines /\ Det(rows) /\ Complete(rows)
  BY DetIsComplete DEF Known
<1>1. /\ PairsFrom(rows, im, Start, u) = {<<p, i>>} /\ PairsFrom(rows, im, Start, v) = {<<q, i>>}
      /\ i \in TR!ImplState
  BY <1>0, PairBy
<1>2. p \in State /\ q \in State
  BY <1>0, StateByTyped, StateFacts
<1> HIDE DEF i, p, q
<1> DEFINE a == <<p, i>>
           b == <<q, i>>
<1>3. a \in PairsFrom(rows, im, Start, u) /\ b \in PairsFrom(rows, im, Start, v)
  BY <1>1
<1> HIDE DEF a, b
<1>4. Passes(rows, im, {a}, t) /\ Passes(rows, im, {b}, t)
  BY <1>3, PairPasses
<1>5. ~Differ(rows, p, q, t)
  BY <1>0, <1>1, <1>2, <1>4, SameOutputs DEF a, b
<1> QED BY <1>5 DEF p, q

(* The cover leads to as many states of the implementation as there are    *)
(* states.                                                                 *)
ImplSeen(im, V, k) == {ImplBy(rows, im, u) : u \in Ext(V, k)}

LEMMA SafeFacts ==
  ASSUME Known, NEW f, NEW im \in ImplMachines, NEW V, NEW W, NEW S, NEW m \in Nat,
         SafeSufficient(f, im, V, W, S, m), NEW k \in 0 .. m + 1
  PROVE  /\ V \in SUBSET Seq(Input) /\ Ext(V, k) \subseteq Seq(Input)
         /\ \A u \in Ext(V, k) : Passes(rows, im, Start, u) /\ ImplBy(rows, im, u) \in TR!Seen(im)
                                 /\ StateBy(rows, 0, u) \in State
         /\ ImplSeen(im, V, k) \subseteq TR!Seen(im)
         /\ IsFiniteSet(ImplSeen(im, V, k)) /\ Cardinality(ImplSeen(im, V, k)) \in Nat
         /\ Cardinality(ImplSeen(im, V, k)) <= numStates + m
<1>0. V \in SUBSET Seq(Input) /\ m + 1 \in Nat /\ k \in Nat /\ k <= m + 1
  BY DEF SafeSufficient
<1>1. Ext(V, k) \subseteq Seq(Input) /\ Ext(V, k) \subseteq Ext(V, m + 1)
  BY <1>0, ExtFacts
<1>2. ASSUME NEW u \in Ext(V, k)
      PROVE  /\ Passes(rows, im, Start, u) /\ ImplBy(rows, im, u) \in TR!Seen(im)
             /\ StateBy(rows, 0, u) \in State
  <2>1. u \in Seq(Input) /\ Passes(rows, im, Start, u)
    BY <1>1 DEF SafeSufficient
  <2> QED BY <2>1, PairBy, StateByTyped, StateFacts DEF Known
<1>3. ImplSeen(im, V, k) \subseteq TR!Seen(im)
  BY <1>2 DEF ImplSeen
<1>4. /\ IsFiniteSet(ImplSeen(im, V, k))
      /\ Cardinality(ImplSeen(im, V, k)) <= Cardinality(TR!Seen(im))
  BY <1>3, SeenFacts, FS_Subset
<1>5. Cardinality(ImplSeen(im, V, k)) \in Nat
  BY <1>4, FS_CardinalityType
<1>6. Cardinality(TR!Seen(im)) <= numStates + m /\ Cardinality(TR!Seen(im)) \in Nat
  BY SeenFacts DEF SafeSufficient, SmallEnough
<1> QED BY <1>0, <1>1, <1>2, <1>3, <1>4, <1>5, <1>6, NumStatesAssumption

LEMMA CoverSeesAll ==
  ASSUME Known, NEW f, NEW im \in ImplMachines, NEW V, NEW W, NEW S, NEW m \in Nat,
         SafeSufficient(f, im, V, W, S, m)
  PROVE  Cardinality(ImplSeen(im, V, 0)) >= numStates
<1> DEFINE I == {ImplBy(rows, im, v) : v \in V}
           Leads(q, i) == \E v \in V : q = StateBy(rows, 0, v) /\ i = ImplBy(rows, im, v)
           g == [i \in I |-> CHOOSE q \in State : Leads(q, i)]
<1>0. /\ 0 \in Nat /\ 0 \in 0 .. m + 1 /\ V \subseteq Ext(V, 0) /\ Ext(V, 0) \subseteq Seq(Input)
      /\ Ext(V, 0) \subseteq Ext(V, m + 1)
  <2>1. V \in SUBSET Seq(Input) /\ 0 \in Nat /\ m + 1 \in Nat /\ 0 <= m + 1
    BY DEF SafeSufficient
  <2>2. V \subseteq Ext(V, 0) /\ Ext(V, 0) \subseteq Seq(Input)
    BY <2>1, ExtFacts
  <2>3. Ext(V, 0) \subseteq Ext(V, m + 1)
    BY <2>1, ExtFacts
  <2>4. 0 \in 0 .. m + 1
    OBVIOUS
  <2> QED BY <2>1, <2>2, <2>3, <2>4
<1>1. \A q \in State : \E i \in I : Leads(q, i)
  BY DEF SafeSufficient
<1>2. \A i \in I : \E q \in State : Leads(q, i)
  <2> SUFFICES ASSUME NEW i \in I PROVE \E q \in State : Leads(q, i)
    OBVIOUS
  <2>1. PICK v \in V : i = ImplBy(rows, im, v)
    OBVIOUS
  <2>2. StateBy(rows, 0, v) \in State
    BY <1>0, SafeFacts
  <2> QED BY <2>1, <2>2
<1>3. \A p, q \in State, i \in I : Leads(p, i) /\ Leads(q, i) => p = q
  <2> SUFFICES ASSUME NEW p \in State, NEW q \in State, NEW i \in I, Leads(p, i), Leads(q, i), p # q
               PROVE  FALSE
    OBVIOUS
  <2>1. PICK u \in V : p = StateBy(rows, 0, u) /\ i = ImplBy(rows, im, u)
    OBVIOUS
  <2>2. PICK v \in V : q = StateBy(rows, 0, v) /\ i = ImplBy(rows, im, v)
    OBVIOUS
  <2>3. PICK t \in W : Differ(rows, p, q, t)
    BY DEF SafeSufficient
  <2>4. /\ u \in Seq(Input) /\ v \in Seq(Input) /\ t \in Seq(Input)
        /\ Passes(rows, im, Start, u \o t) /\ Passes(rows, im, Start, v \o t)
        /\ Passes(rows, im, Start, u) /\ Passes(rows, im, Start, v)
    BY <1>0 DEF SafeSufficient
  <2> HIDE DEF Leads, I
  <2> QED BY <2>1, <2>2, <2>3, <2>4, SameImplAnswers
<1>4. IsFiniteSet(I) /\ Cardinality(I) \in Nat /\ Cardinality(I) <= Cardinality(ImplSeen(im, V, 0))
      /\ Cardinality(ImplSeen(im, V, 0)) \in Nat
  <2>1. I \subseteq ImplSeen(im, V, 0)
    BY <1>0 DEF ImplSeen
  <2>2. IsFiniteSet(ImplSeen(im, V, 0)) /\ Cardinality(ImplSeen(im, V, 0)) \in Nat
    BY <1>0, SafeFacts
  <2> HIDE DEF I
  <2> QED BY <2>1, <2>2, FS_Subset, FS_CardinalityType
<1> HIDE DEF I, Leads
<1>5. g \in [I -> State]
  BY <1>2
<1>6. \A q \in State : \E i \in I : g[i] = q
  <2> SUFFICES ASSUME NEW q \in State PROVE \E i \in I : g[i] = q
    OBVIOUS
  <2>1. PICK i \in I : Leads(q, i)
    BY <1>1
  <2>2. g[i] \in State /\ Leads(g[i], i)
    BY <1>2
  <2>3. g[i] = q
    BY <1>3, <2>1, <2>2
  <2> QED BY <2>3
<1> HIDE DEF g
<1>7. g \in Surjection(I, State)
  BY <1>5, <1>6 DEF Surjection
<1>8. Cardinality(State) <= Cardinality(I)
  BY <1>4, <1>7, FS_Surjection
<1>9. Cardinality(State) = numStates
  BY NumStatesAssumption, FS_Interval DEF State
<1> QED BY <1>4, <1>8, <1>9, NumStatesAssumption

(* Behind m inputs at the latest, one input more leads to no new state of  *)
(* the implementation.                                                     *)
LEMMA NoMoreSeen ==
  ASSUME Known, NEW f, NEW im \in ImplMachines, NEW V, NEW W, NEW S, NEW m \in Nat,
         SafeSufficient(f, im, V, W, S, m)
  PROVE  \E j \in 0 .. m : ImplSeen(im, V, j + 1) = ImplSeen(im, V, j)
<1> DEFINE I(k) == ImplSeen(im, V, k)
           A == {k \in Nat : k <= m + 1 => Cardinality(I(k)) >= numStates + k}
<1>0. numStates \in Nat /\ V \in SUBSET Seq(Input)
  BY NumStatesAssumption DEF SafeSufficient
<1> SUFFICES ASSUME \A j \in 0 .. m : I(j + 1) # I(j) PROVE FALSE
  OBVIOUS
<1>1. 0 \in A
  BY CoverSeesAll, <1>0
<1>2. ASSUME NEW k \in Nat, k \in A PROVE k + 1 \in A
  <2> SUFFICES ASSUME k + 1 <= m + 1 PROVE Cardinality(I(k + 1)) >= numStates + (k + 1)
    OBVIOUS
  <2>0. k \in 0 .. m + 1 /\ k + 1 \in 0 .. m + 1 /\ k \in 0 .. m /\ k <= k + 1 /\ k + 1 \in Nat
    OBVIOUS
  <2>1. I(k) \subseteq I(k + 1)
    <3>1. Ext(V, k) \subseteq Ext(V, k + 1)
      BY <1>0, <2>0, ExtFacts
    <3> QED BY <3>1 DEF ImplSeen
  <2>2. I(k + 1) # I(k)
    BY <2>0
  <2>3. IsFiniteSet(I(k + 1)) /\ Cardinality(I(k + 1)) \in Nat /\ Cardinality(I(k)) \in Nat
    BY <2>0, SafeFacts
  <2>4. Cardinality(I(k)) >= numStates + k
    BY <1>2, <2>0
  <2> HIDE DEF I
  <2>5. Cardinality(I(k)) <= Cardinality(I(k + 1)) /\ Cardinality(I(k)) # Cardinality(I(k + 1))
    BY <2>1, <2>2, <2>3, FS_Subset
  <2> QED BY <1>0, <2>3, <2>4, <2>5
<1> HIDE DEF A
<1>3. m + 1 \in A
  <2>1. Nat \subseteq A
    BY <1>1, <1>2, SetInduction
  <2> QED BY <2>1
<1>4. Cardinality(I(m + 1)) >= numStates + (m + 1)
  BY <1>3 DEF A
<1>5. Cardinality(I(m + 1)) <= numStates + m /\ Cardinality(I(m + 1)) \in Nat
  <2>1. m + 1 \in 0 .. m + 1
    OBVIOUS
  <2> QED BY <2>1, SafeFacts
<1> HIDE DEF I
<1> QED BY <1>0, <1>4, <1>5

(***************************************************************************)
(* Two traces to the same state of the implementation lead to states of    *)
(* the same class, if one of them is not among the longest.                *)
(***************************************************************************)
LEMMA SameImplClass ==
  ASSUME Known, NEW f, NEW im \in ImplMachines, NEW V, NEW W, NEW S, NEW m \in Nat,
         SafeSufficient(f, im, V, W, S, m),
         NEW u \in Ext(V, m), NEW v \in Ext(V, m + 1), ImplBy(rows, im, u) = ImplBy(rows, im, v)
  PROVE  SameClass(f, StateBy(rows, 0, u), StateBy(rows, 0, v))
<1> DEFINE p == StateBy(rows, 0, u)
           q == StateBy(rows, 0, v)
<1>1. /\ u \in Seq(Input) /\ v \in Seq(Input) /\ p \in State /\ q \in State
      /\ Passes(rows, im, Start, u) /\ Passes(rows, im, Start, v)
  <2>1. m \in 0 .. m + 1 /\ m + 1 \in 0 .. m + 1
    OBVIOUS
  <2>2. u \in Seq(Input) /\ Passes(rows, im, Start, u) /\ p \in State
    BY <2>1, SafeFacts
  <2>3. v \in Seq(Input) /\ Passes(rows, im, Start, v) /\ q \in State
    <3>1. PICK k \in 0 .. m + 1 : k = m + 1
      BY <2>1
    <3>2. v \in Ext(V, k)
      BY <3>1
    <3> QED BY <3>2, SafeFacts
  <2> QED BY <2>2, <2>3
<1> SUFFICES ASSUME ~SameClass(f, p, q) PROVE FALSE
  OBVIOUS
<1>2. PICK t \in S : Apart(f, p, q, t) /\ Passes(rows, im, Start, v \o t)
  BY <1>1 DEF SafeSufficient
<1>3. t \in Seq(Input) /\ Passes(rows, im, Start, u \o t)
  BY DEF SafeSufficient
<1>4. ~Differ(rows, p, q, t)
  BY <1>1, <1>2, <1>3, SameImplAnswers
<1> HIDE DEF p, q
<1> QED BY <1>1, <1>2, <1>3, <1>4, SameShown

(* one input more *)
LEMMA OneMoreInput ==
  ASSUME Known, NEW im \in ImplMachines, NEW u \in Seq(Input), NEW x \in Input,
         Passes(rows, im, Start, u), Passes(rows, im, Start, Append(u, x))
  PROVE  LET q == StateBy(rows, 0, u)
             i == ImplBy(rows, im, u)
         IN  /\ StateBy(rows, 0, Append(u, x)) = Next1(q, x)
             /\ im[i][x][OutputOf(q, x)] >= 0
             /\ ImplBy(rows, im, Append(u, x)) = im[i][x][OutputOf(q, x)]
             /\ \A y \in Output : im[i][x][y] >= 0 => y = OutputOf(q, x)
<1> DEFINE q == StateBy(rows, 0, u)
           i == ImplBy(rows, im, u)
           z == OutputOf(q, x)
           o == <<q, i>>
<1>0. rows \in Machines /\ Det(rows)
  BY DEF Known
<1>1. q \in State /\ i \in TR!ImplState /\ PairsFrom(rows, im, Start, u) = {o}
  BY <1>0, PairBy, StateByTyped, StateFacts
<1>2. Agreeing(rows, im, {o}, x)
  BY <1>1, PassesAppend
<1>3. Append(u, x) \in Seq(Input)
  BY AppendExtends
<1>4. PairsFrom(rows, im, Start, Append(u, x)) = PairPosts(rows, im, {o}, x)
  <2> DEFINE P == PairsFrom(rows, im, Start, u)
  <2>1. PairsFrom(rows, im, Start, Append(u, x)) = PairPosts(rows, im, P, x)
    BY PairsFromAppend
  <2>2. P = {o}
    BY <1>1
  <2> HIDE DEF P, o
  <2> QED BY <2>1, <2>2
<1>5. PairsFrom(rows, im, Start, Append(u, x)) = {<<StateBy(rows, 0, Append(u, x)), ImplBy(rows, im, Append(u, x))>>}
  BY <1>0, <1>3, PairBy
<1>6. StateBy(rows, 0, Append(u, x)) = PostOf(rows, q, x)
  BY StateByStep
<1> HIDE DEF q, i
<1>7. z \in Output /\ rows[q][<<x, z>>] >= 0 /\ Next1(q, x) = PostOf(rows, q, x)
  BY <1>1, NextIs
<1>8. rows[q][<<x, z>>] \in State
  BY <1>0, <1>1, <1>7, PostFacts
<1> HIDE DEF z
<1>9. o[1] = q /\ o[2] = i
  OBVIOUS
<1> HIDE DEF o
<1>10. \A y \in Output : rows[q][<<x, y>>] >= 0 <=> im[i][x][y] >= 0
  BY <1>2, <1>9 DEF Agreeing
<1>11. \A y \in Output : im[i][x][y] >= 0 => y = z
  <2> SUFFICES ASSUME NEW y \in Output, im[i][x][y] >= 0 PROVE y = z
    OBVIOUS
  <2>1. rows[q][<<x, y>>] \in State
    BY <1>0, <1>1, <1>10, PostFacts
  <2> QED BY <1>0, <1>1, <1>7, <1>8, <2>1, OneOutputOf
<1>12. <<rows[q][<<x, z>>], im[i][x][z]>> \in PairPosts(rows, im, {o}, x)
  <2> DEFINE P == {o}
  <2>1. o \in P
    OBVIOUS
  <2> HIDE DEF P
  <2>2. <<rows[o[1]][<<x, z>>], im[o[2]][x][z]>> \in PairPosts(rows, im, P, x)
    BY <1>7, <1>9, <2>1, PairPostsAre
  <2> QED BY <1>9, <2>2 DEF P
<1>13. ImplBy(rows, im, Append(u, x)) = im[i][x][z]
  <2> DEFINE P == PairPosts(rows, im, {o}, x)
  <2>1. P = {<<StateBy(rows, 0, Append(u, x)), ImplBy(rows, im, Append(u, x))>>}
    BY <1>4, <1>5
  <2>2. <<rows[q][<<x, z>>], im[i][x][z]>> \in P
    BY <1>12
  <2> HIDE DEF P
  <2>3. <<rows[q][<<x, z>>], im[i][x][z]>> = <<StateBy(rows, 0, Append(u, x)), ImplBy(rows, im, Append(u, x))>>
    BY <2>1, <2>2
  <2> QED BY <2>3
<1> QED BY <1>6, <1>7, <1>10, <1>11, <1>13 DEF q, i, z

(***************************************************************************)
(* So the states of the implementation, each with the states of the class  *)
(* of those seen with it, make a set that nothing is behind.               *)
(***************************************************************************)
LEMMA SufficientIsSafe ==
  ASSUME Known, NEW f, NEW im \in ImplMachines, NEW V, NEW W, NEW S, NEW m \in Nat,
         SafeSufficient(f, im, V, W, S, m)
  PROVE  \E R \in SUBSET Pairs : Start \subseteq R /\ SafeClosed(rows, f, im, R)
<1>1. PICK j \in 0 .. m : ImplSeen(im, V, j + 1) = ImplSeen(im, V, j)
  BY NoMoreSeen
<1> DEFINE q(u) == StateBy(rows, 0, u)
           i(u) == ImplBy(rows, im, u)
           Related(p) == \E u \in Ext(V, j) : p[2] = i(u) /\ SameClass(f, p[1], q(u))
           R == {p \in Pairs : Related(p)}
<1>0. rows \in Machines /\ Det(rows)
  BY DEF Known
<1>2. /\ V \in SUBSET Seq(Input) /\ << >> \in V
      /\ j \in Nat /\ j \in 0 .. m + 1 /\ j + 1 \in 0 .. m + 1
      /\ Ext(V, j) \subseteq Ext(V, m) /\ Ext(V, j + 1) \subseteq Ext(V, m + 1)
  <2>1. V \in SUBSET Seq(Input) /\ << >> \in V
    BY DEF SafeSufficient
  <2>2. j \in Nat /\ j \in 0 .. m + 1 /\ j + 1 \in 0 .. m + 1 /\ j + 1 \in Nat /\ m + 1 \in Nat /\ j <= m /\ j + 1 <= m + 1
    OBVIOUS
  <2>3. Ext(V, j) \subseteq Ext(V, m)
    BY <2>1, <2>2, ExtFacts
  <2>4. Ext(V, j + 1) \subseteq Ext(V, m + 1)
    BY <2>1, <2>2, ExtFacts
  <2> QED BY <2>1, <2>2, <2>3, <2>4
<1>3. \A u \in Ext(V, j) : /\ u \in Seq(Input) /\ Passes(rows, im, Start, u)
                           /\ i(u) \in TR!ImplState /\ q(u) \in State
  BY <1>2, SafeFacts, SeenFacts
<1>4. Start \subseteq R
  <2>1. << >> \in Ext(V, j)
    BY <1>2, ExtFacts
  <2>2. q(<< >>) = 0 /\ i(<< >>) = 0
    <3>1. PairsFrom(rows, im, Start, << >>) = {<<0, 0>>}
      BY PairsFromEmpty DEF Start
    <3>2. PairsFrom(rows, im, Start, << >>) = {<<q(<< >>), i(<< >>)>>}
      BY <1>0, <1>3, <2>1, PairBy
    <3> DEFINE a == q(<< >>)
               b == i(<< >>)
    <3>3. {<<0, 0>>} = {<<a, b>>}
      BY <3>1, <3>2
    <3> HIDE DEF a, b
    <3>4. <<0, 0>> = <<a, b>>
      BY <3>3
    <3>5. a = 0 /\ b = 0
      BY <3>4
    <3> QED BY <3>5 DEF a, b
  <2> HIDE DEF q, i
  <2>3. SameClass(f, 0, q(<< >>))
    BY <2>2, ClassFacts, StateFacts
  <2> DEFINE p == <<0, 0>>
  <2>4. p[1] = 0 /\ p[2] = 0 /\ p \in Pairs
    BY StateFacts, ImplFacts DEF Pairs
  <2>5. Start = {p}
    BY DEF Start
  <2> HIDE DEF p
  <2>6. Related(p)
    BY <2>1, <2>2, <2>3, <2>4
  <2> HIDE DEF Related
  <2> QED BY <2>4, <2>5, <2>6
<1>5. ASSUME NEW p \in R, NEW x \in Input
      PROVE  /\ \E y \in Output : im[p[2]][x][y] >= 0
             /\ \A y \in Output :
                  im[p[2]][x][y] >= 0 =>
                    f[y] = f[OutOf(rows, p[1], x)] /\ <<PostOf(rows, p[1], x), im[p[2]][x][y]>> \in R
  <2>1. PICK u \in Ext(V, j) : p[2] = i(u) /\ SameClass(f, p[1], q(u))
    OBVIOUS
  <2>2. p[1] \in State /\ p[2] \in TR!ImplState
    BY DEF Pairs
  <2> DEFINE v == Append(u, x)
  <2>3. v \in Ext(V, j + 1) /\ v \in Seq(Input)
    BY <1>2, <1>3, ExtFacts, AppendExtends
  <2>4. Passes(rows, im, Start, v) /\ q(v) \in State
    BY <1>2, <2>3, SafeFacts
  <2>5. /\ q(v) = Next1(q(u), x) /\ im[i(u)][x][OutputOf(q(u), x)] >= 0
        /\ i(v) = im[i(u)][x][OutputOf(q(u), x)]
        /\ \A y \in Output : im[i(u)][x][y] >= 0 => y = OutputOf(q(u), x)
    BY <1>3, <2>4, OneMoreInput
  <2>6. i(v) \in ImplSeen(im, V, j)
    BY <1>1, <2>3 DEF ImplSeen
  <2>7. PICK s \in Ext(V, j) : i(s) = i(v)
    BY <2>6 DEF ImplSeen
  <2>8. SameClass(f, q(s), q(v))
    BY <1>2, <2>3, <2>7, SameImplClass
  <2> HIDE DEF q, i, v
  <2>9. q(u) \in State /\ q(s) \in State /\ i(s) \in TR!ImplState
    BY <1>3
  <2>10. f[OutputOf(p[1], x)] = f[OutputOf(q(u), x)] /\ SameClass(f, Next1(p[1], x), Next1(q(u), x))
    BY <2>1, <2>2, <2>9, ClassStep
  <2>11. /\ Next1(p[1], x) = PostOf(rows, p[1], x) /\ Next1(p[1], x) \in State
         /\ OutputOf(q(u), x) \in Output
    BY <2>2, <2>9, NextIs
  <2>12. SameClass(f, PostOf(rows, p[1], x), q(s))
    BY <2>4, <2>5, <2>8, <2>9, <2>10, <2>11, ClassFacts
  <2> DEFINE n == <<PostOf(rows, p[1], x), i(v)>>
  <2>13. n[1] = PostOf(rows, p[1], x) /\ n[2] = i(s) /\ n \in Pairs
    BY <2>7, <2>9, <2>11 DEF Pairs
  <2> HIDE DEF n
  <2>14. n \in R
    BY <2>7, <2>12, <2>13
  <2> HIDE DEF R
  <2>15. \A y \in Output : im[p[2]][x][y] >= 0 => y = OutputOf(q(u), x) /\ im[p[2]][x][y] = i(v)
    BY <2>1, <2>5
  <2>16. OutputOf(p[1], x) = OutOf(rows, p[1], x)
    BY DEF OutputOf, OutOf
  <2>17. im[p[2]][x][OutputOf(q(u), x)] >= 0
    BY <2>1, <2>5
  <2> QED BY <2>10, <2>11, <2>14, <2>15, <2>16, <2>17 DEF n
<1>6. SafeClosed(rows, f, im, R)
  <2> HIDE DEF R
  <2> QED BY <1>5 DEF SafeClosed
<1>7. R \in SUBSET Pairs
  OBVIOUS
<1> HIDE DEF R
<1> QED BY <1>4, <1>6, <1>7

(***************************************************************************)
(* The suites of the safe W and the safe Wp method are sufficient.         *)
(***************************************************************************)
SafeReady == Known /\ MinimalRows /\ GoodCover(rows, scov) /\ numAddStates \in Nat

(* S tells the states of different classes apart *)
TellingSet(f, S) ==
  /\ S \in SUBSET Seq(Input) /\ Bounded(S)
  /\ \A p, q \in State : ~SameClass(f, p, q) => ToldBy(f, p, q, S)

(* what a suite has to contain *)
SafeShape(f, T, W, S) ==
  /\ T \in SUBSET Seq(Input) /\ Bounded(T)
  /\ \A v \in scov, t \in W : v \o t \in T
  /\ Ext(scov, numAddStates + 1) \subseteq T
  /\ \A u \in Ext(scov, numAddStates), t \in S : u \o t \in T
  /\ \A u \in Ext(scov, numAddStates + 1), p \in State :
       ~SameClass(f, p, StateBy(rows, 0, u)) =>
         \E t \in S : Apart(f, p, StateBy(rows, 0, u), t) /\ u \o t \in T

(* Passing the leaves of such a suite is sufficient. *)
LEMMA ShapeSufficient ==
  ASSUME SafeReady, NEW f, NEW T, NEW W, NEW S, GoodSet(rows, W), TellingSet(f, S), SafeShape(f, T, W, S),
         NEW im \in ImplMachines, AllPass(rows, im, Leaves(T)), SmallEnough(im, numAddStates)
  PROVE  SafeSufficient(f, im, scov, W, S, numAddStates)
<1> DEFINE m == numAddStates
<1>0. /\ rows \in Machines /\ Det(rows) /\ scov \in SUBSET Seq(Input) /\ << >> \in scov
      /\ W \in SUBSET Seq(Input) /\ S \in SUBSET Seq(Input)
      /\ T \in SUBSET Seq(Input) /\ Bounded(T)
  BY DEF SafeReady, Known, GoodCover, GoodSet, TellingSet, SafeShape
<1>1. \A u \in T : Passes(rows, im, Start, u)
  BY <1>0, LeavesPassed DEF AllPass
<1>2. \A q \in State : \E v \in scov : q = StateBy(rows, 0, v)
  <2> SUFFICES ASSUME NEW q \in State PROVE \E v \in scov : q = StateBy(rows, 0, v)
    OBVIOUS
  <2>1. PICK v \in scov : q \in StatesAfter(rows, v)
    BY DEF SafeReady, GoodCover
  <2>2. StatesAfter(rows, v) = {StateBy(rows, 0, v)}
    BY <1>0, OneStateAfter
  <2> QED BY <2>1, <2>2
<1>3. \A p, q \in State : p # q => \E t \in W : Differ(rows, p, q, t)
  BY DEF GoodSet
<1>4. \A v \in scov, t \in W : Passes(rows, im, Start, v \o t)
  BY <1>1 DEF SafeShape
<1>5. \A u \in Ext(scov, m + 1) : Passes(rows, im, Start, u)
  BY <1>1 DEF SafeShape
<1>6. \A u \in Ext(scov, m), t \in S : Passes(rows, im, Start, u \o t)
  BY <1>1 DEF SafeShape
<1>7. ASSUME NEW u \in Ext(scov, m + 1), NEW p \in State, ~SameClass(f, p, StateBy(rows, 0, u))
      PROVE  \E t \in S : Apart(f, p, StateBy(rows, 0, u), t) /\ Passes(rows, im, Start, u \o t)
  <2>1. PICK t \in S : Apart(f, p, StateBy(rows, 0, u), t) /\ u \o t \in T
    BY <1>7 DEF SafeShape
  <2> QED BY <1>1, <2>1
<1> QED BY <1>0, <1>2, <1>3, <1>4, <1>5, <1>6, <1>7 DEF SafeSufficient

(* The characterisation sets are what the methods need. *)
LEMMA SetsTell ==
  ASSUME SafeReady
  PROVE  /\ \A W \in CharacterisationSets(Identity) : GoodSet(rows, W)
         /\ \A f : \A S \in CharacterisationSets(f) : TellingSet(f, S)
<1>0. Known
  BY DEF SafeReady
<1>1. ASSUME NEW f, NEW S \in CharacterisationSets(f) PROVE TellingSet(f, S)
  <2>1. PICK order \in Classes(f) : S = CharacterisationSetOf(f, order)
    BY DEF CharacterisationSets
  <2> QED BY <1>0, <2>1, CharacterisationSetTells DEF TellingSet
<1>2. ASSUME NEW W \in CharacterisationSets(Identity) PROVE GoodSet(rows, W)
  <2>1. TellingSet(Identity, W)
    BY <1>1
  <2>2. ASSUME NEW p \in State, NEW q \in State, p # q PROVE \E t \in W : Differ(rows, p, q, t)
    <3>1. ~SameClass(Identity, p, q)
      BY <1>0, <2>2, IdentityClass DEF SafeReady
    <3>2. PICK t \in W : Apart(Identity, p, q, t)
      BY <2>1, <3>1 DEF TellingSet, ToldBy
    <3>3. t \in Seq(Input)
      BY <2>1 DEF TellingSet
    <3>4. Differ(rows, p, q, t)
      BY <1>0, <3>2, <3>3, SameShown
    <3> QED BY <3>4
  <2> QED BY <2>1, <2>2 DEF TellingSet, GoodSet
<1> QED BY <1>1, <1>2

(* No input behind the cover. *)
LEMMA ExtByNone ==
  ASSUME NEW V \in SUBSET Seq(Input)
  PROVE  Ext(V, 0) = V
<1>1. V \subseteq Ext(V, 0)
  BY ExtFacts
<1>2. ASSUME NEW u \in Ext(V, 0) PROVE u \in V
  <2>1. PICK v \in V, b \in Seq(Input) : Len(b) <= 0 /\ u = v \o b
    BY DEF Ext
  <2>2. b = << >>
    BY <2>1, EmptySeq
  <2> QED BY <2>1, <2>2, ConcatEmptySeq
<1> QED BY <1>1, <1>2

(* The tree of the longest traces is that of all that are not longer. *)
LEMMA LongestTree ==
  ASSUME NEW V \in SUBSET Seq(Input), Bounded(V), PrefixClosed(V), NEW k \in Nat
  PROVE  Add(V, InputEnum(k, k)) = Ext(V, k) /\ Ext(V, k) \in SUBSET Seq(Input) /\ Bounded(Ext(V, k))
<1> DEFINE S == InputEnum(k, k)
           E == Add(V, S)
<1>0. S = {b \in Seq(Input) : k <= Len(b) /\ Len(b) <= k} /\ S \in SUBSET Seq(Input)
  BY EnumIs
<1>1. Ext(V, k) \subseteq E
  BY FirstTree
<1> HIDE DEF S
<1>a. S \in SUBSET Seq(Input)
  BY <1>0
<1>b. /\ E \subseteq Seq(Input)
      /\ \A u \in E : u \in V \/ \E t \in V, s \in S : IsPrefix(u, t \o s)
  BY <1>a, AddIs
<1> HIDE DEF E
<1>2. ASSUME NEW u \in E PROVE u \in Ext(V, k)
  <2>0. u \in Seq(Input)
    BY <1>b
  <2>1. CASE u \in V
    BY <2>1, ExtFacts
  <2>2. CASE \E v \in V, b \in S : IsPrefix(u, v \o b)
    <3>1. PICK v \in V, b \in S : IsPrefix(u, v \o b)
      BY <2>2
    <3>2. b \in Seq(Input) /\ Len(b) <= k /\ v \o b \in Seq(Input)
      BY <1>0
    <3>3. v \o b \in Ext(V, k)
      BY <3>2 DEF Ext
    <3>4. PrefixClosed(Ext(V, k))
      BY ExtClosed
    <3> QED BY <2>0, <3>1, <3>3, <3>4 DEF PrefixClosed
  <2> QED BY <1>b, <2>1, <2>2
<1>3. Ext(V, k) \in SUBSET Seq(Input)
  BY ExtFacts
<1>4. Bounded(Ext(V, k))
  BY ExtBounded
<1>5. Add(V, S) = Ext(V, k)
  BY <1>1, <1>2 DEF E
<1> QED BY <1>3, <1>4, <1>5 DEF S

(* Two trees together. *)
LEMMA UnionBounded ==
  ASSUME NEW A \in SUBSET Seq(Input), NEW B \in SUBSET Seq(Input), Bounded(A), Bounded(B)
  PROVE  A \cup B \in SUBSET Seq(Input) /\ Bounded(A \cup B)
<1>1. PICK a \in Nat : \A t \in A : Len(t) <= a
  BY DEF Bounded
<1>2. PICK b \in Nat : \A t \in B : Len(t) <= b
  BY DEF Bounded
<1>3. ASSUME NEW t \in A \cup B PROVE Len(t) <= a + b
  <2>1. Len(t) \in Nat /\ (Len(t) <= a \/ Len(t) <= b)
    BY <1>1, <1>2
  <2> QED BY <2>1
<1>4. a + b \in Nat
  OBVIOUS
<1> QED BY <1>3, <1>4 DEF Bounded

(* The safe W method. *)
LEMMA SafeWShape ==
  ASSUME SafeReady, NEW f, NEW W, NEW S, GoodSet(rows, W), TellingSet(f, S)
  PROVE  SafeShape(f, SafeWSuite(W, S), W, S)
<1> DEFINE m == numAddStates
           A == Add(scov, W)
           B == Add(scov, S)
           E == Ext(scov, m + 1)
           C == Add(E, S)
           T == SafeWSuite(W, S)
<1>0. /\ m \in Nat /\ rows \in Machines
      /\ scov \in SUBSET Seq(Input) /\ Bounded(scov) /\ PrefixClosed(scov)
      /\ W \in SUBSET Seq(Input) /\ Bounded(W) /\ S \in SUBSET Seq(Input) /\ Bounded(S)
  BY DEF SafeReady, Known, GoodCover, GoodSet, TellingSet
<1>1. m + 1 \in Nat /\ m <= m + 1
  BY <1>0
<1> HIDE DEF m
<1>2. E \in SUBSET Seq(Input) /\ Bounded(E)
  BY <1>0, <1>1, LongestTree
<1>3. Ext(scov, m) \subseteq E
  BY <1>0, <1>1, ExtFacts
<1>4. Add(scov, InputEnum(1, m + 1)) = E
  BY <1>0, <1>1, AddEnum
<1>5. T = A \cup B \cup C
  BY <1>4 DEF SafeWSuite, m
<1> HIDE DEF T, E
<1>6. A \in SUBSET Seq(Input) /\ Bounded(A) /\ \A v \in scov, t \in W : v \o t \in A
  BY <1>0, AddIs, AddBounded
<1>7. B \in SUBSET Seq(Input) /\ Bounded(B)
  BY <1>0, AddIs, AddBounded
<1>8. C \in SUBSET Seq(Input) /\ Bounded(C) /\ E \subseteq C /\ \A u \in E, t \in S : u \o t \in C
  BY <1>0, <1>2, AddIs, AddBounded
<1> HIDE DEF A, B, C
<1>9. T \in SUBSET Seq(Input) /\ Bounded(T)
  <2>1. A \cup B \in SUBSET Seq(Input) /\ Bounded(A \cup B)
    BY <1>6, <1>7, UnionBounded
  <2> QED BY <1>5, <1>8, <2>1, UnionBounded
<1>10. ASSUME NEW u \in E, NEW p \in State, ~SameClass(f, p, StateBy(rows, 0, u))
       PROVE  \E t \in S : Apart(f, p, StateBy(rows, 0, u), t) /\ u \o t \in T
  <2>1. StateBy(rows, 0, u) \in State
    BY <1>0, <1>2, StateByTyped, StateFacts DEF SafeReady, Known
  <2>2. PICK t \in S : Apart(f, p, StateBy(rows, 0, u), t)
    BY <1>10, <2>1 DEF TellingSet, ToldBy
  <2> QED BY <1>5, <1>8, <2>2
<1> QED BY <1>3, <1>5, <1>6, <1>8, <1>9, <1>10 DEF SafeShape, E, T, m

(* The identification sets of the safe Wp method tell the state they are   *)
(* of from those of other classes.                                         *)
IdentifyingChoice(f, S, sets) == \A q \in State : sets[q] \in IdentifyingSets(f, S, q)

LEMMA IdentifyingSetTells ==
  ASSUME Known, NEW f, NEW S, TellingSet(f, S), NEW q \in State, NEW h \in IdentifyingSets(f, S, q)
  PROVE  /\ h \subseteq S
         /\ \A p \in State : ~SameClass(f, p, q) => \E t \in h : Apart(f, p, q, t)
<1> DEFINE Telling(p) == {t \in S : Apart(f, q, p, t)}
           others == {r \in State : ~SameClass(f, q, r)}
           zs == {Telling(p) : p \in others}
<1>1. h \in MinHittingSets(zs)
  BY DEF IdentifyingSets
<1>2. \A z \in zs : z \subseteq S
  OBVIOUS
<1>3. {} \notin zs
  <2> SUFFICES ASSUME NEW p \in others PROVE Telling(p) # {}
    OBVIOUS
  <2>1. ToldBy(f, q, p, S)
    BY DEF TellingSet
  <2> QED BY <2>1 DEF ToldBy
<1> HIDE DEF zs
<1>4. h \subseteq S /\ Hits(h, zs)
  BY <1>1, <1>2, <1>3, HittingSetTyped
<1>5. ASSUME NEW p \in State, ~SameClass(f, p, q) PROVE \E t \in h : Apart(f, p, q, t)
  <2>1. p \in others
    BY <1>5, ClassFacts
  <2>2. Telling(p) \in zs
    BY <2>1 DEF zs
  <2> HIDE DEF Telling
  <2>3. h \cap Telling(p) # {}
    BY <1>4, <2>2 DEF Hits
  <2>4. PICK t \in h : t \in Telling(p)
    BY <2>3
  <2>5. Apart(f, q, p, t)
    BY <2>4 DEF Telling
  <2>6. Apart(f, p, q, t)
    BY <2>5 DEF Apart
  <2> QED BY <2>6
<1> QED BY <1>4, <1>5

(* The safe Wp method. *)
LEMMA SafeWpShape ==
  ASSUME SafeReady, NEW f, NEW W, NEW S, GoodSet(rows, W), TellingSet(f, S),
         NEW sets, IdentifyingChoice(f, S, sets)
  PROVE  SafeShape(f, SafeWpSuite(W, S, sets), W, S)
<1> DEFINE m == numAddStates
           A == Add(scov, W)
           B == Add(scov, S)
           C == IF m > 0 THEN Add(Ext(scov, m), S) ELSE {}
           E == Ext(scov, m + 1)
           F == BehindLeaves(sets, E)
           D == Behind(E, F)
           T == SafeWpSuite(W, S, sets)
           StateOf(u) == StateBy(rows, 0, u)
<1>0. /\ m \in Nat /\ rows \in Machines /\ Det(rows)
      /\ scov \in SUBSET Seq(Input) /\ Bounded(scov) /\ PrefixClosed(scov)
      /\ W \in SUBSET Seq(Input) /\ Bounded(W) /\ S \in SUBSET Seq(Input) /\ Bounded(S)
  BY DEF SafeReady, Known, GoodCover, GoodSet, TellingSet
<1>1. m + 1 \in Nat /\ m <= m + 1
  BY <1>0
<1> HIDE DEF m
<1>2. /\ Add(scov, InputEnum(m + 1, m + 1)) = E
      /\ E \in SUBSET Seq(Input) /\ Bounded(E)
  BY <1>0, <1>1, LongestTree
<1>3. Ext(scov, m) \in SUBSET Seq(Input) /\ Bounded(Ext(scov, m)) /\ Ext(scov, m) \subseteq E
  <2>1. Ext(scov, m) \in SUBSET Seq(Input)
    BY <1>0, ExtFacts
  <2>2. Bounded(Ext(scov, m))
    BY <1>0, ExtBounded
  <2>3. Ext(scov, m) \subseteq E
    BY <1>0, <1>1, ExtFacts
  <2> QED BY <2>1, <2>2, <2>3
<1>4. m > 0 => Add(scov, InputEnum(1, m)) = Ext(scov, m)
  BY <1>0, AddEnum
<1>5. AppendSets(E, sets) = D
  BY DEF AppendSets, Behind, BehindLeaves
<1>6. T = A \cup B \cup C \cup D
  BY <1>2, <1>4, <1>5 DEF SafeWpSuite, m
<1>7. ASSUME NEW u \in Leaves(E) PROVE u \in Seq(Input) /\ StateOf(u) \in State /\ F[u] = sets[StateOf(u)]
  <2>1. u \in Seq(Input)
    BY <1>2 DEF Leaves
  <2>2. After(u) = {StateOf(u)}
    BY <1>0, <2>1, AfterIs, OneStateAfter
  <2>3. StateOf(u) \in State
    BY <1>0, <2>1, StateByTyped, StateFacts
  <2> QED BY <2>1, <2>2, <2>3 DEF BehindLeaves
<1>8. /\ \A q \in State : sets[q] \subseteq S
      /\ \A q, p \in State : ~SameClass(f, p, q) => \E t \in sets[q] : Apart(f, p, q, t)
  BY IdentifyingSetTells DEF IdentifyingChoice, SafeReady
<1>9. F \in [Leaves(E) -> SUBSET S] /\ F \in [Leaves(E) -> SUBSET Seq(Input)]
  <2>1. F = [u \in Leaves(E) |-> F[u]]
    BY DEF BehindLeaves
  <2>2. \A u \in Leaves(E) : F[u] \in SUBSET S /\ F[u] \in SUBSET Seq(Input)
    BY <1>0, <1>7, <1>8
  <2> HIDE DEF F
  <2> QED BY <2>1, <2>2
<1> HIDE DEF T, E, F, StateOf
<1>10. A \in SUBSET Seq(Input) /\ Bounded(A) /\ \A v \in scov, t \in W : v \o t \in A
  BY <1>0, AddIs, AddBounded
<1>11. B \in SUBSET Seq(Input) /\ Bounded(B) /\ \A v \in scov, t \in S : v \o t \in B
  BY <1>0, AddIs, AddBounded
<1>12. /\ C \in SUBSET Seq(Input) /\ Bounded(C)
       /\ \A u \in Ext(scov, m), t \in S : u \o t \in B \cup C
  <2>1. CASE m > 0
    BY <1>0, <1>3, <2>1, AddIs, AddBounded
  <2>2. CASE ~(m > 0)
    <3>1. m = 0
      BY <1>0, <2>2
    <3>2. Ext(scov, m) = scov
      BY <1>0, <3>1, ExtByNone
    <3>3. C = {}
      BY <2>2
    <3>4. Bounded(C)
      BY <3>3 DEF Bounded
    <3> QED BY <1>11, <3>2, <3>3, <3>4
  <2> QED BY <2>1, <2>2
<1>13. /\ D \in SUBSET Seq(Input) /\ Bounded(D) /\ E \subseteq D
       /\ \A u \in Leaves(E) : \A t \in F[u] : u \o t \in D
  BY <1>0, <1>2, <1>9, BehindIs, BehindBounded
<1> HIDE DEF A, B, C, D
<1>14. T \in SUBSET Seq(Input) /\ Bounded(T)
  <2>1. A \cup B \in SUBSET Seq(Input) /\ Bounded(A \cup B)
    BY <1>10, <1>11, UnionBounded
  <2>2. (A \cup B) \cup C \in SUBSET Seq(Input) /\ Bounded((A \cup B) \cup C)
    BY <1>12, <2>1, UnionBounded
  <2> QED BY <1>6, <1>13, <2>2, UnionBounded
<1>15. ASSUME NEW u \in E, NEW p \in State, ~SameClass(f, p, StateOf(u))
       PROVE  \E t \in S : Apart(f, p, StateOf(u), t) /\ u \o t \in T
  <2>1. CASE u \in Ext(scov, m)
    <3>1. StateOf(u) \in State
      BY <1>0, <1>2, StateByTyped, StateFacts DEF StateOf
    <3>2. PICK t \in S : Apart(f, p, StateOf(u), t)
      BY <1>15, <3>1 DEF TellingSet, ToldBy
    <3> QED BY <1>6, <1>12, <2>1, <3>2
  <2>2. CASE u \notin Ext(scov, m)
    <3>1. u \in Leaves(E)
      BY <1>0, <2>2, LongestAreLeaves DEF E
    <3>2. StateOf(u) \in State /\ F[u] = sets[StateOf(u)]
      BY <1>7, <3>1
    <3>3. PICK t \in sets[StateOf(u)] : Apart(f, p, StateOf(u), t)
      BY <1>8, <1>15, <3>2
    <3>4. t \in S /\ u \o t \in D
      BY <1>8, <1>13, <3>1, <3>2, <3>3
    <3> QED BY <1>6, <3>3, <3>4
  <2> QED BY <2>1, <2>2
<1>16. /\ \A v \in scov, t \in W : v \o t \in T
       /\ E \subseteq T
       /\ \A u \in Ext(scov, m), t \in S : u \o t \in T
  BY <1>6, <1>10, <1>12, <1>13
<1> QED BY <1>14, <1>15, <1>16 DEF SafeShape, E, T, StateOf, m

(***************************************************************************)
(* The execution of such a suite.                                          *)
(***************************************************************************)
SafeKnown == method \in {"SafeW", "SafeWp"}

(* what passing the leaves of T shows *)
SafeTree(T) ==
  \A im \in ImplMachines :
    AllPass(rows, im, Leaves(T)) /\ SmallEnough(im, numAddStates) =>
      \E R \in SUBSET Pairs : Start \subseteq R /\ SafeClosed(rows, abstraction, im, R)

AllReached == \A q \in State : \E t \in Seq(Input) : q \in StatesAfter(rows, t)

SafeInv ==
  SafeKnown =>
    /\ SuiteInv /\ Det(rows) /\ AllReached
    /\ stage = "test" => \E T : Executing(T) /\ SafeTree(T)

(* The invariant holds at the start. *)
LEMMA InitSafeInv == SafeInit => SafeInv
<1> SUFFICES ASSUME SafeInit, SafeKnown
             PROVE  /\ SuiteInv /\ Det(rows) /\ AllReached
                    /\ stage # "test"
  BY DEF SafeInv
<1>1. SuiteInit /\ stage = "cover"
  BY DEF SafeInit, HInit, SuiteInit
<1>2. SuiteInv
  BY <1>1, InitSuiteInv
<1>3. Det(rows)
  BY DeterministicIsDet DEF SafeInit
<1>4. AllReached
  <2> SUFFICES ASSUME NEW q \in State PROVE \E t \in Seq(Input) : q \in StatesAfter(rows, t)
    BY DEF AllReached
  <2>1. PICK t \in InputEnum(0, numStates - 1) : q \in After(t)
    BY DEF SafeInit
  <2>2. 0 \in Nat /\ numStates - 1 \in Nat
    BY NumStatesAssumption
  <2>3. t \in Seq(Input)
    BY <2>1, <2>2, EnumIs
  <2>4. After(t) = StatesAfter(rows, t)
    BY <2>3, AfterIs
  <2> QED BY <2>1, <2>3, <2>4
<1> QED BY <1>1, <1>2, <1>3, <1>4

(* A suite of this shape convinces. *)
LEMMA ShapeConvinces ==
  ASSUME SafeReady, SafeKnown, NEW T, NEW W, NEW S, GoodSet(rows, W), TellingSet(abstraction, S),
         SafeShape(abstraction, T, W, S)
  PROVE  Convincing(T) /\ SafeTree(T)
<1> DEFINE m == numAddStates
<1>0. /\ scov \in SUBSET Seq(Input) /\ PrefixClosed(scov) /\ m \in Nat /\ 1 \in Nat
      /\ T \in SUBSET Seq(Input) /\ Bounded(T)
  BY DEF SafeReady, GoodCover, SafeShape
<1>1. tcov \subseteq T
  <2>1. tcov = Ext(scov, 1)
    BY <1>0, AddEnum DEF tcov
  <2>2. Ext(scov, m + 1) \subseteq T
    BY DEF SafeShape
  <2> HIDE DEF m
  <2>3. m + 1 \in Nat /\ 1 <= m + 1
    BY <1>0
  <2>4. Ext(scov, 1) \subseteq Ext(scov, m + 1)
    BY <1>0, <2>3, ExtFacts
  <2> QED BY <2>1, <2>2, <2>4
<1>2. ~Premises /\ method # "H"
  BY DEF Premises, SafeKnown
<1>3. Convincing(T)
  BY <1>0, <1>1, <1>2 DEF Convincing
<1>4. ASSUME NEW im \in ImplMachines, AllPass(rows, im, Leaves(T)), SmallEnough(im, m)
      PROVE  \E R \in SUBSET Pairs : Start \subseteq R /\ SafeClosed(rows, abstraction, im, R)
  <2>1. SafeSufficient(abstraction, im, scov, W, S, m)
    BY <1>4, ShapeSufficient
  <2> QED BY <1>0, <2>1, SufficientIsSafe DEF SafeReady
<1> QED BY <1>3, <1>4 DEF SafeTree

(* What the methods start from. *)
LEMMA SafeStarts ==
  ASSUME SafeInv, SafeKnown, stage = "sets"
  PROVE  SafeReady /\ (pc = "fast" => GoodSet(rows, w))
<1>1. SuiteInv /\ Det(rows) /\ AllReached
  BY DEF SafeInv
<1>2. Covered /\ rows \in Machines /\ MinimalRows /\ PairsInv
  BY <1>1 DEF SuiteInv, Covered, CoverInv, CoverTypes, PairsInv
<1>3. \A q \in State : color[q] = "black"
  <2> SUFFICES ASSUME NEW q \in State PROVE color[q] = "black"
    OBVIOUS
  <2>1. PICK t \in Seq(Input) : q \in StatesAfter(rows, t)
    BY <1>1 DEF AllReached
  <2> QED BY <1>2, <2>1, NoneIsNearer DEF Covered
<1>4. GoodCover(rows, scov)
  BY <1>2, <1>3, CoverIsGood
<1>5. numAddStates \in Nat
  BY <1>1 DEF SuiteInv, TestInv
<1>6. ASSUME pc = "fast" PROVE GoodSet(rows, w)
  <2>1. w \in SUBSET Seq(Input) /\ Bounded(w)
    BY <1>1 DEF SuiteInv, PairsInv, Control, TracesInv
  <2>2. Complete(rows)
    BY <1>1, DetIsComplete
  <2>3. \A p, q \in State : p # q => \E t \in w : Differ(rows, p, q, t)
    <3> SUFFICES ASSUME NEW p \in State, NEW q \in State, p # q PROVE Separated(p, q, w)
      BY DEF Separated
    <3> QED BY <1>2, <1>6, <2>2, AllSeparated
  <2> QED BY <2>1, <2>3 DEF GoodSet
<1> QED BY <1>1, <1>2, <1>4, <1>5, <1>6 DEF SafeReady, Known

(* The test cases are the leaves of such a suite. *)
LEMMA GenerateSafeConvinces ==
  ASSUME SafeInv, SafeKnown, GenerateSafe
  PROVE  \E T : Convincing(T) /\ SafeTree(T) /\ GeneratedFrom(T)
<1>1. SafeReady /\ (pc = "fast" => GoodSet(rows, w))
  BY SafeStarts DEF GenerateSafe
<1>2. \A T : tests' = Leaves(T) => GeneratedFrom(T)
  BY DEF GenerateSafe, GeneratedFrom
<1>3. CASE method = "SafeW"
  <2>1. PICK W \in CharacterisationSets(Identity), S \in CharacterisationSets(abstraction) :
          tests' = Leaves(SafeWSuite(W, S))
    BY <1>3 DEF GenerateSafe
  <2>2. GoodSet(rows, W) /\ TellingSet(abstraction, S)
    BY <1>1, SetsTell
  <2>3. SafeShape(abstraction, SafeWSuite(W, S), W, S)
    BY <1>1, <2>2, SafeWShape
  <2> QED BY <1>1, <1>2, <2>1, <2>2, <2>3, ShapeConvinces
<1>4. CASE method = "SafeWp"
  <2>1. pc = "fast"
    BY <1>4 DEF GenerateSafe
  <2>2. PICK S \in CharacterisationSets(abstraction) :
          \E sets : IdentifyingChoice(abstraction, S, sets) /\ tests' = Leaves(SafeWpSuite(w, S, sets))
    BY <1>4 DEF GenerateSafe, IdentifyingChoice
  <2>3. PICK sets : IdentifyingChoice(abstraction, S, sets) /\ tests' = Leaves(SafeWpSuite(w, S, sets))
    BY <2>2
  <2>4. GoodSet(rows, w) /\ TellingSet(abstraction, S)
    BY <1>1, <2>1, SetsTell
  <2>5. SafeShape(abstraction, SafeWpSuite(w, S, sets), w, S)
    BY <1>1, <2>3, <2>4, SafeWpShape
  <2> QED BY <1>1, <1>2, <2>3, <2>4, <2>5, ShapeConvinces
<1> QED BY <1>3, <1>4 DEF SafeKnown

(* nothing that the execution does changes what passing shows *)
LEMMA SafeTreeUnchanged ==
  ASSUME UNCHANGED <<rows, numAddStates, abstraction>>, NEW T, SafeTree(T)
  PROVE  SafeTree(T)'
BY DEF SafeTree, SmallEnough

(* Every step keeps the invariant. *)
LEMMA StepSafeInv == SafeInv /\ [SafeNext]_safeVars => SafeInv'
<1> SUFFICES ASSUME SafeInv, [SafeNext]_safeVars, SafeKnown' PROVE SafeInv'
  BY DEF SafeInv
<1>1. \/ SuiteNext /\ abstraction' = abstraction
      \/ GenerateSafe
      \/ UNCHANGED suiteVars /\ abstraction' = abstraction
  BY DEF SafeNext, BeginSafeH, AddSHPair, safeVars, hVars
<1>2. [Next]_vars /\ method' = method /\ numAddStates' = numAddStates /\ abstraction' = abstraction
  <2>1. CASE SuiteNext /\ abstraction' = abstraction
    <3>1. [Next]_vars
      BY <2>1 DEF SuiteNext, suiteVars, VisitNode, CoverDone, CalcSets, Generate, Test, Finished, Next
    <3>2. method' = method /\ numAddStates' = numAddStates
      BY <2>1 DEF SuiteNext, suiteVars, VisitNode, CoverDone, CalcSets, Generate, Test, Finished
    <3> QED BY <2>1, <3>1, <3>2
  <2>2. CASE GenerateSafe
    BY <2>2 DEF GenerateSafe
  <2>3. CASE UNCHANGED suiteVars /\ abstraction' = abstraction
    BY <2>3 DEF suiteVars
  <2> QED BY <1>1, <2>1, <2>2, <2>3
<1>3. rows' = rows /\ SafeKnown
  BY <1>2, RowsStay DEF SafeKnown
<1>4. SuiteInv /\ Det(rows) /\ AllReached
  BY <1>3 DEF SafeInv
<1>5. Det(rows)' /\ AllReached'
  BY <1>3, <1>4 DEF AllReached
<1>6. Complete(rows)
  BY <1>4, DetIsComplete
<1>7. SuiteInv'
  <2>1. CASE GenerateSafe
    <3>1. PICK T : Convincing(T) /\ GeneratedFrom(T)
      BY <1>3, <2>1, GenerateSafeConvinces
    <3>2. TestInv'
      BY <1>4, <3>1, ExecutionStarts DEF SuiteInv
    <3>3. CoverStep
      BY <2>1 DEF GenerateSafe, CoverStep, vars, coverVars
    <3>4. CoverInv' /\ TreeInv'
      BY <1>4, <3>3, StepCoverInv, StepTreeInv DEF SuiteInv
    <3>5. PairsInv' /\ SetsInv' /\ TracesInv'
      BY <1>2, <1>4, StepPairsInv, StepSetsInv, StepTracesInv DEF SuiteInv
    <3> QED BY <3>2, <3>4, <3>5 DEF SuiteInv
  <2>2. CASE ~GenerateSafe
    BY <1>1, <1>4, <2>2, StepSuiteInv
  <2> QED BY <2>1, <2>2
<1>8. ASSUME stage' = "test" PROVE \E T : Executing(T)' /\ SafeTree(T)'
  <2>1. CASE GenerateSafe
    <3>1. PICK T : Convincing(T) /\ SafeTree(T) /\ GeneratedFrom(T)
      BY <1>3, <2>1, GenerateSafeConvinces
    <3>2. Executing(T)'
      BY <1>4, <3>1, ExecutionBegins DEF SuiteInv
    <3> QED BY <1>2, <1>3, <3>1, <3>2, SafeTreeUnchanged
  <2>2. CASE Test
    <3>1. PICK T : Executing(T) /\ SafeTree(T)
      BY <1>3, <2>2 DEF SafeInv, Test
    <3>2. Executing(T)'
      BY <1>4, <1>6, <2>2, <3>1, TestGoesOn
    <3> QED BY <1>2, <1>3, <3>1, <3>2, SafeTreeUnchanged
  <2>3. CASE UNCHANGED suiteVars
    <3>1. stage = "test"
      BY <1>8, <2>3 DEF suiteVars
    <3>2. PICK T : Executing(T) /\ SafeTree(T)
      BY <1>3, <3>1 DEF SafeInv
    <3>3. Executing(T)'
      BY <2>3, <3>2, ExecutionRests
    <3> QED BY <1>2, <1>3, <3>2, <3>3, SafeTreeUnchanged
  <2>4. CASE SuiteNext /\ ~Test /\ ~UNCHANGED suiteVars
    <3>1. VisitNode \/ CoverDone \/ CalcSets \/ Generate
      BY <2>4 DEF SuiteNext, Finished
    <3>2. ~Generate
      BY <1>3 DEF Generate, SafeKnown
    <3>3. stage' # "test"
      BY <3>1, <3>2 DEF VisitNode, CoverDone, CalcSets
    <3> QED BY <1>8, <3>3
  <2> QED BY <1>1, <2>1, <2>2, <2>3, <2>4
<1> QED BY <1>5, <1>7, <1>8 DEF SafeInv

(* an implementation that has passed every test case *)
LEMMA SafePassed ==
  ASSUME SafeInv, SafeKnown, verdict = "pass"
  PROVE  \E R \in SUBSET Pairs : Start \subseteq R /\ SafeClosed(rows, abstraction, impl, R)
<1>1. SuiteInv /\ stage = "test"
  BY DEF SafeInv, SuiteInv, TestInv, TR!RunInit
<1>2. PICK T : Executing(T) /\ SafeTree(T)
  BY <1>1 DEF SafeInv
<1>3. PICK u : Running(T, u)
  BY <1>2 DEF Executing
<1>4. rest = << >> /\ tests = {}
  BY <1>2 DEF Executing
<1>5. u \o rest = u /\ Passes(rows, impl, Start, u)
  BY <1>3, <1>4, ConcatEmptySeq DEF Running
<1>6. AllPass(rows, impl, Leaves(T))
  BY <1>3, <1>4, <1>5 DEF Running, AllPass
<1> QED BY <1>2, <1>6 DEF Executing, SafeTree

(* The pairs of states behind a common input trace are found round by      *)
(* round, ...                                                              *)
LEMMA InputPairsAre ==
  ASSUME NEW n \in Nat, n = numStates * bound
  PROVE  \E g : /\ InputPairs = g[n] /\ g[0] = Start
                /\ \A k \in 0 .. n - 1 : g[k + 1] = MoreInputPairs(g[k])
<1> DEFINE m == <<"pairs">>
           base == {<<0, 0>>}
           Is(g) == g = [k \in 0 .. n |-> IF k = 0 THEN base ELSE MoreInputPairs(g[k - 1])]
           g == CHOOSE h : Is(h)
<1>1. InputPairs = g[n]
  BY DEF InputPairs, MoreInputPairs
<1>2. \A a, k : RoundOf(m, a, k) = MoreInputPairs(a)
  BY RoundCases
<1> HIDE DEF m, base
<1>3. \A h : Is(h) <=> IsRecursion(h, m, base, n)
  BY <1>2 DEF IsRecursion
<1> HIDE DEF Is
<1>4. g = Recursion(m, base, n)
  BY <1>3 DEF Recursion
<1> HIDE DEF g
<1>0. n \in Nat
  OBVIOUS
<1>5. g[0] = base /\ \A k \in 0 .. n - 1 : g[k + 1] = RoundOf(m, g[k], k + 1)
  BY ONLY <1>0, <1>4, RecursionIs
<1>6. \A k \in 0 .. n - 1 : g[k + 1] = MoreInputPairs(g[k])
  BY <1>2, <1>5
<1>7. g[0] = Start
  BY <1>5 DEF base, Start
<1> QED BY <1>1, <1>6, <1>7

(* ... each of them within what no step leads out of.                      *)
LEMMA MoreInputPairsIn ==
  ASSUME Known, NEW f, NEW R \in SUBSET Pairs, SafeClosed(rows, f, impl, R), NEW P \in SUBSET R
  PROVE  MoreInputPairs(P) \subseteq R
<1> SUFFICES ASSUME NEW s \in MoreInputPairs(P), s \notin P PROVE s \in R
  OBVIOUS
<1>1. PICK p \in P, x \in Input, y \in Output : s = <<Next1(p[1], x), impl[p[2]][x][y]>> /\ s[2] >= 0
  BY DEF MoreInputPairs
<1>2. p \in R /\ p[1] \in State
  BY DEF Pairs
<1>3. Next1(p[1], x) = PostOf(rows, p[1], x)
  BY <1>2, NextIs
<1>4. impl[p[2]][x][y] >= 0
  BY <1>1
<1>5. <<PostOf(rows, p[1], x), impl[p[2]][x][y]>> \in R
  BY <1>2, <1>4 DEF SafeClosed
<1> QED BY <1>1, <1>3, <1>5

LEMMA InputPairsIn ==
  ASSUME Known, NEW f, NEW R \in SUBSET Pairs, SafeClosed(rows, f, impl, R), Start \subseteq R,
         numStates * bound \in Nat
  PROVE  InputPairs \subseteq R
<1> DEFINE n == numStates * bound
<1>0. n \in Nat
  OBVIOUS
<1> HIDE DEF n
<1>1. PICK g : /\ InputPairs = g[n] /\ g[0] = Start
               /\ \A k \in 0 .. n - 1 : g[k + 1] = MoreInputPairs(g[k])
  BY <1>0, InputPairsAre DEF n
<1> DEFINE A == {k \in Nat : k <= n => g[k] \subseteq R}
<1>2. 0 \in A
  BY <1>1
<1>3. ASSUME NEW k \in Nat, k \in A PROVE k + 1 \in A
  <2> SUFFICES ASSUME k + 1 <= n PROVE g[k + 1] \subseteq R
    OBVIOUS
  <2>1. k \in 0 .. n - 1 /\ k <= n
    BY <1>0
  <2>2. g[k] \in SUBSET R
    BY <1>3, <2>1
  <2>3. g[k + 1] = MoreInputPairs(g[k])
    BY <1>1, <2>1
  <2> QED BY <2>2, <2>3, MoreInputPairsIn
<1> HIDE DEF A
<1>4. n \in A
  BY <1>0, <1>2, <1>3, SetInduction
<1>5. g[n] \subseteq R
  BY <1>0, <1>4 DEF A
<1> QED BY <1>1, <1>5

(* The invariant implies the property. *)
LEMMA SafeInvImplies == SafeInv => (method # "SafeH" => PassedIsSafe)
<1> SUFFICES ASSUME SafeInv, SafeKnown, verdict = "pass", NEW p \in InputPairs, NEW x \in Input
             PROVE  /\ TR!ImplOutputs(impl, p[2], x) # {}
                    /\ \A y \in TR!ImplOutputs(impl, p[2], x) : abstraction[y] = abstraction[OutputOf(p[1], x)]
  BY DEF PassedIsSafe, Safe, SafeKnown
<1>1. PICK R \in SUBSET Pairs : Start \subseteq R /\ SafeClosed(rows, abstraction, impl, R)
  BY SafePassed
<1>2. SuiteInv /\ Det(rows)
  BY DEF SafeInv
<1>3. Known
  BY <1>2 DEF SuiteInv, CoverInv, CoverTypes, Known
<1>4. numStates * bound \in Nat
  <2>1. numStates \in Nat /\ bound = numStates + numAddStates /\ numAddStates \in Nat
    BY <1>2, NumStatesAssumption DEF SuiteInv, TestInv
  <2>2. bound \in Nat
    BY <2>1
  <2>3. \A i, j \in Nat : i * j \in Nat
    OBVIOUS
  <2> QED BY <2>1, <2>2, <2>3
<1>5. p \in R
  BY <1>1, <1>3, <1>4, InputPairsIn
<1>6. /\ \E y \in Output : impl[p[2]][x][y] >= 0
      /\ \A y \in Output : impl[p[2]][x][y] >= 0 => abstraction[y] = abstraction[OutOf(rows, p[1], x)]
  BY <1>1, <1>5 DEF SafeClosed
<1>7. OutputOf(p[1], x) = OutOf(rows, p[1], x)
  BY DEF OutputOf, OutOf
<1>8. TR!ImplOutputs(impl, p[2], x) = {y \in Output : impl[p[2]][x][y] >= 0}
  BY DEF TR!ImplOutputs, TR!Out, Output
<1> QED BY <1>6, <1>7, <1>8

(***************************************************************************)
(* The safe W and the safe Wp method, with any number of additional states *)
(* and any abstraction of the outputs: an implementation with no more      *)
(* states than announced that passes the suite answers every input trace   *)
(* with outputs that are the right ones after the abstraction. The safe H  *)
(* method is left out: its loops do not compare the pairs that its comment *)
(* promises to compare.                                                    *)
(***************************************************************************)
THEOREM SafeSuitesAreSafe == SafeSpec => [](method # "SafeH" => PassedIsSafe)
<1>1. SafeInit => SafeInv
  BY InitSafeInv
<1>2. SafeInv /\ [SafeNext]_safeVars => SafeInv'
  BY StepSafeInv
<1>3. SafeInv => (method # "SafeH" => PassedIsSafe)
  BY SafeInvImplies
<1> QED BY <1>1, <1>2, <1>3, PTL DEF SafeSpec
=============================================================================
